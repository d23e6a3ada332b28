---------------------------- MODULE AtomicStore ----------------------------
(***************************************************************************)
(* What the storage promises whoever reads it: a message is in the         *)
(* database with its row and all of its ids, or not at all, its ids are    *)
(* those of rows, and nothing that is pointed to goes away.                *)
(***************************************************************************)
EXTENDS Rows

VARIABLES rows, ids
dbVars == <<rows, ids>>

Init ==
  /\ rows = FirstRows
  /\ ids = [k \in Key |-> {}]

Write(k, m) ==
  /\ m \in Message
  /\ RootAllowed(rows, ids, k, m)
  /\ \A i \in m.ids : Exists(WithRow(rows, k, m), i)
  /\ rows' = WithRow(rows, k, m)
  /\ ids' = WithIds(ids, k, m.ids)
  /\ LocksHold(rows')

\* The message, as far as it can be seen in the row that it has been written to.
Seen(k, update) ==
  [key |-> k, update |-> update, name |-> rows'[k].name, value |-> rows'[k].value,
   ids |-> ids'[k] \ ids[k]]

\* automation gives the locks up when it starts.
Unlock == rows' = Unlocked(rows) /\ UNCHANGED ids

Next == Unlock \/ \E k \in Key, update \in BOOLEAN : Write(k, Seen(k, update))
Spec == Init /\ [][Next]_dbVars

-----------------------------------------------------------------------------
\* No list with ids is without its row, no id without its item, no name is there twice in a table,
\* and a lock finds its playlist: what the tables declare, in every state that a reader can see.
Consistent ==
  /\ \A l \in List : ids[l] # {} => Exists(rows, l)
  /\ \A l \in List : \A i \in ids[l] : Exists(rows, i)
  /\ \A k \in Key : Exists(rows, k) => Clashing(rows, k, rows[k]) = {}
  /\ LocksHold(rows)
=============================================================================
