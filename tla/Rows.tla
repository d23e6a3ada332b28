-------------------------------- MODULE Rows --------------------------------
(***************************************************************************)
(* The database's rows as values, and what SQLite does to them for one     *)
(* message of MessageStore: the root row of REPLACE or UPDATE, its unique  *)
(* name, the foreign keys and the ids in the table of a repeated field.    *)
(*                                                                         *)
(* A row is known by its id.  The tables are Playlist (List), PlayableItem *)
(* (Item), ProtoTable with the Schedule's row and PlaylistLock (Lock).  A    *)
(* name is a playlist's name, which the row of its lock has too, or an     *)
(* item's filename, a value is a weight, a playcount or the number of a    *)
(* schedule.                                                               *)
(***************************************************************************)
EXTENDS Naturals

CONSTANTS
  List, Item, Name, NoName, Schedule, Lock,
  Loaded                 \* the items of the first database, with their names

ASSUME RowsAssumption ==
  /\ List \cap Item = {} /\ Lock \cap (List \cup Item) = {}
  /\ Schedule \notin List \cup Item \cup Lock
  /\ NoName \notin Name
  /\ {"new list", "new item"} \cap (List \cup Item \cup Lock \cup {Schedule}) = {}
  /\ Loaded \in [DOMAIN Loaded -> Name] /\ DOMAIN Loaded \subseteq Item
  /\ \A i, j \in DOMAIN Loaded : Loaded[i] = Loaded[j] => i = j

Key == List \cup Item \cup Lock \cup {Schedule}
Table(k) ==
  CASE k \in List -> List [] k \in Item -> Item [] k \in Lock -> Lock [] OTHER -> {k}

\* AUTOINCREMENT: the id of a row that is gone is not given out again.
Row == [state : {"none", "here", "gone"}, name : Name \cup {NoName}, value : Nat]
NoRow == [state |-> "none", name |-> NoName, value |-> 0]

FirstRows ==
  [k \in Key |-> IF k \in DOMAIN Loaded
                 THEN [state |-> "here", name |-> Loaded[k], value |-> 0] ELSE NoRow]

\* A protobuf on its way to its table: whether it has an id, and its repeated field.
Message ==
  {m \in [key : Key \cup {"new list", "new item"}, update : BOOLEAN,
          name : Name \cup {NoName}, value : Nat, ids : SUBSET Item] :
     m.ids # {} => m.key \in List \cup {"new list"} /\ ~m.update}

Exists(r, k) == r[k].state = "here"

\* The row a message is written to: its own, or a new one.
Targets(r, m) ==
  CASE m.key = "new list" -> {k \in List : r[k].state = "none"}
    [] m.key = "new item" -> {k \in Item : r[k].state = "none"}
    [] OTHER -> {m.key}

\* The other rows of the table that have the name already, which REPLACE removes.
Clashing(r, k, m) ==
  {j \in Table(k) \ {k} : Exists(r, j) /\ m.name # NoName /\ r[j].name = m.name}

\* A foreign key points to the row.
Referenced(c, j) == c[j] # {} \/ \E l \in List : j \in c[l]

RootAlways(r, c, k, m) == TRUE \* mutant: no PRAGMA foreign_keys
RootAllowed(r, c, k, m) == m.update \/ \A j \in Clashing(r, k, m) : ~Referenced(c, j)

WithRow(r, k, m) ==
  IF m.update
  THEN IF Exists(r, k) THEN [r EXCEPT ![k].value = m.value] ELSE r
  ELSE [j \in Key |->
         IF j = k THEN [state |-> "here", name |-> m.name, value |-> m.value]
         ELSE IF j \in Clashing(r, k, m) THEN [r[j] EXCEPT !.state = "gone"] ELSE r[j]]

\* The root statement leaves the ids of a row alone, also when REPLACE writes the row anew.
WithIds(c, k, new) == [c EXCEPT ![k] = @ \cup new]

\* The foreign key from PlaylistLock, which is deferred to the end of the transaction.
LocksHold(r) ==
  \A k \in Lock : Exists(r, k) => \E l \in List : Exists(r, l) /\ r[l].name = r[k].name

Unlocked(r) == [k \in Key |-> IF k \in Lock THEN [r[k] EXCEPT !.state = "none"] ELSE r[k]]

\* A list that Playlists_with_children shows: the view joins the list with its items.
Visible(r, c, l) == Exists(r, l) /\ c[l] # {}
=============================================================================
