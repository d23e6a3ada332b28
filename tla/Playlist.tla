------------------------------ MODULE Playlist ------------------------------
(***************************************************************************)
(* A playlist that threads share: mainshow, the override list or the       *)
(* bumper list.  mutex_ guards its pops, fetches and copies, not           *)
(* ApplyMergeRequest, nor the first SetTable of a fetch.                   *)
(*                                                                         *)
(* Each place in the list that is filled gets an entry of its own, a       *)
(* number, whose fate can be followed; 0 is an entry that has been popped. *)
(* What RepeatedField does is external: it appends at the size it has read *)
(* first, and may move its entries to a larger array.                      *)
(***************************************************************************)
EXTENDS Naturals, Sequences, SequencesExt

CONSTANTS
  Main, Handler, Nobody,
  MaxEntries             \* bound: entries posted and loaded

Thread == {Main} \cup Handler

ASSUME PlaylistAssumption ==
  Main \notin Handler /\ Nobody \notin Thread /\ MaxEntries \in Nat

VARIABLES
  list,                  \* canonical_'s PlayableItemID
  moved,                 \* the array has been replaced since the pop's iterator was made
  mutex, table,          \* mutex_'s holder and table_
  op, entry,             \* each thread's operation and the entry it brings
  at,                    \* the size that its MergeFrom has read
  hand,                  \* the index that the pop's iterator points to, 0 when there is none
  ended                  \* a CHECK has failed

\* History variables: entries made, played, and overwritten before they were; which operations have
\* overlapped with a merge, or with a fetch's SetTable.
VARIABLES made, played, dropped, raced

listVars == <<list, moved>>
threadVars == <<op, entry, at, hand>>
history == <<made, played, dropped, raced>>
playlistVars == <<listVars, mutex, table, threadVars, ended, history>>

Operation == {"idle", "fetch", "load", "pop", "posted", "merge", "merging"}

Init ==
  /\ list = <<>> /\ moved = FALSE /\ mutex = Nobody /\ table = "Playlists"
  /\ op = [t \in Thread |-> "idle"] /\ entry = [t \in Thread |-> 0]
  /\ at = [t \in Thread |-> 0] /\ hand = 0 /\ ended = FALSE
  /\ made = 0 /\ played = {} /\ dropped = {} /\ raced = {}

Goto(t, next) == op' = [op EXCEPT ![t] = next]

\* The operation is over, and its locals with it.
Finish(t) == Goto(t, "idle") /\ entry' = [entry EXCEPT ![t] = 0] /\ at' = [at EXCEPT ![t] = 0]

\* A merge runs beside another operation.
Overlap(t) ==
  \/ \E u \in Thread \ {t} : op[u] \in {"merge", "merging"}
  \/ op[t] \in {"posted", "merge", "merging"} /\ mutex # Nobody
Racing(t) == raced' = IF Overlap(t) THEN raced \cup {"merge"} ELSE raced

\* The thread comes with a new entry.
Bring(t) == made < MaxEntries /\ made' = made + 1 /\ entry' = [entry EXCEPT ![t] = made + 1]

-----------------------------------------------------------------------------
(***************************************************************************)
(* Fetch and FetchShuffled, as SetMainshow calls them.                     *)
(***************************************************************************)
Fetching(t) == op[t] \in {"fetch", "load"}

SetNoTable(t) == \* mutant: the table's name is not set
  /\ op[t] = "idle" /\ ~ended
  /\ UNCHANGED table
  /\ raced' = IF \E u \in Thread : Fetching(u) THEN raced \cup {"fetch"} ELSE raced
  /\ Bring(t) /\ Goto(t, "fetch")
  /\ UNCHANGED <<listVars, mutex, at, hand, ended, played, dropped>>
SetTable(t) ==
  /\ op[t] = "idle" /\ ~ended
  /\ table' = "view"
  /\ raced' = IF \E u \in Thread : Fetching(u) THEN raced \cup {"fetch"} ELSE raced
  /\ Bring(t) /\ Goto(t, "fetch")
  /\ UNCHANGED <<listVars, mutex, at, hand, ended, played, dropped>>

FetchUnlocked(t) == \* mutant: does not wait for mutex_
  /\ op[t] = "fetch" /\ ~ended
  /\ mutex' = t /\ list' = <<>>
  /\ Racing(t) /\ Goto(t, "load")
  /\ UNCHANGED <<moved, table, entry, at, hand, ended, made, played, dropped>>
FetchLock(t) ==
  /\ op[t] = "fetch" /\ mutex = Nobody /\ ~ended
  /\ mutex' = t /\ list' = <<>>
  /\ Racing(t) /\ Goto(t, "load")
  /\ UNCHANGED <<moved, table, entry, at, hand, ended, made, played, dropped>>

FetchKeepsLock(t) == \* mutant: returns without unlocking when there is no row
  /\ op[t] = "load" /\ table = "view" /\ ~ended
  /\ \/ list' = list /\ UNCHANGED mutex
     \/ list' = Append(list, entry[t]) /\ mutex' = Nobody
  /\ table' = "Playlists"
  /\ Racing(t) /\ Finish(t)
  /\ UNCHANGED <<moved, hand, ended, made, played, dropped>>
\* The view has a row, or has none.
FetchRows(t) ==
  /\ op[t] = "load" /\ table = "view" /\ ~ended
  /\ list' \in {list, Append(list, entry[t])}
  /\ table' = "Playlists" /\ mutex' = Nobody
  /\ Racing(t) /\ Finish(t)
  /\ UNCHANGED <<moved, hand, ended, made, played, dropped>>

\* There is no table Playlists, so the query cannot be prepared.
NoSuchTable(t) ==
  /\ op[t] = "load" /\ table = "Playlists" /\ ~ended
  /\ ended' = TRUE
  /\ UNCHANGED <<listVars, mutex, table, threadVars, history>>

-----------------------------------------------------------------------------
(***************************************************************************)
(* PopFront and PopWithTimelimit.                                          *)
(***************************************************************************)
Unplayed == {i \in DOMAIN list : list[i] # 0}

\* An entry that will do is found; its item is fetched while the iterator points to it.
PopScan(t) ==
  /\ op[t] = "idle" /\ mutex = Nobody /\ ~ended
  /\ \E i \in Unplayed : hand' = i /\ entry' = [entry EXCEPT ![t] = list[i]]
  /\ mutex' = t
  /\ Racing(t) /\ Goto(t, "pop")
  /\ UNCHANGED <<list, moved, table, at, ended, made, played, dropped>>

\* *it = 0: in the list, in an array that it has left, or behind its end.
PopTake(t) ==
  /\ op[t] = "pop" /\ ~ended
  /\ LET inList == ~moved /\ hand \in DOMAIN list
     IN /\ list' = IF inList THEN [list EXCEPT ![hand] = 0] ELSE list
        /\ dropped' = IF inList THEN dropped \cup ({list[hand]} \ {0, entry[t]}) ELSE dropped
  /\ played' = played \cup {entry[t]}
  /\ mutex' = Nobody
  /\ hand' = 0 /\ moved' = FALSE
  /\ Racing(t) /\ Finish(t)
  /\ UNCHANGED <<table, ended, made>>

-----------------------------------------------------------------------------
(***************************************************************************)
(* ApplyMergeRequest, which takes no lock.                                 *)
(***************************************************************************)
\* A request with an entry for a list arrives; it may turn out to be for another list.
Post(t) ==
  /\ op[t] = "idle" /\ ~ended
  /\ Bring(t) /\ Goto(t, "posted")
  /\ UNCHANGED <<listVars, mutex, table, at, hand, ended, played, dropped, raced>>

Withdraw(t) ==
  /\ op[t] = "posted" /\ ~ended
  /\ Finish(t)
  /\ UNCHANGED <<listVars, mutex, table, hand, ended, history>>

\* overwrite
MergeClear(t) ==
  /\ op[t] = "posted" /\ ~ended
  /\ list' = <<>>
  /\ Racing(t) /\ Goto(t, "merge")
  /\ UNCHANGED <<moved, mutex, table, entry, at, hand, ended, made, played, dropped>>

MergeSize(t) ==
  /\ op[t] \in {"posted", "merge"} /\ ~ended
  /\ at' = [at EXCEPT ![t] = Len(list)]
  /\ Racing(t) /\ Goto(t, "merging")
  /\ UNCHANGED <<listVars, mutex, table, entry, hand, ended, made, played, dropped>>

\* The entry is written behind the size that was read: at the end of the list, over an entry that
\* another merge has appended, or beyond the end of a list that was cleared, which grows by what is
\* left in its memory.
MergeEntry(t) ==
  /\ op[t] = "merging" /\ ~ended
  /\ LET i == at[t] + 1
     IN \/ /\ i = Len(list) + 1
           /\ list' = Append(list, entry[t]) /\ UNCHANGED dropped
        \/ /\ i <= Len(list)
           /\ list' = [list EXCEPT ![i] = entry[t]]
           /\ dropped' = dropped \cup ({list[i]} \ {0})
        \/ /\ i > Len(list) + 1
           /\ \E stale \in 0 .. made : list' = Append(list, stale)
           /\ dropped' = dropped \cup {entry[t]}
  /\ moved' \in {moved, hand # 0}
  /\ Racing(t) /\ Finish(t)
  /\ UNCHANGED <<mutex, table, hand, ended, made, played>>

-----------------------------------------------------------------------------
\* A thread's steps; only the main thread pops from the lists that are shared.
Fetch(t) == SetTable(t) \/ FetchLock(t) \/ FetchRows(t) \/ NoSuchTable(t)
Pop(t) == PopScan(t) \/ PopTake(t)
Merge(t) == MergeClear(t) \/ MergeSize(t) \/ MergeEntry(t)

Next ==
  \/ Pop(Main)
  \/ \E t \in Thread : Fetch(t)
  \/ \E h \in Handler : Post(h) \/ Withdraw(h) \/ Merge(h)

Spec == Init /\ [][Next]_playlistVars

-----------------------------------------------------------------------------
(***************************************************************************)
(* Properties.                                                             *)
(***************************************************************************)
\* The type invariant, with who holds mutex_.
TypeOK ==
  /\ list \in Seq(0 .. made) /\ moved \in BOOLEAN
  /\ mutex \in Thread \cup {Nobody} /\ table \in {"Playlists", "view"}
  /\ op \in [Thread -> Operation] /\ entry \in [Thread -> 0 .. made]
  /\ at \in [Thread -> Nat] /\ hand \in Nat /\ ended \in BOOLEAN
  /\ made \in Nat /\ played \subseteq 0 .. made /\ dropped \subseteq 0 .. made
  /\ raced \subseteq {"merge", "fetch"}
  /\ \A t \in Thread : mutex = t <=> op[t] \in {"load", "pop"}

\* While merges stay apart from what else is done to the list, every entry is played once at most,
\* and none is wiped out by a pop or a merge that is not its own: mutex_ does that for the rest,
\* while a pop points into the list across the fetch of its item.
EachOnce ==
  "merge" \notin raced =>
    /\ dropped = {}
    /\ \A i \in Unplayed : list[i] \notin played
    /\ \A i, j \in Unplayed : list[i] = list[j] => i = j

\* Fetches that stay apart do not find the table's name that another one has left: they end nothing.
FetchesApart == ended => "fetch" \in raced
=============================================================================
