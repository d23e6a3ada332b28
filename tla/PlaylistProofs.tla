--------------------------- MODULE PlaylistProofs ---------------------------
(***************************************************************************)
(* Proofs about Playlist, for any number of threads and of entries: its    *)
(* types, that each entry is played once while merges stay apart, and that *)
(* fetches that stay apart find the table they have named.                 *)
(***************************************************************************)
EXTENDS Playlist, SequenceTheorems, TLAPS

\* The thread brings an entry, which is not in the list yet.
Bringing(t) == op[t] \in {"fetch", "load", "posted", "merge", "merging"}

\* The iterator and its array are looked at while an item is popped only.
HandRests == (\A t \in Thread : op[t] # "pop") => hand = 0 /\ ~moved

\* An entry that is brought is in nobody else's hand, in the list or among the played ones.
Fresh ==
  /\ \A t \in Thread :
       Bringing(t) => /\ entry[t] # 0 /\ entry[t] \notin played
                      /\ \A i \in DOMAIN list : list[i] # entry[t]
  /\ \A t, u \in Thread : Bringing(t) /\ Bringing(u) /\ entry[t] = entry[u] => t = u

\* An iterator points to the entry that it was made for, and a merge has read the list's size.
Pointing ==
  /\ \A t \in Thread :
       op[t] = "pop" => ~moved /\ hand \in DOMAIN list /\ list[hand] = entry[t] /\ entry[t] # 0
  /\ \A t \in Thread : op[t] = "merging" => at[t] = Len(list)

Once ==
  /\ dropped = {}
  /\ \A i \in Unplayed : list[i] \notin played
  /\ \A i, j \in Unplayed : list[i] = list[j] => i = j

\* One thread fetches at a time, and the table's name is its own.
OneFetch ==
  /\ ~ended
  /\ \A t, u \in Thread : Fetching(t) /\ Fetching(u) => t = u
  /\ \A t \in Thread : Fetching(t) => table = "view"

\* The inductive invariant.
IInv ==
  /\ TypeOK /\ HandRests
  /\ "merge" \notin raced => Fresh /\ Pointing /\ Once
  /\ "fetch" \notin raced => OneFetch

-----------------------------------------------------------------------------
(***************************************************************************)
(* Initially, and stuttering.                                              *)
(***************************************************************************)
\* No thread has an operation at first, and the list is empty.
LEMMA InitInv == Init => IInv
<1> SUFFICES ASSUME Init PROVE IInv
  OBVIOUS
<1>1. TypeOK
  <2>1. list \in Seq(0 .. made) /\ 0 \in 0 .. made
    BY DEF Init
  <2>2. \A t \in Thread : mutex = t <=> op[t] \in {"load", "pop"}
    BY PlaylistAssumption DEF Init
  <2> QED
    BY <2>1, <2>2 DEF Init, TypeOK, Operation
<1>2. HandRests /\ Fresh /\ Pointing /\ Once /\ OneFetch
  BY DEF Init, HandRests, Fresh, Bringing, Pointing, Once, Unplayed, OneFetch, Fetching
<1> QED
  BY <1>1, <1>2 DEF IInv

\* Nothing changes in a stuttering step.
LEMMA StutterInv == IInv /\ UNCHANGED playlistVars => IInv'
BY DEF IInv, TypeOK, HandRests, Fresh, Bringing, Pointing, Once, Unplayed, OneFetch, Fetching,
       playlistVars, listVars, threadVars, history

-----------------------------------------------------------------------------
(***************************************************************************)
(* The types.                                                              *)
(***************************************************************************)
\* A longer list, and a list with another entry at one place.
LEMMA ListType ==
  ASSUME NEW S, NEW s \in Seq(S), NEW x \in S
  PROVE  /\ Append(s, x) \in Seq(S) /\ Len(Append(s, x)) = Len(s) + 1
         /\ DOMAIN Append(s, x) = DOMAIN s \cup {Len(s) + 1}
         /\ \A i \in DOMAIN s : Append(s, x)[i] = s[i]
         /\ Append(s, x)[Len(s) + 1] = x
         /\ \A i \in DOMAIN s : [s EXCEPT ![i] = x] \in Seq(S)
         /\ \A i \in DOMAIN s : s[i] \in S /\ i \in Nat /\ i # 0 /\ i <= Len(s)
         /\ \A i \in Nat : i # 0 /\ i <= Len(s) => i \in DOMAIN s
         /\ Len(s) \in Nat
<1>1. \A i \in DOMAIN s : [s EXCEPT ![i] = x] \in Seq(S)
  BY ExceptSeq
<1>2. DOMAIN s = 1 .. Len(s) /\ Len(s) \in Nat
  OBVIOUS
<1> QED
  BY <1>1, <1>2

\* What Racing does to raced.
LEMMA RacingType ==
  ASSUME TypeOK, NEW t, Racing(t)
  PROVE  raced' \subseteq {"merge", "fetch"}
BY DEF TypeOK, Racing

\* An operation that is over leaves the other threads' locals.
LEMMA FinishType ==
  ASSUME TypeOK, NEW t \in Thread, Finish(t)
  PROVE  /\ op' = [op EXCEPT ![t] = "idle"] /\ op' \in [Thread -> Operation]
         /\ entry' \in [Thread -> 0 .. made] /\ at' \in [Thread -> Nat]
BY DEF TypeOK, Finish, Goto, Operation

\* Whoever holds mutex_ lets go of it, and others stay as they are.
LEMMA Unlocks ==
  ASSUME TypeOK, NEW t \in Thread, op[t] \in {"load", "pop"}, op' = [op EXCEPT ![t] = "idle"],
         mutex' = Nobody
  PROVE  \A u \in Thread : mutex' = u <=> op'[u] \in {"load", "pop"}
<1> SUFFICES ASSUME NEW u \in Thread PROVE mutex' = u <=> op'[u] \in {"load", "pop"}
  OBVIOUS
<1>1. mutex = t /\ mutex' # u
  BY PlaylistAssumption DEF TypeOK
<1>2. op'[u] \notin {"load", "pop"}
  BY <1>1 DEF TypeOK
<1> QED
  BY <1>1, <1>2

\* mutex_ stays with its holder when an operation begins, goes on or ends without it.
LEMMA KeepsMutex ==
  ASSUME TypeOK, NEW t \in Thread, op[t] \notin {"load", "pop"},
         NEW next \in Operation \ {"load", "pop"}, op' = [op EXCEPT ![t] = next], mutex' = mutex
  PROVE  \A u \in Thread : mutex' = u <=> op'[u] \in {"load", "pop"}
BY DEF TypeOK

\* A new entry is larger than all others, which keep their types.
LEMMA BringType ==
  ASSUME TypeOK, NEW t \in Thread, Bring(t)
  PROVE  /\ made' = made + 1 /\ made' \in Nat /\ 0 .. made \subseteq 0 .. made'
         /\ entry' \in [Thread -> 0 .. made'] /\ entry'[t] = made + 1
         /\ \A u \in Thread \ {t} : entry'[u] = entry[u]
         /\ list \in Seq(0 .. made')
<1>1. made' = made + 1 /\ made \in Nat /\ made' \in Nat /\ 0 .. made \subseteq 0 .. made'
  BY DEF TypeOK, Bring
<1>2. list \in Seq(0 .. made')
  BY <1>1 DEF TypeOK
<1> QED
  BY <1>1, <1>2 DEF TypeOK, Bring

\* A fetch or a request begins: SetTable, Post.
LEMMA BringStep ==
  ASSUME TypeOK, NEW t \in Thread, NEW next \in {"fetch", "posted"}, op[t] = "idle",
         Bring(t), Goto(t, next), table' \in {"Playlists", "view"},
         raced' \subseteq {"merge", "fetch"},
         UNCHANGED <<listVars, mutex, at, hand, ended, played, dropped>>
  PROVE  TypeOK'
<1>1. op' \in [Thread -> Operation]
  BY DEF TypeOK, Goto, Operation
<1>2. \A u \in Thread : mutex' = u <=> op'[u] \in {"load", "pop"}
  BY DEF TypeOK, Goto
<1> QED
  BY <1>1, <1>2, BringType DEF TypeOK, listVars

\* Every operation keeps the types, and mutex_ is held by whoever fetches or pops.
LEMMA TypeStep == TypeOK /\ Next => TypeOK'
<1> SUFFICES ASSUME TypeOK, Next PROVE TypeOK'
  OBVIOUS
<1> USE PlaylistAssumption
<1>1. ASSUME NEW t \in Thread, SetTable(t) PROVE TypeOK'
  BY <1>1, BringStep DEF SetTable, TypeOK
<1>2. ASSUME NEW t \in Thread, FetchLock(t) PROVE TypeOK'
  BY <1>2, RacingType DEF FetchLock, TypeOK, Goto, Operation, Thread
<1>3. ASSUME NEW t \in Thread, FetchRows(t) PROVE TypeOK'
  <2>1. entry[t] \in 0 .. made /\ list \in Seq(0 .. made)
    BY DEF TypeOK
  <2>2. Append(list, entry[t]) \in Seq(0 .. made)
    BY <2>1, ListType
  <2>3. \A u \in Thread : mutex' = u <=> op'[u] \in {"load", "pop"}
    BY <1>3, FinishType, Unlocks DEF FetchRows
  <2>4. list' \in Seq(0 .. made)
    BY <1>3, <2>1, <2>2 DEF FetchRows
  <2> QED
    BY <1>3, <2>3, <2>4, RacingType, FinishType DEF FetchRows, TypeOK
<1>4. ASSUME NEW t \in Thread, NoSuchTable(t) PROVE TypeOK'
  BY <1>4 DEF NoSuchTable, TypeOK, listVars, threadVars, history
<1>5. ASSUME NEW t \in Thread, PopScan(t) PROVE TypeOK'
  <2>1. entry' \in [Thread -> 0 .. made] /\ hand' \in Nat
    BY <1>5 DEF PopScan, TypeOK, Unplayed
  <2> QED
    BY <1>5, <2>1, RacingType DEF PopScan, TypeOK, Goto, Operation, Thread
<1>6. ASSUME NEW t \in Thread, PopTake(t) PROVE TypeOK'
  <2>1. 0 \in 0 .. made /\ entry[t] \in 0 .. made
    BY DEF TypeOK
  <2>2. list' \in Seq(0 .. made)
    BY <1>6, <2>1, ListType DEF PopTake, TypeOK
  <2>3. dropped' \subseteq 0 .. made /\ played' \subseteq 0 .. made
    BY <1>6, <2>1, ListType DEF PopTake, TypeOK
  <2>4. \A u \in Thread : mutex' = u <=> op'[u] \in {"load", "pop"}
    BY <1>6, FinishType, Unlocks DEF PopTake
  <2> QED
    BY <1>6, <2>2, <2>3, <2>4, RacingType, FinishType DEF PopTake, TypeOK
<1>7. ASSUME NEW t \in Handler, Post(t) PROVE TypeOK'
  <2>1. t \in Thread
    BY DEF Thread
  <2> QED
    BY <1>7, <2>1, BringStep DEF Post, TypeOK
<1>8. ASSUME NEW t \in Handler, Withdraw(t) PROVE TypeOK'
  <2>1. t \in Thread
    BY DEF Thread
  <2>2. \A u \in Thread : mutex' = u <=> op'[u] \in {"load", "pop"}
    BY <1>8, <2>1, FinishType, KeepsMutex DEF Withdraw, Operation
  <2> QED
    BY <1>8, <2>1, <2>2, FinishType DEF Withdraw, TypeOK, listVars, history
<1>9. ASSUME NEW t \in Handler, MergeClear(t) PROVE TypeOK'
  BY <1>9, RacingType DEF MergeClear, TypeOK, Goto, Operation, Thread
<1>10. ASSUME NEW t \in Handler, MergeSize(t) PROVE TypeOK'
  <2>1. at' \in [Thread -> Nat]
    BY <1>10 DEF MergeSize, TypeOK, Thread
  <2> QED
    BY <1>10, <2>1, RacingType DEF MergeSize, TypeOK, Goto, Operation, Thread, listVars
<1>11. ASSUME NEW t \in Handler, MergeEntry(t) PROVE TypeOK'
  <2>1. entry[t] \in 0 .. made /\ at[t] \in Nat
    BY DEF TypeOK, Thread
  <2>2. list' \in Seq(0 .. made) /\ dropped' \subseteq 0 .. made
    <3>1. CASE at[t] + 1 = Len(list) + 1 /\ list' = Append(list, entry[t]) /\ UNCHANGED dropped
      BY <2>1, <3>1, ListType DEF TypeOK
    <3>2. CASE /\ at[t] + 1 <= Len(list) /\ list' = [list EXCEPT ![at[t] + 1] = entry[t]]
               /\ dropped' = dropped \cup ({list[at[t] + 1]} \ {0})
      <4>1. at[t] + 1 \in DOMAIN list
        BY <2>1, <3>2, ListType DEF TypeOK
      <4> QED
        BY <2>1, <3>2, <4>1, ListType DEF TypeOK
    <3>3. CASE /\ \E stale \in 0 .. made : list' = Append(list, stale)
               /\ dropped' = dropped \cup {entry[t]}
      BY <2>1, <3>3, ListType DEF TypeOK
    <3> QED
      BY <1>11, <3>1, <3>2, <3>3 DEF MergeEntry
  <2>3. moved' \in BOOLEAN
    BY <1>11 DEF MergeEntry, TypeOK
  <2>4. t \in Thread /\ Finish(t) /\ Racing(t)
    BY <1>11 DEF MergeEntry, Thread
  <2>5. \A u \in Thread : mutex' = u <=> op'[u] \in {"load", "pop"}
    BY <1>11, <2>4, FinishType, KeepsMutex DEF MergeEntry, Operation
  <2> QED
    BY <1>11, <2>2, <2>3, <2>4, <2>5, RacingType, FinishType DEF MergeEntry, TypeOK
<1> QED
  BY <1>1, <1>2, <1>3, <1>4, <1>5, <1>6, <1>7, <1>8, <1>9, <1>10, <1>11
  DEF Next, Pop, Fetch, Merge, Thread

-----------------------------------------------------------------------------
(***************************************************************************)
(* The hand, and the fetches.                                              *)
(***************************************************************************)
\* The hand rests unless an item is popped.
LEMMA HandStep == TypeOK /\ HandRests /\ Next => HandRests'
<1> SUFFICES ASSUME TypeOK, HandRests, Next PROVE HandRests'
  OBVIOUS
<1>1. ASSUME NEW t \in Thread,
             SetTable(t) \/ FetchLock(t) \/ Post(t) \/ MergeClear(t) \/ MergeSize(t)
      PROVE HandRests'
  <2>1. UNCHANGED <<hand, moved>> /\ op[t] # "pop" /\ \A u \in Thread \ {t} : op'[u] = op[u]
    BY <1>1 DEF SetTable, FetchLock, Post, MergeClear, MergeSize, Goto, listVars, TypeOK
  <2> QED
    BY <2>1 DEF HandRests
<1>2. ASSUME NEW t \in Thread, FetchRows(t) \/ Withdraw(t) \/ MergeEntry(t) PROVE HandRests'
  <2>1. UNCHANGED hand /\ moved' \in {moved, hand # 0}
    BY <1>2 DEF FetchRows, Withdraw, MergeEntry, listVars
  <2>2. op[t] # "pop" /\ \A u \in Thread \ {t} : op'[u] = op[u]
    BY <1>2, FinishType DEF FetchRows, Withdraw, MergeEntry, TypeOK
  <2> QED
    BY <2>1, <2>2 DEF HandRests, TypeOK
<1>3. ASSUME NEW t \in Thread, NoSuchTable(t) PROVE HandRests'
  BY <1>3 DEF NoSuchTable, HandRests, listVars, threadVars
<1>4. ASSUME NEW t \in Thread, PopScan(t) PROVE HandRests'
  <2>1. op'[t] = "pop"
    BY <1>4 DEF PopScan, Goto, TypeOK
  <2> QED
    BY <2>1 DEF HandRests
<1>5. ASSUME NEW t \in Thread, PopTake(t) PROVE HandRests'
  BY <1>5 DEF PopTake, HandRests
<1> QED
  BY <1>1, <1>2, <1>3, <1>4, <1>5 DEF Next, Pop, Fetch, Merge, Thread

\* The table's name is set by the thread that fetches, and changed at the end of its fetch.
LEMMA FetchStep ==
  ASSUME TypeOK, Next, "fetch" \notin raced => OneFetch
  PROVE  "fetch" \notin raced' => OneFetch'
<1> SUFFICES ASSUME OneFetch, "fetch" \notin raced, "fetch" \notin raced' PROVE OneFetch'
  BY DEF Next, Pop, Fetch, Merge, SetTable, FetchLock, FetchRows, NoSuchTable, PopScan,
         PopTake, Post, Withdraw, MergeClear, MergeSize, MergeEntry, Racing, history
<1>1. ASSUME NEW t \in Thread, SetTable(t) PROVE OneFetch'
  <2>1. \A u \in Thread : ~Fetching(u)
    BY <1>1 DEF SetTable
  <2>2. \A u \in Thread \ {t} : op'[u] = op[u]
    BY <1>1 DEF SetTable, Goto, TypeOK
  <2> QED
    BY <1>1, <2>1, <2>2 DEF SetTable, OneFetch, Fetching
<1>2. ASSUME NEW t \in Thread, FetchLock(t) PROVE OneFetch'
  BY <1>2 DEF FetchLock, Goto, TypeOK, OneFetch, Fetching
<1>3. ASSUME NEW t \in Thread, FetchRows(t) PROVE OneFetch'
  <2>1. op' = [op EXCEPT ![t] = "idle"]
    BY <1>3, FinishType DEF FetchRows
  <2>2. \A u \in Thread : ~Fetching(u)'
    BY <1>3, <2>1 DEF FetchRows, OneFetch, Fetching, TypeOK
  <2> QED
    BY <1>3, <2>2 DEF FetchRows, OneFetch
<1>4. ASSUME NEW t \in Thread, NoSuchTable(t) PROVE OneFetch'
  BY <1>4 DEF NoSuchTable, OneFetch, Fetching
<1>5. ASSUME NEW t \in Thread,
             PopScan(t) \/ PopTake(t) \/ Post(t) \/ Withdraw(t) \/ MergeClear(t) \/ MergeSize(t)
               \/ MergeEntry(t)
      PROVE OneFetch'
  <2>1. UNCHANGED <<table, ended>>
    BY <1>5 DEF PopScan,
         PopTake, Post, Withdraw, MergeClear, MergeSize, MergeEntry
  <2>2. ~Fetching(t) /\ op'[t] \notin {"fetch", "load"} /\ \A u \in Thread \ {t} : op'[u] = op[u]
    BY <1>5 DEF PopScan,
         PopTake, Post, Withdraw, MergeClear, MergeSize, MergeEntry, Goto, Finish,
                Fetching, TypeOK
  <2> QED
    BY <2>1, <2>2 DEF OneFetch, Fetching
<1> QED
  BY <1>1, <1>2, <1>3, <1>4, <1>5 DEF Next, Pop, Fetch, Merge, Thread

-----------------------------------------------------------------------------
(***************************************************************************)
(* Each entry is played once, while merges stay apart.                     *)
(***************************************************************************)
Each == Fresh /\ Pointing /\ Once

\* An operation that did not overlap with a merge: no other thread merges, and a thread that merges
\* does so while nobody holds mutex_.
LEMMA StaysApart ==
  ASSUME TypeOK, NEW t \in Thread, Racing(t), "merge" \notin raced'
  PROVE  /\ \A u \in Thread \ {t} : op[u] \notin {"merge", "merging"}
         /\ op[t] \in {"posted", "merge", "merging"} => \A u \in Thread : op[u] # "pop"
<1>1. ~Overlap(t)
  BY DEF Racing
<1>2. op[t] \in {"posted", "merge", "merging"} => mutex = Nobody
  BY <1>1 DEF Overlap
<1> QED
  BY <1>1, <1>2, PlaylistAssumption DEF Overlap, TypeOK

\* A new entry is fresh.
LEMMA BringEach ==
  ASSUME TypeOK, Each, NEW t \in Thread, NEW next \in {"fetch", "posted"}, op[t] = "idle",
         Bring(t), Goto(t, next), UNCHANGED <<listVars, at, hand, played, dropped>>
  PROVE  Each'
<1>1. /\ entry'[t] = made + 1 /\ \A u \in Thread \ {t} : entry'[u] = entry[u]
      /\ op'[t] = next /\ \A u \in Thread \ {t} : op'[u] = op[u]
  BY BringType DEF Goto, TypeOK
<1>2. /\ made \in Nat /\ made + 1 \notin played /\ \A u \in Thread : entry[u] # made + 1
      /\ \A i \in DOMAIN list : list[i] # made + 1
  BY DEF TypeOK
<1>3. Fresh'
  BY <1>1, <1>2 DEF Each, Fresh, Bringing, listVars
<1>4. Pointing'
  BY <1>1 DEF Each, Pointing, listVars
<1> QED
  BY <1>3, <1>4 DEF Each, Once, Unplayed, listVars

\* A list is cleared while nobody points into it, and no other thread merges.
LEMMA ClearEach ==
  ASSUME TypeOK, Each, NEW t \in Thread, NEW next \in {"load", "merge"}, Bringing(t),
         Goto(t, next), list' = <<>>, UNCHANGED <<entry, at, hand, played, dropped>>,
         \A u \in Thread : op[u] # "pop", \A u \in Thread \ {t} : op[u] # "merging"
  PROVE  Each'
<1>1. op'[t] = next /\ \A u \in Thread \ {t} : op'[u] = op[u]
  BY DEF Goto, TypeOK
<1>2. Fresh' /\ Pointing'
  BY <1>1 DEF Each, Fresh, Bringing, Pointing
<1> QED
  BY <1>2 DEF Each, Once, Unplayed

\* An entry that was brought is appended, while nobody points into the list and no other thread
\* merges.
LEMMA AppendEach ==
  ASSUME TypeOK, Each, NEW t \in Thread, Bringing(t), Finish(t),
         list' \in {list, Append(list, entry[t])}, UNCHANGED <<played, dropped>>,
         \A u \in Thread : op[u] # "pop", \A u \in Thread \ {t} : op[u] # "merging"
  PROVE  Each'
<1>1. op'[t] = "idle" /\ \A u \in Thread \ {t} : op'[u] = op[u] /\ entry'[u] = entry[u]
  BY DEF Finish, Goto, TypeOK
<1>2. CASE list' = list
  BY <1>1, <1>2 DEF Each, Fresh, Bringing, Pointing, Once, Unplayed
<1>3. CASE list' = Append(list, entry[t])
  <2>1. list \in Seq(0 .. made) /\ entry[t] \in 0 .. made
    BY DEF TypeOK
  <2>2. /\ DOMAIN list' = DOMAIN list \cup {Len(list) + 1} /\ list'[Len(list) + 1] = entry[t]
        /\ \A i \in DOMAIN list : list'[i] = list[i]
    BY <1>3, <2>1, ListType
  <2>3. Fresh'
    BY <1>1, <2>2 DEF Each, Fresh, Bringing
  <2>4. Pointing'
    BY <1>1 DEF Each, Pointing
  <2>5. Once'
    BY <2>2 DEF Each, Once, Unplayed, Fresh
  <2> QED
    BY <2>3, <2>4, <2>5 DEF Each
<1> QED
  BY <1>2, <1>3

\* The item that is popped is the entry that the iterator points to.
LEMMA PopEach ==
  ASSUME TypeOK, Each, NEW t \in Thread, PopTake(t),
         \A u \in Thread \ {t} : op[u] \notin {"merge", "merging"}
  PROVE  Each'
<1>1. /\ op[t] = "pop" /\ op'[t] = "idle"
      /\ \A u \in Thread \ {t} : op'[u] = op[u] /\ entry'[u] = entry[u] /\ op[u] # "pop"
  BY DEF PopTake, Finish, Goto, TypeOK
<1>2. ~moved /\ hand \in DOMAIN list /\ list[hand] = entry[t] /\ entry[t] # 0
  BY <1>1 DEF Each, Pointing
<1>3. list' = [list EXCEPT ![hand] = 0] /\ dropped' = dropped /\ played' = played \cup {entry[t]}
  BY <1>2 DEF PopTake
<1>4. /\ DOMAIN list' = DOMAIN list /\ list'[hand] = 0
      /\ \A i \in DOMAIN list \ {hand} : list'[i] = list[i]
  BY <1>2, <1>3
<1>5. Fresh'
  BY <1>1, <1>2, <1>3, <1>4 DEF Each, Fresh, Bringing
<1>6. Pointing'
  BY <1>1 DEF Each, Pointing
<1>7. Once'
  BY <1>2, <1>3, <1>4 DEF Each, Once, Unplayed
<1> QED
  BY <1>5, <1>6, <1>7 DEF Each

\* Every operation keeps entries apart, as long as merges have.
LEMMA EachStep ==
  ASSUME TypeOK, HandRests, Next, "merge" \notin raced => Each
  PROVE  "merge" \notin raced' => Each'
<1> SUFFICES ASSUME Each, "merge" \notin raced' PROVE Each'
  BY DEF Next, Pop, Fetch, Merge, SetTable, FetchLock, FetchRows, NoSuchTable, PopScan,
         PopTake, Post, Withdraw, MergeClear, MergeSize, MergeEntry, Racing, history
<1>1. ASSUME NEW t \in Thread, SetTable(t) PROVE Each'
  BY <1>1, BringEach DEF SetTable
<1>2. ASSUME NEW t \in Thread, FetchLock(t) PROVE Each'
  <2>1. \A u \in Thread : op[u] # "pop"
    BY <1>2, PlaylistAssumption DEF FetchLock, TypeOK
  <2> QED
    BY <1>2, <2>1, StaysApart, ClearEach DEF FetchLock, Bringing
<1>3. ASSUME NEW t \in Thread, FetchRows(t) PROVE Each'
  <2>1. \A u \in Thread : op[u] # "pop"
    BY <1>3 DEF FetchRows, TypeOK
  <2> QED
    BY <1>3, <2>1, StaysApart, AppendEach DEF FetchRows, Bringing
<1>4. ASSUME NEW t \in Thread, NoSuchTable(t) PROVE Each'
  BY <1>4 DEF NoSuchTable, Each, Fresh, Bringing, Pointing, Once, Unplayed, listVars, threadVars,
              history
<1>5. ASSUME NEW t \in Thread, PopScan(t) PROVE Each'
  <2>1. PICK i \in Unplayed : hand' = i /\ entry' = [entry EXCEPT ![t] = list[i]]
    BY <1>5 DEF PopScan
  <2>2. /\ op'[t] = "pop"
        /\ \A u \in Thread \ {t} : op'[u] = op[u] /\ entry'[u] = entry[u] /\ op[u] # "pop"
    BY <1>5, <2>1, PlaylistAssumption DEF PopScan, Goto, TypeOK
  <2>3. ~moved /\ entry'[t] = list[i] /\ i \in DOMAIN list /\ list[i] # 0
    BY <1>5, <2>1, <2>2 DEF PopScan, HandRests, TypeOK, Unplayed
  <2>4. Fresh'
    BY <1>5, <2>2 DEF PopScan, Each, Fresh, Bringing
  <2>5. Pointing'
    BY <1>5, <2>1, <2>2, <2>3 DEF PopScan, Each, Pointing
  <2> QED
    BY <1>5, <2>4, <2>5 DEF PopScan, Each, Once, Unplayed
<1>6. ASSUME NEW t \in Thread, PopTake(t) PROVE Each'
  BY <1>6, StaysApart, PopEach DEF PopTake
<1>7. ASSUME NEW t \in Thread, Post(t) PROVE Each'
  BY <1>7, BringEach DEF Post
<1>8. ASSUME NEW t \in Thread, Withdraw(t) PROVE Each'
  <2>1. /\ op'[t] = "idle"
        /\ \A u \in Thread \ {t} :
             op'[u] = op[u] /\ entry'[u] = entry[u] /\ at'[u] = at[u]
    BY <1>8 DEF Withdraw, Finish, Goto, TypeOK
  <2> QED
    BY <1>8, <2>1 DEF Withdraw, Each, Fresh, Bringing, Pointing, Once, Unplayed, listVars, history
<1>9. ASSUME NEW t \in Thread, MergeClear(t) PROVE Each'
  <2>1. Racing(t) /\ op[t] = "posted"
    BY <1>9 DEF MergeClear
  <2> QED
    BY <1>9, <2>1, StaysApart, ClearEach DEF MergeClear, Bringing
<1>10. ASSUME NEW t \in Thread, MergeSize(t) PROVE Each'
  <2>1. /\ op'[t] = "merging" /\ at'[t] = Len(list) /\ Bringing(t)
        /\ \A u \in Thread \ {t} : op'[u] = op[u] /\ at'[u] = at[u]
    BY <1>10 DEF MergeSize, Goto, TypeOK, Bringing
  <2>2. UNCHANGED <<list, moved, entry, hand, played, dropped>>
    BY <1>10 DEF MergeSize, listVars
  <2> QED
    BY <2>1, <2>2 DEF Each, Fresh, Bringing, Pointing, Once, Unplayed
<1>11. ASSUME NEW t \in Thread, MergeEntry(t) PROVE Each'
  <2>1. Racing(t) /\ op[t] = "merging" /\ Finish(t) /\ Bringing(t) /\ played' = played
    BY <1>11 DEF MergeEntry, Bringing
  <2>2. at[t] = Len(list) /\ Len(list) \in Nat
    BY <2>1 DEF Each, Pointing, TypeOK
  <2>3. list' = Append(list, entry[t]) /\ dropped' = dropped
    BY <1>11, <2>2 DEF MergeEntry
  <2> QED
    BY <2>1, <2>3, StaysApart, AppendEach
<1> QED
  BY <1>1, <1>2, <1>3, <1>4, <1>5, <1>6, <1>7, <1>8, <1>9, <1>10, <1>11
  DEF Next, Pop, Fetch, Merge, Thread

-----------------------------------------------------------------------------
(***************************************************************************)
(* Theorems.                                                               *)
(***************************************************************************)
\* The invariant is inductive, stuttering included.
LEMMA Invariance == Spec => []IInv
<1>1. IInv /\ [Next]_playlistVars => IInv'
  BY TypeStep, HandStep, EachStep, FetchStep, StutterInv DEF IInv, Each
<1> QED
  BY InitInv, <1>1, PTL DEF Spec

\* A shared playlist's types hold, and mutex_ is with the thread that pops or fetches.
THEOREM PlaylistTypes == Spec => []TypeOK
BY Invariance, PTL DEF IInv

\* While merges stay apart from pops, fetches and each other, no entry is played twice or wiped out,
\* for any number of threads: the mutex_ is enough for all else.
THEOREM EntriesOnce == Spec => []EachOnce
<1>1. IInv => EachOnce
  BY DEF IInv, Once, EachOnce
<1> QED
  BY Invariance, <1>1, PTL

\* Fetches of one list end nothing unless one sets the table while another is under way.
THEOREM FetchesEndNothing == Spec => []FetchesApart
<1>1. IInv => FetchesApart
  BY DEF IInv, OneFetch, FetchesApart
<1> QED
  BY Invariance, <1>1, PTL
=============================================================================
