---------------------------- MODULE StoreProofs ----------------------------
(***************************************************************************)
(* Proofs about Store, for any threads, rows, names and number of writes:  *)
(* its types, that it implements AtomicStore and so keeps the tables'      *)
(* constraints, that neither a schedule that was acknowledged nor an id of *)
(* a list is lost, and that every lock comes free again.                   *)
(***************************************************************************)
EXTENDS Store, TLAPS

\* What is proved about AtomicStore, of Store's database.
Atomic == INSTANCE AtomicStoreProofs

Inside(t) == pc[t] \in {"root", "children"}
Saving(t) == pc[t] \in {"begin", "root", "children"} /\ msg[t].key = Schedule

\* Each process uses connections of its own.
Apart ==
  /\ \A a \in Acmd : via[a] = a /\ mine[a] = 0
  /\ \A t \in Automation : via[t] \in Automation \cup {Shared}

\* Nobody else is between BEGIN and COMMIT on a thread's connection.
Alone ==
  /\ \A t \in Thread : Inside(t) => via[t] \in inTransaction
  /\ \A t, u \in Thread : Inside(t) /\ Inside(u) /\ via[t] = via[u] => t = u

\* The writer's version of the database is the root row and the ids written so far.
Written(t) ==
  /\ writer = via[t]
  /\ row[t] \in Targets(rows, msg[t]) /\ RootAllowed(rows, ids, row[t], msg[t])
  /\ newRows = WithRow(rows, row[t], msg[t])
  /\ left[t] \subseteq msg[t].ids /\ newIds = WithIds(ids, row[t], msg[t].ids \ left[t])
  /\ \A i \in msg[t].ids \ left[t] : Exists(newRows, i)

\* The schedule that is being saved is the one in memory, and nobody changes that meanwhile.
Saver(t) == engine = t /\ msg[t].value = schedule /\ ~msg[t].update

\* The order of what is acknowledged, stored, in memory, and posted.
Order ==
  /\ acked <= rows[Schedule].value /\ rows[Schedule].value <= schedule /\ schedule <= issued
  /\ \A t \in Thread : mine[t] <= schedule

\* Nothing of an automation that has ended goes on.
Ended == failure # "none" => \A t \in Automation : pc[t] = "idle" /\ mine[t] = 0

\* The inductive invariant of the storage.
IInv ==
  /\ TypeOK /\ Apart /\ Alone /\ Order /\ Ended
  /\ \A t \in Thread : pc[t] = "children" => Written(t)
  /\ \A t \in Thread : Saving(t) => Saver(t)

-----------------------------------------------------------------------------
(***************************************************************************)
(* The operators of Rows.                                                  *)
(***************************************************************************)
\* The keys of the tables, and that the schedule's row and the locks are not in the other tables.
LEMMA Keys ==
  /\ Schedule \in Key /\ Lock \subseteq Key
  /\ Schedule \notin List \cup Item \cup Lock /\ Lock \cap (List \cup Item) = {}
  /\ List \subseteq Key /\ Item \subseteq Key
BY RowsAssumption DEF Key

\* A message is written to a row, and one for the schedule to the schedule's.
LEMMA TargetsAreKeys ==
  ASSUME NEW r, NEW m \in Message, NEW k \in Targets(r, m)
  PROVE  /\ k \in Key
         /\ k = Schedule <=> m.key = Schedule
<1>1. m.key \in Key \cup {"new list", "new item"}
  BY DEF Message
<1>2. CASE m.key \in {"new list", "new item"}
  BY <1>2, Keys, RowsAssumption DEF Targets, Key
<1>3. CASE m.key \notin {"new list", "new item"}
  BY <1>1, <1>3, Keys, RowsAssumption DEF Targets
<1> QED
  BY <1>2, <1>3

\* What REPLACE or UPDATE leaves are rows.
LEMMA WithRowType ==
  ASSUME NEW r \in [Key -> Row], NEW k \in Key, NEW m \in Message
  PROVE  WithRow(r, k, m) \in [Key -> Row]
<1>1. m.name \in Name \cup {NoName} /\ m.value \in Nat
  BY DEF Message
<1>2. CASE m.update
  BY <1>1, <1>2 DEF WithRow, Row
<1>3. CASE ~m.update
  <2>1. \A j \in Key : [r[j] EXCEPT !.state = "gone"] \in Row
    BY DEF Row
  <2> QED
    BY <1>1, <1>3, <2>1 DEF WithRow, Row
<1> QED
  BY <1>2, <1>3

\* Adding ids to a row leaves sets of ids.
LEMMA WithIdsType ==
  ASSUME NEW c \in [Key -> SUBSET Item], NEW k \in Key, NEW new \in SUBSET Item
  PROVE  WithIds(c, k, new) \in [Key -> SUBSET Item]
BY DEF WithIds

\* A message to another row leaves the schedule's alone, one for the schedule replaces its value.
LEMMA ScheduleRow ==
  ASSUME NEW r \in [Key -> Row], NEW k \in Key, NEW m \in Message
  PROVE  /\ k # Schedule => WithRow(r, k, m)[Schedule].value = r[Schedule].value
         /\ k = Schedule /\ ~m.update => WithRow(r, k, m)[Schedule].value = m.value
<1>1. k # Schedule => Schedule \notin Clashing(r, k, m)
  BY Keys, RowsAssumption DEF Clashing, Table, Key
<1> QED
  BY <1>1, Keys DEF WithRow, Row

\* A new message without ids, and one with ids for a list.
LEMMA MessageType ==
  ASSUME NEW key \in Key \cup {"new list", "new item"}, NEW update \in BOOLEAN,
         NEW name \in Name \cup {NoName}, NEW value \in Nat, NEW new \in SUBSET Item,
         new # {} => key \in List \cup {"new list"} /\ ~update
  PROVE  [key |-> key, update |-> update, name |-> name, value |-> value, ids |-> new] \in Message
BY DEF Message

-----------------------------------------------------------------------------
(***************************************************************************)
(* Initially.                                                              *)
(***************************************************************************)
\* The first database consists of rows.
LEMMA InitRows == Init => rows \in [Key -> Row]
<1>1. \A k \in DOMAIN Loaded : Loaded[k] \in Name
  BY RowsAssumption
<1>2. \A k \in Key :
         k \in DOMAIN Loaded => [state |-> "here", name |-> Loaded[k], value |-> 0] \in Row
  BY <1>1 DEF Row
<1>3. NoRow \in Row
  BY DEF Row, NoRow
<1> QED
  BY <1>2, <1>3 DEF Init, FirstRows

\* The message that says nothing is a message.
LEMMA NoMessageType == NoMessage \in Message
BY Keys, MessageType DEF NoMessage

\* The inductive invariant holds initially.
LEMMA InitInv == Init => IInv
<1> SUFFICES ASSUME Init PROVE IInv
  OBVIOUS
<1>1. TypeOK
  BY InitRows, NoMessageType, Keys DEF Init, TypeOK, Connection
<1>2. rows[Schedule].value = 0
  BY Keys, RowsAssumption DEF Init, FirstRows, NoRow
<1>3. Apart /\ Alone /\ Ended
  BY StoreAssumption DEF Init, Apart, Alone, Ended, Inside, Automation, Thread
<1>4. Order
  BY <1>2 DEF Init, Order
<1> QED
  BY <1>1, <1>3, <1>4 DEF Init, IInv, Saving

-----------------------------------------------------------------------------
(***************************************************************************)
(* Steps that several actions share.                                       *)
(***************************************************************************)
\* A thread's connection is one of its process, and the processes share none.
LEMMA Processes ==
  ASSUME Apart, NEW t \in Thread, NEW u \in Thread
  PROVE  /\ via[t] \in Process(t)
         /\ u \notin Process(t) => via[u] \notin Process(t)
         /\ t \in Process(t)
BY StoreAssumption DEF Apart, Process, Thread, Automation

\* Threads that are gone leave locals of the right type.
LEMMA ForgetType ==
  ASSUME TypeOK, NEW T, Forget(T)
  PROVE  /\ pc' \in [Thread -> {"idle", "save", "begin", "root", "children"}]
         /\ via' \in [Thread -> Connection] /\ msg' \in [Thread -> Message]
         /\ row' \in [Thread -> Key] /\ left' \in [Thread -> SUBSET Item]
         /\ mine' \in [Thread -> Nat] /\ engine' \in Handler \cup {Nobody}
         /\ clears' \in [Thread -> BOOLEAN]
BY NoMessageType, Keys DEF TypeOK, Forget, Connection

\* Threads that are gone are idle, and the others go on as before.
LEMMA ForgetLocals ==
  ASSUME TypeOK, NEW T, Forget(T), NEW u \in Thread
  PROVE  IF u \in T THEN pc'[u] = "idle" /\ via'[u] = u /\ mine'[u] = 0
         ELSE /\ pc'[u] = pc[u] /\ via'[u] = via[u] /\ mine'[u] = mine[u]
              /\ msg'[u] = msg[u] /\ row'[u] = row[u] /\ left'[u] = left[u]
              /\ engine = u => engine' = u
BY DEF TypeOK, Forget

\* Connections that are let go leave a lock of the right type.
LEMMA ReleaseType ==
  ASSUME TypeOK, NEW C, Release(C),
         rows' \in [Key -> Row], ids' \in [Key -> SUBSET Item]
  PROVE  /\ newRows' \in [Key -> Row] /\ newIds' \in [Key -> SUBSET Item]
         /\ writer' \in inTransaction' \cup {Nobody} /\ inTransaction' \subseteq Connection
BY DEF TypeOK, Release

\* Threads that are gone leave the order of the schedules.
LEMMA GoneOrder ==
  ASSUME TypeOK, Order, NEW T, Forget(T), UNCHANGED <<dbVars, schedule, issued, acked>>
  PROVE  Order'
<1>1. schedule \in Nat
  BY DEF TypeOK
<1>2. 0 <= schedule
  BY <1>1
<1>3. \A u \in Thread : mine'[u] <= schedule
  BY <1>2, ForgetLocals DEF Order
<1> QED
  BY <1>3 DEF Order, dbVars

\* Threads that end, with connections that no thread that goes on is inside of, keep all but Ended.
LEMMA GoneKeeps ==
  ASSUME IInv, NEW T, NEW C, Forget(T), Release(C),
         UNCHANGED <<dbVars, schedule, issued, acked>>,
         failure' \in {"none", "nested transaction", "busy", "unknown id", "constraint exception",
                       "killed"},
         \A u \in Thread \ T : Inside(u) => via[u] \notin C
  PROVE  /\ TypeOK' /\ Apart' /\ Alone' /\ Order'
         /\ \A u \in Thread : pc'[u] = "children" => Written(u)'
         /\ \A u \in Thread : Saving(u)' => Saver(u)'
<1> USE DEF IInv
<1>1. TypeOK'
  BY ForgetType, ReleaseType DEF TypeOK, dbVars
<1>2. Apart'
  <2>1. Acmd \subseteq Thread /\ Automation \subseteq Thread
    BY DEF Thread
  <2> QED
    BY <2>1, ForgetLocals DEF Apart
<1>3. \A u \in Thread : Inside(u)' => u \notin T /\ Inside(u)
  BY ForgetLocals DEF Inside
<1>4. Alone'
  <2>1. \A u \in Thread : Inside(u)' => Inside(u) /\ via'[u] = via[u] /\ via[u] \notin C
    BY <1>3, ForgetLocals
  <2> QED
    BY <2>1 DEF Alone, Release
<1>5. Order'
  BY GoneOrder
<1>6. ASSUME NEW u \in Thread, pc'[u] = "children"
      PROVE  Written(u)'
  <2>1. u \notin T /\ Inside(u) /\ pc[u] = "children"
    BY <1>3, <1>6, ForgetLocals DEF Inside
  <2>2. Written(u) /\ via[u] \notin C
    BY <2>1
  <2>3. writer' = writer /\ newRows' = newRows /\ newIds' = newIds
    BY <2>2 DEF Release, Written
  <2>4. /\ via'[u] = via[u] /\ msg'[u] = msg[u] /\ row'[u] = row[u] /\ left'[u] = left[u]
        /\ rows' = rows /\ ids' = ids
    BY <2>1, ForgetLocals DEF dbVars
  <2> QED
    BY <2>2, <2>3, <2>4 DEF Written
<1>7. ASSUME NEW u \in Thread, Saving(u)'
      PROVE  Saver(u)'
  <2>1. u \notin T /\ pc'[u] = pc[u] /\ msg'[u] = msg[u]
    BY <1>7, ForgetLocals DEF Saving
  <2>2. Saver(u)
    BY <1>7, <2>1 DEF Saving
  <2> QED
    BY <2>1, <2>2, ForgetLocals DEF Saver
<1> QED
  BY <1>1, <1>2, <1>4, <1>5, <1>6, <1>7

\* The end of a process keeps the inductive invariant.
LEMMA AbortKeeps ==
  ASSUME IInv, NEW t \in Thread, Up(t),
         NEW why \in {"nested transaction", "busy", "unknown id", "constraint exception", "killed"},
         Abort(t, why)
  PROVE  IInv'
<1> DEFINE T == Process(t) \cap Thread
<1>1. Forget(T) /\ Release(Process(t)) /\ UNCHANGED <<dbVars, schedule, issued, acked>>
  BY DEF Abort
<1>2. failure' \in {"none", "nested transaction", "busy", "unknown id", "constraint exception",
                    "killed"}
  BY DEF Abort, IInv, TypeOK
<1>3. \A u \in Thread \ T : via[u] \notin Process(t)
  BY Processes DEF IInv
<1>4. Ended'
  <2>1. CASE t \in Acmd
    <3>1. \A u \in Automation : u \in Thread /\ u \notin T
      BY <2>1, StoreAssumption DEF Process, Thread, Automation
    <3> QED
      BY <2>1, <3>1, <1>1, ForgetLocals DEF Abort, IInv, Ended
  <2>2. CASE t \notin Acmd
    <3>1. \A u \in Automation : u \in Thread /\ u \in T
      BY <2>2 DEF Process, Thread
    <3> QED
      BY <3>1, <1>1, ForgetLocals DEF IInv, Ended
  <2> QED
    BY <2>1, <2>2
<1> QED
  BY <1>1, <1>2, <1>3, <1>4, GoneKeeps DEF IInv

\* A thread that is between BEGIN and COMMIT belongs to a process that is up.
LEMMA InsideUp == ASSUME IInv, NEW t \in Thread, pc[t] # "idle" PROVE Up(t)
BY DEF IInv, Ended, Up

\* A constraint exception keeps the inductive invariant.
LEMMA ThrowKeeps ==
  ASSUME IInv, NEW t \in Thread, Inside(t), Throw(t)
  PROVE  IInv'
<1>1. CASE t \in Handler
  <2>1. /\ Forget({t}) /\ Release({via[t]})
        /\ UNCHANGED <<dbVars, schedule, failure, issued, acked>>
    BY <1>1 DEF Throw
  <2>2. \A u \in Thread \ {t} : Inside(u) => via[u] \notin {via[t]}
    BY DEF IInv, Alone
  <2>3. Ended'
    <3>1. failure = "none"
      BY <1>1 DEF IInv, Ended, Inside, Automation
    <3> QED
      BY <2>1, <3>1 DEF Ended
  <2> QED
    BY <2>1, <2>2, <2>3, GoneKeeps DEF IInv, TypeOK
<1>2. CASE t \notin Handler
  <2>1. Up(t)
    BY InsideUp DEF Inside
  <2> QED
    BY <1>2, <2>1, AbortKeeps DEF Throw
<1> QED
  BY <1>1, <1>2

-----------------------------------------------------------------------------
(***************************************************************************)
(* The steps of a transaction.                                             *)
(***************************************************************************)
\* A step of a thread that takes no lock and leaves every database alone.
LEMMA LocalKeeps ==
  ASSUME IInv, NEW t \in Thread, TypeOK', Up(t),
         UNCHANGED <<dbVars, writerVars, lockVars, row, left, failure, acked>>,
         \A u \in Thread \ {t} : /\ pc'[u] = pc[u] /\ via'[u] = via[u] /\ msg'[u] = msg[u]
                                 /\ mine'[u] = mine[u],
         pc'[t] \in {"idle", "save", "begin"},
         via'[t] = t \/ (t \in Automation /\ via'[t] \in Automation \cup {Shared}),
         t \in Acmd => mine'[t] = 0,
         mine'[t] <= schedule', schedule <= schedule', schedule' <= issued',
         \A u \in Thread : Saving(u)' => Saver(u)'
  PROVE  IInv'
<1> USE DEF IInv
<1>1. Apart'
  BY StoreAssumption DEF Apart, Thread, Automation
<1>2. \A u \in Thread : Inside(u)' => Inside(u) /\ u # t
  BY DEF Inside
<1>3. Alone'
  BY <1>2 DEF Alone, lockVars
<1>4. Order'
  <2>1. rows' = rows /\ acked' = acked
    BY DEF dbVars
  <2>2. \A n \in Nat : n <= schedule => n <= schedule'
    <3>1. schedule \in Nat /\ schedule' \in Nat
      BY DEF TypeOK
    <3> QED
      BY <3>1
  <2>3. rows[Schedule].value \in Nat /\ mine \in [Thread -> Nat]
    BY Keys DEF TypeOK, Row
  <2> QED
    BY <2>1, <2>2, <2>3 DEF Order
<1>5. Ended'
  <2>1. Automation \subseteq Thread
    BY DEF Thread
  <2>2. t \in Automation => failure = "none"
    BY DEF Up
  <2> QED
    BY <2>1, <2>2 DEF Ended
<1>6. ASSUME NEW u \in Thread, pc'[u] = "children"
      PROVE  Written(u)'
  <2>1. u # t /\ Written(u)
    BY <1>6
  <2>2. /\ via'[u] = via[u] /\ msg'[u] = msg[u] /\ row' = row /\ left' = left
        /\ rows' = rows /\ ids' = ids /\ newRows' = newRows /\ newIds' = newIds
        /\ writer' = writer
    BY <2>1 DEF dbVars, writerVars, lockVars
  <2> QED
    BY <2>1, <2>2 DEF Written
<1> QED
  BY <1>1, <1>3, <1>4, <1>5, <1>6

\* BEGIN keeps the inductive invariant.
LEMMA BeginKeeps == ASSUME IInv, NEW t \in Thread, Begin(t) PROVE IInv'
<1> USE DEF IInv, Begin
<1>1. via[t] \in Connection
  BY DEF TypeOK
<1>2. TypeOK'
  BY <1>1 DEF TypeOK, dbVars, writerVars, localVars, history
<1>3. Apart' /\ Order'
  BY DEF Apart, Order, dbVars, localVars, history
<1>4. \A u \in Thread : Inside(u)' => u = t \/ (Inside(u) /\ via[u] # via[t])
  BY DEF Inside, Alone, TypeOK
<1>5. Alone'
  BY <1>4 DEF Alone, localVars
<1>6. Ended'
  <2>1. t \in Automation => failure = "none"
    BY InsideUp DEF Up
  <2> QED
    BY <2>1 DEF Ended, TypeOK, history, Thread
<1>7. ASSUME NEW u \in Thread, pc'[u] = "children"
      PROVE  Written(u)'
  <2>1. Written(u)
    BY <1>7 DEF TypeOK
  <2> QED
    BY <2>1 DEF Written, dbVars, writerVars, localVars
<1>8. ASSUME NEW u \in Thread, Saving(u)'
      PROVE  Saver(u)'
  <2>1. Saver(u)
    BY <1>8 DEF Saving, TypeOK, localVars
  <2> QED
    BY <2>1 DEF Saver, localVars
<1> QED
  BY <1>2, <1>3, <1>5, <1>6, <1>7, <1>8

\* The root statement keeps the inductive invariant.
LEMMA RootKeeps == ASSUME IInv, NEW t \in Thread, Root(t) PROVE IInv'
<1> USE DEF IInv
<1>1. PICK k \in Targets(rows, msg[t]) :
        /\ RootAllowed(rows, ids, k, msg[t])
        /\ newRows' = WithRow(rows, k, msg[t])
        /\ row' = [row EXCEPT ![t] = k]
  BY DEF Root
<1>2. msg[t] \in Message /\ k \in Key /\ msg[t].ids \in SUBSET Item /\ via[t] \in inTransaction
  <2>1. msg[t] \in Message
    BY DEF TypeOK
  <2> QED
    BY <2>1, TargetsAreKeys DEF Message, Root, Alone, Inside
<1>3. TypeOK'
  <2>1. newRows' \in [Key -> Row]
    BY <1>1, <1>2, WithRowType DEF TypeOK
  <2> QED
    BY <1>1, <1>2, <2>1 DEF Root, TypeOK, dbVars, history
<1>4. Apart' /\ Order'
  BY DEF Root, Apart, Order, dbVars, history
<1>5. \A u \in Thread : Inside(u)' <=> Inside(u)
  BY DEF Root, Inside, TypeOK
<1>6. Alone'
  BY <1>5 DEF Root, Alone
<1>7. Ended'
  <2>1. t \in Automation => failure = "none"
    BY InsideUp DEF Root, Up
  <2> QED
    BY <2>1 DEF Root, Ended, TypeOK, history, Thread
<1>8. ASSUME NEW u \in Thread, pc'[u] = "children"
      PROVE  Written(u)'
  <2>1. CASE u = t
    <3>1. row'[t] = k /\ left'[t] = msg[t].ids /\ msg' = msg /\ via' = via /\ writer' = via[t]
      BY <1>1 DEF Root, TypeOK
    <3>2. newIds' = WithIds(ids, k, {})
      BY <1>2 DEF Root, WithIds, TypeOK
    <3>3. rows' = rows /\ ids' = ids
      BY DEF Root, dbVars
    <3> QED
      BY <2>1, <1>1, <3>1, <3>2, <3>3 DEF Written
  <2>2. CASE u # t
    <3>1. pc[u] = "children"
      BY <1>8, <2>2 DEF Root, TypeOK
    <3>2. writer = via[u] /\ writer = Nobody
      BY <3>1 DEF Root, Written
    <3>3. via[u] # Nobody
      BY StoreAssumption DEF TypeOK
    <3> QED
      BY <3>2, <3>3
  <2> QED
    BY <2>1, <2>2
<1>9. ASSUME NEW u \in Thread, Saving(u)'
      PROVE  Saver(u)'
  <2>1. Saver(u)
    BY <1>9 DEF Root, Saving, TypeOK
  <2> QED
    BY <2>1 DEF Root, Saver
<1> QED
  BY <1>3, <1>4, <1>6, <1>7, <1>8, <1>9

\* The statement for one id keeps the inductive invariant.
LEMMA ChildKeeps == ASSUME IInv, NEW t \in Thread, Child(t) PROVE IInv'
<1> USE DEF IInv
<1>1. PICK i \in left[t] : /\ Exists(newRows, i) /\ newIds' = WithIds(newIds, row[t], {i})
                           /\ left' = [left EXCEPT ![t] = @ \ {i}]
  BY DEF Child
<1>2. i \in Item /\ row[t] \in Key /\ Written(t)
  BY <1>1 DEF Child, TypeOK
<1>3. TypeOK'
  <2>1. newIds' \in [Key -> SUBSET Item]
    BY <1>1, <1>2, WithIdsType DEF TypeOK
  <2> QED
    BY <1>1, <2>1 DEF Child, TypeOK, dbVars, lockVars, history
<1>4. Apart' /\ Order' /\ Alone' /\ Ended'
  BY DEF Child, Apart, Order, Alone, Ended, Inside, dbVars, lockVars, history
<1>5. ASSUME NEW u \in Thread, pc'[u] = "children"
      PROVE  Written(u)'
  <2>1. Written(u) /\ Inside(u) /\ Inside(t)
    BY <1>5 DEF Child, Inside
  <2>2. u = t
    BY <2>1, <1>2 DEF Written, Alone
  <2> DEFINE done == msg[t].ids \ left[t]
  <2>3. newIds = WithIds(ids, row[t], done)
    BY <1>2 DEF Written
  <2>4. newIds' = WithIds(ids, row[t], done \cup {i})
    BY <1>1, <1>2, <2>3 DEF WithIds, TypeOK
  <2>5. left'[t] = left[t] \ {i} /\ msg' = msg /\ via' = via /\ row' = row /\ writer' = writer
    BY <1>1 DEF Child, TypeOK, lockVars
  <2>6. newRows' = newRows /\ rows' = rows /\ ids' = ids
    BY DEF Child, dbVars
  <2>7. msg'[t].ids \ left'[t] = done \cup {i}
    BY <1>1, <1>2, <2>5 DEF Written
  <2> QED
    BY <1>1, <1>2, <2>2, <2>4, <2>5, <2>6, <2>7 DEF Written
<1>6. ASSUME NEW u \in Thread, Saving(u)'
      PROVE  Saver(u)'
  BY <1>6 DEF Child, Saving, Saver
<1> QED
  BY <1>3, <1>4, <1>5, <1>6

\* A commit puts the schedule that is being saved into the database, or leaves the stored one.
LEMMA CommitOrder ==
  ASSUME IInv, NEW t \in Thread, Commit(t)
  PROVE  Order'
<1> USE DEF IInv
<1>1. /\ Written(t) /\ msg[t] \in Message /\ row[t] \in Key
      /\ (row[t] = Schedule <=> msg[t].key = Schedule)
  <2>1. Written(t) /\ msg[t] \in Message
    BY DEF Commit, TypeOK
  <2> QED
    BY <2>1, TargetsAreKeys DEF Written
<1>2. rows' = WithRow(rows, row[t], msg[t]) /\ rows \in [Key -> Row]
  BY <1>1 DEF Commit, Written, TypeOK
<1>3. schedule \in Nat /\ acked \in Nat /\ rows[Schedule].value \in Nat /\ 0 <= schedule
  <2>1. schedule \in Nat /\ acked \in Nat /\ rows[Schedule].value \in Nat
    BY Keys DEF TypeOK, Row
  <2> QED
    BY <2>1
<1>4. \A u \in Thread : mine'[u] <= schedule
  BY <1>3, ForgetLocals DEF Commit, Order
<1>5. CASE msg[t].key = Schedule
  <2>1. msg[t].value = schedule /\ ~msg[t].update
    BY <1>5 DEF Commit, Saving, Saver
  <2>2. rows'[Schedule].value = schedule
    BY <1>1, <1>2, <1>5, <2>1, ScheduleRow
  <2>3. acked' \in {acked, mine[t]}
    BY DEF Commit, Acknowledged
  <2>4. acked <= schedule /\ mine[t] <= schedule
    BY <1>3 DEF Order
  <2> QED
    BY <1>3, <1>4, <2>2, <2>3, <2>4 DEF Commit, Order
<1>6. CASE msg[t].key # Schedule
  <2>1. rows'[Schedule].value = rows[Schedule].value
    BY <1>1, <1>2, <1>6, ScheduleRow
  <2>2. acked' = acked
    BY <1>6 DEF Commit, Acknowledged
  <2> QED
    BY <1>4, <2>1, <2>2 DEF Commit, Order
<1> QED
  BY <1>5, <1>6

\* COMMIT keeps the inductive invariant.
LEMMA CommitKeeps == ASSUME IInv, NEW t \in Thread, Commit(t) PROVE IInv'
<1> USE DEF IInv
<1>1. Written(t) /\ Inside(t)
  BY DEF Commit, Inside
<1>2. Forget({t}) /\ Release({via[t]})
  BY DEF Commit
<1>3. TypeOK'
  <2>1. rows' \in [Key -> Row] /\ ids' \in [Key -> SUBSET Item] /\ acked' \in Nat
    BY DEF Commit, Acknowledged, TypeOK
  <2> QED
    BY <1>2, <2>1, ForgetType, ReleaseType DEF Commit, TypeOK
<1>4. Apart'
  <2>1. Acmd \subseteq Thread /\ Automation \subseteq Thread
    BY DEF Thread
  <2> QED
    BY <1>2, <2>1, ForgetLocals DEF Apart
<1>5. \A u \in Thread : Inside(u)' => /\ u # t /\ Inside(u) /\ via'[u] = via[u]
                                      /\ pc'[u] = pc[u] /\ via[u] # via[t]
  BY <1>1, <1>2, ForgetLocals DEF Inside, Alone
<1>6. Alone'
  BY <1>2, <1>5 DEF Alone, Release
<1>7. Ended'
  BY InsideUp, <1>1, <1>2, ForgetLocals DEF Ended, Up, Commit, Inside, Thread
<1>8. ASSUME NEW u \in Thread, pc'[u] = "children"
      PROVE  FALSE
  <2>1. u # t /\ pc[u] = "children" /\ via[u] # via[t]
    BY <1>5, <1>8 DEF Inside
  <2> QED
    BY <1>1, <2>1 DEF Written
<1>9. ASSUME NEW u \in Thread, Saving(u)'
      PROVE  Saver(u)'
  <2>1. u # t /\ pc'[u] = pc[u] /\ msg'[u] = msg[u]
    BY <1>2, <1>9, ForgetLocals DEF Saving
  <2>2. Saver(u)
    BY <1>9, <2>1 DEF Saving
  <2> QED
    BY <1>2, <2>1, <2>2, ForgetLocals DEF Saver, Commit
<1> QED
  BY <1>3, <1>4, <1>6, <1>7, <1>8, <1>9, CommitOrder

\* Every step of a transaction keeps the inductive invariant.
LEMMA TransactionKeeps == ASSUME IInv, NEW t \in Thread, Transaction(t) PROVE IInv'
<1>1. CASE BeginNested(t)
  BY <1>1, InsideUp, AbortKeeps DEF BeginNested
<1>2. CASE RootBusy(t)
  BY <1>2, InsideUp, AbortKeeps DEF RootBusy
<1>3. CASE ChildConstraint(t)
  BY <1>3, InsideUp, AbortKeeps DEF ChildConstraint
<1>4. CASE RootConstraint(t)
  BY <1>4, ThrowKeeps DEF RootConstraint, Inside
<1>5. CASE CommitFails(t)
  BY <1>5, ThrowKeeps DEF CommitFails, Inside
<1> QED
  BY <1>1, <1>2, <1>3, <1>4, <1>5, BeginKeeps, RootKeeps, ChildKeeps, CommitKeeps DEF Transaction

-----------------------------------------------------------------------------
(***************************************************************************)
(* What threads begin to write, and the restart.                           *)
(***************************************************************************)
\* A message that is not the schedule's, on a connection of the thread's process.
LEMMA NewKeeps ==
  ASSUME IInv, NEW t \in Thread, NEW c, NEW m \in Message, NEW replaces \in BOOLEAN,
         pc[t] = "idle", Up(t), NewAs(t, c, m, replaces),
         m.key # Schedule, c = t \/ (t \in Automation /\ c \in Automation \cup {Shared})
  PROVE  IInv'
<1> USE DEF IInv
<1>1. /\ pc' = [pc EXCEPT ![t] = "begin"] /\ via' = [via EXCEPT ![t] = c]
      /\ msg' = [msg EXCEPT ![t] = m] /\ issued' = issued + 1
      /\ UNCHANGED <<dbVars, writerVars, lockVars, row, left, failure>>
      /\ clears' = [clears EXCEPT ![t] = replaces]
      /\ UNCHANGED <<schedule, engine, mine, acked>>
  BY DEF NewAs, Prepare
<1>2. TypeOK'
  <2>1. c \in Connection
    BY DEF Connection, Thread
  <2>2. pc' \in [Thread -> {"idle", "save", "begin", "root", "children"}]
    BY <1>1 DEF TypeOK
  <2>3. via' \in [Thread -> Connection] /\ msg' \in [Thread -> Message]
    BY <1>1, <2>1 DEF TypeOK
  <2>4. issued' \in Nat /\ clears' \in [Thread -> BOOLEAN]
    <3>1. issued \in Nat /\ clears \in [Thread -> BOOLEAN]
      BY DEF TypeOK
    <3> QED
      BY <1>1, <3>1
  <2> QED
    BY <1>1, <2>2, <2>3, <2>4 DEF TypeOK, dbVars, writerVars, lockVars
<1>3. /\ pc'[t] = "begin" /\ via'[t] = c /\ msg'[t] = m
      /\ \A u \in Thread \ {t} : pc'[u] = pc[u] /\ via'[u] = via[u] /\ msg'[u] = msg[u]
  BY <1>1 DEF TypeOK
<1>4. ASSUME NEW u \in Thread, Saving(u)'
      PROVE  Saver(u)'
  <2>1. u # t
    BY <1>3, <1>4 DEF Saving
  <2>2. Saver(u)
    BY <1>3, <1>4, <2>1 DEF Saving
  <2> QED
    BY <1>1, <1>3, <2>1, <2>2 DEF Saver
<1>5. mine[t] <= schedule /\ (t \in Acmd => mine[t] = 0)
  BY DEF Order, Apart
<1>6. schedule <= schedule /\ schedule <= issued + 1
  <2>1. schedule \in Nat /\ issued \in Nat
    BY DEF TypeOK
  <2> QED
    BY <2>1 DEF Order
<1>7. t \in Acmd => c = t
  BY StoreAssumption DEF Automation
<1> QED
  BY ONLY IInv, t \in Thread, Up(t), <1>1, <1>2, <1>3, <1>4, <1>5, <1>6, <1>7,
          c = t \/ (t \in Automation /\ c \in Automation \cup {Shared}), LocalKeeps DEF dbVars

\* Nobody is saving the schedule while nobody holds the RequirementEngine's mutex.
LEMMA NobodySaves ==
  ASSUME IInv, engine = Nobody, NEW t \in Thread
  PROVE  ~Saving(t)
BY StoreAssumption DEF IInv, Saver, Connection

\* Save keeps the inductive invariant.
LEMMA SaveKeeps == ASSUME IInv, NEW h \in Handler, Save(h) PROVE IInv'
<1>1. h \in Thread /\ h \in Automation /\ h \notin Acmd
  BY StoreAssumption DEF Thread, Automation
<1>2. /\ pc' = [pc EXCEPT ![h] = "begin"] /\ via' = [via EXCEPT ![h] = Shared]
      /\ msg' = [msg EXCEPT ![h] = SaveMessage] /\ engine' = h /\ engine = Nobody
      /\ UNCHANGED <<dbVars, writerVars, lockVars, row, left, failure>>
      /\ UNCHANGED <<schedule, issued, mine, acked, clears>>
  BY DEF Save, Prepare, history
<1>3. SaveMessage \in Message /\ SaveMessage.value = schedule /\ ~SaveMessage.update
  BY NoMessageType DEF SaveMessage, NoMessage, Message, IInv, TypeOK
<1>4. TypeOK'
  <2>1. pc' \in [Thread -> {"idle", "save", "begin", "root", "children"}]
    BY <1>2 DEF IInv, TypeOK
  <2>2. via' \in [Thread -> Connection] /\ msg' \in [Thread -> Message]
    BY <1>2, <1>3 DEF IInv, TypeOK, Connection
  <2> QED
    BY <1>2, <2>1, <2>2 DEF IInv, TypeOK, dbVars, writerVars, lockVars
<1>5. /\ pc'[h] = "begin" /\ via'[h] = Shared /\ msg'[h] = SaveMessage
      /\ \A u \in Thread \ {h} : /\ pc'[u] = pc[u] /\ via'[u] = via[u] /\ msg'[u] = msg[u]
                                 /\ mine'[u] = mine[u]
  BY <1>1, <1>2 DEF IInv, TypeOK
<1>6. ASSUME NEW u \in Thread, Saving(u)'
      PROVE  Saver(u)'
  <2>1. ~Saving(u)
    BY <1>2, NobodySaves
  <2>2. u = h
    BY <1>5, <1>6, <2>1 DEF Saving
  <2> QED
    BY <1>2, <1>3, <1>5, <2>2 DEF Saver
<1>7. mine'[h] <= schedule' /\ schedule <= schedule' /\ schedule' <= issued'
  <2>1. schedule \in Nat
    BY DEF IInv, TypeOK
  <2> QED
    BY <1>1, <1>2, <2>1 DEF IInv, Order
<1>8. Up(h)
  BY <1>1, InsideUp DEF Save
<1> QED
  BY ONLY IInv, <1>1, <1>2, <1>4, <1>5, <1>6, <1>7, <1>8, LocalKeeps

\* An update of the schedule in memory keeps the inductive invariant.
LEMMA CopyFromKeeps == ASSUME IInv, NEW h \in Handler, CopyFrom(h) PROVE IInv'
<1>1. h \in Thread /\ h \in Automation /\ h \notin Acmd
  BY StoreAssumption DEF Thread, Automation
<1>2. /\ pc' = [pc EXCEPT ![h] = "save"] /\ mine' = [mine EXCEPT ![h] = issued + 1]
      /\ issued' = issued + 1 /\ schedule' = issued + 1 /\ engine = Nobody
      /\ UNCHANGED <<dbVars, writerVars, lockVars, row, left, failure, acked>>
      /\ UNCHANGED <<via, msg, engine, clears>>
  BY DEF CopyFrom, localVars
<1>3. TypeOK'
  <2>1. pc' \in [Thread -> {"idle", "save", "begin", "root", "children"}]
    BY <1>2 DEF IInv, TypeOK
  <2>2. issued' \in Nat /\ schedule' \in Nat /\ mine' \in [Thread -> Nat]
    <3>1. issued \in Nat /\ mine \in [Thread -> Nat]
      BY DEF IInv, TypeOK
    <3>2. issued + 1 \in Nat
      BY <3>1
    <3> QED
      BY <1>2, <3>1, <3>2
  <2> QED
    BY <1>2, <2>1, <2>2 DEF IInv, TypeOK, dbVars, writerVars, lockVars
<1>4. /\ pc'[h] = "save" /\ mine'[h] = issued + 1 /\ via'[h] \in Automation \cup {Shared}
      /\ \A u \in Thread \ {h} : /\ pc'[u] = pc[u] /\ via'[u] = via[u] /\ msg'[u] = msg[u]
                                 /\ mine'[u] = mine[u]
  BY <1>1, <1>2 DEF IInv, TypeOK, Apart
<1>5. ASSUME NEW u \in Thread, Saving(u)'
      PROVE  Saver(u)'
  BY <1>2, <1>4, <1>5, NobodySaves DEF Saving
<1>6. mine'[h] <= schedule' /\ schedule <= schedule' /\ schedule' <= issued'
  <2>1. schedule \in Nat /\ issued \in Nat /\ schedule <= issued
    BY DEF IInv, TypeOK, Order
  <2> QED
    BY <1>2, <1>4, <2>1
<1> QED
  BY ONLY IInv, <1>1, <1>2, <1>3, <1>4, <1>5, <1>6, LocalKeeps, CopyFrom(h) DEF CopyFrom

\* What the main thread and the handlers begin to write keeps the inductive invariant.
LEMMA PlayKeeps ==
  ASSUME IInv, NEW t \in Automation, NEW c \in Automation \cup {Shared}, NEW i \in Item,
         Play(t, c, i)
  PROVE  IInv'
<1> DEFINE m == [key |-> i, update |-> TRUE, name |-> rows[i].name,
                 value |-> rows[i].value + 1, ids |-> {}]
<1>1. i \in Key /\ i # Schedule /\ t \in Thread
  BY Keys DEF Thread
<1>2. rows[i].name \in Name \cup {NoName} /\ rows[i].value + 1 \in Nat
  <2>1. rows[i] \in Row
    BY <1>1 DEF IInv, TypeOK
  <2> QED
    BY <2>1 DEF Row
<1>3. m \in Message
  BY <1>1, <1>2, MessageType
<1> QED
  BY <1>1, <1>3, NewKeeps DEF Play, New

\* A lock of a name keeps the inductive invariant.
LEMMA LockKeeps ==
  ASSUME IInv, NEW c \in {Shared, Main}, NEW n \in Renamed \ {NoName}, LockByName(c, n)
  PROVE  IInv'
<1>0. PICK k \in Lock : New(Main, c, [NoMessage EXCEPT !.key = k, !.name = n])
  BY DEF LockByName
<1> DEFINE m == [NoMessage EXCEPT !.key = k, !.name = n]
<1>1. m \in Message /\ m.key # Schedule
  BY Keys, StoreAssumption DEF NoMessage, Message
<1>2. Main \in Thread /\ Main \in Automation
  BY DEF Thread, Automation
<1> QED
  BY <1>0, <1>1, <1>2, NewKeeps DEF LockByName, New

\* A playlist's update keeps the inductive invariant.
LEMMA PlaylistUpdateKeeps ==
  ASSUME IInv, NEW h \in Handler, NEW l \in List, NEW renamed \in Renamed, NEW new \in Posted,
         NEW overwrite \in BOOLEAN, PlaylistUpdate(h, l, renamed, new, overwrite)
  PROVE  IInv'
<1> DEFINE stored == [key |-> l, update |-> FALSE, value |-> rows[l].value,
                      name |-> IF renamed = NoName THEN rows[l].name ELSE renamed,
                      ids |-> IF overwrite THEN new ELSE ids[l] \cup new]
           unfound == [key |-> "new list", update |-> FALSE, value |-> 0,
                       name |-> renamed, ids |-> new]
<1>1. h \in Thread /\ h \in Automation /\ l \in Key /\ l # Schedule
  BY Keys DEF Thread, Automation
<1>2. renamed \in Name \cup {NoName} /\ new \in SUBSET Item
  BY StoreAssumption
<1>3. rows[l].name \in Name \cup {NoName} /\ rows[l].value \in Nat /\ ids[l] \in SUBSET Item
  <2>1. rows[l] \in Row /\ ids[l] \in SUBSET Item
    BY <1>1 DEF IInv, TypeOK
  <2> QED
    BY <2>1 DEF Row
<1>4. stored \in Message /\ unfound \in Message
  BY <1>1, <1>2, <1>3 DEF Message
<1>5. stored.key # Schedule /\ unfound.key # Schedule
  BY <1>1, RowsAssumption DEF Key
<1>6. /\ pc[h] = "idle" /\ Up(h)
      /\ \E replaces \in BOOLEAN :
           NewAs(h, h, stored, replaces) \/ NewAs(h, h, unfound, replaces)
  BY DEF PlaylistUpdate, New
<1> QED
  BY <1>1, <1>4, <1>5, <1>6, NewKeeps

\* alsosave keeps the inductive invariant.
LEMMA AlsoSaveKeeps ==
  ASSUME IInv, NEW h \in Handler, NEW result \in Posted, NEW name \in Renamed,
         AlsoSave(h, result, name)
  PROVE  IInv'
<1>1. h \in Thread
  BY DEF Thread, Automation
<1>2. PICK n \in FreeNames :
        New(h, h, [key |-> "new list", update |-> FALSE, value |-> 0,
                   name |-> IF name = NoName THEN n ELSE name, ids |-> result])
  BY DEF AlsoSave
<1> DEFINE m == [key |-> "new list", update |-> FALSE, value |-> 0,
                 name |-> IF name = NoName THEN n ELSE name, ids |-> result]
<1>3. m \in Message /\ m.key # Schedule
  <2>1. name \in Name \cup {NoName} /\ n \in Name /\ result \in SUBSET Item
    BY StoreAssumption DEF FreeNames
  <2> QED
    BY <2>1, RowsAssumption DEF Message
<1>4. pc[h] = "idle" /\ Up(h)
  BY DEF AlsoSave
<1> QED
  BY <1>1, <1>2, <1>3, <1>4, NewKeeps DEF New

\* What acmd begins to write keeps the inductive invariant.
LEMMA MaintainKeeps == ASSUME IInv, NEW a \in Acmd, Maintain(a) PROVE IInv'
<1>1. a \in Thread /\ Up(a)
  BY StoreAssumption DEF Thread, Automation, Up
<1>2. ASSUME NEW n \in Name, AcmdLoad(a, n)
      PROVE  IInv'
  <2> DEFINE m == [key |-> "new item", update |-> FALSE, name |-> n, value |-> 0, ids |-> {}]
  <2>1. m \in Message /\ m.key # Schedule
    BY RowsAssumption DEF Message
  <2> QED
    BY <1>1, <1>2, <2>1, NewKeeps DEF AcmdLoad, New
<1>3. ASSUME NEW n \in Renamed \ {NoName}, NEW new \in SUBSET Item, NEW command,
             NEW weight \in Nat, AcmdList(a, n, command, new, weight)
      PROVE  IInv'
  <2>1. PICK l \in List \cup {"new list"} :
          LET stored == IF l \in List THEN ids[l] ELSE {}
              kept == IF command = "replace" THEN {} ELSE stored
              value == IF l \in List THEN rows[l].value ELSE 0
          IN NewAs(a, a, [key |-> l, update |-> FALSE, name |-> n,
                          value |-> IF command = "setup" THEN weight ELSE value,
                          ids |-> IF command = "setup" THEN stored ELSE kept \cup new],
                   command = "replace")
    BY <1>3 DEF AcmdList
  <2> DEFINE stored == IF l \in List THEN ids[l] ELSE {}
             kept == IF command = "replace" THEN {} ELSE stored
             value == IF l \in List THEN rows[l].value ELSE 0
             m == [key |-> l, update |-> FALSE, name |-> n,
                   value |-> IF command = "setup" THEN weight ELSE value,
                   ids |-> IF command = "setup" THEN stored ELSE kept \cup new]
  <2>2. n \in Name /\ l # Schedule /\ l \in Key \cup {"new list", "new item"}
    BY StoreAssumption, Keys, RowsAssumption DEF Key
  <2>3. stored \in SUBSET Item /\ value \in Nat
    <3>1. l \in List => l \in Key /\ ids[l] \in SUBSET Item /\ rows[l] \in Row
      BY Keys DEF IInv, TypeOK
    <3> QED
      BY <3>1 DEF Row
  <2>4. m \in Message /\ m.key # Schedule
    BY <2>2, <2>3 DEF Message
  <2>5. NewAs(a, a, m, command = "replace") /\ pc[a] = "idle"
    BY <1>3, <2>1 DEF AcmdList
  <2> QED
    BY <1>1, <2>4, <2>5, NewKeeps
<1> QED
  BY <1>2, <1>3, StoreAssumption DEF Maintain

\* automation's start keeps the inductive invariant.
LEMMA RestartKeeps == ASSUME IInv, Restart PROVE IInv'
<1> USE DEF IInv
<1>1. \A t \in Automation : pc[t] = "idle" /\ mine[t] = 0
  BY DEF Restart, Ended
<1>2. /\ rows' = rows \/ (writer = Nobody /\ rows' = Unlocked(rows) /\ newRows' = rows')
      /\ newRows' = rows' \/ newRows' = newRows
      /\ writer # Nobody => rows' = rows /\ newRows' = newRows
      /\ schedule' = rows[Schedule].value /\ failure' = "none"
      /\ UNCHANGED <<ids, newIds, lockVars, pc, localVars, engine, history>>
  BY DEF Restart
<1>3. rows' \in [Key -> Row] /\ rows'[Schedule] = rows[Schedule]
  <2>1. Unlocked(rows) \in [Key -> Row]
    <3>1. rows \in [Key -> Row]
      BY DEF TypeOK
    <3>2. \A k \in Key : [rows[k] EXCEPT !.state = "none"] \in Row
      BY <3>1 DEF Row
    <3> QED
      BY <3>1, <3>2 DEF Unlocked
  <2>2. Unlocked(rows)[Schedule] = rows[Schedule]
    BY Keys DEF Unlocked, TypeOK
  <2> QED
    BY <1>2, <2>1, <2>2 DEF TypeOK
<1>4. rows[Schedule].value \in Nat
  BY Keys DEF TypeOK, Row
<1>5. TypeOK'
  BY <1>2, <1>3, <1>4 DEF TypeOK, lockVars, localVars, history
<1>6. Apart' /\ Alone' /\ Ended'
  BY <1>2 DEF Apart, Alone, Ended, Inside, lockVars, localVars, history
<1>7. Order'
  <2>1. 0 <= rows[Schedule].value
    BY <1>4
  <2>2. \A t \in Thread : mine[t] = 0
    BY <1>1 DEF Apart, Thread
  <2>3. rows[Schedule].value <= rows[Schedule].value /\ rows[Schedule].value <= issued
    <3>1. schedule \in Nat /\ issued \in Nat
      BY DEF TypeOK
    <3> QED
      BY <1>4, <3>1 DEF Order
  <2> QED
    BY <1>2, <1>3, <2>1, <2>2, <2>3 DEF Order, history
<1>8. ASSUME NEW u \in Thread, pc'[u] = "children"
      PROVE  Written(u)'
  <2>1. Written(u)
    BY <1>2, <1>8
  <2>2. writer # Nobody
    BY <2>1, StoreAssumption DEF Written, TypeOK
  <2> QED
    BY <1>2, <2>1, <2>2 DEF Written, lockVars, localVars
<1>9. ASSUME NEW u \in Thread, Saving(u)'
      PROVE  Saver(u)'
  <2>1. Saving(u) /\ Saver(u)
    BY <1>2, <1>9 DEF Saving, localVars
  <2>2. u \in Handler
    BY <2>1, StoreAssumption DEF Saver, TypeOK, Connection
  <2> QED
    BY <1>1, <2>1, <2>2 DEF Saving, Automation
<1> QED
  BY <1>5, <1>6, <1>7, <1>8, <1>9

\* Every step keeps the inductive invariant.
LEMMA NextKeeps == ASSUME IInv, [Next]_vars PROVE IInv'
<1>1. CASE UNCHANGED vars
  BY <1>1 DEF vars, dbVars, writerVars, lockVars, localVars, history, IInv, TypeOK, Apart, Alone,
              Inside, Order, Ended, Written, Saving, Saver
<1>2. CASE MainThread
  <2>1. PICK c \in {Shared, Main} :
          (\E i \in Item : Play(Main, c, i)) \/ (\E n \in Renamed \ {NoName} : LockByName(c, n))
    BY <1>2 DEF MainThread
  <2>2. Main \in Automation /\ c \in Automation \cup {Shared}
    BY DEF Automation
  <2> QED
    BY <2>1, <2>2, PlayKeeps, LockKeeps
<1>3. CASE Fault
  <2>1. CASE Restart
    BY <2>1, RestartKeeps
  <2>2. ASSUME NEW t \in Thread, LoadBusy(t) \/ Kill(t)
        PROVE  IInv'
    BY <2>2, AbortKeeps DEF LoadBusy, Kill
  <2> QED
    BY <1>3, <2>1, <2>2 DEF Fault
<1>4. ASSUME NEW h \in Handler, Handle(h)
      PROVE  IInv'
  <2>1. ASSUME NEW i \in Item, Play(h, h, i)
        PROVE  IInv'
    BY <2>1, PlayKeeps DEF Automation
  <2> QED
    BY <1>4, <2>1, SaveKeeps, CopyFromKeeps, AlsoSaveKeeps, PlaylistUpdateKeeps DEF Handle
<1> QED
  BY <1>1, <1>2, <1>3, <1>4, TransactionKeeps, MaintainKeeps DEF Next

\* The inductive invariant holds in every state.
LEMMA Invariant == Spec => []IInv
BY InitInv, NextKeeps, PTL DEF Spec

-----------------------------------------------------------------------------
(***************************************************************************)
(* The results.                                                            *)
(***************************************************************************)
\* The values of all variables stay within their types, and only who is in a transaction writes.
THEOREM TypeCorrect == Spec => []TypeOK
BY Invariant, PTL DEF IInv

\* A schedule that a client has been told is saved is not lost to an older one.
THEOREM AckedSchedules == Spec => []AckedSurvives
<1>1. IInv => AckedSurvives
  BY DEF IInv, Order, AckedSurvives
<1> QED
  BY <1>1, Invariant, PTL

\* Only a commit and automation's start change the database.
LEMMA Writers ==
  ASSUME IInv, [Next]_vars
  PROVE  UNCHANGED dbVars \/ Restart \/ \E t \in Thread : Commit(t)
<1>1. ASSUME NEW t \in Thread, NEW c, NEW m, Prepare(t, c, m)
      PROVE  UNCHANGED dbVars
  BY <1>1 DEF Prepare
<1>2. ASSUME NEW t \in Thread, NEW why, Abort(t, why)
      PROVE  UNCHANGED dbVars
  BY <1>2 DEF Abort
<1>3. ASSUME NEW t \in Thread, Throw(t)
      PROVE  UNCHANGED dbVars
  BY <1>2, <1>3 DEF Throw
<1>4. ASSUME NEW t \in Thread, NEW c, NEW m, NEW replaces, NewAs(t, c, m, replaces)
      PROVE  UNCHANGED dbVars
  BY <1>1, <1>4 DEF NewAs
<1>5. ASSUME NEW t \in Thread, Transaction(t)
      PROVE  UNCHANGED dbVars \/ Commit(t)
  BY <1>2, <1>3, <1>5 DEF Transaction, Begin, BeginNested, RootBusy, RootConstraint, Root, Child,
     ChildConstraint, CommitFails
<1>6. ASSUME MainThread
      PROVE  UNCHANGED dbVars
  BY <1>4, <1>6 DEF MainThread, Play, New, LockByName, Thread, Automation
<1>7. ASSUME NEW h \in Handler, Handle(h)
      PROVE  UNCHANGED dbVars
  BY <1>1, <1>4, <1>7 DEF Handle, CopyFrom, Save, Play, New, AlsoSave, PlaylistUpdate, Thread,
     Automation
<1>8. ASSUME NEW a \in Acmd, Maintain(a)
      PROVE  UNCHANGED dbVars
  BY <1>4, <1>8 DEF Maintain, AcmdLoad, New, AcmdList, Thread
<1>9. ASSUME Fault
      PROVE  UNCHANGED dbVars \/ Restart
  BY <1>2, <1>9 DEF Fault, LoadBusy, Kill
<1> QED
  BY <1>5, <1>6, <1>7, <1>8, <1>9 DEF Next, vars

\* AtomicStore uses Rows as Store does.
LEMMA SameRows ==
  /\ Whole!Key = Key /\ Whole!FirstRows = FirstRows /\ Whole!Message = Message
  /\ \A r : Whole!LocksHold(r) = LocksHold(r) /\ Whole!Unlocked(r) = Unlocked(r)
  /\ \A r, k : Whole!Exists(r, k) = Exists(r, k)
  /\ \A r, k, m : Whole!WithRow(r, k, m) = WithRow(r, k, m)
  /\ \A r, c, k, m : Whole!RootAllowed(r, c, k, m) = RootAllowed(r, c, k, m)
  /\ \A c, k, new : Whole!WithIds(c, k, new) = WithIds(c, k, new)
<1>1. Whole!Key = Key /\ Whole!FirstRows = FirstRows /\ Whole!Message = Message
  BY DEF Whole!Key, Key, Whole!NoRow, NoRow, Whole!FirstRows, FirstRows, Whole!Message, Message
<1>2. \A r, k : Whole!Exists(r, k) = Exists(r, k)
  BY DEF Whole!Exists, Exists
<1>3. \A r, k, m : Whole!Clashing(r, k, m) = Clashing(r, k, m)
  BY <1>2 DEF Whole!Clashing, Clashing, Whole!Table, Table
<1>4. \A c, j : Whole!Referenced(c, j) = Referenced(c, j)
  BY DEF Whole!Referenced, Referenced
<1>5. \A r, k, m : Whole!WithRow(r, k, m) = WithRow(r, k, m)
  BY <1>1, <1>2, <1>3 DEF Whole!WithRow, WithRow
<1>6. \A r, c, k, m : Whole!RootAllowed(r, c, k, m) = RootAllowed(r, c, k, m)
  BY <1>3, <1>4 DEF Whole!RootAllowed, RootAllowed
<1>7. \A c, k, new : Whole!WithIds(c, k, new) = WithIds(c, k, new)
  BY DEF Whole!WithIds, WithIds
<1>8. \A r : Whole!LocksHold(r) = LocksHold(r) /\ Whole!Unlocked(r) = Unlocked(r)
  BY <1>1, <1>2 DEF Whole!LocksHold, LocksHold, Whole!Unlocked, Unlocked
<1> QED
  BY <1>1, <1>2, <1>5, <1>6, <1>7, <1>8

\* A commit writes its message, with all of the ids.
LEMMA CommitWrites ==
  ASSUME IInv, NEW t \in Thread, Commit(t)
  PROVE  Whole!Next
<1> DEFINE k == row[t]
           m == msg[t]
           seen == [key |-> k, update |-> m.update, name |-> rows'[k].name,
                    value |-> rows'[k].value, ids |-> ids'[k] \ ids[k]]
<1>1. m \in Message /\ k \in Key /\ rows \in [Key -> Row] /\ ids \in [Key -> SUBSET Item]
  BY DEF IInv, TypeOK
<1>2. /\ rows' = WithRow(rows, k, m) /\ ids' = WithIds(ids, k, m.ids)
      /\ RootAllowed(rows, ids, k, m) /\ \A i \in m.ids : Exists(rows', i)
      /\ LocksHold(rows')
  BY DEF Commit, IInv, Written
<1>3. m.update \in BOOLEAN /\ m.ids \in SUBSET Item
  BY <1>1 DEF Message
<1>4. ~m.update => rows'[k].name = m.name /\ rows'[k].value = m.value
  BY <1>1, <1>2 DEF WithRow
<1>5. m.update /\ Exists(rows, k) => rows'[k].value = m.value
  BY <1>1, <1>2 DEF WithRow, Row
<1>6. Clashing(rows, k, seen) = Clashing(rows, k, m) \/ m.update
  BY <1>3, <1>4 DEF Clashing
<1>7. WithRow(rows, k, seen) = WithRow(rows, k, m) /\ RootAllowed(rows, ids, k, seen)
  BY <1>2, <1>3, <1>4, <1>5, <1>6 DEF WithRow, RootAllowed
<1>8. seen.ids \subseteq m.ids /\ WithIds(ids, k, seen.ids) = WithIds(ids, k, m.ids)
  BY <1>1, <1>2, <1>3 DEF WithIds
<1>9. Whole!Seen(k, m.update) = seen
  BY DEF Whole!Seen
<1>10. seen \in Message
  <2>1. rows'[k] \in Row /\ seen.ids \in SUBSET Item
    BY <1>1, <1>2, <1>3, <1>8, WithRowType
  <2>2. rows'[k].name \in Name \cup {NoName} /\ rows'[k].value \in Nat
    BY <2>1 DEF Row
  <2>3. m.ids # {} => m.key \in List \cup {"new list"} /\ ~m.update
    BY <1>1 DEF Message
  <2>4. m.key \in List \cup {"new list"} => k \in List
    <3>1. k \in Targets(rows, m)
      BY DEF Commit, IInv, Written
    <3> QED
      BY <3>1, RowsAssumption DEF Targets
  <2>5. seen.ids # {} => k \in List /\ ~m.update
    BY <1>8, <2>3, <2>4
  <2> QED
    BY <1>1, <1>3, <2>1, <2>2, <2>5, MessageType
<1>11. Whole!Write(k, seen)
  BY <1>2, <1>7, <1>8, <1>10, SameRows DEF Whole!Write
<1> QED
  BY <1>1, <1>3, <1>9, <1>11, SameRows DEF Whole!Next

\* Store implements AtomicStore: whatever happens to its statements, a message is in the database as
\* a whole or not at all.
THEOREM WholeWrites == Spec => WritesWhole
<1>1. Init => Whole!Init
  BY SameRows DEF Init, Whole!Init
<1>2. IInv /\ [Next]_vars => [Whole!Next]_<<rows, ids>>
  <2> SUFFICES ASSUME IInv, [Next]_vars PROVE Whole!Next \/ UNCHANGED <<rows, ids>>
    OBVIOUS
  <2>1. ASSUME Restart
        PROVE  Whole!Next \/ UNCHANGED <<rows, ids>>
    BY <2>1, SameRows DEF Restart, Whole!Next, Whole!Unlock
  <2> QED
    BY <2>1, Writers, CommitWrites DEF dbVars
<1> QED
  BY <1>1, <1>2, Invariant, PTL DEF Spec, WritesWhole, Whole!Spec, Whole!dbVars

\* No append, merge, setup or new list takes from a list what another process has added to it, be
\* the copy of the list that it writes as old as it may.
THEOREM AppendsAreKept == Spec => AppendsStay
<1> DEFINE Kept == \A l \in List : ids[l] \subseteq ids'[l] \/ ReplacesNow(l) \/ ~Exists(rows', l)
<1>1. IInv /\ [Next]_vars => [Kept]_vars
  <2> SUFFICES ASSUME IInv, [Next]_vars, NEW l \in List PROVE ids[l] \subseteq ids'[l]
    OBVIOUS
  <2>1. l \in Key /\ ids \in [Key -> SUBSET Item]
    BY Keys DEF IInv, TypeOK
  <2>2. ASSUME NEW t \in Thread, Commit(t)
        PROVE  ids[l] \subseteq ids'[l]
    <3>1. ids' = WithIds(ids, row[t], msg[t].ids)
      BY <2>2 DEF Commit, IInv, Written
    <3> QED
      BY <2>1, <3>1 DEF WithIds
  <2>3. CASE Restart \/ UNCHANGED dbVars
    BY <2>3 DEF Restart, dbVars
  <2> QED
    BY <2>2, <2>3, Writers
<1> QED
  BY <1>1, Invariant, PTL DEF Spec, AppendsStay

\* AtomicStoreProofs speaks of the same AtomicStore.
LEMMA SameStore == (Whole!Spec <=> Atomic!Spec) /\ (Whole!Consistent <=> Atomic!Consistent)
<1>1. Whole!Init <=> Atomic!Init
  BY DEF Whole!Init, Atomic!Init, Whole!FirstRows, Atomic!FirstRows, Whole!Key, Atomic!Key,
         Whole!NoRow, Atomic!NoRow
<1>2. Whole!Next <=> Atomic!Next
  BY DEF Whole!Next, Atomic!Next, Whole!Unlock, Atomic!Unlock, Whole!Unlocked, Atomic!Unlocked,
         Whole!Write, Atomic!Write, Whole!Seen, Atomic!Seen, Whole!Message, Atomic!Message,
         Whole!RootAllowed, Atomic!RootAllowed, Whole!Clashing, Atomic!Clashing, Whole!Table,
         Atomic!Table, Whole!Referenced, Atomic!Referenced, Whole!WithRow, Atomic!WithRow,
         Whole!WithIds, Atomic!WithIds, Whole!LocksHold, Atomic!LocksHold, Whole!Exists,
         Atomic!Exists, Whole!Key, Atomic!Key
<1>3. Whole!Consistent <=> Atomic!Consistent
  BY DEF Whole!Consistent, Atomic!Consistent, Whole!Exists, Atomic!Exists, Whole!Clashing,
         Atomic!Clashing, Whole!Table, Atomic!Table, Whole!LocksHold, Atomic!LocksHold,
         Whole!Key, Atomic!Key
<1>4. [Whole!Next]_(Whole!dbVars) <=> [Atomic!Next]_(Atomic!dbVars)
  BY <1>2 DEF Whole!dbVars, Atomic!dbVars
<1> QED
  BY <1>1, <1>3, <1>4, PTL DEF Whole!Spec, Atomic!Spec

\* The tables' constraints hold in whatever is committed, since Store implements AtomicStore, whose
\* messages keep them.
THEOREM CommittedConsistent == Spec => []StaysConsistent
<1>1. Atomic!Spec => []Atomic!Consistent
  BY RowsAssumption, Atomic!AlwaysConsistent
<1>2. Spec => Atomic!Spec
  BY WholeWrites, SameStore DEF WritesWhole
<1>3. Atomic!Consistent => StaysConsistent
  BY SameStore DEF StaysConsistent
<1> QED
  BY <1>1, <1>2, <1>3, PTL

-----------------------------------------------------------------------------
(***************************************************************************)
(* Locks.                                                                  *)
(***************************************************************************)
\* Threads that are gone take the connections that they were inside of with them.
LEMMA GoneHeld ==
  ASSUME TypeOK, LocksAreHeld, NEW T, NEW C, Forget(T), Release(C),
         \A u \in Thread \cap T : Inside(u) => via[u] \in C
  PROVE  LocksAreHeld'
<1>1. \A u \in Thread : Inside(u) /\ via[u] \notin C => pc'[u] = pc[u] /\ via'[u] = via[u]
  BY ForgetLocals
<1>2. writer' # Nobody => \E t \in Thread : pc'[t] = "children" /\ via'[t] = writer'
  <2>1. SUFFICES ASSUME writer' # Nobody
                 PROVE  \E t \in Thread : pc'[t] = "children" /\ via'[t] = writer'
    OBVIOUS
  <2>2. writer' = writer /\ writer \notin C
    BY <2>1 DEF Release
  <2>3. PICK t \in Thread : pc[t] = "children" /\ via[t] = writer
    BY <2>1, <2>2 DEF LocksAreHeld
  <2> QED
    BY <1>1, <2>2, <2>3 DEF Inside
<1>3. ASSUME NEW c \in inTransaction'
      PROVE  \E t \in Thread : pc'[t] \in {"root", "children"} /\ via'[t] = c
  <2>1. c \in inTransaction /\ c \notin C
    BY <1>3 DEF Release
  <2>2. PICK t \in Thread : Inside(t) /\ via[t] = c
    BY <2>1 DEF LocksAreHeld, Inside
  <2> QED
    BY <1>1, <2>1, <2>2 DEF Inside
<1>4. engine' # Nobody => engine' = engine /\ engine \in Thread \ T
  BY DEF Forget, TypeOK, Thread, Automation
<1>5. engine' # Nobody => pc'[engine'] \in {"begin", "root", "children"} /\ via'[engine'] = Shared
  BY <1>4, ForgetLocals DEF LocksAreHeld
<1> QED
  BY <1>2, <1>3, <1>5 DEF LocksAreHeld

\* The end of a process lets go of all that its threads hold, and of nothing else.
LEMMA AbortHeld ==
  ASSUME IInv, LocksAreHeld, NEW t \in Thread, NEW why, Abort(t, why)
  PROVE  LocksAreHeld'
<1>1. \A u \in Thread \cap Process(t) : via[u] \in Process(t)
  BY StoreAssumption DEF IInv, Apart, Process, Thread, Automation
<1> QED
  BY <1>1, GoneHeld DEF Abort, IInv

\* A constraint exception lets go of what its thread, or its process, holds.
LEMMA ThrowHeld ==
  ASSUME IInv, LocksAreHeld, NEW t \in Thread, Throw(t)
  PROVE  LocksAreHeld'
<1>1. CASE t \in Handler
  BY <1>1, GoneHeld DEF Throw, IInv
<1>2. CASE t \notin Handler
  BY <1>2, AbortHeld DEF Throw
<1> QED
  BY <1>1, <1>2

\* A thread that is not in a transaction may go on as it likes, unless it holds the mutex.
LEMMA LocalHeld ==
  ASSUME LocksAreHeld, NEW t \in Thread, ~Inside(t), UNCHANGED lockVars,
         \A u \in Thread \ {t} : pc'[u] = pc[u] /\ via'[u] = via[u],
         \/ engine' = engine /\ engine \in (Thread \ {t}) \cup {Nobody}
         \/ engine' = t /\ pc'[t] = "begin" /\ via'[t] = Shared
  PROVE  LocksAreHeld'
<1>1. \A u \in Thread : Inside(u) => u # t /\ pc'[u] = pc[u] /\ via'[u] = via[u]
  OBVIOUS
<1>2. writer' # Nobody => \E u \in Thread : pc'[u] = "children" /\ via'[u] = writer'
  BY <1>1 DEF LocksAreHeld, Inside, lockVars
<1>3. \A c \in inTransaction' : \E u \in Thread : pc'[u] \in {"root", "children"} /\ via'[u] = c
  BY <1>1 DEF LocksAreHeld, Inside, lockVars
<1>4. engine' # Nobody => pc'[engine'] \in {"begin", "root", "children"} /\ via'[engine'] = Shared
  BY DEF LocksAreHeld
<1> QED
  BY <1>2, <1>3, <1>4 DEF LocksAreHeld

\* A thread begins to write only when it does not hold the mutex.
LEMMA NewHeld ==
  ASSUME IInv, LocksAreHeld, NEW t \in Thread, NEW c, NEW m, NEW replaces, pc[t] = "idle",
         NewAs(t, c, m, replaces)
  PROVE  LocksAreHeld'
<1>1. /\ pc' = [pc EXCEPT ![t] = "begin"] /\ via' = [via EXCEPT ![t] = c]
      /\ UNCHANGED lockVars /\ engine' = engine
  BY DEF NewAs, Prepare
<1>2. engine \in (Thread \ {t}) \cup {Nobody}
  BY DEF LocksAreHeld, IInv, TypeOK, Thread, Automation
<1>3. \A u \in Thread \ {t} : pc'[u] = pc[u] /\ via'[u] = via[u]
  BY <1>1 DEF IInv, TypeOK
<1> QED
  BY <1>1, <1>2, <1>3, LocalHeld DEF Inside

\* Each statement of a transaction leaves whoever has a lock on the way to letting go of it.
LEMMA TransactionHeld ==
  ASSUME IInv, LocksAreHeld, NEW t \in Thread, Transaction(t)
  PROVE  LocksAreHeld'
<1> USE DEF IInv, TypeOK
<1>1. CASE Begin(t)
  <2>1. /\ pc[t] = "begin" /\ pc' = [pc EXCEPT ![t] = "root"] /\ via' = via /\ engine' = engine
        /\ writer' = writer /\ inTransaction' = inTransaction \cup {via[t]}
    BY <1>1 DEF Begin, localVars
  <2>2. writer' # Nobody => \E u \in Thread : pc'[u] = "children" /\ via'[u] = writer'
    BY <2>1 DEF LocksAreHeld
  <2>3. \A c \in inTransaction' : \E u \in Thread : pc'[u] \in {"root", "children"} /\ via'[u] = c
    BY <2>1 DEF LocksAreHeld
  <2>4. engine' # Nobody => pc'[engine'] \in {"begin", "root", "children"} /\ via'[engine'] = Shared
    BY <2>1 DEF LocksAreHeld, Thread, Automation
  <2> QED
    BY <2>2, <2>3, <2>4 DEF LocksAreHeld
<1>2. CASE Root(t)
  <2>1. /\ pc[t] = "root" /\ pc' = [pc EXCEPT ![t] = "children"] /\ via' = via /\ engine' = engine
        /\ writer' = via[t] /\ inTransaction' = inTransaction
    BY <1>2 DEF Root
  <2>2. writer' # Nobody => \E u \in Thread : pc'[u] = "children" /\ via'[u] = writer'
    BY <2>1
  <2>3. \A c \in inTransaction' : \E u \in Thread : pc'[u] \in {"root", "children"} /\ via'[u] = c
    BY <2>1 DEF LocksAreHeld
  <2>4. engine' # Nobody => pc'[engine'] \in {"begin", "root", "children"} /\ via'[engine'] = Shared
    BY <2>1 DEF LocksAreHeld, Thread, Automation
  <2> QED
    BY <2>2, <2>3, <2>4 DEF LocksAreHeld
<1>3. CASE Child(t)
  BY <1>3 DEF Child, LocksAreHeld, lockVars
<1>4. CASE Commit(t)
  BY <1>4, GoneHeld DEF Commit
<1>5. CASE BeginNested(t) \/ RootBusy(t) \/ ChildConstraint(t)
  BY <1>5, AbortHeld DEF BeginNested, RootBusy, ChildConstraint
<1>6. CASE RootConstraint(t) \/ CommitFails(t)
  BY <1>6, ThrowHeld DEF RootConstraint, CommitFails
<1> QED
  BY <1>1, <1>2, <1>3, <1>4, <1>5, <1>6 DEF Transaction

\* RequirementEngine's mutex goes to a handler that is about to write.
LEMMA HandleHeld ==
  ASSUME IInv, LocksAreHeld, NEW h \in Handler, Handle(h)
  PROVE  LocksAreHeld'
<1>1. h \in Thread
  BY DEF Thread, Automation
<1>2. CASE CopyFrom(h)
  <2>1. /\ pc' = [pc EXCEPT ![h] = "save"] /\ via' = via /\ engine' = engine /\ engine = Nobody
        /\ UNCHANGED lockVars /\ ~Inside(h)
    BY <1>2 DEF CopyFrom, localVars, Inside
  <2> QED
    BY <1>1, <2>1, LocalHeld DEF IInv, TypeOK
<1>3. CASE Save(h)
  <2>1. /\ pc' = [pc EXCEPT ![h] = "begin"] /\ via' = [via EXCEPT ![h] = Shared] /\ engine' = h
        /\ UNCHANGED lockVars /\ ~Inside(h)
    BY <1>3 DEF Save, Prepare, Inside
  <2> QED
    BY <1>1, <2>1, LocalHeld DEF IInv, TypeOK
<1>4. CASE \E i \in Item : Play(h, h, i)
  BY <1>1, <1>4, NewHeld DEF New, Play
<1>5. CASE \E new \in Posted, n \in Renamed : AlsoSave(h, new, n)
  BY <1>1, <1>5, NewHeld DEF New, AlsoSave
<1>6. CASE \E new \in Posted, l \in List, n \in Renamed, overwrite \in BOOLEAN :
             PlaylistUpdate(h, l, n, new, overwrite)
  BY <1>1, <1>6, NewHeld DEF New, PlaylistUpdate
<1> QED
  BY <1>2, <1>3, <1>4, <1>5, <1>6 DEF Handle

\* Every step leaves whoever has a lock on the way to letting go of it.
LEMMA NextHeld == ASSUME IInv, LocksAreHeld, [Next]_vars PROVE LocksAreHeld'
<1>1. CASE MainThread
  BY <1>1, NewHeld DEF New, MainThread, Play, LockByName, Thread, Automation
<1>2. CASE Fault
  <2>1. CASE Restart
    BY <2>1 DEF Restart, LocksAreHeld, lockVars, localVars
  <2> QED
    BY <1>2, <2>1, AbortHeld DEF Fault, LoadBusy, Kill
<1>3. ASSUME NEW a \in Acmd, Maintain(a)
      PROVE  LocksAreHeld'
  BY <1>3, NewHeld DEF New, Maintain, AcmdLoad, AcmdList, Thread
<1>4. CASE UNCHANGED vars
  BY <1>4 DEF vars, lockVars, localVars, LocksAreHeld
<1> QED
  BY <1>1, <1>2, <1>3, <1>4, TransactionHeld, HandleHeld DEF Next

\* Nothing stays locked by somebody who is not going to let go, whatever fails, throws or is killed.
THEOREM LocksReturn == Spec => []LocksAreHeld
<1>1. Init => LocksAreHeld
  BY DEF Init, LocksAreHeld
<1> QED
  BY <1>1, Invariant, NextHeld, PTL DEF Spec
=============================================================================
