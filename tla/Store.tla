------------------------------- MODULE Store -------------------------------
(***************************************************************************)
(* The threads of automation and the acmd processes at one database file.  *)
(* Each InsertOrReplace of MessageStore is a transaction in steps: BEGIN,  *)
(* the root row, the ids of the repeated field one by one, COMMIT.         *)
(*                                                                         *)
(* A connection is named after the thread that opens it, but for Shared,   *)
(* main's connection, which the main thread's items and playlists and the  *)
(* RequirementEngine keep.  SQLite is external: one connection writes at a *)
(* time, COMMIT fails while another connection reads, and nobody waits,    *)
(* since no busy timeout is set.  A failed CHECK ends its process.         *)
(***************************************************************************)
EXTENDS Rows

CONSTANTS
  Main, Handler, Acmd,   \* automation's threads, and other processes
  Shared, Nobody,
  NewName,               \* "New Playlist 1", ...: the names GetNewlist tries, in order
  Posted, Renamed,       \* the sets of ids and the names that people post
  Weight,                \* the weights that acmd's setup is given
  MaxWrites              \* bound: the messages written

Automation == {Main} \cup Handler
Thread == Automation \cup Acmd
Connection == Thread \cup {Shared}

ASSUME StoreAssumption ==
  /\ Main \notin Handler \cup Acmd /\ Handler \cap Acmd = {}
  /\ Shared \notin Thread /\ Nobody \notin Connection
  /\ NewName \subseteq Name \cap Nat /\ Weight \subseteq Nat /\ MaxWrites \in Nat
  /\ Posted \subseteq SUBSET Item /\ Renamed \subseteq Name \cup {NoName}

VARIABLES
  rows, ids,             \* the database: what is committed
  newRows, newIds,       \* the writer's version of it
  writer,                \* the connection that holds SQLite's write lock
  inTransaction,         \* the connections between BEGIN and its end
  pc, via, msg,          \* each thread's next statement, its connection and its message
  row, left,             \* the message's row, and the ids still to be written
  schedule,              \* RequirementEngine's schedule_, as its update's number
  engine,                \* who holds RequirementEngine's mutex_
  failure                \* why automation ended, or "none"

\* History variables: the messages written so far, by whose count a schedule's update is known, each
\* handler's own update, the latest one that has been answered, and whether the message is to
\* replace what is in a list.
VARIABLES issued, mine, acked, clears

dbVars == <<rows, ids>>
writerVars == <<newRows, newIds>>
lockVars == <<writer, inTransaction>>
localVars == <<via, msg, row, left>>
history == <<issued, mine, acked, clears>>
vars == <<dbVars, writerVars, lockVars, pc, localVars, schedule, engine, failure, history>>

NoMessage == [key |-> Schedule, update |-> FALSE, name |-> NoName, value |-> 0, ids |-> {}]

Init ==
  /\ rows = FirstRows
  /\ ids = [k \in Key |-> {}]
  /\ newRows = rows /\ newIds = ids /\ writer = Nobody /\ inTransaction = {}
  /\ pc = [t \in Thread |-> "idle"] /\ via = [t \in Thread |-> t]
  /\ msg = [t \in Thread |-> NoMessage]
  /\ row = [t \in Thread |-> Schedule] /\ left = [t \in Thread |-> {}]
  /\ schedule = 0 /\ engine = Nobody /\ failure = "none"
  /\ issued = 0 /\ mine = [t \in Thread |-> 0] /\ acked = 0
  /\ clears = [t \in Thread |-> FALSE]

-----------------------------------------------------------------------------
(***************************************************************************)
(* How a thread, and a process, ends.                                      *)
(***************************************************************************)
Up(t) == t \in Automation => failure = "none"

\* The connections that go with the thread's process.
Process(t) == IF t \in Acmd THEN {t} ELSE Automation \cup {Shared}

\* The locals of threads go with them, and the writer's version with the writer's transaction.
Forget(T) ==
  /\ via' = [u \in Thread |-> IF u \in T THEN u ELSE via[u]]
  /\ msg' = [u \in Thread |-> IF u \in T THEN NoMessage ELSE msg[u]]
  /\ row' = [u \in Thread |-> IF u \in T THEN Schedule ELSE row[u]]
  /\ left' = [u \in Thread |-> IF u \in T THEN {} ELSE left[u]]
  /\ mine' = [u \in Thread |-> IF u \in T THEN 0 ELSE mine[u]]
  /\ clears' = [u \in Thread |-> u \notin T /\ clears[u]]
  /\ pc' = [u \in Thread |-> IF u \in T THEN "idle" ELSE pc[u]]
  /\ engine' = IF engine \in T THEN Nobody ELSE engine

ReleaseNone(connections) == \* mutant: no ROLLBACK
  inTransaction' = inTransaction \ connections /\ UNCHANGED <<writer, newRows, newIds>>
Release(connections) ==
  /\ inTransaction' = inTransaction \ connections
  /\ writer' = IF writer \in connections THEN Nobody ELSE writer
  /\ newRows' = IF writer \in connections THEN rows' ELSE newRows
  /\ newIds' = IF writer \in connections THEN ids' ELSE newIds

\* A process ends, by a CHECK that fails or an exception that nobody catches: its transactions are
\* rolled back, its memory is gone.
Abort(t, why) ==
  /\ UNCHANGED <<dbVars, schedule, issued, acked>>
  /\ Forget(Process(t) \cap Thread)
  /\ Release(Process(t))
  /\ failure' = IF t \in Acmd THEN failure ELSE why

\* ROLLBACK and a ConstraintException: the web server answers it, elsewhere nobody catches it.
Throw(t) ==
  IF t \in Handler
  THEN /\ UNCHANGED <<dbVars, schedule, failure, issued, acked>>
       /\ Forget({t}) /\ Release({via[t]})
  ELSE Abort(t, "constraint exception")

-----------------------------------------------------------------------------
(***************************************************************************)
(* InsertOrReplace.                                                        *)
(***************************************************************************)
\* A message is ready to be written over a connection.
Prepare(t, c, m) ==
  /\ pc' = [pc EXCEPT ![t] = "begin"]
  /\ via' = [via EXCEPT ![t] = c] /\ msg' = [msg EXCEPT ![t] = m]
  /\ UNCHANGED <<dbVars, writerVars, lockVars, row, left, failure>>

NewAs(t, c, m, replaces) ==
  /\ issued < MaxWrites /\ issued' = issued + 1
  /\ Prepare(t, c, m)
  /\ clears' = [clears EXCEPT ![t] = replaces]
  /\ UNCHANGED <<schedule, engine, mine, acked>>
New(t, c, m) == NewAs(t, c, m, FALSE)

Begin(t) ==
  /\ pc[t] = "begin" /\ via[t] \notin inTransaction
  /\ inTransaction' = inTransaction \cup {via[t]}
  /\ pc' = [pc EXCEPT ![t] = "root"]
  /\ UNCHANGED <<dbVars, writerVars, writer, localVars, schedule, engine, failure, history>>

\* BEGIN fails inside of a transaction, which another thread has begun on this connection.
BeginNested(t) ==
  /\ pc[t] = "begin" /\ via[t] \in inTransaction
  /\ Abort(t, "nested transaction")

RootBusy(t) ==
  /\ pc[t] = "root" /\ writer # Nobody
  /\ Abort(t, "busy")

RootConstraint(t) ==
  /\ pc[t] = "root" /\ writer = Nobody
  /\ \E k \in Targets(rows, msg[t]) : ~RootAllowed(rows, ids, k, msg[t])
  /\ Throw(t)

RootAlone(t) == \* mutant: BEGIN left out, so that the root row is committed on its own
  /\ pc[t] = "root" /\ writer = Nobody
  /\ \E k \in Targets(rows, msg[t]) :
       /\ RootAllowed(rows, ids, k, msg[t])
       /\ newRows' = WithRow(rows, k, msg[t]) /\ rows' = newRows'
       /\ row' = [row EXCEPT ![t] = k]
  /\ newIds' = ids /\ writer' = via[t]
  /\ left' = [left EXCEPT ![t] = msg[t].ids]
  /\ pc' = [pc EXCEPT ![t] = "children"]
  /\ UNCHANGED <<ids, inTransaction, via, msg, schedule, engine, failure, history>>
RootCleared(t) == \* mutant: the ids in the database are deleted before the message's are inserted
  /\ pc[t] = "root" /\ writer = Nobody
  /\ \E k \in Targets(rows, msg[t]) :
       /\ RootAllowed(rows, ids, k, msg[t])
       /\ newRows' = WithRow(rows, k, msg[t])
       /\ row' = [row EXCEPT ![t] = k] /\ newIds' = [ids EXCEPT ![k] = {}]
  /\ writer' = via[t]
  /\ left' = [left EXCEPT ![t] = msg[t].ids]
  /\ pc' = [pc EXCEPT ![t] = "children"]
  /\ UNCHANGED <<dbVars, inTransaction, via, msg, schedule, engine, failure, history>>
Root(t) ==
  /\ pc[t] = "root" /\ writer = Nobody
  /\ \E k \in Targets(rows, msg[t]) :
       /\ RootAllowed(rows, ids, k, msg[t])
       /\ newRows' = WithRow(rows, k, msg[t])
       /\ row' = [row EXCEPT ![t] = k]
  /\ newIds' = ids /\ writer' = via[t]
  /\ left' = [left EXCEPT ![t] = msg[t].ids]
  /\ pc' = [pc EXCEPT ![t] = "children"]
  /\ UNCHANGED <<dbVars, inTransaction, via, msg, schedule, engine, failure, history>>

Child(t) ==
  /\ pc[t] = "children"
  /\ \E i \in left[t] :
       /\ Exists(newRows, i)
       /\ newIds' = WithIds(newIds, row[t], {i})
       /\ left' = [left EXCEPT ![t] = @ \ {i}]
  /\ UNCHANGED <<dbVars, newRows, lockVars, pc, via, msg, row, schedule, engine, failure, history>>

\* The statement has failed, so finalizing it returns the error, and the CHECK around that fails.
ChildConstraint(t) ==
  /\ pc[t] = "children"
  /\ \E i \in left[t] : ~Exists(newRows, i)
  /\ Abort(t, "unknown id")

\* The handler of a schedule's update returns, so the client is told that it is done.
Acknowledged(t) ==
  IF msg[t].key = Schedule /\ mine[t] > acked THEN mine[t] ELSE acked

Commit(t) ==
  /\ pc[t] = "children" /\ left[t] = {}
  /\ LocksHold(newRows)
  /\ rows' = newRows /\ ids' = newIds
  /\ Forget({t}) /\ Release({via[t]})
  /\ acked' = Acknowledged(t)
  /\ UNCHANGED <<schedule, failure, issued>>

\* COMMIT fails: a lock's playlist is gone, or another connection is reading.
CommitFails(t) ==
  /\ pc[t] = "children" /\ left[t] = {}
  /\ Throw(t)

-----------------------------------------------------------------------------
(***************************************************************************)
(* What automation writes.                                                 *)
(***************************************************************************)
\* /requirements/update: the schedule in memory, then a copy of it for the database.
CopyFrom(h) ==
  /\ pc[h] = "idle" /\ Up(h) /\ engine = Nobody
  /\ issued < MaxWrites
  /\ issued' = issued + 1 /\ schedule' = issued + 1
  /\ mine' = [mine EXCEPT ![h] = issued + 1]
  /\ pc' = [pc EXCEPT ![h] = "save"]
  /\ UNCHANGED <<dbVars, writerVars, lockVars, localVars, engine, failure, acked, clears>>

SaveMessage == [NoMessage EXCEPT !.value = schedule]

SavePosted(h) == \* mutant: the posted schedule for the one in memory
  /\ pc[h] = "save" /\ engine = Nobody
  /\ engine' = h
  /\ Prepare(h, Shared, [NoMessage EXCEPT !.value = mine[h]])
  /\ UNCHANGED <<schedule, history>>
Save(h) ==
  /\ pc[h] = "save" /\ engine = Nobody
  /\ engine' = h
  /\ Prepare(h, Shared, SaveMessage)
  /\ UNCHANGED <<schedule, history>>

\* A track starts: the item as it was fetched, with its play count incremented.
Play(t, c, i) ==
  /\ pc[t] = "idle" /\ Up(t) /\ Exists(rows, i)
  /\ New(t, c, [key |-> i, update |-> TRUE, name |-> rows[i].name,
                value |-> rows[i].value + 1, ids |-> {}])

\* ResetBumpers and LEGAL_ID require a playlist each, and fail when there is none of that name.  A
\* lock that is taken again replaces its own row.
LockByName(c, n) ==
  /\ pc[Main] = "idle" /\ Up(Main)
  /\ \E k \in Lock :
       /\ LET named == {j \in Lock : Exists(rows, j) /\ rows[j].name = n}
          IN IF named = {} THEN ~Exists(rows, k) ELSE k \in named
       /\ New(Main, c, [NoMessage EXCEPT !.key = k, !.name = n])

\* What LoadById answers for a list that the view does not show, and when the database is busy.
NotFound(l) == ~Visible(rows, ids, l) \/ writer # Nobody

\* /playlist/update of a stored list: fetched, merged, replaced.  A list that is not found leaves a
\* message without an id.
PlaylistUpdate(h, l, renamed, new, overwrite) ==
  /\ pc[h] = "idle" /\ Up(h)
  /\ \/ /\ Visible(rows, ids, l)
        /\ NewAs(h, h, [key |-> l, update |-> FALSE, value |-> rows[l].value,
                         name |-> IF renamed = NoName THEN rows[l].name ELSE renamed,
                         ids |-> IF overwrite THEN new ELSE ids[l] \cup new], overwrite)
     \/ /\ NotFound(l)
        /\ New(h, h, [key |-> "new list", update |-> FALSE, value |-> 0,
                          name |-> renamed, ids |-> new])

\* The names that Fetch finds no list for.
FreeNames == {n \in NewName : ~\E l \in List : Visible(rows, ids, l) /\ rows[l].name = n}

\* /playlist/fetch with alsosave: the result becomes a new list, under its own name unless a filter
\* has made a result without one.
AlsoSave(h, result, name) ==
  /\ pc[h] = "idle" /\ Up(h)
  /\ \E n \in FreeNames :
       /\ \A other \in FreeNames : n <= other
       /\ New(h, h, [key |-> "new list", update |-> FALSE, value |-> 0,
                     name |-> IF name = NoName THEN n ELSE name, ids |-> result])

-----------------------------------------------------------------------------
(***************************************************************************)
(* What acmd writes.                                                       *)
(***************************************************************************)
\* load, for a file that has no row and can be played.
AcmdLoad(a, n) ==
  /\ pc[a] = "idle" /\ ~\E i \in Item : Exists(rows, i) /\ rows[i].name = n
  /\ New(a, a, [key |-> "new item", update |-> FALSE, name |-> n, value |-> 0, ids |-> {}])

\* replace, append and setup: the list as it was at the start, with the ids or the weight given.
AcmdList(a, n, command, new, weight) ==
  /\ pc[a] = "idle"
  /\ \E l \in List \cup {"new list"} :
       /\ IF l \in List THEN Visible(rows, ids, l) /\ rows[l].name = n
          ELSE ~\E k \in List : Visible(rows, ids, k) /\ rows[k].name = n
       /\ LET stored == IF l \in List THEN ids[l] ELSE {}
              kept == IF command = "replace" THEN {} ELSE stored
              value == IF l \in List THEN rows[l].value ELSE 0
          IN NewAs(a, a, [key |-> l, update |-> FALSE, name |-> n,
                          value |-> IF command = "setup" THEN weight ELSE value,
                          ids |-> IF command = "setup" THEN stored ELSE kept \cup new],
                   command = "replace")

-----------------------------------------------------------------------------
(***************************************************************************)
(* Faults: a lookup that finds the database busy, a kill, a restart.       *)
(***************************************************************************)
\* Load checks what reset returns, which is the step's error.
LoadBusy(t) ==
  /\ pc[t] = "idle" /\ Up(t) /\ writer # Nobody
  /\ Abort(t, "busy")

Kill(t) == Up(t) /\ Abort(t, "killed")

\* automation starts: it gives up its locks, unless the database is busy, and loads the schedule.
Restart ==
  /\ failure # "none" /\ failure' = "none"
  /\ rows' = IF writer = Nobody THEN Unlocked(rows) ELSE rows
  /\ newRows' = IF writer = Nobody THEN rows' ELSE newRows
  /\ schedule' = rows[Schedule].value
  /\ UNCHANGED <<ids, newIds, lockVars, pc, localVars, engine, history>>

-----------------------------------------------------------------------------
Transaction(t) ==
  \/ Begin(t) \/ BeginNested(t) \/ RootBusy(t) \/ RootConstraint(t) \/ Root(t)
  \/ Child(t) \/ ChildConstraint(t) \/ Commit(t) \/ CommitFails(t)

MainThread ==
  \E c \in {Shared, Main} :
    (\E i \in Item : Play(Main, c, i)) \/ (\E n \in Renamed \ {NoName} : LockByName(c, n))

Handle(h) ==
  \/ CopyFrom(h) \/ Save(h)
  \/ \E i \in Item : Play(h, h, i)
  \/ \E new \in Posted :
       \/ \E n \in Renamed : AlsoSave(h, new, n)
       \/ \E l \in List, n \in Renamed, overwrite \in BOOLEAN :
            PlaylistUpdate(h, l, n, new, overwrite)

Maintain(a) ==
  \/ \E n \in Name : AcmdLoad(a, n)
  \/ \E n \in Renamed \ {NoName}, new \in Posted :
       \/ AcmdList(a, n, "replace", new, 0) \/ AcmdList(a, n, "append", new, 0)
       \/ \E w \in Weight : AcmdList(a, n, "setup", {}, w)

Fault == Restart \/ \E t \in Thread : LoadBusy(t) \/ Kill(t)

Next ==
  \/ MainThread \/ Fault
  \/ \E t \in Thread : Transaction(t)
  \/ \E h \in Handler : Handle(h)
  \/ \E a \in Acmd : Maintain(a)

Spec == Init /\ [][Next]_vars

-----------------------------------------------------------------------------
(***************************************************************************)
(* Properties.                                                             *)
(***************************************************************************)
\* The type invariant.
TypeOK ==
  /\ rows \in [Key -> Row] /\ newRows \in [Key -> Row]
  /\ ids \in [Key -> SUBSET Item] /\ newIds \in [Key -> SUBSET Item]
  /\ writer \in inTransaction \cup {Nobody} /\ inTransaction \subseteq Connection
  /\ pc \in [Thread -> {"idle", "save", "begin", "root", "children"}]
  /\ via \in [Thread -> Connection] /\ msg \in [Thread -> Message]
  /\ row \in [Thread -> Key] /\ left \in [Thread -> SUBSET Item]
  /\ schedule \in Nat /\ engine \in Handler \cup {Nobody}
  /\ failure \in {"none", "nested transaction", "busy", "unknown id", "constraint exception",
                  "killed"}
  /\ issued \in Nat /\ mine \in [Thread -> Nat] /\ acked \in Nat
  /\ clears \in [Thread -> BOOLEAN]

\* Whatever other threads, other processes, constraints, a busy database and crashes do to its
\* statements, a message is in the database as a whole or not at all, as AtomicStore says.
Whole == INSTANCE AtomicStore
WritesWhole == Whole!Spec

\* The tables' constraints hold in all that is committed, although the locks are checked at COMMIT,
\* the ids one by one, and REPLACE removes rows: no list without its row, no id without its item,
\* no name twice, no lock without its playlist.
StaysConsistent == Whole!Consistent

\* Every lock is held by somebody who is going to let go of it: SQLite's write lock and an open
\* transaction by a thread that is in its midst, RequirementEngine's mutex_ by a handler that is
\* saving, whatever failed, threw or was killed.  Nothing else would ever unlock them.
LocksAreHeld ==
  /\ writer # Nobody => \E t \in Thread : pc[t] = "children" /\ via[t] = writer
  /\ \A c \in inTransaction : \E t \in Thread : pc[t] \in {"root", "children"} /\ via[t] = c
  /\ engine # Nobody => pc[engine] \in {"begin", "root", "children"} /\ via[engine] = Shared

\* A schedule that a client has been told is saved is not lost to an older one, although the copy
\* in memory, the copy in the database and the answer are three steps of several handlers.
AckedSurvives == acked <= rows[Schedule].value

\* What an append adds to a list is not lost to an append, a merge, a setup or a new list of other
\* threads and processes, which write whole copies of lists that they read before: only a replace
\* or an overwrite of the same list, or giving its name to another one, which deletes it, may take
\* ids out of it.
ReplacesNow(l) ==
  \E t \in Thread : clears[t] /\ pc[t] = "children" /\ pc'[t] = "idle" /\ row[t] = l
AppendsStay ==
  [][\A l \in List : ids[l] \subseteq ids'[l] \/ ReplacesNow(l) \/ ~Exists(rows', l)]_vars

(***************************************************************************)
(* What documentation says, and the code does not do.                      *)
(***************************************************************************)
\* automationstate.h: the state is thread safe, so its threads do not end each other.
ThreadSafe == failure # "nested transaction"
=============================================================================
