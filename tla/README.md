# Verification of rct-automation

rct-automation runs a radio station without people: it plays music until the next scheduled
requirement, runs the requirement on time, and lets a person take over through a web API. This
directory holds TLA+ models of it, the TLC runs that check them, and proofs checked by TLAPS. Paths
below are relative to `src/`.

## Inventory

| Part | Its state | Its operations | What makes it correct |
|---|---|---|---|
| Main loop: `AutomationState` (automationstate.cc), `main` (automation.cc) | `override_`, `override_playlist_`, `mainshow_`, `bumperlist_`, `shutdown_requested`; RunOnce's locals `deadline`, `gap`, the block | `RunOnce`, `ManualOverride`, `ResetBumpers`, `SetMainshow`, the signal handler | What is played between deadlines ends in time; blocks start within their gaps; override and shutdown take hold; nothing starves a block |
| `RequirementEngine` (requirementengine.cc) | `schedule_`, `internal_time_` | `EffectiveSchedule`, `IsDue`, `FillNext`, `RunBlock`, `HandleReboot`, `CopyFrom`, `set_time`, load and save | The first thing due is planned, waited for and run in order, also after the schedule is replaced; the internal time moves on only as blocks ask, and goes back only after a person |
| Schedule commands (actions.cc) | none of their own | NO_OP, PLAY_FILES, LEGAL_ID, SET_MAINSHOW | Each plays what its requirement names |
| `MplayerSession` (mplayersession.cc) | `mutex_`, the two pipes, `mplayer_pid_`, `last_alive_`, `state_mutex_`, `state_`, and the mplayer process | `Play`, `GetProperty`, `Pause`, `Unpause`, `Stop`, `SetSpeed`, `Seek`, `MergeState` | One process at a time, reaped; a dead one is killed; the state shown is the player's; no use of a closed pipe |
| `Playlist` (playlist.cc) | the ids, the table they were fetched from, a mutex | `Fetch`, `PopFront`, `PopWithTimelimit`, `ApplyMergeRequest`, `Filter`, `Save` | No id is lost or played twice between threads; nobody waits for ever |
| Web API (webapi.cc, http.cc) | one command object per resource, with the request's parameters in its members | /override, /player, /playlist, /requirements, /sql | A request acts on its own parameters; the two copies of the schedule agree |
| Storage (messagestore.cc, protostore.h, playableitem.cc, db.cc) | the SQLite tables | fetch, replace, transactions, play counts, the weighted pick | A reader sees whole messages; what was answered stays; what was appended is not lost to other writers |
| `acmd` (acmd-main.cc) | stdin, the same database, in another process | load, append, replace, setup | The playlist is what was asked for |

The main thread runs `main`, which calls `RunOnce` until a shutdown is requested. `RunOnce` asks the
engine for the next deadline, runs the block through the commands' callbacks, or chooses a track and
plays it in the `MplayerSession`, where it stays until the track is over. The web server's threads
call the handlers, which change the override flag, the three live playlists, the schedule and the
player while the main thread is anywhere in this loop; signals set the shutdown flag.

Hard here are: the clock that moves between a decision and its use; the web threads between any two
statements of the main loop; the advance arithmetic of the internal time; the pipes to a process
that can hang, die or answer late; handlers that look at shared state without its lock; members that
all requests to a resource share; and several SQLite connections, one of them shared by threads, whose
statements can fail or be cut short by the end of a process. `PROJECT.json` lists the hazards line by
line.

## Modules

| Level | Detailed | Abstract | Composition | TLC | Proofs |
|---|---|---|---|---|---|
| Main loop | Automation (with RequirementEngine) | Agenda | | MCAutomation | AutomationProofs, AutomationSafety, AutomationAgenda |
| Player | MplayerSession | Player | | MCMplayerSession | MplayerSessionProofs |
| Live lists | Playlist | | WebCommand | MCWebCommand | PlaylistProofs, WebCommandProofs |
| Database | Store (with Rows) | AtomicStore | | MCStore | StoreProofs, AtomicStoreProofs |

- **RequirementEngine**: the schedule arithmetic as operators. `IsDue`, `DueTimes` (the scan of
  FillNext), `BlockAt`, `GapsAt`, `RebootBlock`, `AdvanceStep` (one round of RunBlock).
- **Automation** extends it: main loop, engine state, commands, web handlers, signals and clock as
  one state machine. `pc` is the main thread's next statement; each place where another thread or
  the clock can invalidate what was read is a step. The actions under *The main thread* follow
  `RunOnce` from top to bottom: `LoopTest`, `Override...`, `CheckBumpers`, `FillNext`, `BeginBlock` or
  `NotYet`, `RunRequirement`, `PlayFile`, `EndBlock`, `PopMainshow`, `AbandonMainshow`, `PopBumper`,
  `SleepOrSpin`, and `PlayStart` to `PlayEnd` for whoever selected a track. /player/pause is two
  steps, as in the code: `PauseTest` reads the override flag, `PlayerPause` toggles the player, if one
  plays by then, whatever has become of the flag.
- **Agenda** is what main loop and engine together promise the schedule, with the clock, the engine's
  time, the schedule, one plan (its second, what of it is still to run, and its stage) and whether a
  person wants the station and has got it: the first due second is planned with all that is due then,
  waited for, not passed over once it has come, and run one requirement after the other in the order of
  the schedule. It does not promise that all that comes due is run. The engine's time moves in three
  ways: after a block one of whose requirements has a negative advance, the default, it goes to the
  clock, and what came due while the block ran is skipped (`CatchUp`); after any other block it goes
  some seconds on, whatever else was due in them (`Advance`); and when the station has given way to a
  person, it goes to the clock, back or on (`Skip`). A block that took no time can be planned again
  within its second. Automation implements Agenda (`KeepsAgenda`, an INSTANCE with `stage <- StageOf`, a
  function of `pc`, or of the track's origin while one plays, `rejoins <- advance < 0`, and
  `wanted <- Yielding`, `yielded <- didAnything`). Most of the loop is a stutter of Agenda.
- **MplayerSession**: Play's own steps, GetProperty's select and fgets with the kernel's pipe
  (`answers`) and stdio's buffer (`buffer`) apart, the handlers that share the session, and mplayer as
  an environment that serves, hangs, recovers and exits. **Player** is the abstract specification of a
  session: start, die, reap, pause, end. `MplayerSession` implements it (`KeepsPromise`, an INSTANCE
  with `playing <- open`); `Automation` uses the player at `Player`'s level, with the seconds left.
- **Playlist**: one list that threads share. A fetch is `SetTable`, `FetchLock`, then `FetchRows`, or
  `NoSuchTable` when another fetch has reset the name; a pop is `PopScan` and `PopTake`, for the item's
  row is fetched while the iterator points into the list; a merge is `MergeClear`, `MergeSize` and
  `MergeEntry`, without the lock, as `MergeFrom` appends at the size that it has read.
- **WebCommand** extends Playlist: handler threads at the one object of /playlist. `SetParams`,
  `SetRequest` and `SetWriter` are the three assignments of http.cc:46-48; `LoadMessage`, `Find`,
  `Return` read the members again; `Receive`, `Find` and `Merging` are Playlist's steps as well, and
  `SetMainshow` and `MainPops` those of other threads. The composition implements Playlist by
  EXTENDS, which `WebImplementsPlaylist` proves.
- **Rows**: rows as values, and what REPLACE, UPDATE, the unique names and the foreign keys do to
  them. **Store**: InsertOrReplace statement by statement (`Begin`, `Root`, `Child`, `Commit` and the
  ways each fails) by main, handlers and acmd processes over their connections; `CopyFrom` and `Save`
  of the schedule, `Play`'s count, `LockByName`, `PlaylistUpdate`, `AlsoSave`, `AcmdLoad`, `AcmdList`;
  `Kill`, `LoadBusy` and `Restart`. **AtomicStore** is what a reader is promised: whole messages, and hence the
  tables' constraints (`Consistent`). Store implements it with the committed `rows` and `ids`
  (`WritesWhole`).
- **MC...** give the constants values; **...Proofs**, **AutomationSafety** and **AutomationAgenda** hold
  the proofs.

### How the state corresponds

| Model | Code |
|---|---|
| `now`, `internal_time`, `deadline`, `gap`, `advance` | seconds; `time(NULL)` and the variables of these names |
| `block` | the requirements of FillNext's result that are still to run, keyed by schedule position |
| `mainshow`, `bumperlist`, `overrideList` | the unplayed ids; a fetch shuffles, so it is any order of the tracks |
| `files`, `item` | PlayFilesCommand's loop and the PlayableItem it reuses |
| `track`, `paused` | what is selected or playing: origin, seconds left, speed |
| `pausing` | the handlers of /player/pause that have found override on and have not called `Pause` yet |
| `autoSelections`, `skippedUntil`, `touched`, `synced`, `followed` | history variables: no action's guard reads them |
| `mutex`, `open`, `pid`, `eof`, `silent` | `mutex_`; the streams are not NULL; the pid is not -1; `feof`; time since `last_alive_` |
| `process`, `frozen`, `hung`, `commands` | mplayer: its process state, its real pause, whether it answers, its input pipe |
| `seen` | the process whose pid a Stop has tested still exists |
| `list`, `hand`, `moved` | `canonical_`'s ids (0 when popped, as in the code), the pop's iterator, whether the array moved under it |
| `op`, `entry`, `at` | a thread's operation at the list, the entry it brings, the size its merge has read |
| `params`, `request`, `writer` | `params_`, `request_`, `writer_` of the command object |
| `wc`, `asked`, `serving`, `page` | a handler's next statement, its arguments, its request's number, what its writer has been given |
| `rows`, `ids`; `newRows`, `newIds` | the committed tables; the open write transaction's version |
| `writer`, `inTransaction`, `via` (Store) | SQLite's write lock; connections between BEGIN and its end; a thread's connection |
| rows of `Lock` | PlaylistLock, a row for each locked name (FLAGS_bumpers, automationstate.cc:184; FLAGS_legalid, actions.cc:91) |
| `schedule`, `engine`, `failure` | `schedule_`, RequirementEngine's `mutex_`, why automation has ended |
| `made`, `played`, `dropped`, `raced`, `together`, `wrong`, `issued`, `mine`, `acked`, `clears` | history variables, apart from the numbers that `made`, `issued` and `mine` give out |

### What is abstracted

- Calendar times: `Localtime` is a constant operator, so the proofs hold for any calendar; the runs
  use a clock with six-second minutes. The clock never goes back.
- A list operation of a web handler is one step on the list in Automation, and several in Playlist.
  `OverrideDisable` is one step in Automation and four in MplayerSession.
- Playlist is mainshow in the composition; the override and bumper lists are the same class, and
  /playlist/all reads like a fetch of a stored list. A fetch brings one entry or none: entries are
  followed one by one, and a second one of the same fetch would behave as the first. What a copy reads
  beside a merge without a lock is undefined and is not looked at.
- A request that the web server gives up on, connections and TLS are pion's. `Tear` is what two threads
  make of a shared_ptr or a map of which one is assigning: a crash, or anything the other steps allow.
- SQLite is external: one writer at a time, readers that can make a COMMIT fail, no busy timeout
  (none is set in db.cc:32-46), foreign keys on, AUTOINCREMENT. A statement on the shared connection
  while another thread's transaction is open there would read that transaction's rows; reads of
  Store see committed rows only.
- Data: names, files and answers are model values; of mplayer's properties, `pause` and one
  more (`time_pos`) are enough to have an answer that is not the expected one.
- `state_mutex_` is held for single steps: whoever holds it waits for nothing. Seek's and SetSpeed's
  commands are not followed through the pipe; their effect on the track is in Automation.
- `/requirements/runonce` plays in a session of its own; Automation has the one command of it that
  changes the main thread's state, SET_MAINSHOW.
- Pids and descriptors that the system gives out again, and 32-bit time, are not modelled.

## Runs

| Run | Question | Bounds |
|---|---|---|
| schedule | With nobody around, are tracks and blocks on time, is nothing overlooked by the scan, is what is planned run in order and not before its second, and the engine's time moved as each block asks? Types. | A schedule of every command, a reboot block, implicit legal ID, a missing file, tracks of 1, 2 and 5 s; `MaxTime` 26 covers over two of the clock's 12-second hours; `Delay` 2 |
| reschedule | A person replaces the schedule, enables, disables, pauses, seeks, stops and queues at any step: is the new schedule followed from the next pass on, do skipped requirements stay skipped, does the internal time stay monotone? | Two schedules, with deadlines at 1, 2 and 4 and advances of -1 and 3; an id without a row is posted; requests until 1, clock until 6 |
| liveness | Under fairness, with a person about: does a shutdown finish, is a block reached? Does override take hold, is the schedule kept to? | One deadline at 2, a track posted, requests until 1, clock until 9 |
| session | A handler at any step of Play: is Player's promise kept, no closed pipe written to? Under fairness: is a mute player killed, does the pause shown settle, does the handler get the lock? Types. | One handler, `Timeout` 1 pass, `MaxBacklog` 1 |
| store | Main, handlers and acmd at one file, with everything that can fail: are messages whole, acknowledged schedules safe, appended ids not lost, constraints satisfied, locks let go of? Types. | Two handlers, one acmd, two lists, three items of which two are loaded, one lock row, `MaxWrites` 3 |
| requests | Two handlers in one command, the main thread beside them: entries played once, fetches that end nothing, own answers, every request answered? Types. | Two requests of four kinds, two entries |
| auto_pause | *apidocs.txt:85-86*: /player/pause does nothing outside of override mode | violated: override goes off between test and pause |
| disable | *apidocs.txt:13*: /override/disable turns override off | violated |
| first_answer | *mplayersession.cc:43*: a dead player gets its seconds | violated |
| stop_race | *mplayersession.h:51-52*: mutex_ is held by whoever touches the player | violated |
| thread_safe | *automationstate.h:31*: the state "is thread safe" | violated: a BEGIN inside another thread's transaction |
| request_mix | *apidocs.txt:21*: /playlist/fetch returns the list that is asked for | violated: the members of another request |

**Bounds.** `MaxTime` stops the clock, `LastRequest` is the last instant of a request (so that a run
ends in an undisturbed stretch in which the effects show), `Delay` is the number of ticks that may
pass within one pass outside of Play and sleep, `MaxLeft` is what a seek can leave of a track,
`MaxQueue` the entries of a list the API has added to, `MaxPausing` the pauses on their way at the same
time. The deadlines lie well inside `MaxTime`, every
filler track is shorter and longer than some remainder, and requests arrive before, at and after the
deadline. `Timeout` counts passes of Play's loop, so 1 means that a second silent pass kills.
`MaxBacklog` limits when a player may hang and when a pause may be asked for; a query that times out
still leaves its answer behind, so late answers pile up beyond it, and toggles get between a
question and its answer, also with a bound of 1. `session` has one handler because liveness with two
is out of reach (3.4 million states); for more handlers the safety properties are proved.
`MaxWrites` counts messages: two saves of the schedule and a message of another thread already meet
at every statement, and a row written in an earlier message is renamed or replaced by a later one.
`MaxRequests` 2 lets each of two handlers be anywhere in the command while the other one is; a second
request on the same thread finds the members of the first. `MaxEntries` 2 is a pop beside an entry that
arrives.

**Deadlock** is checked in the session's runs, where something can always happen. Automation's runs
stop at `MaxTime`, at a shutdown or at an abort, the others when the bounds on messages, requests and
entries are used up or automation has ended, so they do not check it; that no request waits for ever is
`EveryRequestAnswered`.

**Fairness.** Automation: weak for the main thread, which is always scheduled, and strong for `Tick`.
Strong, because a player that dies at once makes the loop spin through Play, where time passes all
the same: Play waits 250 ms (mplayersession.cc:140) before it looks at the process again. Nothing is
assumed of people, signals or players. `ShutdownFinishes` leaves out paused players, which can hold a
track for ever. MplayerSession: strong for the main thread's and each handler's steps, since
both wait for `mutex_`: Play gives it up for 250 ms in each pass ("for any other client to grab the
mplayer session", mplayersession.cc:140), and nobody holds it for long. Weak for an mplayer that is
not hung. None for requests, for hanging, recovering, exiting or signals. WebCommand: strong for each
thread that has begun something, since it waits for `mutex_`, which comes free after a single
database read; a boost mutex does not starve a waiter for ever on the systems automation runs on.
None for requests, for the main thread's next pop or fetch, or for `Tear`. Store has safety properties
only.

**What the passing runs show.** Fillers end by the deadline, plus the gap and the delay of their pass
(`OnTime`); blocks start in their gaps, but only for the gaps of the deadline's own requirements and
while nothing has moved the engine off the wall clock (`BlockStartsInGap`, `synced`); the scan skips no
due second (`NothingOverlooked`); a schedule that is replaced under a pass is followed from the next
pass on: no later plan or block is one of the old schedule's (`ReplacementFollowed`); only
ManualOverride moves the internal time back (`InternalTimeMonotone`); what came due under a person never
comes back (`SkippedStaysSkipped`); after an enable one automatic choice may still slip through, never
two (`OverrideBound`); shutdowns end the process and blocks are reached (`ShutdownFinishes`,
`BlockRuns`, both for players that nobody pauses: a pause can outlast override mode, see `auto_pause`).
What the loop has looked up is what it runs, at its second or later and in order, and the engine's time
jumps to the clock at the end of a block that asks for it, or after a person, and never else
(`KeepsAgenda`; in `schedule` and `liveness`, since `reschedule`, with its replaced schedules, would
take too long: the theorem covers it). That a block with the default advance skips what comes due while
it runs is the code's behaviour (requirementengine.cc:143-145), which no property forbids. A block with
the default advance leaves the engine at its second or later, and only an advance of 0 leaves a later
clock alone (`BlockIsBehind`). In the session, a write under `mutex_` always finds an open pipe, a
process is never started beside another or left unreaped, and a pause does not outlive its track
(`KeepsPromise`); a mute player is killed although old answers count as life signs while they last
(`MuteIsKilled`); late answers can show an old pause for some passes, but not for ever
(`PausedSettles`). In the database, no interleaving, constraint, busy answer, kill or restart leaves
half of a message (`WritesWhole`): ids appear with their row. What the tables declare holds in all that
is committed (`StaysConsistent`), although the lock is checked at COMMIT only and acmd and the handlers
write to the same rows, and whoever fails, throws or is killed leaves no lock behind (`LocksAreHeld`). A
handler that has answered an update of the schedule will not see an older one come back
(`AckedSurvives`): Save writes `schedule_` as it is in memory under the lock, not the update it came
with; written the other way round two updates could be saved in the wrong order (the mutant of the
property). What one process appends to a list is not lost to another that writes the list from an older
copy (`AppendsStay`, which leaves out what is documented to take ids away: a replace, an overwrite, and
a rename over another list; what these really do is below). At the live lists, entries are played once
while merges stay apart from other operations (`EachOnce`), only overlapping fetches can end automation
(`FetchesApart`), a request that meets no other gets its own answer (`AloneIsRight`), and all requests
are answered (`EveryRequestAnswered`). The three conditions (merges apart, fetches apart, alone in the
command) stand where the code has no lock.

## Divergences

Those with a run, from `PROJECT.json`: /override/disable of a paused player sleeps in the C library's
`pause()` (disable); a player's first answer is due in the first pass of its track after a silence
(first_answer); Stop can kill a pid that is no longer its player's, -1 included (stop_race); a track
that starts while a schedule is saved ends automation, since both begin a transaction on the same
connection (thread_safe); requests to one resource mix (request_mix); a pause that was asked for in
override mode stops the player in automatic mode (auto_pause).

Read in the code, without a run:
- requirement.proto:39-40 wants every block to advance the internal time by a second at least, "to avoid
  endless loops"; with the default advance of -1 it is set to the clock (requirementengine.cc:145), so
  that a block which takes no time is run again within its second. Requirements with advances of -1 and
  then 0 make a block of advance 0 (the maximum, requirementengine.cc:134), which leaves the internal time
  where it is: the block is found and run again until a person enables override.
- requirement.proto:34-35: a positive advance is added to the internal time that the block was searched
  from (requirementengine.cc:148), not to the block's second. With an internal time of 5, a requirement
  at 14 and an advance of 2 the block is run five times, until the internal time is 15.
- README:53: FillNext looks one week past the internal time (requirementengine.cc:109), which moves
  only with blocks and override: when nothing is due for a week, a later requirement is not found.
- requirement.proto:43: PLAY_FILES ignores what Fetch returns (actions.cc:72-73), so the previous file
  is played in place of one that has no row.
- README:129-130, playlist.proto:13-15: a playlist is to be picked with probability weight/sum. The view
  (db.cc:83-86) draws r from 1 to the sum over all rows, childless ones too, keeps the lists
  whose running sum reaches r and takes the heaviest: of weights 1, 2, 3 in this order of ids the last is
  always picked, and with a childless list of some weight at the end there may be none to pick.
- README:53: what comes due while a block runs is not run, with nobody about, if one of the block's
  requirements has a negative advance, the default: the engine goes to the clock (requirementengine.cc:145).
  A LEGAL_ID at 11 that lasts 2 s drops the implicit one of 12. requirement.proto:35-36 says that the time
  is set to the clock; that this drops requirements is said nowhere.
- README:109-111 says that acmd's replace clears the playlist first; apidocs.txt:71-76 that an update can
  rename a list and so delete another one. REPLACE writes the root row anew beside the ids, which the
  statements after it only add to (messagestore.cc:187-221): neither acmd's replace nor an update with
  overwrite takes an id out of a stored list, and the foreign keys refuse to delete a list that has ids.
- apidocs.txt:56-60: alsosave "should work fine with fetchall"; the copy keeps the name `ALL TRACKS`
  (webapi.cc:156-158), so the second one meets the first and its foreign keys.
- An id without a row, posted to a stored list, ends automation: finalizing the failed statement returns
  the error (messagestore.cc:208) and the CHECK around it fails before the rollback and the exception.
- protostore.h:113 says that `mutex_` guards `canonical_`; ApplyMergeRequest does without
  (playlist.cc:100-110), and the first SetTable of a fetch is outside of it (playlist.cc:144, 154, 164).
- requirement.proto:37-38 wants the largest advance of a block; requirementengine.cc:131 lets a
  negative one replace a positive one before it.
- A gap holds for the next deadline's requirements only (requirementengine.cc:116): a tighter one a
  second later is not looked at.
- apidocs.txt:8-9: override selects from the override list only; the choice already being made
  (automationstate.cc:87) and a running block go on.
- apidocs.txt:28-30: with a mainshow left in which nothing fits, bumpers are played however far the
  deadline is (automationstate.cc:99).
- README:65-67: with no track short enough, LEGAL_ID plays an empty item (actions.cc:98).
- README:84-90 sleeps before it tries bumpers; the code tries bumpers first.

## Proofs

TLAPS checks the theorems for all values of the constants that satisfy the named assumptions
(`EngineAssumption`, `AutomationAssumption`, `SessionAssumption`, `PlaylistAssumption`,
`WebAssumption`, `RowsAssumption`, `StoreAssumption`), which TLC evaluates in the runs.

**Automation.** `TypeCorrect` (AutomationProofs) proves the type invariant, one lemma per group of
actions. AutomationSafety proves the rest from one inductive invariant, `IInv`: `TypeOK`; `Control`,
which ties pauses and selections to statements of the main thread; `OnTime`, which is inductive once
`Control` says which tracks are fillers; `Skipped`, which adds to SkippedStaysSkipped that the internal
time has passed the skip, the reason why later deadlines do; `BlockAhead`, that the engine is not ahead
of the deadline it waits for nor, in a block, of the clock, without which a negative advance could move
it back; `Overridden`, which counts the choice still in the making; and `InTime`, which says at each
statement how late the first due second can be (`Late`) and that the deadline is the first one
(`Fresh`). From it: `FillersEndOnTime`, `BlocksStartInGap`, `NothingOverlookedInWindow` (within the
window; outside of it the property fails, see above), `SkippedForGood`, `InternalTimeAdvances`,
`OverrideTakesHold`. AutomationAgenda proves on top of `IInv` that Automation implements Agenda
(`AgendaKept`), one lemma per group of the loop's statements: those that plan, begin and serve a block
are `Plan`, `Run` and `Serve`, its end `CatchUp` or `Advance`, those of ManualOverride its `GiveWay`,
`Turn`, `Skip` and `GoOn`, the others stutter. `BlockAhead` is what `CatchUp` needs: with a negative
advance the engine goes to a clock that it is not ahead of. `ReplacementsFollowed` rests on Agenda's
steps: `ReplacementFollowed` is inductive with `IInv`, since only LoopTest sets `followed`, at a stage
without a plan, only RequirementsUpdate changes the schedule, and it clears `followed`, and of the
others `Plan` alone makes a plan, of the schedule there is. `BlocksStayBehind` needs one invariant more,
`Begun`: during a block the clock has reached the block's second. `BlocksAdvance` shows when the endless
block of advance 0 (see Divergences) cannot come about: if no requirement has an advance of 0
(`NoNought`, an assumption of this theorem about the schedules, true of the default), RunBlock's maximum
is never 0 on its way through a block (`Advancing`), and every block moves the engine on or leaves it on
the clock.

**MplayerSession**, for any number of handlers. `IInv` is `TypeOK`, `Discipline` (who is inside
`mutex_` is known from the statements) and `Stages` (what pipe, process and pause are at each stage
of Play). `SessionTypeCorrect`; `PipeStaysOpen`, inductive relative to `Discipline`, because only the
main thread closes the pipe and it holds the lock then; `PromiseKept`, the refinement of Player:
`Start` needs from `Stages` that the previous process is gone, `End` that it has been reaped.

**Store**, for any threads, lists and items. `TypeCorrect` includes that the writer is in a transaction.
`IInv` adds `Apart` (processes use connections of their own), `Alone` (one thread between BEGIN and
COMMIT on a connection), `Written` (the writer's version is the committed one with the root row and the
ids written so far), `Order` (acknowledged <= stored <= in memory <= posted) and `Saver` (the schedule
being saved is the one in memory, for its thread holds RequirementEngine's lock across the transaction).
`AckedSchedules` is the first part of `Order`, which a Commit keeps by `Saver`. `WholeWrites` is the
refinement of AtomicStore: by `Written` a Commit is one `Write`, Restart is `Unlock`, and every other
step stutters. `AppendsAreKept` follows from `Written`: a commit adds the ids of its message to those
that are there then, not to those that its thread has read. AtomicStoreProofs shows `Consistent` to be
inductive in AtomicStore (`AlwaysConsistent`): REPLACE removes clashing rows only if nothing points to
them. The refinement carries it over to Store (`CommittedConsistent`), so that nothing about statements,
threads or kills has to be looked at again. `LocksReturn` goes through the actions: each way out of a
transaction, with an exception, a failed CHECK or a kill, gives up what was held, and by `Alone` it is
nobody else's. `RowsAssumption` says of the first database that no two items have one filename, which is
the unique index of db.cc:58.

**Playlist**, for any handlers. `PlaylistTypes`: who holds `mutex_` is known from the operations.
`EntriesOnce` from `Fresh` (an entry that is brought is nowhere else), `Pointing` (a pop's iterator is at
its entry, a merge has read the size that the list still has) and `Once`, which hold while merges stay
apart, and `HandRests`. `FetchesEndNothing` from `OneFetch`: with one fetch at a time the table's name is
that fetch's own.

**WebCommand**: `WebImplementsPlaylist`, hence `WebEntriesOnce` and `WebFetchesEndNothing`. `WebTypes`
and `AloneAnswered` from `WInv`: request numbers are distinct, of two handlers in the command both are
noted as together, and a handler that is alone has, stage by stage, set and read its own members
(`Members`, `Progress`).

**Only model-checked:** liveness (fairness and ENABLED are out of the prover's reach), the violated
properties, and NothingOverlooked under rescheduling beyond the window.

## Not modelled

- /sql (webapi.cc:116-137) runs any statement, so no property of the database would hold beside it.
- The weights of the weighted pick (a probability); any weighted list can be picked in Automation.
- /requirements/runonce plays in a session of its own; its SET_MAINSHOW is in Automation and WebCommand,
  its play counts in Store.
- Pids, descriptors (a leaked connection per block, actions.cc:78 and :100) and 32-bit values.
- The duration of a file, which a child process computes, matching by regular expression, the vendored
  JSON conversion, HTTP and TLS, formatting, logging and flags: input and output only.
