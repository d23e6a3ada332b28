-------------------------- MODULE AutomationSafety --------------------------
(***************************************************************************)
(* The safety properties of Automation, proved for every station.  Each    *)
(* property rests on an invariant that is inductive together with TypeOK;  *)
(* the lemma about its step takes the actions of Next one at a time.       *)
(***************************************************************************)
EXTENDS AutomationProofs

AutomaticPC == {"pop", "cutoff", "bumper", "timeleft"}
FromBlock == {"files", "legal"}

\* How the pieces of control state go together: only a playing track is paused, and a pause is
\* remembered; only a selection is played; ManualOverride selects only after it has noted that
\* it did anything; one pass of the loop is at most Delay ticks late.
Control ==
  /\ paused => touched /\ pc \in {"playing", "exited"}
  /\ touched /\ pc \in {"start", "playing"} => ~synced
  /\ pc \in {"start", "playing"} => track.src \in Filler \cup FromBlock \cup {"override"}
  /\ pc = "popfront" \/ (pc \in {"start", "playing"} /\ track.src = "override") => didAnything
  /\ lag <= Delay

\* A selection keeps where it came from, and a track in the database all its seconds.
LEMMA SelectedFields ==
  /\ \A src, i : Selected(src, i).src = src
  /\ \A src : \A i \in Track : Selected(src, i).left = Duration[i]
BY AutomationAssumption DEF AutomationAssumption, Selected

\* What a step of the main thread chooses when it starts the player.
LEMMA SelectFields ==
  \A src, i : Select(src, i) => track'.src = src /\ touched' = FALSE /\ pc' = "start"
BY SelectedFields DEF Select

\* Where the main thread goes on after a track, by where the track came from.
LEMMA AfterPlayFields ==
  /\ \A src \in Source : AfterPlay[src] \in {"override", "files", "run", "head"}
  /\ \A src \in Source : AfterPlay[src] = "override" <=> src = "override"
  /\ \A src \in Source : AfterPlay[src] \in {"files", "run"} <=> src \in FromBlock
  /\ \A src \in Source : AfterPlay[src] = "head" <=> src \notin FromBlock \cup {"override"}
BY DEF AfterPlay, Source, FromBlock

\* The process starts idle.
LEMMA ControlInit == Init => Control
BY AutomationAssumption DEF Init, Control, AutomationAssumption

\* No step of anyone takes these pieces apart.
LEMMA ControlStep ==
  ASSUME TypeOK, Control, [Next]_vars
  PROVE  Control'
<1> USE DEF Control, Filler, FromBlock, loopVars, listVars, engineVars, dueVars, blockVars,
            pauseVars, histVars, mainVars
<1>0. lag \in Nat /\ Delay \in Nat /\ track.src \in Source /\ pc \in PC
  BY AutomationAssumption DEF TypeOK, AutomationAssumption, Selection
<1>1. CASE LoopTest \/ OverrideTest
  BY <1>0, <1>1 DEF LoopTest, OverrideTest
<1>2. CASE OverridePlay
  BY <1>0, <1>2, SelectFields DEF OverridePlay
<1>3. CASE OverrideIdle \/ OverrideLeave \/ CheckBumpers \/ FillNext \/ BeginBlock \/ NotYet
  BY <1>0, <1>3 DEF OverrideIdle, AfterIdle, OverrideLeave, CheckBumpers, FillNext, BeginBlock,
     NotYet
<1>4. CASE RunRequirement
  <2>1. pc = "run" /\ ~paused /\ UNCHANGED <<paused, lag, didAnything, synced>>
    BY <1>4 DEF RunRequirement
  <2>2. \/ pc' = "files" /\ UNCHANGED <<track, touched>>
        \/ UNCHANGED <<pc, track, touched>>
        \/ PlayLegalID
    BY <1>4 DEF RunRequirement
  <2>3. PlayLegalID => \/ pc' = "crashed"
                       \/ pc' = "start" /\ touched' = FALSE /\ track'.src = "legal"
    BY SelectFields DEF PlayLegalID
  <2> QED
    BY <1>0, <2>1, <2>2, <2>3
<1>5. CASE PlayFile
  BY <1>0, <1>5, SelectFields DEF PlayFile
<1>6. CASE FilesDone \/ EndBlock \/ MainshowHasNone \/ AbandonMainshow \/ TryBumpers
           \/ BumpersHaveNone \/ SleepOrSpin \/ SleepDone \/ PlayStart
  BY <1>0, <1>6 DEF FilesDone, EndBlock, MainshowHasNone, AbandonMainshow, TryBumpers,
     BumpersHaveNone, SleepOrSpin, SleepDone, PlayStart
<1>7. CASE PopMainshow
  BY <1>0, <1>7, SelectFields DEF PopMainshow
<1>8. CASE PopBumper
  BY <1>0, <1>8, SelectFields DEF PopBumper
<1>9. CASE PlayEnd
  BY <1>0, <1>9, AfterPlayFields DEF PlayEnd
<1>10. CASE Tick
  <2>1. track'.src = track.src
    BY <1>10 DEF Tick, TypeOK, Selection
  <2>2. lag' \in Nat /\ lag' <= Delay
    BY <1>0, <1>10 DEF Tick
  <2> QED
    BY <1>10, <2>1, <2>2 DEF Tick
<1>11. CASE OverrideEnable \/ PauseTest \/ PlayerPause \/ PlaylistUpdate
            \/ RequirementsUpdate \/ RunOnceSetMainshow
  BY <1>11 DEF OverrideEnable, PauseTest, PlayerPause, PlaylistUpdate, RequirementsUpdate,
     RunOnceSetMainshow
<1>12. CASE CutShort
  <2>1. track'.src = track.src
    BY <1>12 DEF CutShort, TypeOK, Selection
  <2> QED
    BY <1>12, <2>1 DEF CutShort
<1>13. CASE RequestShutdown
  BY <1>13 DEF RequestShutdown
<1>14. CASE UNCHANGED vars
  BY <1>14 DEF vars
<1>15. CASE Adjust
  <2>1. UNCHANGED <<pc, paused, lag, didAnything>> /\ track'.src = track.src
    BY <1>15, AdjustFields
  <2>2. \/ touched' = touched /\ synced' = synced
        \/ touched' = TRUE /\ synced' = FALSE
    BY <1>15, AdjustFields
  <2> QED
    BY <1>0, <2>1, <2>2
<1> QED
  BY <1>1, <1>2, <1>3, <1>4, <1>5, <1>6, <1>7, <1>8, <1>9, <1>10, <1>11, <1>12, <1>13, <1>14,
     <1>15 DEF Next, MainThread, WebAPI, PlayerStop, PlayerDies, Adjust

-----------------------------------------------------------------------------
(***************************************************************************)
(* OnTime: PopWithTimelimit's promise holds to the end of the track.       *)
(***************************************************************************)
\* Taking a fitting entry at its start makes the track end within the limit.
LEMMA PopOnTime ==
  ASSUME TypeOK, NEW list \in Seq(Item), NEW i \in Fitting(list, TimeLimit),
         NEW src \in Source, Select(src, list[i]), UNCHANGED <<now, lag, deadline, gap>>
  PROVE  OnTime'
<1>1. list[i] \in Track /\ Duration[list[i]] <= deadline - now + gap
  BY DEF Fitting, TimeLimit
<1>2. track'.left = Duration[list[i]] /\ Duration[list[i]] \in Nat
  BY <1>1, SelectedFields, DurationType DEF Select
<1> QED
  BY <1>1, <1>2 DEF OnTime, TypeOK

\* A choice makes the promise, the clock keeps it, and whoever breaks it has touched the track.
LEMMA OnTimeStep ==
  ASSUME TypeOK, Control, OnTime, [Next]_vars
  PROVE  OnTime'
<1> USE DEF OnTime, loopVars, listVars, engineVars, dueVars, blockVars, pauseVars,
            histVars, mainVars
<1>0. /\ now \in Nat /\ lag \in Nat /\ deadline \in Nat /\ gap \in Nat
      /\ track.left \in Nat /\ track.src \in Source
  BY DEF TypeOK, Selection
<1>1. CASE LoopTest \/ OverrideTest \/ OverrideIdle \/ OverrideLeave \/ CheckBumpers \/ FillNext
           \/ BeginBlock \/ NotYet
  BY <1>1 DEF LoopTest, OverrideTest, OverrideIdle, AfterIdle, OverrideLeave, CheckBumpers,
     FillNext, BeginBlock, NotYet
<1>2. CASE OverridePlay
  BY <1>2, SelectFields DEF OverridePlay, Filler
<1>3. CASE RunRequirement
  <2>1. pc = "run" /\ (pc' = "run" \/ pc' = "files" \/ PlayLegalID)
    BY <1>3 DEF RunRequirement
  <2>2. PlayLegalID => pc' = "crashed" \/ track'.src = "legal"
    BY SelectFields DEF PlayLegalID
  <2> QED
    BY <2>1, <2>2 DEF Filler
<1>4. CASE PlayFile
  BY <1>4, SelectFields DEF PlayFile, Filler
<1>5. CASE FilesDone \/ EndBlock \/ MainshowHasNone \/ AbandonMainshow \/ TryBumpers
           \/ BumpersHaveNone \/ SleepOrSpin \/ SleepDone
  BY <1>5 DEF FilesDone, EndBlock, MainshowHasNone, AbandonMainshow, TryBumpers,
     BumpersHaveNone, SleepOrSpin, SleepDone
<1>6. CASE PopMainshow
  <2>1. PICK i \in Fitting(mainshow, TimeLimit) : Select("mainshow", mainshow[i])
    BY <1>6 DEF PopMainshow
  <2>2. UNCHANGED <<now, lag, deadline, gap>> /\ mainshow \in Seq(Item)
    BY <1>6 DEF PopMainshow, TypeOK
  <2> QED
    BY <2>1, <2>2, PopOnTime DEF Source
<1>7. CASE PopBumper
  <2>1. PICK i \in Fitting(bumperlist, TimeLimit) : Select("bumper", bumperlist[i])
    BY <1>7 DEF PopBumper
  <2>2. UNCHANGED <<now, lag, deadline, gap>> /\ bumperlist \in Seq(Item)
    BY <1>7 DEF PopBumper, TypeOK
  <2> QED
    BY <2>1, <2>2, PopOnTime DEF Source
<1>8. CASE PlayStart
  BY <1>8 DEF PlayStart
<1>9. CASE PlayEnd
  BY <1>0, <1>9, AfterPlayFields DEF PlayEnd
<1>10. CASE Tick
  <2>1. now' = now + 1 /\ UNCHANGED <<pc, deadline, gap, touched, paused>>
    BY <1>10 DEF Tick
  <2>2. CASE pc = "playing" /\ paused
    BY <2>1, <2>2 DEF Control
  <2>3. CASE ~paused /\ track.left > 0 /\ track' = [track EXCEPT !.left = @ - 1] /\ lag' = lag
    <3>1. track'.left = track.left - 1 /\ track'.src = track.src
      BY <2>3 DEF TypeOK, Selection
    <3> QED
      BY <1>0, <2>1, <2>3, <3>1
  <2>4. CASE lag' = lag + 1 /\ track' = track
    BY <1>0, <2>1, <2>4
  <2> QED
    BY <1>10, <2>2, <2>3, <2>4, Zenon DEF Tick
<1>11. CASE OverrideEnable \/ PauseTest \/ PlayerPause \/ PlaylistUpdate
            \/ RequirementsUpdate \/ RunOnceSetMainshow
  BY <1>11 DEF OverrideEnable, PauseTest, PlayerPause, PlaylistUpdate, RequirementsUpdate,
     RunOnceSetMainshow
<1>12. CASE CutShort
  <2>1. track'.src = track.src /\ track'.left = 0
    BY <1>12 DEF CutShort, TypeOK, Selection
  <2> QED
    BY <1>0, <1>12, <2>1 DEF CutShort
<1>13. CASE RequestShutdown
  BY <1>13 DEF RequestShutdown
<1>14. CASE UNCHANGED vars
  BY <1>14 DEF vars
<1>15. CASE Adjust
  BY <1>0, <1>15, AdjustFields
<1> QED
  BY <1>1, <1>2, <1>3, <1>4, <1>5, <1>6, <1>7, <1>8, <1>9, <1>10, <1>11, <1>12, <1>13, <1>14,
     <1>15 DEF Next, MainThread, WebAPI, PlayerStop, PlayerDies, Adjust

-----------------------------------------------------------------------------
(***************************************************************************)
(* SkippedStaysSkipped.                                                    *)
(***************************************************************************)
\* Neither clock is behind the last skip, and no deadline in use is from before it.
Skipped ==
  /\ skippedUntil <= now /\ skippedUntil <= internal_time
  /\ \/ pc \in AutomaticPC \cup {"check", "run", "files", "sleep"}
     \/ pc \in {"start", "playing"} /\ track.src \in FromBlock
     => deadline >= skippedUntil

\* The deadlines that follow a skip come from an internal time that has moved past it.
LEMMA SkippedStep ==
  ASSUME TypeOK, Skipped, [Next]_vars
  PROVE  Skipped'
<1> USE DEF Skipped, AutomaticPC, loopVars, listVars, engineVars, dueVars, blockVars,
            pauseVars, histVars, mainVars
<1>0. /\ now \in Nat /\ deadline \in Nat /\ internal_time \in Nat /\ skippedUntil \in Nat
      /\ advance \in Nat \cup {-1} /\ track.src \in Source
  BY DEF TypeOK, Selection
<1>1. CASE LoopTest \/ OverrideTest \/ OverrideIdle \/ CheckBumpers \/ BeginBlock \/ NotYet
  BY <1>1 DEF LoopTest, OverrideTest, OverrideIdle, AfterIdle, CheckBumpers, BeginBlock, NotYet
<1>2. CASE OverrideLeave
  BY <1>0, <1>2 DEF OverrideLeave, TimeAfterOverride
<1>3. CASE FillNext
  <2>1. \A t \in DueTimes(Effective, internal_time) : t \in Int /\ t >= internal_time
    BY <1>0, EngineAssumption DEF DueTimes, EngineAssumption
  <2>2. (deadline' \in Int /\ deadline' >= internal_time) \/ deadline' = now + DefaultWait
    BY <1>3, <2>1 DEF FillNext
  <2>3. DefaultWait \in Nat /\ UNCHANGED <<now, internal_time, skippedUntil>>
    BY <1>3, EngineAssumption DEF FillNext, EngineAssumption
  <2> QED
    BY <1>0, <1>3, <2>1, <2>2, <2>3
<1>4. CASE OverridePlay
  BY <1>4, SelectFields DEF OverridePlay, FromBlock
<1>5. CASE RunRequirement
  BY <1>5 DEF RunRequirement
<1>6. CASE PlayFile \/ FilesDone
  BY <1>6 DEF PlayFile, FilesDone
<1>7. CASE EndBlock
  BY <1>0, <1>7 DEF EndBlock, TimeAfterBlock
<1>8. CASE PopMainshow \/ PopBumper
  BY <1>8 DEF PopMainshow, PopBumper
<1>9. CASE MainshowHasNone \/ AbandonMainshow \/ TryBumpers \/ BumpersHaveNone \/ SleepOrSpin
           \/ SleepDone \/ PlayStart
  BY <1>9 DEF MainshowHasNone, AbandonMainshow, TryBumpers, BumpersHaveNone, SleepOrSpin,
     SleepDone, PlayStart
<1>10. CASE PlayEnd
  BY <1>0, <1>10, AfterPlayFields DEF PlayEnd
<1>11. CASE Tick
  <2>1. track'.src = track.src
    BY <1>11 DEF Tick, TypeOK, Selection
  <2> QED
    BY <1>0, <1>11, <2>1 DEF Tick
<1>12. CASE OverrideEnable \/ PauseTest \/ PlayerPause \/ PlaylistUpdate
            \/ RequirementsUpdate \/ RunOnceSetMainshow
  BY <1>12 DEF OverrideEnable, PauseTest, PlayerPause, PlaylistUpdate, RequirementsUpdate,
     RunOnceSetMainshow
<1>13. CASE CutShort
  <2>1. track'.src = track.src
    BY <1>13 DEF CutShort, TypeOK, Selection
  <2> QED
    BY <1>13, <2>1 DEF CutShort
<1>14. CASE RequestShutdown \/ UNCHANGED vars
  BY <1>14 DEF RequestShutdown, vars
<1>15. CASE Adjust
  BY <1>0, <1>15, AdjustFields
<1> QED
  BY <1>1, <1>2, <1>3, <1>4, <1>5, <1>6, <1>7, <1>8, <1>9, <1>10, <1>11, <1>12, <1>13, <1>14,
     <1>15 DEF Next, MainThread, WebAPI, PlayerStop, PlayerDies, Adjust

-----------------------------------------------------------------------------
(***************************************************************************)
(* InternalTimeMonotone.                                                   *)
(***************************************************************************)
InBlock == pc \in {"run", "files"} \/ (pc \in {"start", "playing"} /\ track.src \in FromBlock)

\* A block with anything in it is not from before the internal time, and it runs no sooner than
\* its deadline: so a negative advance, which sets the engine to the wall clock, is a step ahead.
BlockAhead ==
  /\ pc = "check" /\ DOMAIN block # {} => internal_time <= deadline
  /\ InBlock /\ (advance < 0 \/ DOMAIN block # {}) => internal_time <= now

\* From the moment FillNext finds a block, no step takes the internal time past the deadline.
LEMMA BlockAheadStep ==
  ASSUME TypeOK, BlockAhead, [Next]_vars
  PROVE  BlockAhead'
<1> USE DEF BlockAhead, InBlock, loopVars, listVars, engineVars, dueVars, blockVars,
            pauseVars, histVars, mainVars
<1>0. /\ now \in Nat /\ deadline \in Nat /\ internal_time \in Nat
      /\ advance \in Nat \cup {-1} /\ track.src \in Source
  BY DEF TypeOK, Selection
<1>1. CASE LoopTest \/ OverrideTest \/ OverrideIdle \/ OverrideLeave \/ CheckBumpers
  BY <1>1 DEF LoopTest, OverrideTest, OverrideIdle, AfterIdle, OverrideLeave, CheckBumpers
<1>2. CASE FillNext
  <2>1. \A t \in DueTimes(Effective, internal_time) : t \in Int /\ t >= internal_time
    BY <1>0, EngineAssumption DEF DueTimes, EngineAssumption
  <2>2. DOMAIN NoBlock = {}
    BY DEF NoBlock
  <2>3. (deadline' \in Int /\ deadline' >= internal_time) \/ DOMAIN block' = {}
    BY <1>2, <2>1, <2>2 DEF FillNext
  <2>4. pc' = "check" /\ internal_time' = internal_time
    BY <1>2 DEF FillNext
  <2> QED
    BY <1>0, <2>3, <2>4
<1>3. CASE BeginBlock
  BY <1>0, <1>3 DEF BeginBlock, Due
<1>4. CASE OverridePlay
  BY <1>4, SelectFields DEF OverridePlay, FromBlock
<1>5. CASE RunRequirement
  <2>1. pc = "run" /\ DOMAIN block # {} /\ UNCHANGED <<now, internal_time>>
    BY <1>5 DEF RunRequirement
  <2>2. pc' # "check"
    BY <1>5, SelectFields DEF RunRequirement, PlayLegalID
  <2> QED
    BY <2>1, <2>2
<1>6. CASE PlayFile
  BY <1>6, SelectFields DEF PlayFile
<1>7. CASE FilesDone \/ EndBlock \/ NotYet
  BY <1>7 DEF FilesDone, EndBlock, NotYet
<1>8. CASE PopMainshow \/ PopBumper
  BY <1>8, SelectFields DEF PopMainshow, PopBumper, FromBlock
<1>9. CASE MainshowHasNone \/ AbandonMainshow \/ TryBumpers \/ BumpersHaveNone \/ SleepOrSpin
           \/ SleepDone \/ PlayStart
  BY <1>9 DEF MainshowHasNone, AbandonMainshow, TryBumpers, BumpersHaveNone, SleepOrSpin,
     SleepDone, PlayStart
<1>10. CASE PlayEnd
  BY <1>0, <1>10, AfterPlayFields DEF PlayEnd
<1>11. CASE Tick
  <2>1. track'.src = track.src
    BY <1>11 DEF Tick, TypeOK, Selection
  <2>2. now' = now + 1 /\ UNCHANGED <<pc, deadline, internal_time, block, advance>>
    BY <1>11 DEF Tick
  <2> QED
    BY <1>0, <2>1, <2>2
<1>12. CASE OverrideEnable \/ PauseTest \/ PlayerPause \/ PlaylistUpdate
            \/ RequirementsUpdate \/ RunOnceSetMainshow
  BY <1>12 DEF OverrideEnable, PauseTest, PlayerPause, PlaylistUpdate, RequirementsUpdate,
     RunOnceSetMainshow
<1>13. CASE CutShort
  <2>1. track'.src = track.src
    BY <1>13 DEF CutShort, TypeOK, Selection
  <2> QED
    BY <1>13, <2>1 DEF CutShort
<1>14. CASE RequestShutdown \/ UNCHANGED vars
  BY <1>14 DEF RequestShutdown, vars
<1>15. CASE Adjust
  BY <1>0, <1>15, AdjustFields
<1> QED
  BY <1>1, <1>2, <1>3, <1>4, <1>5, <1>6, <1>7, <1>8, <1>9, <1>10, <1>11, <1>12, <1>13, <1>14,
     <1>15 DEF Next, MainThread, WebAPI, PlayerStop, PlayerDies, Adjust

\* EndBlock is the only step but ManualOverride's that moves the internal time, and it adds to it.
LEMMA InternalTimeStep ==
  ASSUME TypeOK, BlockAhead, [Next]_vars, pc # "override"
  PROVE  internal_time' >= internal_time
<1> USE DEF loopVars, listVars, engineVars, dueVars, blockVars, pauseVars, histVars, mainVars
<1>0. now \in Nat /\ internal_time \in Nat /\ advance \in Nat \cup {-1}
  BY DEF TypeOK
<1>1. CASE EndBlock
  <2>1. pc = "run" /\ internal_time' = TimeAfterBlock
    BY <1>1 DEF EndBlock
  <2>2. advance < 0 => internal_time <= now
    BY <2>1 DEF BlockAhead, InBlock
  <2> QED
    BY <1>0, <2>1, <2>2 DEF TimeAfterBlock
<1>2. CASE LoopTest \/ OverrideTest \/ OverridePlay \/ OverrideIdle \/ OverrideLeave
           \/ CheckBumpers \/ FillNext \/ BeginBlock \/ NotYet \/ RunRequirement \/ PlayFile
  BY <1>0, <1>2 DEF LoopTest, OverrideTest, OverridePlay, OverrideIdle, OverrideLeave,
     CheckBumpers, FillNext, BeginBlock, NotYet, RunRequirement, PlayFile
<1>3. CASE FilesDone \/ PopMainshow \/ MainshowHasNone \/ AbandonMainshow \/ TryBumpers
           \/ PopBumper \/ BumpersHaveNone \/ SleepOrSpin \/ SleepDone \/ PlayStart \/ PlayEnd
  BY <1>0, <1>3 DEF FilesDone, PopMainshow, MainshowHasNone, AbandonMainshow, TryBumpers,
     PopBumper, BumpersHaveNone, SleepOrSpin, SleepDone, PlayStart, PlayEnd
<1>4. CASE Tick \/ PlayerDies \/ WebAPI \/ RequestShutdown \/ UNCHANGED vars
  <2>1. Adjust => internal_time' = internal_time
    BY AdjustFields
  <2> QED
    BY <1>0, <1>4, <2>1 DEF Tick, WebAPI, OverrideEnable, PauseTest, PlayerPause,
       PlayerStop, PlayerDies, CutShort, PlaylistUpdate, RequirementsUpdate, RunOnceSetMainshow,
       RequestShutdown, vars, Adjust
<1> QED
  BY <1>1, <1>2, <1>3, <1>4 DEF Next, MainThread

-----------------------------------------------------------------------------
(***************************************************************************)
(* OverrideBound.                                                          *)
(***************************************************************************)
\* From ManualOverride's return to the choice, nothing has been chosen since the enabling.
Overridden ==
  override => /\ autoSelections <= 1
              /\ pc \in AutomaticPC \cup {"bumpers", "fill", "check"} => autoSelections = 0

\* Enabling the override starts the count again; only the choice already under way adds to it.
LEMMA OverriddenStep ==
  ASSUME TypeOK, Overridden, [Next]_vars
  PROVE  Overridden'
<1> USE DEF Overridden, AutomaticPC, loopVars, listVars, engineVars, dueVars, blockVars,
            pauseVars, histVars, mainVars
<1>0. autoSelections \in Nat /\ track.src \in Source
  BY DEF TypeOK, Selection
<1>1. CASE LoopTest \/ OverrideTest \/ OverrideIdle \/ CheckBumpers \/ FillNext \/ NotYet
  BY <1>1 DEF LoopTest, OverrideTest, OverrideIdle, AfterIdle, CheckBumpers, FillNext, NotYet
<1>2. CASE OverrideLeave
  BY <1>2 DEF OverrideLeave, Yielding
<1>3. CASE BeginBlock
  BY <1>0, <1>3 DEF BeginBlock, CountSelection
<1>4. CASE OverridePlay
  BY <1>4, SelectFields DEF OverridePlay
<1>5. CASE RunRequirement
  <2>1. pc' \notin AutomaticPC \cup {"bumpers", "fill", "check"}
    BY <1>5, SelectFields DEF RunRequirement, PlayLegalID
  <2> QED
    BY <1>5, <2>1 DEF RunRequirement
<1>6. CASE PlayFile \/ FilesDone \/ EndBlock
  BY <1>6, SelectFields DEF PlayFile, FilesDone, EndBlock
<1>7. CASE PopMainshow \/ PopBumper
  <2>1. pc \in AutomaticPC /\ pc' = "start" /\ CountSelection /\ override' = override
    BY <1>7, SelectFields DEF PopMainshow, PopBumper
  <2> QED
    BY <1>0, <2>1 DEF CountSelection
<1>8. CASE MainshowHasNone \/ AbandonMainshow \/ TryBumpers \/ BumpersHaveNone \/ SleepOrSpin
           \/ SleepDone \/ PlayStart
  BY <1>8 DEF MainshowHasNone, AbandonMainshow, TryBumpers, BumpersHaveNone, SleepOrSpin,
     SleepDone, PlayStart
<1>9. CASE PlayEnd
  BY <1>0, <1>9, AfterPlayFields DEF PlayEnd
<1>10. CASE Tick
  BY <1>10 DEF Tick
<1>11. CASE OverrideEnable
  BY <1>11 DEF OverrideEnable
<1>12. CASE PauseTest \/ PlayerPause \/ CutShort \/ PlaylistUpdate \/ RequirementsUpdate
             \/ RunOnceSetMainshow
  BY <1>12 DEF PauseTest, PlayerPause, CutShort, PlaylistUpdate, RequirementsUpdate,
     RunOnceSetMainshow
<1>13. CASE RequestShutdown \/ UNCHANGED vars
  BY <1>13 DEF RequestShutdown, vars
<1>14. CASE Adjust
  BY <1>0, <1>14, AdjustFields
<1> QED
  BY <1>1, <1>2, <1>3, <1>4, <1>5, <1>6, <1>7, <1>8, <1>9, <1>10, <1>11, <1>12, <1>13, <1>14
     DEF Next, MainThread, WebAPI, PlayerStop, PlayerDies, Adjust

-----------------------------------------------------------------------------
(***************************************************************************)
(* BlockStartsInGap.  What RunOnce will wait for next is a function of the *)
(* schedule s and the internal time from; the lemmas relate it to the wall *)
(* clock n and to what FillNext last computed.                             *)
(***************************************************************************)
\* At the instant n the next block is late by no more than its requirements' gaps and d.
LateBy(s, from, n, d) ==
  \A t : IsEarliest(t, DueTimes(s, from)) =>
    \A i \in DuePositions(s, t) : n <= t + s[i].gap + d

\* FillNext would compute this deadline, gap and block again.
UpToDate(s, from, dl, g, b) ==
  IF DueTimes(s, from) = {}
  THEN DOMAIN b = {}
  ELSE /\ IsEarliest(dl, DueTimes(s, from)) /\ IsEarliest(g, GapsAt(s, dl))
       /\ b = BlockAt(s, dl)

\* The seconds the scan finds are whole ones, from the internal time on.
LEMMA DueTimesType ==
  ASSUME NEW s, NEW from \in Nat
  PROVE  \A t \in DueTimes(s, from) : t \in Nat /\ from <= t
BY EngineAssumption DEF DueTimes, EngineAssumption

\* A requirement's gap is a number of seconds.
LEMMA RequirementGap ==
  ASSUME NEW s \in Schedules, NEW t, NEW i \in DuePositions(EffectiveSchedule(s), t)
  PROVE  EffectiveSchedule(s)[i].gap \in GapsAt(EffectiveSchedule(s), t) \cap Nat
<1> DEFINE e == EffectiveSchedule(s)
<1>1. e[i].gap \in GapsAt(e, t)
  BY DEF GapsAt
<1> QED
  BY <1>1, GapType

\* An engine that is not behind the wall clock is not late.
LEMMA NotLate ==
  ASSUME NEW s \in Schedules, NEW from \in Nat, NEW n \in Nat, NEW d \in Nat, n <= from
  PROVE  LateBy(EffectiveSchedule(s), from, n, d)
<1> DEFINE e == EffectiveSchedule(s)
<1> SUFFICES ASSUME NEW t \in DueTimes(e, from), NEW i \in DuePositions(e, t)
             PROVE  n <= t + e[i].gap + d
  BY DEF LateBy, IsEarliest
<1>1. t \in Nat /\ from <= t
  BY DueTimesType
<1>2. e[i].gap \in Nat
  BY RequirementGap
<1> HIDE DEF e
<1> QED
  BY <1>1, <1>2

\* A second later is one second more.
LEMMA Later ==
  ASSUME NEW s \in Schedules, NEW from \in Nat, NEW n \in Nat, NEW d \in Nat,
         NEW m \in Nat, NEW c \in Nat, m + d <= n + c, LateBy(EffectiveSchedule(s), from, n, d)
  PROVE  LateBy(EffectiveSchedule(s), from, m, c)
<1> DEFINE e == EffectiveSchedule(s)
<1> SUFFICES ASSUME NEW t, IsEarliest(t, DueTimes(e, from)), NEW i \in DuePositions(e, t)
             PROVE  m <= t + e[i].gap + c
  BY DEF LateBy
<1>1. t \in Nat
  BY DueTimesType DEF IsEarliest
<1>2. e[i].gap \in Nat
  BY RequirementGap
<1>3. n <= t + e[i].gap + d
  BY DEF LateBy
<1> HIDE DEF e
<1> QED
  BY <1>1, <1>2, <1>3

\* What ends by the deadline and the gap leaves the next block that much late at most: the gap
\* is the least of the gaps of the requirements that share the deadline.
LEMMA WithinLimit ==
  ASSUME NEW s \in Schedules, NEW from \in Nat, NEW dl \in Nat, NEW g \in Nat, NEW b,
         NEW n \in Nat, NEW d \in Nat,
         UpToDate(EffectiveSchedule(s), from, dl, g, b), n <= dl + g + d
  PROVE  LateBy(EffectiveSchedule(s), from, n, d)
<1> DEFINE e == EffectiveSchedule(s)
<1> SUFFICES ASSUME NEW t, IsEarliest(t, DueTimes(e, from)), NEW i \in DuePositions(e, t)
             PROVE  n <= t + e[i].gap + d
  BY DEF LateBy
<1>1. IsEarliest(dl, DueTimes(e, from)) /\ IsEarliest(g, GapsAt(e, dl))
  BY DEF UpToDate, IsEarliest
<1>2. t \in Nat /\ t = dl
  BY <1>1, DueTimesType DEF IsEarliest
<1>3. e[i].gap \in Nat /\ g <= e[i].gap
  BY <1>1, <1>2, RequirementGap DEF IsEarliest
<1> HIDE DEF e
<1> QED
  BY <1>2, <1>3

Late(d) == LateBy(Effective, internal_time, now, d)
Fresh == UpToDate(Effective, internal_time, deadline, gap, block)

\* While synced: at the top of the loop the next block is late by its gap and this pass's ticks
\* at most, and by another Delay once a new pass has begun; from FillNext to the end of the
\* track or the sleep, the deadline is the one the schedule still asks for.
InTime ==
  synced =>
    /\ pc = "head" => Late(lag)
    /\ pc \in {"bumpers", "fill", "check"} \/ (pc = "override" /\ ~didAnything) => Late(lag + Delay)
    /\ \/ pc \in AutomaticPC \cup {"check", "sleep"}
       \/ pc \in {"start", "playing"} /\ track.src \in Filler
       => Fresh
    /\ pc \in AutomaticPC => now <= deadline + lag
    /\ pc = "sleep" => now + track.left <= deadline + lag

\* At the start the engine is on the wall clock.
LEMMA InTimeInit == Init => InTime
<1> SUFFICES ASSUME Init PROVE InTime
  OBVIOUS
<1>1. pc \in {"run", "head"} /\ now = 0 /\ lag = 0 /\ internal_time = 0 /\ schedule \in Schedules
  BY DEF Init
<1>2. Late(lag)
  BY <1>1, NotLate DEF Late, Effective
<1> QED
  BY <1>1, <1>2 DEF InTime, AutomaticPC

\* The main thread's steps outside of tracks, sleeps and blocks.
LEMMA InTimePass ==
  ASSUME TypeOK, Control, InTime,
         \/ LoopTest \/ OverrideTest \/ OverridePlay \/ OverrideIdle \/ OverrideLeave
         \/ CheckBumpers \/ FillNext \/ BeginBlock \/ NotYet
  PROVE  InTime'
<1> USE DEF InTime, AutomaticPC, loopVars, listVars, engineVars, dueVars, blockVars,
            pauseVars, histVars
<1>0. /\ now \in Nat /\ lag \in Nat /\ Delay \in Nat /\ deadline \in Nat /\ gap \in Nat
      /\ internal_time \in Nat /\ schedule \in Schedules /\ track.left \in Nat
  BY AutomationAssumption DEF TypeOK, Selection, AutomationAssumption
<1>1. CASE LoopTest
  <2>1. pc = "head" /\ pc' \in {"exited", "override"} /\ lag' = 0
        /\ UNCHANGED <<now, schedule, internal_time, synced>>
    BY <1>1 DEF LoopTest
  <2>2. synced => LateBy(Effective, internal_time, now, 0 + Delay)
    BY <1>0, <2>1, Later DEF Late, Effective, Control
  <2> QED
    BY <2>1, <2>2 DEF Late, Effective
<1>2. CASE OverrideTest
  BY <1>2 DEF OverrideTest
<1>3. CASE OverridePlay
  BY <1>3, SelectFields DEF OverridePlay, Filler
<1>4. CASE OverrideIdle
  <2>1. didAnything' /\ pc' \in {"exited", "override"}
    BY <1>4 DEF OverrideIdle, AfterIdle, Control
  <2> QED
    BY <2>1
<1>5. CASE OverrideLeave
  <2>1. pc = "override" /\ pc' = "bumpers" /\ UNCHANGED <<now, lag, schedule>>
    BY <1>5 DEF OverrideLeave
  <2>2. CASE didAnything
    <3>1. internal_time' = now
      BY <1>5, <2>2 DEF OverrideLeave, TimeAfterOverride
    <3>2. LateBy(Effective, now, now, lag + Delay)
      BY <1>0, NotLate DEF Effective
    <3> QED
      BY <2>1, <3>1, <3>2 DEF Late, Effective
  <2>3. CASE ~didAnything
    <3>1. UNCHANGED <<internal_time, synced>>
      BY <1>5, <2>3 DEF OverrideLeave, TimeAfterOverride
    <3> QED
      BY <2>1, <2>3, <3>1 DEF Late, Effective
  <2> QED
    BY <2>2, <2>3
<1>6. CASE CheckBumpers
  BY <1>6 DEF CheckBumpers, Late, Effective
<1>7. CASE FillNext
  <2>1. pc = "fill" /\ pc' = "check" /\ UNCHANGED <<now, lag, schedule, internal_time, synced>>
    BY <1>7 DEF FillNext
  <2>2. UpToDate(Effective, internal_time, deadline', gap', block')
    <3>1. DOMAIN NoBlock = {}
      BY DEF NoBlock
    <3>2. CASE DueTimes(Effective, internal_time) = {}
      BY <1>7, <3>1, <3>2 DEF FillNext, UpToDate
    <3>3. CASE DueTimes(Effective, internal_time) # {}
      BY <1>7, <3>3 DEF FillNext, UpToDate
    <3> QED
      BY <3>2, <3>3
  <2> QED
    BY <2>1, <2>2 DEF Late, Fresh, Effective
<1>8. CASE BeginBlock
  BY <1>8 DEF BeginBlock
<1>9. CASE NotYet
  <2>1. now < deadline
    BY <1>0, <1>9 DEF NotYet, Due
  <2> QED
    BY <1>0, <1>9, <2>1 DEF NotYet, Fresh, Effective
<1> QED
  BY <1>1, <1>2, <1>3, <1>4, <1>5, <1>6, <1>7, <1>8, <1>9

\* The steps that choose, and those that return to the top of the loop.
LEMMA InTimeChoice ==
  ASSUME TypeOK, Control, OnTime, InTime,
         \/ RunRequirement \/ PlayFile \/ FilesDone \/ EndBlock \/ PopMainshow \/ MainshowHasNone
         \/ AbandonMainshow \/ TryBumpers \/ PopBumper \/ BumpersHaveNone \/ SleepOrSpin
         \/ SleepDone \/ PlayStart \/ PlayEnd
  PROVE  InTime'
<1> USE DEF InTime, AutomaticPC, loopVars, listVars, engineVars, dueVars, blockVars,
            pauseVars, histVars
<1>0. /\ now \in Nat /\ lag \in Nat /\ Delay \in Nat /\ deadline \in Nat /\ gap \in Nat
      /\ internal_time \in Nat /\ schedule \in Schedules
      /\ track.left \in Nat /\ track.src \in Source
  BY AutomationAssumption DEF TypeOK, Selection, AutomationAssumption
<1>1. CASE RunRequirement
  <2>1. pc' \in {"run", "files", "crashed"} \/ (pc' = "start" /\ track'.src = "legal")
    BY <1>1, SelectFields DEF RunRequirement, PlayLegalID
  <2> QED
    BY <2>1 DEF Filler
<1>2. CASE PlayFile
  BY <1>2, SelectFields DEF PlayFile, Filler
<1>3. CASE FilesDone
  BY <1>3 DEF FilesDone
<1>4. CASE EndBlock
  <2>1. pc' = "head" /\ UNCHANGED <<now, lag, schedule>>
    BY <1>4 DEF EndBlock
  <2>2. internal_time' \in Nat /\ synced' = (internal_time' >= now)
    BY <1>0, <1>4, StepType DEF EndBlock, TimeAfterBlock, TypeOK
  <2>3. synced' => LateBy(Effective, internal_time', now, lag)
    BY <1>0, <2>2, NotLate DEF Effective
  <2> QED
    BY <2>1, <2>3 DEF Late, Effective
<1>5. CASE PopMainshow
  <2>1. pc = "pop" /\ pc' = "start"
        /\ UNCHANGED <<schedule, internal_time, deadline, gap, block, synced>>
    BY <1>5, SelectFields DEF PopMainshow
  <2> QED
    BY <2>1 DEF Fresh, Effective
<1>6. CASE PopBumper
  <2>1. pc = "bumper" /\ pc' = "start"
        /\ UNCHANGED <<schedule, internal_time, deadline, gap, block, synced>>
    BY <1>6, SelectFields DEF PopBumper
  <2> QED
    BY <2>1 DEF Fresh, Effective
<1>7. CASE MainshowHasNone \/ TryBumpers \/ BumpersHaveNone
  BY <1>7 DEF MainshowHasNone, TryBumpers, BumpersHaveNone, Fresh, Effective
<1>8. Fresh /\ now <= deadline + gap + lag => Late(lag)
  BY <1>0, WithinLimit DEF Fresh, Late, Effective
<1>9. CASE AbandonMainshow
  BY <1>0, <1>8, <1>9 DEF AbandonMainshow, Late, Effective
<1>10. CASE SleepOrSpin
  <2>1. /\ pc = "timeleft"
        /\ UNCHANGED <<now, lag, schedule, internal_time, deadline, gap, block, synced>>
    BY <1>10 DEF SleepOrSpin
  <2>2. pc' = "head" \/ (pc' = "sleep" /\ track'.left = deadline - now)
    BY <1>10 DEF SleepOrSpin, NoTrack
  <2> QED
    BY <1>0, <1>8, <2>1, <2>2 DEF Late, Fresh, Effective
<1>11. CASE SleepDone
  BY <1>0, <1>8, <1>11 DEF SleepDone, Late, Effective
<1>12. CASE PlayStart
  BY <1>12 DEF PlayStart, Fresh, Effective
<1>13. CASE PlayEnd
  <2>1. /\ pc = "playing" /\ track.left = 0 /\ pc' = AfterPlay[track.src]
        /\ UNCHANGED <<now, lag, schedule, internal_time, didAnything, synced>>
    BY <1>13 DEF PlayEnd
  <2>2. pc' \in {"override", "files", "run", "head"}
    BY <1>0, <2>1, AfterPlayFields
  <2>3. CASE track.src = "override"
    <3>1. pc' = "override" /\ didAnything'
      BY <1>0, <2>1, <2>3, AfterPlayFields DEF Control
    <3> QED
      BY <3>1
  <2>4. CASE track.src \in Filler
    <3>1. synced => Late(lag)
      BY <1>0, <1>8, <2>1, <2>4 DEF Control, OnTime
    <3>2. pc' # "override"
      BY <1>0, <2>1, <2>4, AfterPlayFields DEF Filler
    <3> QED
      BY <2>1, <2>2, <3>1, <3>2 DEF Late, Effective
  <2>5. CASE track.src \in FromBlock
    <3>1. pc' \in {"files", "run"}
      BY <1>0, <2>1, <2>5, AfterPlayFields
    <3> QED
      BY <3>1
  <2> QED
    BY <2>1, <2>3, <2>4, <2>5 DEF Control
<1> QED
  BY <1>1, <1>2, <1>3, <1>4, <1>5, <1>6, <1>7, <1>9, <1>10, <1>11, <1>12, <1>13

\* The clock takes its seconds from the track, the sleep or the pass; whoever pauses the player
\* or changes the schedule gives up the promise.
LEMMA InTimeEnvironment ==
  ASSUME TypeOK, Control, InTime, Tick \/ PlayerDies \/ WebAPI \/ RequestShutdown \/ UNCHANGED vars
  PROVE  InTime'
<1> USE DEF InTime, AutomaticPC, loopVars, listVars, engineVars, dueVars, blockVars,
            pauseVars, histVars, mainVars
<1>0. /\ now \in Nat /\ lag \in Nat /\ Delay \in Nat /\ deadline \in Nat
      /\ internal_time \in Nat /\ schedule \in Schedules /\ track.left \in Nat
  BY AutomationAssumption DEF TypeOK, Selection, AutomationAssumption
<1>1. CASE Tick
  <2>1. now' = now + 1
        /\ UNCHANGED <<pc, didAnything, schedule, internal_time, deadline, gap, block, synced>>
    BY <1>1 DEF Tick
  <2>2. Fresh' = Fresh
    BY <2>1 DEF Fresh, Effective
  <2>3. track'.src = track.src
    BY <1>1 DEF Tick, TypeOK, Selection
  <2>4. CASE pc = "playing"
    BY <2>1, <2>2, <2>3, <2>4
  <2>5. CASE pc = "sleep"
    <3>1. (track'.left = track.left - 1 /\ lag' = lag) \/ (track' = track /\ lag' = lag + 1)
      BY <1>1, <2>5 DEF Tick, TypeOK, Selection
    <3> QED
      BY <1>0, <2>1, <2>2, <2>5, <3>1
  <2>6. CASE pc \notin {"playing", "sleep"}
    <3>1. lag' = lag + 1 /\ track' = track
      BY <1>1, <2>6 DEF Tick
    <3>2. /\ Late(lag) => LateBy(Effective, internal_time, now', lag')
          /\ Late(lag + Delay) => LateBy(Effective, internal_time, now', lag' + Delay)
      BY <1>0, <2>1, <3>1, Later DEF Late, Effective
    <3>3. /\ Late(lag) => (Late(lag))'
          /\ Late(lag + Delay) => (Late(lag + Delay))'
      BY <2>1, <3>2 DEF Late, Effective
    <3> QED
      BY <1>0, <2>1, <2>2, <2>6, <3>1, <3>3
  <2> QED
    BY <2>4, <2>5, <2>6
<1>2. CASE OverrideEnable \/ PlaylistUpdate \/ RunOnceSetMainshow
  BY <1>2 DEF OverrideEnable, PlaylistUpdate, RunOnceSetMainshow, Late, Fresh,
     Effective
<1>3. CASE PauseTest \/ PlayerPause \/ RequirementsUpdate
  BY <1>3 DEF PauseTest, PlayerPause, RequirementsUpdate, Late, Fresh, Effective
<1>4. CASE CutShort
  <2>1. track'.src = track.src /\ pc = "playing"
    BY <1>4 DEF CutShort, TypeOK, Selection
  <2> QED
    BY <1>4, <2>1 DEF CutShort, Fresh, Effective
<1>5. CASE RequestShutdown
  BY <1>5 DEF RequestShutdown, Late, Fresh, Effective
<1>6. CASE UNCHANGED vars
  BY <1>6 DEF vars, Late, Fresh, Effective
<1>7. CASE Adjust
  BY <1>0, <1>7, AdjustFields DEF Fresh, Late, Effective
<1> QED
  BY <1>1, <1>2, <1>3, <1>4, <1>5, <1>6, <1>7 DEF WebAPI, PlayerStop, PlayerDies, Adjust

-----------------------------------------------------------------------------
(***************************************************************************)
(* The theorems.                                                           *)
(***************************************************************************)
\* The inductive invariant: each part is preserved with the help of those before it.
IInv ==
  /\ TypeOK /\ Control /\ OnTime
  /\ Skipped /\ BlockAhead /\ Overridden /\ InTime

\* The process starts in the invariant, whatever the schedule and the flags.
LEMMA IInvInit == Init => IInv
<1> SUFFICES ASSUME Init PROVE IInv
  OBVIOUS
<1>1. TypeOK /\ Control /\ InTime
  BY InitType, ControlInit, InTimeInit
<1>2. OnTime /\ Skipped /\ BlockAhead /\ Overridden
  BY DEF Init, OnTime, Skipped, BlockAhead, InBlock, Overridden, AutomaticPC, FromBlock, NoTrack
<1> QED
  BY <1>1, <1>2 DEF IInv

\* Every step of the process, the clock and the API preserves it.
LEMMA IInvStep == IInv /\ [Next]_vars => IInv'
<1> SUFFICES ASSUME IInv, [Next]_vars PROVE IInv'
  OBVIOUS
<1>1. TypeOK /\ Control /\ OnTime /\ Skipped /\ BlockAhead /\ Overridden /\ InTime
  BY DEF IInv
<1>2. TypeOK'
  BY <1>1, StepType
<1>3. Control' /\ OnTime' /\ Skipped' /\ BlockAhead' /\ Overridden'
  BY <1>1, ControlStep, OnTimeStep, SkippedStep, BlockAheadStep, OverriddenStep
<1>4. InTime'
  BY <1>1, InTimePass, InTimeChoice, InTimeEnvironment DEF Next, MainThread
<1> QED
  BY <1>2, <1>3, <1>4 DEF IInv

\* All of it holds in every state the process reaches.
LEMMA IInvAlways == Spec => []IInv
BY IInvInit, IInvStep, PTL DEF Spec

\* Whatever is played to fill the time, nobody having paused it, is over by the deadline plus the
\* gap plus the ticks RunOnce itself took: what PopWithTimelimit checked once stays true although
\* the clock, the playlists, the schedule and the override flag may change while it plays.
THEOREM FillersEndOnTime == Spec => []OnTime
<1>1. IInv => OnTime
  BY DEF IInv
<1> QED
  BY <1>1, IInvAlways, PTL

\* A block that comes due starts within the gap of every one of its requirements, up to two passes'
\* ticks, unless a person paused the player or changed the schedule since the engine last agreed
\* with the wall clock: no sequence of tracks, bumpers, sleeps and idle passes makes it later.
THEOREM BlocksStartInGap == Spec => []BlockStartsInGap
<1>1. ASSUME IInv PROVE BlockStartsInGap
  <2> SUFFICES ASSUME pc = "check", synced, NEW i \in DOMAIN block
               PROVE  now <= deadline + block[i].gap + 2 * Delay
    BY DEF BlockStartsInGap
  <2>1. /\ now \in Nat /\ lag \in Nat /\ Delay \in Nat /\ lag <= Delay /\ deadline \in Nat
        /\ schedule \in Schedules
    BY <1>1, AutomationAssumption DEF IInv, TypeOK, Control, AutomationAssumption
  <2>2. Late(lag + Delay) /\ Fresh
    BY <1>1 DEF IInv, InTime, AutomaticPC
  <2>3. /\ IsEarliest(deadline, DueTimes(Effective, internal_time))
        /\ block = BlockAt(Effective, deadline)
    BY <2>2 DEF Fresh, UpToDate
  <2>4. i \in DuePositions(Effective, deadline) /\ block[i] = Effective[i]
    BY <2>3 DEF BlockAt
  <2>5. block[i].gap \in Nat
    BY <2>1, <2>4, RequirementGap DEF Effective
  <2>6. now <= deadline + block[i].gap + (lag + Delay)
    BY <2>2, <2>3, <2>4 DEF Late, LateBy
  <2> QED
    BY <2>1, <2>5, <2>6
<1> QED
  BY <1>1, IInvAlways, PTL

\* When RunOnce compares the clock with the deadline, nothing has come due earlier that it would
\* run later or never, provided the scan found anything at all: FillNext looks no further than
\* Window ahead of an internal time that stands still until a block runs.
THEOREM NothingOverlookedInWindow ==
  Spec => [](DueTimes(Effective, internal_time) # {} => NothingOverlooked)
<1>1. ASSUME IInv, DueTimes(Effective, internal_time) # {} PROVE NothingOverlooked
  <2> SUFFICES ASSUME pc = "check", synced, NEW t \in internal_time .. now,
                      DuePositions(Effective, t) # {}
               PROVE  deadline <= t
    BY DEF NothingOverlooked
  <2>1. internal_time \in Nat /\ now \in Nat /\ Window \in Nat
    BY <1>1, EngineAssumption DEF IInv, TypeOK, EngineAssumption
  <2>2. IsEarliest(deadline, DueTimes(Effective, internal_time))
    BY <1>1 DEF IInv, InTime, Fresh, UpToDate
  <2>3. CASE t <= internal_time + Window - 1
    <3>1. t \in DueTimes(Effective, internal_time)
      BY <2>1, <2>3 DEF DueTimes
    <3> QED
      BY <2>2, <3>1 DEF IsEarliest
  <2>4. CASE t > internal_time + Window - 1
    <3>1. deadline \in internal_time .. (internal_time + Window - 1)
      BY <2>2 DEF IsEarliest, DueTimes
    <3> QED
      BY <2>1, <2>4, <3>1
  <2> QED
    BY <2>1, <2>3, <2>4
<1> QED
  BY <1>1, IInvAlways, PTL

\* A requirement that came due while a person was in control is not made up for afterwards: no
\* deadline RunOnce waits for or runs a block of is from before ManualOverride's return.
THEOREM SkippedForGood == Spec => []SkippedStaysSkipped
<1>1. IInv => SkippedStaysSkipped
  BY DEF IInv, Skipped, SkippedStaysSkipped, AutomaticPC
<1> QED
  BY <1>1, IInvAlways, PTL

\* Nothing but ManualOverride's resynchronisation takes the internal time back, a negative advance
\* included: a block is only ever run once the clock has reached the internal time.
THEOREM InternalTimeAdvances == Spec => InternalTimeMonotone
<1>1. IInv /\ [Next]_vars => [pc # "override" => internal_time' >= internal_time]_vars
  BY InternalTimeStep DEF IInv
<1> QED
  BY <1>1, IInvAlways, PTL DEF Spec, InternalTimeMonotone

\* Enabling override at any moment leaves at most the one automatic choice already in the making.
THEOREM OverrideTakesHold == Spec => []OverrideBound
<1>1. IInv => OverrideBound
  BY DEF IInv, Overridden, OverrideBound
<1> QED
  BY <1>1, IInvAlways, PTL
=============================================================================
