-------------------------- MODULE AutomationAgenda --------------------------
(***************************************************************************)
(* Proof that Automation implements Agenda, and what follows for the end   *)
(* of a block, for every station and every schedule.                       *)
(***************************************************************************)
EXTENDS AutomationSafety

\* What the promise says of the station.
promised == <<now, internal_time, schedule, StageOf, deadline, block, advance < 0, Yielding,
              didAnything>>

\* What becomes of the plan, by the statement and the origin of the track.
LEMMA StageFields ==
  /\ \A p \in {"exited", "crashed"} : StageAt[p] = "off"
  /\ StageAt["check"] = "planned"
  /\ \A p \in {"run", "files", "legal"} : StageAt[p] = "running"
  /\ \A p \in {"pop", "cutoff", "bumper", "timeleft", "sleep", "mainshow"} : StageAt[p] = "waiting"
  /\ \A p \in {"head", "override", "popfront", "bumpers", "fill"} : StageAt[p] = "seeking"
BY DEF StageAt, PC, Source, Filler, Choosing

\* Only a process that has ended is off.
LEMMA Running == ASSUME TypeOK, Control PROVE StageOf = "off" => pc \in {"exited", "crashed"}
<1>1. pc \in PC /\ track.src \in Source
  BY DEF TypeOK, Selection
<1>2. pc \in {"start", "playing"}
        => track.src \in {"mainshow", "bumper", "files", "legal", "override"}
  BY DEF Control, Filler, FromBlock
<1> QED
  BY <1>1, <1>2, StageFields DEF StageOf, PC

\* Agenda uses RequirementEngine as Automation does.
LEMMA SameEngine ==
  /\ Promise!Planned = Effective
  /\ \A s, t : Promise!DueTimes(s, t) = DueTimes(s, t) /\ Promise!BlockAt(s, t) = BlockAt(s, t)
  /\ \A t, S : Promise!IsEarliest(t, S) = IsEarliest(t, S)
  /\ \A s : Promise!RebootBlock(s) = RebootBlock(s)
  /\ Promise!NoBlock = NoBlock
<1>1. Promise!ImplicitRequirement = ImplicitRequirement
  BY DEF Promise!ImplicitRequirement, ImplicitRequirement
<1>2. Promise!Planned = Effective
  BY <1>1 DEF Promise!Planned, Promise!EffectiveSchedule, Effective, EffectiveSchedule
<1>3. \A s, t : Promise!DuePositions(s, t) = DuePositions(s, t)
  BY DEF Promise!DuePositions, DuePositions, Promise!IsDue, IsDue
<1>4. \A s, t : Promise!DueTimes(s, t) = DueTimes(s, t) /\ Promise!BlockAt(s, t) = BlockAt(s, t)
  BY <1>3 DEF Promise!DueTimes, DueTimes, Promise!BlockAt, BlockAt
<1>5. \A t, S : Promise!IsEarliest(t, S) = IsEarliest(t, S)
  BY DEF Promise!IsEarliest, IsEarliest
<1>6. \A s : Promise!RebootBlock(s) = RebootBlock(s)
  BY DEF Promise!RebootBlock, RebootBlock
<1>7. Promise!NoBlock = NoBlock
  BY <1>1 DEF Promise!NoBlock, NoBlock
<1> QED
  BY <1>2, <1>4, <1>5, <1>6, <1>7

\* The station starts with a block for the reboot, or looks for the first one.
LEMMA AgendaInit == Init => Promise!Init
BY SameEngine, StageFields, AutomationAssumption
   DEF AutomationAssumption, Init, Promise!Init, StageOf, Effective, Yielding

\* The steps that neither move the engine nor the plan: what is chosen to fill the time, the tracks
\* of a block.
LEMMA AgendaStutter ==
  ASSUME IInv,
         \/ CheckBumpers \/ PlayFile \/ FilesDone \/ PopMainshow \/ MainshowHasNone \/ TryBumpers
         \/ PopBumper \/ BumpersHaveNone \/ PlayStart
  PROVE  UNCHANGED promised
<1> USE StageFields
    DEF promised, StageOf, engineVars, dueVars, blockVars, loopVars, listVars, pauseVars, histVars,
        Yielding
<1>1. CASE CheckBumpers \/ FilesDone
  BY <1>1 DEF CheckBumpers, FilesDone
<1>2. CASE PlayFile
  BY <1>2, SelectFields DEF PlayFile
<1>3. CASE PopMainshow
  BY <1>3, SelectFields DEF PopMainshow
<1>4. CASE PopBumper
  BY <1>4, SelectFields DEF PopBumper
<1>5. CASE MainshowHasNone \/ TryBumpers \/ BumpersHaveNone
  BY <1>5 DEF MainshowHasNone, TryBumpers, BumpersHaveNone
<1>6. CASE PlayStart
  BY <1>6 DEF PlayStart
<1> QED
  BY <1>1, <1>2, <1>3, <1>4, <1>5, <1>6

\* ManualOverride: it gives way, plays what is queued, goes on, skips what came due, or is left for
\* the end of the process.
LEMMA AgendaOverride ==
  ASSUME IInv, LoopTest \/ OverrideTest \/ OverridePlay \/ OverrideIdle \/ OverrideLeave
  PROVE  Promise!Next \/ UNCHANGED promised
<1> USE StageFields
    DEF promised, StageOf, engineVars, dueVars, blockVars, loopVars, listVars, pauseVars, histVars,
        Promise!Next, Promise!planVars, Promise!personVars
<1>1. CASE LoopTest
  <2>1. /\ pc = "head" /\ pc' \in {"exited", "override"} /\ didAnything' = FALSE
        /\ UNCHANGED <<now, internal_time, schedule, deadline, block, advance, Yielding>>
    BY <1>1 DEF LoopTest, Yielding
  <2> QED
    BY <2>1 DEF Promise!Stop, Promise!Goto, Promise!GoOn
<1>2. CASE OverrideTest
  <2>1. /\ pc = "override" /\ pc' = "popfront" /\ Yielding /\ didAnything' = TRUE
        /\ UNCHANGED <<now, internal_time, schedule, deadline, block, advance, Yielding>>
    BY <1>2 DEF OverrideTest, Yielding
  <2> QED
    BY <2>1 DEF Promise!GiveWay
<1>3. CASE OverridePlay
  <2>1. /\ pc = "popfront" /\ pc' = "start" /\ track'.src = "override"
        /\ UNCHANGED <<now, internal_time, schedule, deadline, block, advance, didAnything>>
    BY <1>3, SelectFields DEF OverridePlay
  <2> QED
    BY <2>1 DEF Promise!Turn
<1>4. CASE OverrideIdle
  <2>1. /\ pc = "popfront" /\ pc' \in {"exited", "override"}
        /\ UNCHANGED <<now, internal_time, schedule, deadline, block, advance, didAnything>>
    BY <1>4 DEF OverrideIdle, AfterIdle
  <2> QED
    BY <2>1 DEF Promise!Stop, Promise!Goto, Promise!Turn
<1>5. CASE OverrideLeave
  <2>1. /\ pc = "override" /\ pc' = "bumpers" /\ ~Yielding
        /\ UNCHANGED <<now, schedule, deadline, block, advance, didAnything, Yielding>>
        /\ internal_time' = IF didAnything THEN now ELSE internal_time
    BY <1>5 DEF OverrideLeave, TimeAfterOverride, Yielding
  <2> QED
    BY <2>1 DEF Promise!Skip
<1> QED
  BY <1>1, <1>2, <1>3, <1>4, <1>5

\* FillNext makes the plan.
LEMMA AgendaPlan == ASSUME IInv, FillNext PROVE Promise!Plan
<1> USE DEF Promise!personVars
<1>1. /\ pc = "fill" /\ pc' = "check"
      /\ UNCHANGED <<now, internal_time, schedule, advance, Yielding, didAnything>>
  BY DEF FillNext, engineVars, listVars, Yielding
<1>2. StageOf = "seeking" /\ StageOf' = "planned"
  BY <1>1, StageFields DEF StageOf
<1>3. CASE DueTimes(Effective, internal_time) = {}
  <2>1. deadline' = now + DefaultWait /\ block' = NoBlock
    BY <1>3 DEF FillNext
  <2>2. deadline' > now
    BY <2>1, EngineAssumption DEF EngineAssumption, IInv, TypeOK
  <2> QED
    BY <1>1, <1>2, <1>3, <2>1, <2>2, SameEngine DEF Promise!Plan, Promise!Goto
<1>4. CASE DueTimes(Effective, internal_time) # {}
  <2>1. /\ IsEarliest(deadline', DueTimes(Effective, internal_time))
        /\ block' = BlockAt(Effective, deadline')
    BY <1>4 DEF FillNext
  <2> QED
    BY <1>1, <1>2, <1>4, <2>1, SameEngine DEF Promise!Plan, Promise!Goto
<1> QED
  BY <1>3, <1>4

\* RunOnce compares the clock with the deadline.
LEMMA AgendaDue == ASSUME IInv, BeginBlock \/ NotYet PROVE Promise!Run \/ Promise!Wait
<1> USE DEF Promise!personVars
<1>1. /\ pc = "check" /\ UNCHANGED <<now, internal_time, schedule, deadline, block>>
      /\ UNCHANGED <<Yielding, didAnything>>
      /\ pc' = IF now >= deadline THEN "run" ELSE "pop"
      /\ advance' = IF now >= deadline THEN 1 ELSE advance
  BY DEF BeginBlock, NotYet, Due, engineVars, dueVars, blockVars, listVars, Yielding
<1>2. now \in Nat /\ deadline \in Nat
  BY DEF IInv, TypeOK
<1>3. StageOf = "planned" /\ StageOf' = IF now >= deadline THEN "running" ELSE "waiting"
  BY <1>1, StageFields DEF StageOf
<1> QED
  BY <1>1, <1>2, <1>3 DEF Promise!Run, Promise!Wait, Promise!Goto

\* RunBlock runs the first of the requirements that are left.
LEMMA AgendaServe == ASSUME IInv, RunRequirement PROVE Promise!Serve
<1>1. PICK i \in DOMAIN block :
        /\ IsEarliest(i, DOMAIN block) /\ block' = Restrict(block, DOMAIN block \ {i})
        /\ advance' = AdvanceStep(advance, block[i].advance)
  BY DEF RunRequirement
<1>2. block' = [j \in DOMAIN block \ {i} |-> block[j]]
  BY <1>1 DEF Restrict
<1>3. /\ pc = "run" /\ UNCHANGED <<now, internal_time, schedule, deadline, Yielding, didAnything>>
      /\ pc' \in {"run", "files", "crashed"} \/ (pc' = "start" /\ track'.src = "legal")
  BY SelectFields DEF RunRequirement, PlayLegalID, engineVars, dueVars, Yielding
<1>4. StageOf = "running" /\ StageOf' \in {"running", "off"}
  BY <1>3, StageFields DEF StageOf
<1>5. (advance < 0)' => advance < 0 \/ block[i].advance < 0
  <2>1. advance \in Nat \cup {-1} /\ block[i].advance \in Int
    BY DEF IInv, TypeOK, Requirement
  <2> QED
    BY <1>1, <2>1 DEF AdvanceStep
<1>6. /\ IsEarliest(i, DOMAIN block) /\ (advance < 0)' \in BOOLEAN
      /\ UNCHANGED <<now, internal_time, schedule, deadline, Yielding, didAnything>>
  BY <1>1, <1>3
<1>7. Promise!IsEarliest(i, DOMAIN block)
  BY <1>6, SameEngine
<1>8. \E j \in DOMAIN block :
        /\ Promise!IsEarliest(j, DOMAIN block)
        /\ block' = [k \in DOMAIN block \ {j} |-> block[k]]
        /\ (advance < 0)' \in BOOLEAN /\ ((advance < 0)' => advance < 0 \/ block[j].advance < 0)
  BY ONLY <1>2, <1>5, <1>6, <1>7, i \in DOMAIN block
<1> QED
  BY ONLY <1>4, <1>6, <1>8 DEF Promise!Serve, Promise!personVars

\* RunBlock's end moves the internal time, by the advance of the block or to the clock.
LEMMA AgendaFinish == ASSUME IInv, EndBlock PROVE Promise!Advance \/ Promise!CatchUp
<1>1. /\ pc = "run" /\ pc' = "head" /\ DOMAIN block = {} /\ internal_time' = TimeAfterBlock
      /\ UNCHANGED <<now, schedule, deadline, block, advance, Yielding, didAnything>>
  BY DEF EndBlock, dueVars, blockVars, Yielding
<1>2. StageOf = "running" /\ StageOf' = "seeking"
  BY <1>1, StageFields DEF StageOf
<1>3. internal_time' >= internal_time
  BY <1>1, InternalTimeStep DEF IInv, Next, MainThread
<1>4. internal_time \in Nat /\ advance \in Nat \cup {-1}
  BY DEF IInv, TypeOK
<1> USE DEF Promise!Finished, Promise!Goto, Promise!personVars, TimeAfterBlock
<1>5. CASE advance < 0
  BY <1>1, <1>2, <1>3, <1>5 DEF Promise!CatchUp
<1>6. CASE ~(advance < 0)
  BY <1>1, <1>2, <1>4, <1>6 DEF Promise!Advance
<1> QED
  BY <1>5, <1>6

\* The time was filled, or could not be: FillNext is asked again.
LEMMA AgendaAgain ==
  ASSUME IInv, AbandonMainshow \/ SleepOrSpin \/ SleepDone \/ PlayEnd
  PROVE  Promise!LookAgain \/ UNCHANGED promised
<1> USE StageFields
    DEF StageOf, engineVars, dueVars, blockVars, listVars, Yielding, Promise!personVars
<1>1. UNCHANGED <<now, internal_time, schedule, deadline, block, advance, Yielding, didAnything>>
  BY DEF AbandonMainshow, SleepOrSpin, SleepDone, PlayEnd
<1>2. CASE AbandonMainshow \/ SleepOrSpin \/ SleepDone
  <2>1. /\ pc \in {"cutoff", "timeleft", "sleep"} /\ pc' \in {"head", "sleep"}
    BY <1>2 DEF AbandonMainshow, SleepOrSpin, SleepDone
  <2> QED
    BY <1>1, <2>1 DEF Promise!LookAgain, Promise!Goto, promised
<1>3. CASE PlayEnd
  <2>1. /\ pc = "playing" /\ pc' = AfterPlay[track.src]
        /\ track.src \in {"mainshow", "bumper", "files", "legal", "override"}
    BY <1>3 DEF PlayEnd, IInv, Control, Filler, FromBlock
  <2>2. CASE track.src \in {"mainshow", "bumper"}
    <3>1. StageOf = "waiting" /\ StageOf' = "seeking"
      BY <2>1, <2>2, AfterPlayFields DEF Source, FromBlock
    <3> QED
      BY <1>1, <3>1 DEF Promise!LookAgain, Promise!Goto
  <2>3. CASE track.src \in {"files", "legal"}
    <3>1. StageOf = "running" /\ StageOf' = "running"
      BY <2>1, <2>3, AfterPlayFields DEF Source, FromBlock
    <3> QED
      BY <1>1, <3>1 DEF promised
  <2>4. CASE track.src = "override"
    <3>1. StageOf = "seeking" /\ StageOf' = "seeking"
      BY <2>1, <2>4, AfterPlayFields DEF Source
    <3> QED
      BY <1>1, <3>1 DEF promised
  <2> QED
    BY <2>1, <2>2, <2>3, <2>4
<1> QED
  BY <1>2, <1>3

\* Whoever is not the main thread: the clock moves on, the schedule is replaced, the process ends,
\* or the agenda does not notice.
LEMMA AgendaEnvironment ==
  ASSUME IInv, Tick \/ PlayerDies \/ WebAPI \/ RequestShutdown
  PROVE  Promise!Next \/ UNCHANGED promised
<1> USE DEF engineVars, dueVars, blockVars, loopVars, listVars, pauseVars, histVars, mainVars,
            Promise!planVars, Promise!personVars
<1>0. TypeOK /\ Control
  BY DEF IInv
<1>1. pc \notin {"exited", "crashed"} => StageOf # "off"
  BY <1>0, Running
<1>2. CASE Tick
  <2>1. track'.src = track.src
    BY <1>0, <1>2 DEF Tick, TypeOK, Selection
  <2>2. /\ pc \notin {"exited", "crashed"} /\ now' = now + 1
        /\ UNCHANGED <<pc, internal_time, schedule, deadline, block, advance, Yielding,
                       didAnything>>
    BY <1>2 DEF Tick, Yielding
  <2> QED
    BY <1>1, <2>1, <2>2 DEF Promise!Next, Promise!Tick, StageOf
<1>3. CASE RequirementsUpdate
  <2>1. /\ pc \notin {"exited", "crashed"} /\ schedule' # schedule
        /\ UNCHANGED <<pc, track, now, internal_time, deadline, block, advance, Yielding,
                       didAnything>>
    BY <1>3 DEF RequirementsUpdate, Serving, Yielding
  <2> QED
    BY <1>1, <2>1 DEF Promise!Next, Promise!Rewrite, StageOf
<1>4. CASE RequestShutdown
  <2>1. /\ pc \notin {"exited", "crashed"} /\ pc' \in {"exited", pc}
        /\ UNCHANGED <<track, schedule, now, internal_time, deadline, block, advance, Yielding,
                       didAnything>>
    BY <1>4 DEF RequestShutdown, Yielding
  <2>2. CASE pc' = "exited"
    BY <1>1, <2>1, <2>2, StageFields DEF Promise!Next, Promise!Stop, Promise!Goto, StageOf
  <2>3. CASE pc' = pc
    BY <2>1, <2>3 DEF promised, StageOf
  <2> QED
    BY <2>1, <2>2, <2>3
<1>5. CASE OverrideEnable \/ OverrideDisable \/ PlaylistUpdate
  <2>1. track'.src = track.src
    BY <1>0, <1>5 DEF OverrideEnable, OverrideDisable, PlaylistUpdate, Retimed, TypeOK, Selection
  <2>2. /\ pc \notin {"exited", "crashed"}
        /\ UNCHANGED <<pc, schedule, now, internal_time, deadline, block, advance, didAnything>>
    BY <1>5 DEF OverrideEnable, OverrideDisable, PlaylistUpdate, Serving
  <2> QED
    BY <1>1, <2>1, <2>2 DEF Promise!Next, Promise!Turn, promised, StageOf
<1>6. CASE PauseTest \/ PlayerPause \/ RunOnceSetMainshow
  BY <1>6 DEF PauseTest, PlayerPause, RunOnceSetMainshow, promised, StageOf, Yielding
<1>7. CASE CutShort \/ PlayerSeek \/ PlayerSpeed
  <2>1. track'.src = track.src
    BY <1>0, <1>7 DEF CutShort, PlayerSeek, PlayerSpeed, Retimed, TypeOK, Selection
  <2> QED
    BY <1>7, <2>1 DEF CutShort, PlayerSeek, PlayerSpeed, promised, StageOf, Yielding
<1> QED
  BY <1>2, <1>3, <1>4, <1>5, <1>6, <1>7 DEF PlayerDies, WebAPI, PlayerStop

\* Every step of the station is one of the agenda's, or leaves it alone.
LEMMA AgendaStep == IInv /\ [Next]_vars => [Promise!Next]_promised
<1> SUFFICES ASSUME IInv, [Next]_vars PROVE Promise!Next \/ UNCHANGED promised
  OBVIOUS
<1>1. CASE FillNext \/ BeginBlock \/ NotYet \/ RunRequirement \/ EndBlock
  BY <1>1, AgendaPlan, AgendaDue, AgendaServe, AgendaFinish DEF Promise!Next
<1>2. CASE AbandonMainshow \/ SleepOrSpin \/ SleepDone \/ PlayEnd
  BY <1>2, AgendaAgain DEF Promise!Next
<1>3. CASE UNCHANGED vars
  BY <1>3
  DEF vars, engineVars, dueVars, blockVars, loopVars, listVars, promised, StageOf, Yielding
<1> QED
  BY <1>1, <1>2, <1>3, AgendaStutter, AgendaOverride, AgendaEnvironment DEF Next, MainThread

\* Automation implements Agenda: whatever people, players and playlists do, the requirements of the
\* first due second are looked up together, not begun early nor passed over when it has come, and
\* run one by one in the schedule's order.  The engine's time goes to the clock, past what came due,
\* only after a block one of whose requirements has a negative advance, and where ManualOverride
\* has given way to a person; after any other block it goes on by some seconds, past what was due
\* in them; it moves nowhere else.
THEOREM AgendaKept == Spec => KeepsAgenda
<1>1. IInv /\ [Next]_vars => [Promise!Next]_(Promise!agendaVars)
  BY AgendaStep DEF promised, Promise!agendaVars, Promise!planVars, Promise!personVars
<1> QED
  BY <1>1, AgendaInit, IInvAlways, PTL DEF Spec, KeepsAgenda, Promise!Spec

-----------------------------------------------------------------------------
(***************************************************************************)
(* A replaced schedule.                                                    *)
(***************************************************************************)
\* Nobody but the main thread, at the head of its loop, has begun a pass since a replacement.
LEMMA FollowedFields ==
  ASSUME IInv, [Next]_vars
  PROVE  /\ followed' => followed \/ StageOf' \in {"seeking", "off"}
         /\ followed' => schedule' = schedule
<1> USE DEF histVars, engineVars, mainVars
<1>1. CASE LoopTest
  <2>1. pc' \in {"exited", "override"} /\ schedule' = schedule
    BY <1>1 DEF LoopTest
  <2> QED
    BY <2>1, StageFields DEF StageOf
<1>2. CASE RequirementsUpdate
  BY <1>2 DEF RequirementsUpdate
<1>3. CASE MainThread /\ ~LoopTest
  BY <1>3
  DEF MainThread, OverrideTest, OverridePlay, OverrideIdle, OverrideLeave, CheckBumpers, FillNext,
      BeginBlock, NotYet, RunRequirement, PlayFile, FilesDone, EndBlock, PopMainshow,
      MainshowHasNone, AbandonMainshow, TryBumpers, PopBumper, BumpersHaveNone, SleepOrSpin,
      SleepDone, PlayStart, PlayEnd
<1>4. CASE ~MainThread /\ ~RequirementsUpdate
  <2>1. Adjust => followed' = followed /\ schedule' = schedule
    BY AdjustFields DEF IInv
  <2> QED
    BY <1>4, <2>1
    DEF Next, Tick, PlayerDies, CutShort, WebAPI, OverrideEnable, PauseTest, PlayerPause,
        PlayerStop, PlaylistUpdate, RunOnceSetMainshow, RequestShutdown, vars, Adjust
<1> QED
  BY <1>1, <1>2, <1>3, <1>4

\* The plan is made of the schedule there is, and the agenda's steps then keep it; a pass that began
\* after the replacement has made its plan since.
LEMMA FollowedStep ==
  ASSUME IInv, ReplacementFollowed, [Next]_vars
  PROVE  ReplacementFollowed'
<1> SUFFICES ASSUME followed' PROVE ReplacementFollowed'
  BY DEF ReplacementFollowed
<1>1. schedule' = schedule /\ (followed \/ StageOf' \in {"seeking", "off"})
  BY FollowedFields
<1>2. Effective' = Effective
  BY <1>1 DEF Effective
<1>3. CASE StageOf' \in {"seeking", "off"}
  BY <1>3 DEF ReplacementFollowed
<1>4. CASE StageOf' = StageOf /\ UNCHANGED <<internal_time, deadline, block>>
  BY <1>1, <1>2, <1>3, <1>4 DEF ReplacementFollowed
<1>5. CASE Promise!Plan
  <2>1. StageOf' = "planned" /\ UNCHANGED internal_time
    BY <1>5 DEF Promise!Plan, Promise!Goto
  <2>2. LET due == DueTimes(Effective, internal_time)
        IN IF due = {} THEN block' = NoBlock
           ELSE IsEarliest(deadline', due) /\ block' = BlockAt(Effective, deadline')
    BY <1>5, SameEngine DEF Promise!Plan
  <2> QED
    BY <1>2, <2>1, <2>2 DEF ReplacementFollowed
<1>6. CASE Promise!Wait
  <2>1. StageOf = "planned" /\ StageOf' = "waiting" /\ UNCHANGED <<internal_time, deadline, block>>
    BY <1>6 DEF Promise!Wait, Promise!Goto
  <2> QED
    BY <1>1, <1>2, <2>1 DEF ReplacementFollowed
<1>7. CASE Promise!Run
  <2>1. StageOf = "planned" /\ StageOf' = "running" /\ UNCHANGED <<deadline, block>>
    BY <1>7 DEF Promise!Run, Promise!Goto
  <2>2. block = NoBlock \/ block = BlockAt(Effective, deadline)
    BY <1>1, <2>1 DEF ReplacementFollowed
  <2> QED
    BY <1>2, <2>1, <2>2 DEF ReplacementFollowed, NoBlock, BlockAt
<1>8. CASE Promise!Serve
  <2>1. PICK i \in DOMAIN block : block' = [j \in DOMAIN block \ {i} |-> block[j]]
    BY <1>8 DEF Promise!Serve
  <2>2. StageOf = "running" /\ StageOf' \in {"running", "off"} /\ UNCHANGED deadline
    BY <1>8 DEF Promise!Serve
  <2> QED
    BY <1>1, <1>2, <2>1, <2>2 DEF ReplacementFollowed
<1> QED
  BY <1>1, <1>3, <1>4, <1>5, <1>6, <1>7, <1>8, AgendaStep
  DEF Promise!Next, Promise!LookAgain, Promise!Advance, Promise!CatchUp, Promise!Finished,
      Promise!Rewrite, Promise!Tick, Promise!Turn, Promise!GiveWay, Promise!Skip, Promise!GoOn,
      Promise!Stop, Promise!Goto, Promise!planVars, promised

\* A replaced schedule is what the main thread goes by from its next pass on: no plan made of the
\* old one is waited for, and no block of it is begun, however that pass ends and whoever comes in
\* between the replacement, the planning and the comparison with the clock.
THEOREM ReplacementsFollowed == Spec => []ReplacementFollowed
<1>1. Init => ReplacementFollowed
  BY DEF Init, ReplacementFollowed
<1>2. IInv /\ ReplacementFollowed /\ [Next]_vars => ReplacementFollowed'
  BY FollowedStep
<1> QED
  BY <1>1, <1>2, IInvAlways, PTL DEF Spec

-----------------------------------------------------------------------------
(***************************************************************************)
(* Where a block leaves the engine.                                        *)
(***************************************************************************)
\* Once it has come, a block's deadline is in the past for as long as the block runs.
Begun == InBlock /\ ~booting => deadline <= now

\* Who is in a block has begun it in time, and the clock only goes on.
LEMMA BegunStep ==
  ASSUME TypeOK, Begun, [Next]_vars
  PROVE  Begun'
<1> USE DEF Begun, InBlock, loopVars, listVars, engineVars, dueVars, blockVars, pauseVars,
            histVars, mainVars
<1>0. now \in Nat /\ deadline \in Nat /\ track.src \in Source
  BY DEF TypeOK, Selection
<1>1. CASE LoopTest \/ OverrideTest \/ OverrideIdle \/ OverrideLeave \/ CheckBumpers \/ FillNext
           \/ NotYet \/ EndBlock
  BY <1>1 DEF LoopTest, OverrideTest, OverrideIdle, AfterIdle, OverrideLeave, CheckBumpers,
     FillNext, NotYet, EndBlock
<1>2. CASE BeginBlock
  BY <1>0, <1>2 DEF BeginBlock, Due
<1>3. CASE RunRequirement \/ PlayFile \/ FilesDone
  BY <1>3 DEF RunRequirement, PlayFile, FilesDone
<1>4. CASE OverridePlay \/ PopMainshow \/ PopBumper
  BY <1>4, SelectFields DEF OverridePlay, PopMainshow, PopBumper, FromBlock
<1>5. CASE MainshowHasNone \/ AbandonMainshow \/ TryBumpers \/ BumpersHaveNone \/ SleepOrSpin
           \/ SleepDone \/ PlayStart
  BY <1>5 DEF MainshowHasNone, AbandonMainshow, TryBumpers, BumpersHaveNone, SleepOrSpin,
     SleepDone, PlayStart
<1>6. CASE PlayEnd
  BY <1>0, <1>6, AfterPlayFields DEF PlayEnd
<1>7. CASE Tick
  <2>1. track'.src = track.src
    BY <1>7 DEF Tick, TypeOK, Selection
  <2>2. now' = now + 1 /\ UNCHANGED <<pc, deadline, booting>>
    BY <1>7 DEF Tick
  <2> QED
    BY <1>0, <2>1, <2>2
<1>8. CASE OverrideEnable \/ PauseTest \/ PlayerPause \/ PlaylistUpdate \/ RequirementsUpdate
           \/ RunOnceSetMainshow
  BY <1>8 DEF OverrideEnable, PauseTest, PlayerPause, PlaylistUpdate, RequirementsUpdate,
     RunOnceSetMainshow
<1>9. CASE CutShort
  <2>1. track'.src = track.src
    BY <1>9 DEF CutShort, TypeOK, Selection
  <2> QED
    BY <1>9, <2>1 DEF CutShort
<1>10. CASE RequestShutdown \/ UNCHANGED vars
  BY <1>10 DEF RequestShutdown, vars
<1>11. CASE Adjust
  <2>1. track'.src = track.src /\ UNCHANGED <<pc, now, deadline, booting>>
    BY <1>11, AdjustFields
  <2> QED
    BY <2>1
<1> QED
  BY <1>1, <1>2, <1>3, <1>4, <1>5, <1>6, <1>7, <1>8, <1>9, <1>10, <1>11
     DEF Next, MainThread, WebAPI, PlayerStop, PlayerDies, Adjust

\* What a block leaves behind: by Begun its deadline is over when the engine goes to the clock, and
\* by BlockAhead the clock is not behind the engine then.
LEMMA EndStep ==
  ASSUME IInv, Begun, [Next]_vars, pc = "run", pc' = "head", ~booting
  PROVE  /\ advance < 0 => internal_time' >= deadline
         /\ advance # 0 => internal_time' > internal_time \/ internal_time' = now
<1>1. now \in Nat /\ internal_time \in Nat /\ deadline \in Nat /\ advance \in Nat \cup {-1}
  BY DEF IInv, TypeOK
<1>2. EndBlock
  <2>1. ~RunRequirement
    BY SelectFields DEF RunRequirement, PlayLegalID
  <2> QED
    BY <2>1, AdjustFields
       DEF IInv, Next, MainThread, LoopTest, OverrideTest, OverridePlay, OverrideIdle,
       OverrideLeave, CheckBumpers, FillNext, BeginBlock, NotYet, PlayFile, FilesDone, PopMainshow,
       MainshowHasNone, AbandonMainshow, TryBumpers, PopBumper, BumpersHaveNone, SleepOrSpin,
       SleepDone, PlayStart, PlayEnd, Tick, PlayerDies, CutShort, WebAPI, OverrideEnable,
       PauseTest, PlayerPause, PlayerStop, PlaylistUpdate, RequirementsUpdate, RunOnceSetMainshow,
       RequestShutdown, mainVars, vars, loopVars, Adjust
<1>3. internal_time' = TimeAfterBlock /\ deadline <= now
  BY <1>2 DEF EndBlock, Begun, InBlock
<1> QED
  BY <1>1, <1>3 DEF TimeAfterBlock

\* A block with the default advance is not found again unless it took no time: the engine is at its
\* deadline or later. Any block but one with an advance of 0 moves the engine, or is on the clock.
THEOREM BlocksStayBehind == Spec => BlockIsBehind
<1>1. Init => Begun
  BY DEF Init, Begun, InBlock
<1>2. IInv /\ Begun /\ [Next]_vars => Begun'
  BY BegunStep DEF IInv
<1>3. IInv /\ Begun /\ [Next]_vars =>
        [pc = "run" /\ pc' = "head" /\ ~booting =>
           /\ advance < 0 => internal_time' >= deadline
           /\ advance # 0 => internal_time' > internal_time \/ internal_time' = now]_vars
  BY EndStep
<1> QED
  BY <1>1, <1>2, <1>3, IInvAlways, PTL DEF Spec, BlockIsBehind
-----------------------------------------------------------------------------
(***************************************************************************)
(* Where no requirement has an advance of 0.                               *)
(***************************************************************************)
NoNought == \A s \in Schedules : \A i \in DOMAIN s : s[i].advance # 0

\* Then neither has a block, nor RunBlock's maximum, which starts at 1, on its way through it.
Advancing == advance # 0 /\ \A i \in DOMAIN block : block[i].advance # 0

\* Every block is made of the schedule's requirements and the implicit one, which has -1.
LEMMA BlockAdvances ==
  ASSUME NoNought, NEW s \in Schedules
  PROVE  /\ \A i \in DOMAIN NoBlock : NoBlock[i].advance # 0
         /\ \A i \in DOMAIN RebootBlock(EffectiveSchedule(s)) :
              RebootBlock(EffectiveSchedule(s))[i].advance # 0
         /\ \A t : \A i \in DOMAIN BlockAt(EffectiveSchedule(s), t) :
              BlockAt(EffectiveSchedule(s), t)[i].advance # 0
<1> DEFINE e == EffectiveSchedule(s)
<1>1. s \in Seq(Requirement) /\ e \in Seq(Requirement)
  BY EffectiveType, AutomationAssumption DEF AutomationAssumption
<1>2. \A i \in DOMAIN e : e[i] \in Requirement /\ e[i].advance # 0
  <2>1. CASE ImplicitLegalId
    <3>1. e = <<ImplicitRequirement>> \o s /\ ImplicitRequirement.advance = -1
      BY <2>1 DEF EffectiveSchedule, ImplicitRequirement
    <3>2. \A i \in DOMAIN e : e[i] = ImplicitRequirement \/ \E j \in DOMAIN s : e[i] = s[j]
      BY <1>1, <3>1
    <3> QED
      BY <1>1, <3>1, <3>2 DEF NoNought
  <2>2. CASE ~ImplicitLegalId
    BY <1>1, <2>2 DEF NoNought, EffectiveSchedule
  <2> QED
    BY <2>1, <2>2
<1>3. \A i \in DOMAIN RebootBlock(e) : RebootBlock(e)[i].advance = -1
  BY <1>2 DEF RebootBlock, Requirement
<1>4. \A t : \A i \in DOMAIN BlockAt(e, t) : BlockAt(e, t)[i].advance # 0
  BY <1>2 DEF BlockAt, DuePositions
<1> QED
  BY <1>3, <1>4 DEF NoBlock

\* RunBlock's maximum starts at 1 and gets to 0 by a 0 only.
LEMMA AdvancingStep ==
  ASSUME NoNought, TypeOK, Advancing, [Next]_vars
  PROVE  Advancing'
<1> USE DEF Advancing, blockVars
<1>1. CASE FillNext
  <2>1. \/ block' = NoBlock
        \/ \E t : block' = BlockAt(Effective, t)
    BY <1>1 DEF FillNext
  <2>2. advance' = advance
    BY <1>1 DEF FillNext
  <2> QED
    BY <2>1, <2>2, BlockAdvances DEF Effective, TypeOK
<1>2. CASE BeginBlock
  BY <1>2 DEF BeginBlock
<1>3. CASE RunRequirement
  <2>1. PICK i \in DOMAIN block :
          /\ block' = Restrict(block, DOMAIN block \ {i})
          /\ advance' = AdvanceStep(advance, block[i].advance)
    BY <1>3 DEF RunRequirement
  <2>2. block' = [j \in DOMAIN block \ {i} |-> block[j]]
    BY <2>1 DEF Restrict
  <2>3. block[i].advance \in Int /\ block[i].advance # 0 /\ advance \in Nat \cup {-1}
    BY DEF TypeOK, Requirement
  <2>4. advance' # 0
    BY <2>1, <2>3 DEF AdvanceStep
  <2> QED
    BY <2>2, <2>4
<1>4. CASE ~(FillNext \/ BeginBlock \/ RunRequirement)
  <2>1. UNCHANGED <<block, advance>>
    BY <1>4, AdjustFields
    DEF Next, MainThread, LoopTest, OverrideTest, OverridePlay, OverrideIdle, OverrideLeave,
        CheckBumpers, NotYet, PlayFile, FilesDone, EndBlock, PopMainshow, MainshowHasNone,
        AbandonMainshow, TryBumpers, PopBumper, BumpersHaveNone, SleepOrSpin, SleepDone,
        PlayStart, PlayEnd, Tick, PlayerDies, CutShort, WebAPI, OverrideEnable, OverrideDisable,
        PauseTest, PlayerPause, PlayerStop, PlayerSeek, PlayerSpeed, PlaylistUpdate,
        RequirementsUpdate, RunOnceSetMainshow, RequestShutdown, mainVars, vars
  <2> QED
    BY <2>1
<1> QED
  BY <1>1, <1>2, <1>3, <1>4

\* RunBlock's endless loop, which requirement.proto:39-40 rules out, needs a requirement with an
\* advance of 0: without one, every block takes the engine on, or leaves it on a clock that goes on.
THEOREM BlocksAdvance ==
  ASSUME NoNought
  PROVE  Spec => [][pc = "run" /\ pc' = "head" /\ ~booting =>
                      internal_time' > internal_time \/ internal_time' = now]_vars
<1> DEFINE Advances == pc = "run" /\ pc' = "head" /\ ~booting =>
                         internal_time' > internal_time \/ internal_time' = now
<1>1. Init => Advancing
  BY BlockAdvances DEF Init, Advancing
<1>2. IInv /\ Advancing /\ [Next]_vars => Advancing'
  BY AdvancingStep DEF IInv
<1>3. Init => Begun
  BY DEF Init, Begun, InBlock
<1>4. IInv /\ Begun /\ [Next]_vars => Begun'
  BY BegunStep DEF IInv
<1>5. IInv /\ Begun /\ Advancing /\ [Next]_vars => [Advances]_vars
  BY EndStep DEF Advancing
<1> QED
  BY <1>1, <1>2, <1>3, <1>4, <1>5, IInvAlways, PTL DEF Spec
=============================================================================
