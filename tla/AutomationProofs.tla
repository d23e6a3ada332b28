-------------------------- MODULE AutomationProofs --------------------------
(***************************************************************************)
(* What holds of Automation for every station: any tracks, playlists,      *)
(* schedules, flags and bounds that satisfy the modules' assumptions.      *)
(***************************************************************************)
EXTENDS Automation, FiniteSetTheorems, TLAPS

(***************************************************************************)
(* The operators the model is built from return what TypeOK asks for.      *)
(***************************************************************************)
\* A shuffle of a finite set of tracks is a sequence of items.
LEMMA ShuffleType ==
  ASSUME NEW S \in SUBSET Track
  PROVE  SetToSeqs(S) \subseteq Seq(Item)
<1>1. IsFiniteSet(S)
  BY AutomationAssumption, FS_Subset DEF AutomationAssumption
<1>2. Cardinality(S) \in Nat
  BY <1>1, FS_CardinalityType
<1>3. ASSUME NEW f \in [1 .. Cardinality(S) -> S]
      PROVE  f \in Seq(Item)
  BY <1>2 DEF Item
<1> QED
  BY <1>3 DEF SetToSeqs

\* What is fetched into a playlist is a sequence of items.
LEMMA ListsType ==
  /\ RandomMainshows \subseteq Seq(Item)
  /\ \A name : Mainshows(name) \subseteq Seq(Item)
  /\ BumperLists \subseteq Seq(Item)
<1>1. \A p \in PlaylistName : PlaylistItems[p] \in SUBSET Track
  BY AutomationAssumption DEF AutomationAssumption
<1>2. Weighted \subseteq PlaylistName /\ BumperTrack \in SUBSET Track
  BY AutomationAssumption DEF AutomationAssumption
<1>3. <<>> \in Seq(Item)
  OBVIOUS
<1>4. \A p \in PlaylistName : SetToSeqs(PlaylistItems[p]) \subseteq Seq(Item)
  BY <1>1, ShuffleType
<1>5. RandomMainshows \subseteq Seq(Item)
  BY <1>2, <1>3, <1>4 DEF RandomMainshows
<1>6. \A name : Mainshows(name) \subseteq Seq(Item)
  BY <1>4, <1>5 DEF Mainshows
<1>7. BumperLists \subseteq Seq(Item)
  BY <1>2, ShuffleType DEF BumperLists
<1> QED
  BY <1>5, <1>6, <1>7

\* Taking an entry out of a list leaves a list.
LEMMA RemoveAtType ==
  ASSUME NEW S, NEW s \in Seq(S), NEW i \in DOMAIN s
  PROVE  RemoveAt(s, i) \in Seq(S)
<1>1. i \in 1 .. Len(s) /\ Len(s) \in Nat
  OBVIOUS
<1>2. SubSeq(s, 1, i - 1) \in Seq(S)
  BY <1>1
<1>3. SubSeq(s, i + 1, Len(s)) \in Seq(S)
  BY <1>1
<1> QED
  BY <1>2, <1>3 DEF RemoveAt

\* The schedule the engine works with is a sequence of requirements.
LEMMA EffectiveType ==
  ASSUME NEW s \in Schedules
  PROVE  EffectiveSchedule(s) \in Seq(Requirement)
<1>1. s \in Seq(Requirement)
  BY AutomationAssumption DEF AutomationAssumption
<1>2. ImplicitRequirement \in Requirement
  <2>1. [f \in CalendarField |-> IF f \in TopOfHour THEN {0} ELSE {}]
          \in [CalendarField -> SUBSET Int]
    OBVIOUS
  <2>2. ImplicitGap \in Nat /\ <<>> \in Seq(Item \cup RawItem)
    BY EngineAssumption DEF EngineAssumption
  <2> QED
    BY <2>1, <2>2 DEF ImplicitRequirement, Requirement, Command
<1> QED
  BY <1>1, <1>2 DEF EffectiveSchedule

BlockOK(b) == DOMAIN b \subseteq Nat \ {0} /\ \A i \in DOMAIN b : b[i] \in Requirement

\* The requirements of a block are numbered as in the schedule they come from.
LEMMA BlockType ==
  ASSUME NEW s \in Schedules
  PROVE  /\ BlockOK(NoBlock)
         /\ BlockOK(RebootBlock(EffectiveSchedule(s)))
         /\ \A t : BlockOK(BlockAt(EffectiveSchedule(s), t))
<1> DEFINE e == EffectiveSchedule(s)
<1>1. e \in Seq(Requirement) /\ DOMAIN e \subseteq Nat \ {0}
  BY EffectiveType
<1>2. BlockOK(NoBlock)
  BY DEF BlockOK, NoBlock
<1>3. ASSUME NEW r \in Requirement PROVE [r EXCEPT !.advance = -1] \in Requirement
  BY DEF Requirement
<1>4. BlockOK(RebootBlock(e))
  BY <1>1, <1>3 DEF BlockOK, RebootBlock
<1>5. \A t : BlockOK(BlockAt(e, t))
  BY <1>1 DEF BlockOK, BlockAt, DuePositions
<1> QED
  BY <1>2, <1>4, <1>5

\* The gap of a block is a number of seconds.
LEMMA GapType ==
  ASSUME NEW s \in Schedules, NEW t
  PROVE  GapsAt(EffectiveSchedule(s), t) \subseteq Nat
<1> DEFINE e == EffectiveSchedule(s)
<1>1. e \in Seq(Requirement)
  BY EffectiveType
<1>2. \A r \in Requirement : r.gap \in Nat
  BY DEF Requirement
<1>3. DuePositions(e, t) \subseteq DOMAIN e
  BY DEF DuePositions
<1>4. \A i \in DOMAIN e : e[i] \in Requirement
  BY <1>1
<1> HIDE DEF e
<1>5. \A i \in DuePositions(e, t) : e[i].gap \in Nat
  BY <1>2, <1>3, <1>4
<1> QED
  BY <1>5, EngineAssumption DEF GapsAt, EngineAssumption, e

\* The running advance is -1 or at least nought, so RunBlock's final test is exhaustive.
LEMMA AdvanceType ==
  ASSUME NEW acc \in Nat \cup {-1}, NEW a \in Int
  PROVE  AdvanceStep(acc, a) \in Nat \cup {-1}
BY DEF AdvanceStep

\* A track, and an item posted whole, plays for at least a second.
LEMMA DurationType == \A i \in Track \cup RawItem : Duration[i] \in Nat \ {0}
BY AutomationAssumption DEF AutomationAssumption

\* A selection is well formed, and needs only the seconds of its item.
LEMMA SelectedType ==
  ASSUME NEW src \in Source, NEW i \in Item \cup RawItem \cup {NoItem}
  PROVE  Selected(src, i) \in Selection
<1>1. DOMAIN Duration = Track \cup RawItem
  BY AutomationAssumption DEF AutomationAssumption
<1> QED
  BY <1>1, DurationType DEF Selected, Selection

\* An idle player has no selection of its own.
LEMMA NoTrackType == NoTrack \in Selection
BY DEF NoTrack, Selection, Source

\* A second of a track, or a stop, leaves a selection.
LEMMA PlayedType ==
  ASSUME NEW t \in Selection
  PROVE  /\ t.left \in Nat /\ t.src \in Source
         /\ t.left > 0 => [t EXCEPT !.left = @ - 1] \in Selection
         /\ [t EXCEPT !.left = 0] \in Selection
BY DEF Selection

\* ApplyMergeRequest leaves a sequence of items.
LEMMA MergedType ==
  ASSUME NEW list \in Seq(Item), NEW ids \in Requests, NEW overwrite \in BOOLEAN
  PROVE  Merged(list, ids, overwrite) \in Seq(Item)
BY AutomationAssumption DEF AutomationAssumption, Merged

-----------------------------------------------------------------------------
(***************************************************************************)
(* Type correctness.                                                       *)
(***************************************************************************)
\* TypeOK holds initially.
LEMMA InitType == Init => TypeOK
<1> SUFFICES ASSUME Init PROVE TypeOK
  OBVIOUS
<1>1. schedule \in Schedules /\ mainshow \in Seq(Item)
  BY ListsType DEF Init
<1>2. BlockOK(block)
  BY <1>1, BlockType DEF Init
<1>3. DoInit \in BOOLEAN /\ DefaultHuman \in BOOLEAN
  BY AutomationAssumption DEF AutomationAssumption
<1>4. track \in Selection
  BY DEF Init, NoTrack, Source, Selection
<1>5. /\ overrideList \in Seq(Item) /\ bumperlist \in Seq(Item)
      /\ files \in Seq(Item \cup RawItem) /\ item \in Track \cup {NoItem}
  BY DEF Init
<1>6. pc \in PC
  BY DEF Init, PC
<1> QED
  BY <1>1, <1>2, <1>3, <1>4, <1>5, <1>6 DEF Init, TypeOK, BlockOK

\* The steps of the main thread that only move the program counter.
LEMMA ControlType ==
  ASSUME TypeOK,
         \/ LoopTest \/ OverrideTest \/ FilesDone \/ NotYet \/ MainshowHasNone \/ TryBumpers
         \/ BumpersHaveNone \/ PlayStart \/ BeginBlock
  PROVE  TypeOK'
<1> USE DEF TypeOK, PC, loopVars, listVars, engineVars, dueVars, blockVars, pauseVars, histVars
<1>1. CASE LoopTest
  BY <1>1 DEF LoopTest
<1>2. CASE OverrideTest
  BY <1>2 DEF OverrideTest
<1>3. CASE FilesDone
  BY <1>3 DEF FilesDone
<1>4. CASE NotYet
  BY <1>4 DEF NotYet
<1>5. CASE MainshowHasNone
  BY <1>5 DEF MainshowHasNone
<1>6. CASE TryBumpers
  BY <1>6 DEF TryBumpers
<1>7. CASE BumpersHaveNone
  BY <1>7 DEF BumpersHaveNone
<1>8. CASE PlayStart
  BY <1>8 DEF PlayStart
<1>9. CASE BeginBlock
  BY <1>9 DEF BeginBlock, CountSelection
<1> QED
  BY <1>1, <1>2, <1>3, <1>4, <1>5, <1>6, <1>7, <1>8, <1>9

\* The steps that choose a track, or end one.
LEMMA PlayType ==
  ASSUME TypeOK,
         \/ OverridePlay \/ OverrideIdle \/ PopMainshow \/ PopBumper \/ PlayFile
         \/ SleepOrSpin \/ SleepDone \/ PlayEnd
  PROVE  TypeOK'
<1> USE DEF TypeOK, PC, loopVars, listVars, engineVars, dueVars, blockVars, pauseVars, histVars
<1>1. CASE OverridePlay
  <2>1. overrideList[1] \in Item /\ Tail(overrideList) \in Seq(Item)
    BY <1>1 DEF OverridePlay, Item
  <2>2. track' \in Selection
    BY <1>1, <2>1, SelectedType DEF OverridePlay, Select, Source
  <2> QED
    BY <1>1, <2>1, <2>2 DEF OverridePlay, Select
<1>2. CASE OverrideIdle
  <2>1. overrideList' \in Seq(Item)
    <3>1. overrideList # <<>> => Tail(overrideList) \in Seq(Item)
      OBVIOUS
    <3>2. \/ overrideList' = overrideList
          \/ overrideList # <<>> /\ overrideList' = Tail(overrideList)
      BY <1>2 DEF OverrideIdle
    <3> QED
      BY <3>1, <3>2
  <2>2. pc' \in PC
    BY <1>2 DEF OverrideIdle, AfterIdle
  <2> QED
    BY <1>2, <2>1, <2>2 DEF OverrideIdle
<1>3. CASE PopMainshow
  <2>1. PICK i \in Fitting(mainshow, TimeLimit) :
          Select("mainshow", mainshow[i]) /\ mainshow' = RemoveAt(mainshow, i)
    BY <1>3 DEF PopMainshow
  <2>2. i \in DOMAIN mainshow /\ mainshow[i] \in Item
    BY <2>1 DEF Fitting
  <2>3. mainshow' \in Seq(Item)
    BY <2>1, <2>2, RemoveAtType
  <2>4. track' \in Selection
    BY <2>1, <2>2, SelectedType DEF Select, Source
  <2>5. /\ UNCHANGED <<now, lag, booting, shutdown, didAnything, override, overrideList, bumperlist,
                      engineVars, dueVars, blockVars, pauseVars, skippedUntil, synced, followed>>
        /\ autoSelections' \in Nat
    BY <1>3 DEF PopMainshow, CountSelection
  <2> QED
    BY <2>1, <2>3, <2>4, <2>5 DEF Select
<1>4. CASE PopBumper
  <2>1. PICK i \in Fitting(bumperlist, TimeLimit) :
          Select("bumper", bumperlist[i]) /\ bumperlist' = RemoveAt(bumperlist, i)
    BY <1>4 DEF PopBumper
  <2>2. i \in DOMAIN bumperlist /\ bumperlist[i] \in Item
    BY <2>1 DEF Fitting
  <2>3. bumperlist' \in Seq(Item)
    BY <2>1, <2>2, RemoveAtType
  <2>4. track' \in Selection
    BY <2>1, <2>2, SelectedType DEF Select, Source
  <2>5. /\ UNCHANGED <<now, lag, booting, shutdown, didAnything, override, overrideList, mainshow,
                      engineVars, dueVars, blockVars, pauseVars, skippedUntil, synced, followed>>
        /\ autoSelections' \in Nat
    BY <1>4 DEF PopBumper, CountSelection
  <2> QED
    BY <2>1, <2>3, <2>4, <2>5 DEF Select
<1>5. CASE PlayFile
  <2>1. files[1] \in Item \cup RawItem /\ Tail(files) \in Seq(Item \cup RawItem)
    BY <1>5 DEF PlayFile
  <2>2. item' \in Track \cup {NoItem}
    BY <1>5 DEF PlayFile
  <2>3. track' \in Selection
    BY <1>5, <2>1, <2>2, SelectedType DEF PlayFile, Select, Source, Item
  <2> QED
    BY <1>5, <2>1, <2>2, <2>3 DEF PlayFile, Select
<1>6. CASE SleepOrSpin
  <2>1. track' \in Selection
    <3>1. CASE deadline - now \in 1 .. SleepCutoff
      <4>1. deadline - now \in Nat
        BY <3>1, AutomationAssumption DEF AutomationAssumption
      <4>2. track' = [NoTrack EXCEPT !.src = "silence", !.left = deadline - now]
        BY <1>6, <3>1 DEF SleepOrSpin
      <4> QED
        BY <4>1, <4>2, NoTrackType DEF Selection, Source
    <3>2. CASE deadline - now \notin 1 .. SleepCutoff
      BY <1>6, <3>2 DEF SleepOrSpin
    <3> QED
      BY <3>1, <3>2
  <2> QED
    BY <1>6, <2>1 DEF SleepOrSpin
<1>7. CASE SleepDone
  BY <1>7, NoTrackType DEF SleepDone
<1>8. CASE PlayEnd
  <2>1. pc' \in PC
    BY <1>8, PlayedType DEF PlayEnd, AfterPlay
  <2>2. track' \in Selection
    BY <1>8, NoTrackType DEF PlayEnd
  <2> QED
    BY <1>8, <2>1, <2>2 DEF PlayEnd
<1> QED
  BY <1>1, <1>2, <1>3, <1>4, <1>5, <1>6, <1>7, <1>8

\* The steps that schedule and run a block, and refill the lists.
LEMMA BlockStepType ==
  ASSUME TypeOK,
         \/ OverrideLeave \/ CheckBumpers \/ FillNext \/ RunRequirement \/ EndBlock
         \/ AbandonMainshow
  PROVE  TypeOK'
<1> USE DEF TypeOK, PC, loopVars, listVars, engineVars, dueVars, blockVars, pauseVars, histVars
<1>1. CASE OverrideLeave
  <2>1. internal_time' \in Nat
    BY <1>1 DEF OverrideLeave, TimeAfterOverride
  <2>2. skippedUntil' \in Nat /\ synced' \in BOOLEAN
    BY <1>1 DEF OverrideLeave
  <2> QED
    BY <1>1, <2>1, <2>2 DEF OverrideLeave
<1>2. CASE CheckBumpers
  BY <1>2, ListsType DEF CheckBumpers
<1>3. CASE FillNext
  <2>1. deadline' \in Nat /\ gap' \in Nat /\ BlockOK(block')
    <3>1. DefaultWait \in Nat /\ HugeGap \in Nat
      BY EngineAssumption DEF EngineAssumption
    <3>2. CASE DueTimes(Effective, internal_time) = {}
      BY <1>3, <3>1, <3>2, BlockType DEF FillNext
    <3>3. ASSUME NEW t \in DueTimes(Effective, internal_time),
                 deadline' = t, block' = BlockAt(Effective, t), gap' \in GapsAt(Effective, t)
          PROVE  deadline' \in Nat /\ gap' \in Nat /\ BlockOK(block')
      <4>1. t \in Nat
        BY EngineAssumption DEF DueTimes, EngineAssumption
      <4> QED
        BY <3>3, <4>1, BlockType, GapType DEF Effective
    <3> QED
      BY <1>3, <3>2, <3>3 DEF FillNext, IsEarliest
  <2> QED
    BY <1>3, <2>1 DEF FillNext, BlockOK
<1>4. CASE RunRequirement
  <2>1. PICK i \in DOMAIN block :
          /\ block' = Restrict(block, DOMAIN block \ {i})
          /\ advance' = AdvanceStep(advance, block[i].advance)
          /\ \/ block[i].type = "NO_OP" /\ UNCHANGED <<pc, mainshow, files, item, track, touched>>
             \/ /\ files' = block[i].items /\ item' = NoItem /\ pc' = "files"
                /\ UNCHANGED <<mainshow, track, touched>>
             \/ PlayLegalID /\ UNCHANGED <<mainshow, files, item>>
             \/ /\ mainshow' \in Mainshows(block[i].target)
                /\ UNCHANGED <<pc, files, item, track, touched>>
    BY <1>4 DEF RunRequirement
  <2>2. block[i] \in Requirement
    BY <2>1
  <2>3. block[i].advance \in Int /\ block[i].items \in Seq(Item \cup RawItem)
    BY <2>2 DEF Requirement
  <2>4. BlockOK(block')
    BY <2>1 DEF BlockOK, Restrict
  <2>5. advance' \in Nat \cup {-1}
    BY <2>1, <2>3, AdvanceType
  <2>6. /\ pc' \in PC /\ mainshow' \in Seq(Item) /\ files' \in Seq(Item \cup RawItem)
        /\ item' \in Track \cup {NoItem} /\ touched' \in BOOLEAN
        /\ track' \in Selection
    <3>1. CASE PlayLegalID /\ UNCHANGED <<mainshow, files, item>>
      <4>1. \A legal \in LegalPlaylists : ShortEnough(legal) \subseteq Item
        BY AutomationAssumption DEF AutomationAssumption, ShortEnough, Item
      <4>2. CASE pc' = "crashed" /\ UNCHANGED <<track, touched>>
        BY <3>1, <4>2
      <4>3. ASSUME NEW i2 \in Item \cup {NoItem}, Select("legal", i2)
            PROVE  /\ pc' \in PC /\ touched' \in BOOLEAN
                   /\ track' \in Selection
        BY <4>3, SelectedType DEF Select, Source
      <4> QED
        BY <3>1, <4>1, <4>2, <4>3 DEF PlayLegalID
    <3> QED
      BY <2>1, <2>3, <3>1, ListsType
  <2> QED
    BY <1>4, <2>4, <2>5, <2>6 DEF RunRequirement, BlockOK
<1>5. CASE EndBlock
  <2>1. internal_time' \in Nat /\ synced' \in BOOLEAN
    BY <1>5 DEF EndBlock, TimeAfterBlock
  <2>2. bumperlist' \in Seq(Item)
    BY <1>5, ListsType DEF EndBlock
  <2> QED
    BY <1>5, <2>1, <2>2 DEF EndBlock
<1>6. CASE AbandonMainshow
  BY <1>6, ListsType DEF AbandonMainshow
<1> QED
  BY <1>1, <1>2, <1>3, <1>4, <1>5, <1>6

\* A seek or a change of speed gives the track other seconds, and leaves its origin alone.
LEMMA RetimedFields ==
  ASSUME TypeOK, NEW normal \in BOOLEAN, Retimed(normal)
  PROVE  /\ track' \in Selection /\ track'.src = track.src
         /\ pc = "playing" /\ touched' = TRUE /\ synced' = FALSE
<1>1. PICK seconds \in 0 .. MaxLeft :
        track' = [track EXCEPT !.left = seconds, !.normal = normal]
  BY DEF Retimed
<1>2. track \in Selection /\ seconds \in Nat
  BY AutomationAssumption DEF TypeOK, AutomationAssumption
<1>3. track' \in Selection /\ track'.src = track.src
  BY <1>1, <1>2 DEF Selection
<1> QED
  BY <1>3 DEF Retimed

\* The handlers that can do that.
Adjust == OverrideDisable \/ PlayerSeek \/ PlayerSpeed

\* Whichever handler it is, it keeps the track's seconds or owns up to having touched them.
LEMMA AdjustFields ==
  ASSUME TypeOK, Adjust
  PROVE  /\ track' \in Selection /\ track'.src = track.src
         /\ \/ UNCHANGED <<track, touched, synced>>
            \/ pc = "playing" /\ touched' = TRUE /\ synced' = FALSE
         /\ override' \in BOOLEAN /\ (override' => override' = override)
         /\ UNCHANGED <<mainVars, shutdown, listVars, schedule, pauseVars, autoSelections,
                        skippedUntil, followed>>
<1>0. track \in Selection /\ track.normal \in BOOLEAN /\ override \in BOOLEAN
  BY DEF TypeOK, Selection
<1>1. CASE OverrideDisable
  <2>1. CASE UNCHANGED <<track, touched, synced>>
    BY <1>0, <1>1, <2>1 DEF OverrideDisable
  <2>2. CASE Retimed(TRUE)
    BY <1>1, <2>2, RetimedFields DEF OverrideDisable
  <2> QED
    BY <1>1, <2>1, <2>2 DEF OverrideDisable
<1>2. CASE PlayerSeek
  BY <1>0, <1>2, RetimedFields DEF PlayerSeek
<1>3. CASE PlayerSpeed
  BY <1>0, <1>3, RetimedFields DEF PlayerSpeed
<1> QED
  BY <1>1, <1>2, <1>3 DEF Adjust

\* The clock, the web API and the shutdown signal.
LEMMA EnvironmentType ==
  ASSUME TypeOK, Tick \/ PlayerDies \/ WebAPI \/ RequestShutdown
  PROVE  TypeOK'
<1> USE DEF loopVars, listVars, engineVars, dueVars, blockVars, pauseVars, histVars, mainVars
<1>1. CASE Tick
  <2>1. track' \in Selection
    <3>1. CASE track' = track
      BY <3>1 DEF TypeOK
    <3>2. CASE track.left > 0 /\ track' = [track EXCEPT !.left = @ - 1]
      BY <3>2, PlayedType DEF TypeOK
    <3> QED
      BY <1>1, <3>1, <3>2, Zenon DEF Tick
  <2>2. lag' \in Nat /\ now' \in Nat
    BY <1>1 DEF Tick, TypeOK
  <2>3. UNCHANGED <<pc, booting, shutdown, didAnything, override, listVars, engineVars, dueVars,
                    blockVars, pauseVars, histVars>>
    BY <1>1 DEF Tick
  <2> QED
    BY <2>1, <2>2, <2>3 DEF TypeOK
<1>2. CASE OverrideEnable
  BY <1>2 DEF OverrideEnable, TypeOK
<1>3. CASE Adjust
  <2>1. touched' \in BOOLEAN /\ synced' \in BOOLEAN
    BY <1>3, AdjustFields DEF TypeOK
  <2> QED
    BY <1>3, <2>1, AdjustFields DEF TypeOK
<1>4. CASE PauseTest
  BY <1>4 DEF PauseTest, TypeOK
<1>10. CASE PlayerPause
  <2>1. pausing' \in Nat
    BY <1>10 DEF PlayerPause, TypeOK
  <2>2. paused' \in BOOLEAN /\ touched' \in BOOLEAN /\ synced' \in BOOLEAN
    BY <1>10, Zenon DEF PlayerPause, TypeOK
  <2> QED
    BY <1>10, <2>1, <2>2 DEF PlayerPause, TypeOK
<1>5. CASE CutShort
  <2>1. track' \in Selection
    BY <1>5, PlayedType DEF CutShort, TypeOK
  <2> QED
    BY <1>5, <2>1 DEF CutShort, TypeOK
<1>6. CASE PlaylistUpdate
  <2>1. overrideList' \in Seq(Item) /\ mainshow' \in Seq(Item) /\ bumperlist' \in Seq(Item)
    <3>1. PICK ids \in Requests, overwrite \in BOOLEAN :
            \/ overrideList' = Merged(overrideList, ids, overwrite)
               /\ UNCHANGED <<mainshow, bumperlist>>
            \/ mainshow' = Merged(mainshow, ids, overwrite)
               /\ UNCHANGED <<overrideList, bumperlist>>
            \/ bumperlist' = Merged(bumperlist, ids, overwrite)
               /\ UNCHANGED <<overrideList, mainshow>>
      BY <1>6 DEF PlaylistUpdate
    <3>2. overrideList \in Seq(Item) /\ mainshow \in Seq(Item) /\ bumperlist \in Seq(Item)
      BY DEF TypeOK
    <3> QED
      BY <3>1, <3>2, MergedType
  <2>2. UNCHANGED <<mainVars, shutdown, override, schedule, track, pauseVars, histVars>>
    BY <1>6 DEF PlaylistUpdate
  <2> QED
    BY <2>1, <2>2 DEF TypeOK
<1>7. CASE RequirementsUpdate
  BY <1>7 DEF RequirementsUpdate, TypeOK
<1>8. CASE RunOnceSetMainshow
  BY <1>8, ListsType DEF RunOnceSetMainshow, TypeOK
<1>9. CASE RequestShutdown
  <2>1. pc' \in PC
    BY <1>9 DEF RequestShutdown, TypeOK, PC
  <2> QED
    BY <1>9, <2>1 DEF RequestShutdown, TypeOK
<1> QED
  BY <1>1, <1>2, <1>3, <1>4, <1>5, <1>6, <1>7, <1>8, <1>9, <1>10
     DEF WebAPI, PlayerStop, PlayerDies, Adjust

\* Every step of the process, the clock and the API keeps every variable in its type.
LEMMA StepType == TypeOK /\ [Next]_vars => TypeOK'
<1> SUFFICES ASSUME TypeOK, [Next]_vars PROVE TypeOK'
  OBVIOUS
<1>1. CASE MainThread
  BY <1>1, ControlType, PlayType, BlockStepType DEF MainThread
<1>2. CASE Tick \/ PlayerDies \/ WebAPI \/ RequestShutdown
  BY <1>2, EnvironmentType
<1>3. CASE UNCHANGED vars
  BY <1>3 DEF TypeOK, vars, loopVars, listVars, engineVars, dueVars, blockVars, pauseVars, histVars
<1> QED
  BY <1>1, <1>2, <1>3 DEF Next

\* No interleaving of the main thread, the clock, the web API and a shutdown takes a variable
\* out of its type: in particular the internal time and the deadline never go negative, and
\* the running advance is -1 or at least nought, which RunBlock's last test relies on.
THEOREM TypeCorrect == Spec => []TypeOK
BY InitType, StepType, PTL DEF Spec
=============================================================================
