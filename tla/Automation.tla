----------------------------- MODULE Automation -----------------------------
(***************************************************************************)
(* The automation process: main() and its loop over AutomationState's      *)
(* RunOnce, with the RequirementEngine that schedules it, and the web API  *)
(* and the signals that change its state while it runs.                    *)
(*                                                                         *)
(* The main thread is one sequential program; pc names the statement it    *)
(* is about to execute, and every place where another thread, or the       *)
(* clock, can change what was read earlier is a step of its own.  The      *)
(* player is reduced to the seconds left of its track (MplayerSession has  *)
(* its detail), a playlist to the sequence of its unplayed entries.        *)
(***************************************************************************)
EXTENDS RequirementEngine, SequencesExt

CONSTANTS
  Track,          \* the ids with a row in PlayableItem
  MissingItem,    \* ids without one, which the web API accepts all the same
  RawItem,        \* items posted whole in a PLAY_FILES requirement, without an id
  NoItem,
  Duration,       \* seconds of each track and raw item
  PlaylistName, PlaylistItems, \* the stored playlists and the tracks of each
  Weighted,       \* the playlists the weighted random pick can return
  LegalPlaylists, \* what the playlist FLAGS_legalid names can hold when it is read
  LegalMaxLength, \* FLAGS_legalid_max_length
  BumperTrack,    \* the tracks ResetBumpers loads
  BumperCutoff, SleepCutoff,   \* FLAGS_bumpercutoff, FLAGS_sleepcutoff
  DoInit, DefaultHuman, FastShutdown, \* FLAGS_doinit, FLAGS_defaulthuman, FLAGS_fast_shutdown
  Schedules,      \* the schedules that can be stored or posted
  Requests,       \* the item lists that can be posted to a playlist
  MaxQueue,       \* bound: the entries of a playlist the web API has added to
  MaxTime,        \* bound: the last instant of the clock
  LastRequest,    \* bound: the last instant at which a request or a signal does anything
  MaxPausing,     \* bound: the handlers of /player/pause between their test and Pause()
  MaxLeft,        \* bound: the seconds a seek or a change of speed can leave of a track
  Delay           \* bound: clock ticks within one pass of the loop outside of Play and sleep

Item == Track \cup MissingItem
Command == {"NO_OP", "PLAY_FILES", "LEGAL_ID", "SET_MAINSHOW"}
Requirement ==
  [type : Command, only_at_times : SUBSET Int, constrained : [CalendarField -> SUBSET Int],
   gap : Nat, advance : Int, reboot : BOOLEAN, items : Seq(Item \cup RawItem),
   target : PlaylistName \cup {NoName}]

ASSUME AutomationAssumption ==
  /\ NoItem \notin Item \cup RawItem /\ NoName \notin PlaylistName
  /\ (Track \cup RawItem) \cap MissingItem = {} /\ Track \cap RawItem = {}
  /\ IsFiniteSet(Track) /\ Duration \in [Track \cup RawItem -> Nat \ {0}]
  /\ PlaylistItems \in [PlaylistName -> SUBSET Track]
  /\ Weighted \subseteq PlaylistName
  /\ LegalPlaylists \subseteq SUBSET Track /\ BumperTrack \subseteq Track
  /\ LegalMaxLength \in Nat /\ BumperCutoff \in Nat /\ SleepCutoff \in Nat
  /\ DoInit \in BOOLEAN /\ DefaultHuman \in BOOLEAN /\ FastShutdown \in BOOLEAN
  /\ \A s \in Schedules : s \in Seq(Requirement)
  /\ \A q \in Requests : q \in Seq(Item)
  /\ MaxQueue \in Nat /\ MaxTime \in Nat /\ LastRequest \in Int /\ MaxPausing \in Nat
  /\ Delay \in Nat /\ MaxLeft \in Nat

VARIABLES
  now,           \* time(NULL)
  lag,           \* ticks spent in this pass of the loop outside of Play and sleep
  pc,            \* the main thread's next statement
  booting,       \* HandleReboot is running; the web server is not up yet
  shutdown,      \* shutdown_requested
  override,      \* override_
  overrideList, mainshow, bumperlist, \* override_playlist_, mainshow_, bumperlist_
  didAnything,   \* ManualOverride's did_anything
  schedule, internal_time,            \* the engine's schedule_ and internal_time_
  deadline, gap, \* RunOnce's locals of those names
  block,         \* the requirements of the block that are still to run
  advance,       \* RunBlock's internal_time_advance
  files, item,   \* PLAY_FILES: the items to come, and the PlayableItem they are fetched into
  track,         \* what is selected or playing: its origin, the seconds left, and its speed
  paused,        \* the player is paused
  pausing        \* the handlers that have found override on and are about to pause

\* History variables: no action reads them.
VARIABLES
  autoSelections, \* automatic selections since the override was last enabled
  skippedUntil,   \* the wall clock when ManualOverride last skipped requirements
  touched,        \* the track has been paused, sought in or retimed since it was selected
  synced,         \* nothing moved the engine off the wall clock since it was last set to it
  followed        \* a pass of the loop has begun since the schedule was last replaced

loopVars == <<lag, pc, booting, shutdown, didAnything>>
listVars == <<overrideList, mainshow, bumperlist>>
engineVars == <<schedule, internal_time>>
dueVars == <<deadline, gap>>
blockVars == <<block, advance, files, item>>
pauseVars == <<paused, pausing>>
histVars == <<autoSelections, skippedUntil, touched, synced, followed>>
vars == <<now, loopVars, override, listVars, engineVars, dueVars, blockVars, track, pauseVars,
          histVars>>

NoTrack == [src |-> "none", item |-> NoItem, left |-> 0, normal |-> TRUE]
Source == {"none", "override", "mainshow", "bumper", "files", "legal", "silence"}
Filler == {"mainshow", "bumper"}

\* A file that is not in the database has no name, and mplayer has nothing to play.
Selected(src, i) ==
  [src |-> src, item |-> i, left |-> IF i \in DOMAIN Duration THEN Duration[i] ELSE 0,
   normal |-> TRUE]

\* The views shuffle, so a fetched playlist is some order of its tracks.
RandomMainshows ==
  IF Weighted = {} THEN {<<>>} ELSE UNION {SetToSeqs(PlaylistItems[p]) : p \in Weighted}

Mainshows(name) ==
  IF name \in PlaylistName /\ PlaylistItems[name] # {}
  THEN SetToSeqs(PlaylistItems[name]) ELSE RandomMainshows

\* Bumpers come longest first.
BumperLists ==
  {s \in SetToSeqs(BumperTrack) : \A i, j \in DOMAIN s : i < j => Duration[s[i]] >= Duration[s[j]]}

FittingAny(list, seconds) == {i \in DOMAIN list : list[i] \in Track} \* mutant: no limit

\* The entries PopWithTimelimit accepts; it takes the first.
Fitting(list, seconds) ==
  {i \in DOMAIN list : list[i] \in Track /\ Duration[list[i]] <= seconds}

\* The requirements a fresh pass of the loop would wait for.
Effective == EffectiveSchedule(schedule)

Init ==
  /\ now = 0 /\ lag = 0 /\ shutdown = FALSE
  /\ pc = (IF DoInit THEN "run" ELSE "head") /\ booting = DoInit
  /\ override = DefaultHuman
  /\ schedule \in Schedules /\ internal_time = 0
  /\ overrideList = <<>> /\ bumperlist = <<>> /\ mainshow \in RandomMainshows
  /\ didAnything = FALSE /\ deadline = 0 /\ gap = 0
  /\ block = IF DoInit THEN RebootBlock(EffectiveSchedule(schedule)) ELSE NoBlock
  /\ advance = 1 /\ files = <<>> /\ item = NoItem
  /\ track = NoTrack /\ paused = FALSE /\ pausing = 0
  /\ autoSelections = 0 /\ skippedUntil = 0 /\ touched = FALSE /\ synced = TRUE
  /\ followed = FALSE

-----------------------------------------------------------------------------
(***************************************************************************)
(* The main thread.                                                        *)
(***************************************************************************)
\* What a selection does, whoever made it: the next statement starts the player.
Select(src, i) ==
  /\ track' = Selected(src, i)
  /\ touched' = FALSE
  /\ pc' = "start"

\* A selection the override mode should have kept from happening.
CountSelection ==
  autoSelections' = IF override THEN autoSelections + 1 ELSE autoSelections

\* The while loop in main().
LoopTest ==
  /\ pc = "head"
  /\ pc' = IF shutdown THEN "exited" ELSE "override"
  /\ didAnything' = FALSE /\ lag' = 0 /\ followed' = TRUE
  /\ UNCHANGED <<now, booting, shutdown, override, listVars, engineVars, dueVars, blockVars, track,
                 pauseVars, autoSelections, skippedUntil, touched, synced>>

\* ManualOverride's loop: a person is in control, or queued something to play.
YieldingAnd == override /\ overrideList # <<>> \* mutant: && for ||
Yielding == override \/ overrideList # <<>>

OverrideTest ==
  /\ pc = "override" /\ Yielding
  /\ pc' = "popfront" /\ didAnything' = TRUE /\ lag' = 0
  /\ UNCHANGED <<now, booting, shutdown, override, listVars, engineVars, dueVars, blockVars, track,
                 pauseVars, histVars>>

OverridePlay ==
  /\ pc = "popfront" /\ overrideList # <<>> /\ overrideList[1] \in Track
  /\ Select("override", overrideList[1])
  /\ overrideList' = Tail(overrideList)
  /\ UNCHANGED <<now, lag, booting, shutdown, didAnything, override, mainshow, bumperlist,
                 engineVars, dueVars, blockVars, pauseVars, autoSelections, skippedUntil, synced,
                 followed>>

AfterIdleForever == "override" \* mutant: no shutdown test
AfterIdle == IF shutdown THEN "exited" ELSE "override"

\* Nothing popped, or an id without a row: usleep, then the shutdown test.
OverrideIdle ==
  /\ pc = "popfront"
  /\ \/ overrideList = <<>> /\ UNCHANGED overrideList
     \/ /\ overrideList # <<>> /\ overrideList[1] \notin Track
        /\ overrideList' = Tail(overrideList)
  /\ pc' = AfterIdle
  /\ UNCHANGED <<now, lag, booting, shutdown, didAnything, override, mainshow, bumperlist,
                 engineVars, dueVars, blockVars, track, pauseVars, histVars>>

TimeAfterOverrideKept == internal_time \* mutant: set_time left out
TimeAfterOverrideNow == now             \* mutant: set_time whatever ManualOverride returned
TimeAfterOverride == IF didAnything THEN now ELSE internal_time

\* ManualOverride returns; requirements that came due meanwhile are skipped.
OverrideLeave ==
  /\ pc = "override" /\ ~Yielding
  /\ pc' = "bumpers"
  /\ internal_time' = TimeAfterOverride
  /\ IF didAnything
     THEN skippedUntil' = now /\ synced' = TRUE
     ELSE UNCHANGED <<skippedUntil, synced>>
  /\ UNCHANGED <<now, lag, booting, shutdown, didAnything, override, listVars, schedule, dueVars,
                 blockVars, track, pauseVars, autoSelections, touched, followed>>

CheckBumpers ==
  /\ pc = "bumpers" /\ pc' = "fill"
  /\ IF bumperlist = <<>> THEN bumperlist' \in BumperLists ELSE UNCHANGED bumperlist
  /\ UNCHANGED <<now, lag, booting, shutdown, didAnything, override, overrideList, mainshow,
                 engineVars, dueVars, blockVars, track, pauseVars, histVars>>

FillNextKept == \* mutant: a plan is kept until it has been run
  /\ pc = "fill" /\ pc' = "check"
  /\ \/ DOMAIN block # {} /\ UNCHANGED <<dueVars, block>>
     \/ /\ DOMAIN block = {}
        /\ \E t \in DueTimes(Effective, internal_time) :
             /\ IsEarliest(t, DueTimes(Effective, internal_time))
             /\ deadline' = t /\ block' = BlockAt(Effective, t) /\ gap' = HugeGap
  /\ UNCHANGED <<now, lag, booting, shutdown, didAnything, override, listVars, engineVars, advance,
                 files, item, track, pauseVars, histVars>>
FillNext ==
  /\ pc = "fill" /\ pc' = "check"
  /\ \/ \E t \in DueTimes(Effective, internal_time) :
          /\ IsEarliest(t, DueTimes(Effective, internal_time))
          /\ deadline' = t /\ block' = BlockAt(Effective, t)
          /\ \E g \in GapsAt(Effective, t) : IsEarliest(g, GapsAt(Effective, t)) /\ gap' = g
     \/ /\ DueTimes(Effective, internal_time) = {}
        /\ deadline' = now + DefaultWait /\ block' = NoBlock /\ gap' = HugeGap
  /\ UNCHANGED <<now, lag, booting, shutdown, didAnything, override, listVars, engineVars, advance,
                 files, item, track, pauseVars, histVars>>

DueEarly == now + 1 >= deadline \* mutant: off by one
Due == now >= deadline

BeginBlock ==
  /\ pc = "check" /\ Due
  /\ pc' = "run" /\ advance' = 1
  /\ CountSelection
  /\ UNCHANGED <<now, lag, booting, shutdown, didAnything, override, listVars, engineVars, dueVars,
                 block, files, item, track, pauseVars, skippedUntil, touched, synced, followed>>

NotYet ==
  /\ pc = "check" /\ ~Due
  /\ pc' = "pop"
  /\ UNCHANGED <<now, lag, booting, shutdown, didAnything, override, listVars, engineVars, dueVars,
                 blockVars, track, pauseVars, histVars>>

\* LEGAL_ID: any legal track short enough, since their order is random.  When none is,
\* the item stays empty and an empty file name is played; without tracks the process aborts.
ShortEnough(legal) == {i \in legal : Duration[i] <= LegalMaxLength}

PlayLegalID ==
  \E legal \in LegalPlaylists :
    \/ legal = {} /\ pc' = "crashed" /\ UNCHANGED <<track, touched>>
    \/ \E i \in ShortEnough(legal) : Select("legal", i)
    \/ legal # {} /\ ShortEnough(legal) = {} /\ Select("legal", NoItem)

\* RunBlock's loop: the next requirement in schedule order, and its command's callback.
RunRequirement ==
  /\ pc = "run"
  /\ \E i \in DOMAIN block :
       LET r == block[i] IN
       /\ IsEarliest(i, DOMAIN block)
       /\ block' = Restrict(block, DOMAIN block \ {i})
       /\ advance' = AdvanceStep(advance, r.advance)
       /\ \/ r.type = "NO_OP" /\ UNCHANGED <<pc, mainshow, files, item, track, touched>>
          \/ /\ r.type = "PLAY_FILES"
             /\ files' = r.items /\ item' = NoItem /\ pc' = "files"
             /\ UNCHANGED <<mainshow, track, touched>>
          \/ r.type = "LEGAL_ID" /\ PlayLegalID /\ UNCHANGED <<mainshow, files, item>>
          \/ /\ r.type = "SET_MAINSHOW" /\ mainshow' \in Mainshows(r.target)
             /\ UNCHANGED <<pc, files, item, track, touched>>
  /\ UNCHANGED <<now, lag, booting, shutdown, didAnything, override, overrideList, bumperlist,
                 engineVars, dueVars, pauseVars, autoSelections, skippedUntil, synced, followed>>

\* A missing id leaves the previously fetched item in place, and it is played again.
PlayFile ==
  /\ pc = "files" /\ files # <<>>
  /\ files' = Tail(files)
  /\ item' = IF files[1] \in Track THEN files[1] ELSE item
  /\ Select("files", IF files[1] \in RawItem THEN files[1] ELSE item')
  /\ UNCHANGED <<now, lag, booting, shutdown, didAnything, override, listVars, engineVars, dueVars,
                 block, advance, pauseVars, autoSelections, skippedUntil, synced, followed>>

FilesDone ==
  /\ pc = "files" /\ files = <<>> /\ pc' = "run"
  /\ UNCHANGED <<now, lag, booting, shutdown, didAnything, override, listVars, engineVars, dueVars,
                 blockVars, track, pauseVars, histVars>>

TimeAfterBlockAdded == internal_time + advance \* mutant: no test for a negative advance
TimeAfterBlock == IF advance < 0 THEN now ELSE internal_time + advance

\* RunBlock's end: the internal time moves, and RunOnce reloads the bumpers.
EndBlock ==
  /\ pc = "run" /\ DOMAIN block = {} /\ pc' = "head"
  /\ internal_time' = TimeAfterBlock
  /\ synced' = (internal_time' >= now)
  /\ IF booting THEN UNCHANGED bumperlist ELSE bumperlist' \in BumperLists
  /\ booting' = FALSE
  /\ UNCHANGED <<now, lag, shutdown, didAnything, override, overrideList, mainshow, schedule,
                 dueVars, blockVars, track, pauseVars, autoSelections, skippedUntil, touched,
                 followed>>

\* PopWithTimelimit on mainshow_ and then on bumperlist_: the first entry that fits.
TimeLimit == deadline - now + gap

PopMainshow ==
  /\ pc = "pop"
  /\ \E i \in Fitting(mainshow, TimeLimit) :
       /\ IsEarliest(i, Fitting(mainshow, TimeLimit))
       /\ Select("mainshow", mainshow[i])
       /\ mainshow' = RemoveAt(mainshow, i)
  /\ CountSelection
  /\ UNCHANGED <<now, lag, booting, shutdown, didAnything, override, overrideList, bumperlist,
                 engineVars, dueVars, blockVars, pauseVars, skippedUntil, synced, followed>>

MainshowHasNone ==
  /\ pc = "pop" /\ Fitting(mainshow, TimeLimit) = {}
  /\ pc' = "cutoff"
  /\ UNCHANGED <<now, lag, booting, shutdown, didAnything, override, listVars, engineVars, dueVars,
                 blockVars, track, pauseVars, histVars>>

FarFromDeadline == deadline - now >= BumperCutoff /\ mainshow = <<>>

AbandonMainshow ==
  /\ pc = "cutoff" /\ FarFromDeadline
  /\ mainshow' \in RandomMainshows /\ pc' = "head"
  /\ UNCHANGED <<now, lag, booting, shutdown, didAnything, override, overrideList, bumperlist,
                 engineVars, dueVars, blockVars, track, pauseVars, histVars>>

TryBumpers ==
  /\ pc = "cutoff" /\ ~FarFromDeadline
  /\ pc' = "bumper"
  /\ UNCHANGED <<now, lag, booting, shutdown, didAnything, override, listVars, engineVars, dueVars,
                 blockVars, track, pauseVars, histVars>>

PopBumper ==
  /\ pc = "bumper"
  /\ \E i \in Fitting(bumperlist, TimeLimit) :
       /\ IsEarliest(i, Fitting(bumperlist, TimeLimit))
       /\ Select("bumper", bumperlist[i])
       /\ bumperlist' = RemoveAt(bumperlist, i)
  /\ CountSelection
  /\ UNCHANGED <<now, lag, booting, shutdown, didAnything, override, overrideList, mainshow,
                 engineVars, dueVars, blockVars, pauseVars, skippedUntil, synced, followed>>

BumpersHaveNone ==
  /\ pc = "bumper" /\ Fitting(bumperlist, TimeLimit) = {}
  /\ pc' = "timeleft"
  /\ UNCHANGED <<now, lag, booting, shutdown, didAnything, override, listVars, engineVars, dueVars,
                 blockVars, track, pauseVars, histVars>>

\* Sleep off a short remainder; with none, or too long a one, just go round again.
SleepOrSpin ==
  /\ pc = "timeleft"
  /\ IF deadline - now \in 1 .. SleepCutoff
     THEN pc' = "sleep" /\ track' = [NoTrack EXCEPT !.src = "silence", !.left = deadline - now]
     ELSE pc' = "head" /\ UNCHANGED track
  /\ UNCHANGED <<now, lag, booting, shutdown, didAnything, override, listVars, engineVars, dueVars,
                 blockVars, pauseVars, histVars>>

\* sleep() also returns early, when the shutdown signal interrupts it.
SleepDone ==
  /\ pc = "sleep" /\ (track.left = 0 \/ shutdown)
  /\ pc' = "head" /\ track' = NoTrack
  /\ UNCHANGED <<now, lag, booting, shutdown, didAnything, override, listVars, engineVars, dueVars,
                 blockVars, pauseVars, histVars>>

PlayStart ==
  /\ pc = "start" /\ pc' = "playing"
  /\ UNCHANGED <<now, lag, booting, shutdown, didAnything, override, listVars, engineVars, dueVars,
                 blockVars, track, pauseVars, histVars>>

AfterPlay ==
  [src \in Source |->
     CASE src = "override" -> "override" [] src = "files" -> "files" [] src = "legal" -> "run"
       [] OTHER -> "head"]

\* Play returns, and every caller goes on to what follows it.
PlayEnd ==
  /\ pc = "playing" /\ track.left = 0
  /\ pc' = AfterPlay[track.src]
  /\ track' = NoTrack /\ paused' = FALSE
  /\ UNCHANGED <<now, lag, booting, shutdown, didAnything, override, listVars, engineVars, dueVars,
                 blockVars, pausing, autoSelections, skippedUntil, touched, synced, followed>>

MainThread ==
  \/ LoopTest \/ OverrideTest \/ OverridePlay \/ OverrideIdle \/ OverrideLeave
  \/ CheckBumpers \/ FillNext \/ BeginBlock \/ NotYet \/ RunRequirement \/ PlayFile \/ FilesDone
  \/ EndBlock \/ PopMainshow \/ MainshowHasNone \/ AbandonMainshow \/ TryBumpers \/ PopBumper
  \/ BumpersHaveNone \/ SleepOrSpin \/ SleepDone \/ PlayStart \/ PlayEnd

-----------------------------------------------------------------------------
(***************************************************************************)
(* The clock.  A track or a sleep takes its seconds; everything else the   *)
(* main thread does crosses at most Delay second boundaries a pass.        *)
(***************************************************************************)
Tick ==
  /\ pc \notin {"exited", "crashed"} /\ now < MaxTime
  /\ now' = now + 1
  /\ \/ /\ pc = "playing" /\ paused /\ track.left > 0
        /\ UNCHANGED <<lag, track>>
     \/ /\ pc \in {"playing", "sleep"} /\ ~paused /\ track.left > 0
        /\ track' = [track EXCEPT !.left = @ - 1]
        /\ UNCHANGED lag
     \/ /\ pc \notin {"playing", "sleep"} \/ track.left = 0
        /\ lag < Delay /\ lag' = lag + 1
        /\ UNCHANGED track
  /\ UNCHANGED <<pc, booting, shutdown, didAnything, override, listVars, engineVars, dueVars,
                 blockVars, pauseVars, histVars>>

-----------------------------------------------------------------------------
(***************************************************************************)
(* The web API's handlers, the player and the signals.                     *)
(***************************************************************************)
Serving == ~booting /\ pc \notin {"exited", "crashed"} /\ now <= LastRequest
mainVars == <<now, lag, pc, booting, didAnything, internal_time, dueVars, blockVars>>

OverrideEnable ==
  /\ Serving /\ ~override
  /\ override' = TRUE /\ autoSelections' = 0
  /\ UNCHANGED <<mainVars, shutdown, listVars, schedule, track, pauseVars, skippedUntil, touched,
                 synced, followed>>

\* A seek or a change of speed leaves some other number of seconds to play.
Retimed(normal) ==
  /\ pc = "playing" /\ track.left > 0
  /\ \E seconds \in 0 .. MaxLeft :
       track' = [track EXCEPT !.left = seconds, !.normal = normal]
  /\ touched' = TRUE /\ synced' = FALSE

\* A handler that finds the player paused sleeps in Unpause until a signal wakes its thread, and
\* one that has found it running can be overtaken by a pause: the player stays paused, and override
\* goes off.
OverrideDisable ==
  /\ Serving /\ override
  /\ override' = FALSE
  /\ \/ (pc # "playing" \/ track.left = 0 \/ track.normal) /\ UNCHANGED <<track, touched, synced>>
     \/ ~track.normal /\ Retimed(TRUE)
  /\ UNCHANGED <<mainVars, shutdown, listVars, schedule, pauseVars, autoSelections, skippedUntil,
                 followed>>

\* /player/seek and /player/speed, in override mode or not.
PlayerSeek ==
  /\ Serving /\ Retimed(track.normal)
  /\ UNCHANGED <<mainVars, shutdown, override, listVars, schedule, pauseVars, autoSelections,
                 skippedUntil, followed>>

PlayerSpeed ==
  /\ Serving /\ \E normal \in BOOLEAN : Retimed(normal)
  /\ UNCHANGED <<mainVars, shutdown, override, listVars, schedule, pauseVars, autoSelections,
                 skippedUntil, followed>>

\* /player/pause looks at the override flag, and then toggles the player if one is running: the main
\* thread and other handlers come in between.
PauseTest ==
  /\ Serving /\ override /\ pausing < MaxPausing
  /\ pausing' = pausing + 1
  /\ UNCHANGED <<mainVars, shutdown, override, listVars, schedule, track, paused, histVars>>

PlayerPause ==
  /\ Serving /\ pausing > 0 /\ pausing' = pausing - 1
  /\ IF pc = "playing"
     THEN paused' = ~paused /\ touched' = TRUE /\ synced' = FALSE
     ELSE UNCHANGED <<paused, touched, synced>>
  /\ UNCHANGED <<mainVars, shutdown, override, listVars, schedule, track, autoSelections,
                 skippedUntil, followed>>

\* The player is gone before its track is over.
CutShort ==
  /\ pc = "playing" /\ track.left > 0
  /\ track' = [track EXCEPT !.left = 0]
  /\ UNCHANGED <<mainVars, shutdown, override, listVars, schedule, pauseVars, histVars>>

\* By itself, or because it stopped answering: Play returns as after any other track.
PlayerDies == CutShort

PlayerStop == Serving /\ CutShort

\* ApplyMergeRequest: the posted ids replace the list, or are added at its end.
Merged(list, ids, overwrite) == IF overwrite THEN ids ELSE list \o ids

PlaylistUpdate ==
  /\ Serving
  /\ \E ids \in Requests, overwrite \in BOOLEAN :
       \/ /\ overrideList' = Merged(overrideList, ids, overwrite)
          /\ Len(overrideList') <= MaxQueue /\ UNCHANGED <<mainshow, bumperlist>>
       \/ /\ mainshow' = Merged(mainshow, ids, overwrite)
          /\ Len(mainshow') <= MaxQueue /\ UNCHANGED <<overrideList, bumperlist>>
       \/ /\ bumperlist' = Merged(bumperlist, ids, overwrite)
          /\ Len(bumperlist') <= MaxQueue /\ UNCHANGED <<overrideList, mainshow>>
  /\ UNCHANGED <<mainVars, shutdown, override, schedule, track, pauseVars, histVars>>

RequirementsUpdate ==
  /\ Serving
  /\ schedule' \in Schedules \ {schedule}
  /\ synced' = FALSE /\ followed' = FALSE
  /\ UNCHANGED <<mainVars, shutdown, override, listVars, track, pauseVars, autoSelections,
                 skippedUntil, touched>>

\* /requirements/runonce of a SET_MAINSHOW: the shared mainshow_ changes under the main thread.
RunOnceSetMainshow ==
  /\ Serving
  /\ \E name \in PlaylistName \cup {NoName} : mainshow' \in Mainshows(name)
  /\ UNCHANGED <<mainVars, shutdown, override, overrideList, bumperlist, schedule, track,
                 pauseVars, histVars>>

RequestShutdown ==
  /\ pc \notin {"exited", "crashed"} /\ ~shutdown /\ now <= LastRequest
  /\ shutdown' = TRUE
  /\ pc' = IF FastShutdown THEN "exited" ELSE pc
  /\ UNCHANGED <<now, lag, booting, didAnything, override, listVars, engineVars, dueVars,
                 blockVars, track, pauseVars, histVars>>

WebAPI ==
  \/ OverrideEnable \/ OverrideDisable \/ PauseTest \/ PlayerPause \/ PlayerStop \/ PlayerSeek
  \/ PlayerSpeed \/ PlaylistUpdate \/ RequirementsUpdate \/ RunOnceSetMainshow

Next == MainThread \/ Tick \/ PlayerDies \/ WebAPI \/ RequestShutdown

Spec == Init /\ [][Next]_vars

\* The main thread is always scheduled; nobody has to call the API.  The clock always moves, also
\* when every player dies at once: Play waits a quarter of a second before it looks.
FairSpec == Spec /\ WF_vars(MainThread) /\ SF_vars(Tick)

-----------------------------------------------------------------------------
(***************************************************************************)
(* Properties.                                                             *)
(***************************************************************************)
PC == {"head", "override", "popfront", "bumpers", "fill", "check", "run", "files", "pop",
       "cutoff", "bumper", "timeleft", "sleep", "start", "playing", "exited", "crashed"}

Selection == [src : Source, item : Item \cup RawItem \cup {NoItem}, left : Nat,
              normal : BOOLEAN]

\* The type invariant of the variables the code keeps and of the history variables.
TypeOK ==
  /\ now \in Nat /\ lag \in Nat /\ pc \in PC
  /\ booting \in BOOLEAN /\ shutdown \in BOOLEAN /\ override \in BOOLEAN
  /\ didAnything \in BOOLEAN /\ paused \in BOOLEAN /\ pausing \in Nat
  /\ overrideList \in Seq(Item) /\ mainshow \in Seq(Item) /\ bumperlist \in Seq(Item)
  /\ schedule \in Schedules /\ internal_time \in Nat
  /\ deadline \in Nat /\ gap \in Nat /\ advance \in Nat \cup {-1}
  /\ DOMAIN block \subseteq Nat \ {0} /\ \A i \in DOMAIN block : block[i] \in Requirement
  /\ files \in Seq(Item \cup RawItem) /\ item \in Track \cup {NoItem}
  /\ track \in Selection
  /\ autoSelections \in Nat /\ skippedUntil \in Nat
  /\ touched \in BOOLEAN /\ synced \in BOOLEAN /\ followed \in BOOLEAN

\* A mainshow track or a bumper that nobody pauses, seeks in or retimes is over by the deadline
\* plus the gap, and the delays of the pass that chose it: PopWithTimelimit's promise, kept to the
\* end of the track although other threads and the clock run between the choice and the end.
OnTime ==
  pc \in {"start", "playing"} /\ track.src \in Filler /\ ~touched
    => now + track.left <= deadline + gap + lag

\* A block that has come due starts within the gap of every requirement in it: whatever tracks,
\* sleeps and idle passes the loop chose before, while nobody paused or retimed the player or
\* changed the schedule and no internal_time_advance left the engine behind the wall clock.
BlockStartsInGap ==
  pc = "check" /\ synced
    => \A i \in DOMAIN block : now <= deadline + block[i].gap + 2 * Delay

\* FillNext overlooks nothing: when RunOnce compares the clock with the deadline, no
\* requirement has come due, since the internal time, before that deadline.
NothingOverlooked ==
  pc = "check" /\ synced
    => \A t \in internal_time .. now : DuePositions(Effective, t) # {} => deadline <= t

\* A block that leaves the engine on the clock is behind it: its deadline is not in the engine's
\* future, so that only a block that took no time is found again; and but for an advance of 0
\* every block leaves the engine later than it was, or on the clock.
BlockIsBehind ==
  [][pc = "run" /\ pc' = "head" /\ ~booting =>
       /\ advance < 0 => internal_time' >= deadline
       /\ advance # 0 => internal_time' > internal_time \/ internal_time' = now]_vars

\* Only ManualOverride moves the internal time back (set_time, after a positive advance had
\* taken it ahead of the wall clock): no block is scheduled or run so as to repeat the past.
InternalTimeMonotone == [][pc # "override" => internal_time' >= internal_time]_vars

\* What came due while a person was in control stays skipped: a later block never has a
\* deadline from before the moment ManualOverride returned.
SkippedStaysSkipped ==
  pc \in {"check", "run", "files", "pop", "cutoff", "bumper", "timeleft", "sleep"}
    => deadline >= skippedUntil

\* Once override is enabled, at most the one choice that RunOnce was already making
\* (a track, or a block) is still automatic, for as long as it stays enabled.
OverrideBound == override => autoSelections <= 1

\* Where the main thread is with the plan that it has made of the schedule.
Choosing == {"pop", "cutoff", "bumper", "timeleft", "sleep"}
StageAt ==
  [p \in PC \cup Source |->
     CASE p \in {"exited", "crashed"} -> "off"
       [] p = "check" -> "planned"
       [] p \in {"run", "files", "legal"} -> "running"
       [] p \in Choosing \cup Filler -> "waiting"
       [] OTHER -> "seeking"]
StageOf == StageAt[IF pc \in {"start", "playing"} THEN track.src ELSE pc]

\* A schedule that is replaced under a main thread which holds a plan of the old one takes effect
\* with the next pass of the loop, however that pass came about: from then on the plan it waits for
\* is the first of the new schedule's, and what is left of a block it runs is what that one says.
ReplacementFollowed ==
  followed =>
    /\ StageOf \in {"planned", "waiting"} =>
         LET due == DueTimes(Effective, internal_time)
         IN IF due = {} THEN block = NoBlock
            ELSE IsEarliest(deadline, due) /\ block = BlockAt(Effective, deadline)
    /\ StageOf = "running" =>
         \A i \in DOMAIN block :
           i \in DuePositions(Effective, deadline) /\ block[i] = Effective[i]

\* What people, players, playlists and the clock do between the statements of the main loop leaves
\* the schedule its promise: Automation implements Agenda. What comes due is skipped by the end of
\* a block, as far as its requirements ask for, and after a person, but in no other way.
Promise == INSTANCE Agenda WITH
  clock <- now, position <- internal_time, stage <- StageOf, due <- deadline, left <- block,
  rejoins <- advance < 0, wanted <- Yielding, yielded <- didAnything
KeepsAgenda == Promise!Spec

\* A deferred shutdown is not forgotten: if nobody pauses the player, which can outlast the
\* clock's bound, the process ends, whatever was queued and whatever is due.
ShutdownFinishes == <>paused \/ (shutdown ~> pc \in {"exited", "crashed"})

\* A block the loop waits for is eventually run, unless a person, a shutdown or a paused player
\* comes first: neither a long mainshow nor an empty one, nor the bumpers, the sleep or a dying
\* player starve it.
BlockRuns ==
  pc = "check" /\ DOMAIN block # {} /\ deadline <= MaxTime \div 2 /\ ~Yielding /\ ~shutdown
    ~> pc = "run" \/ Yielding \/ shutdown \/ paused

(***************************************************************************)
(* What documentation says, and the code does not do.                      *)
(***************************************************************************)
\* apidocs.txt: /player/pause takes no action if not in override mode, so no pause begins then.
PausesInOverrideOnly == [][paused' /\ ~paused => override]_vars
=============================================================================
