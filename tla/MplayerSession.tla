--------------------------- MODULE MplayerSession ---------------------------
(***************************************************************************)
(* The player of one track after another: Play in the main thread, the     *)
(* handlers of /player and /override in the threads of the web server, and *)
(* the mplayer process they all share over two pipes.                      *)
(*                                                                         *)
(* mutex_ is a variable, since threads hold it across steps.  state_mutex_ *)
(* is not: whoever takes it waits for nothing before it is released, so    *)
(* what it encloses is one step.  Time is counted in passes of Play's      *)
(* loop.  GetProperty asks for pause and for one other property, which     *)
(* stands for time_pos, length and metadata.  Seek and the speed's command *)
(* are written under the lock, and no property here depends on them.       *)
(***************************************************************************)
EXTENDS Naturals, Sequences

CONSTANTS
  Main,          \* the thread that calls Play
  Handler,       \* the web server's threads
  Nobody,
  Timeout,       \* FLAGS_mplayertimeout, in passes
  MaxBacklog     \* bound: the lines under way when the player hangs, or is to be paused

Thread == {Main} \cup Handler

ASSUME SessionAssumption ==
  Main \notin Handler /\ Nobody \notin Thread /\ Timeout \in Nat /\ MaxBacklog \in Nat

VARIABLES
  pc,            \* each thread's next statement
  mutex,         \* who holds mutex_
  override,      \* AutomationState's override_
  open,          \* slave_pipe_ and mplayer_stdout_ are not NULL
  pid,           \* mplayer_pid_ is not -1
  eof,           \* feof(mplayer_stdout_)
  paused,        \* state_.paused()
  silent,        \* passes since last_alive_, as far as Timeout + 1
  asked,         \* the property GetProperty is asking for
  buffer,        \* the answers stdio has read and GetProperty has not
  seen           \* the player whose pid a Stop has tested is still to be waited for

\* The mplayer process and the pipes to and from it.
VARIABLES process, frozen, hung, commands, answers

\* History variable: passes since the track started or the player last answered.
VARIABLE waited

sessionVars == <<override, open, pid, eof, paused, silent, asked, buffer, seen>>
playerVars == <<process, frozen, hung, commands, answers>>
vars == <<pc, mutex, sessionVars, playerVars, waited>>

Asked == {"pause", "time_pos"}
Answer == [asked : Asked, value : BOOLEAN]

Init ==
  /\ pc = [t \in Thread |-> IF t = Main THEN "idle" ELSE "ready"]
  /\ mutex = Nobody /\ override = FALSE
  /\ open = FALSE /\ pid = FALSE /\ eof = FALSE /\ paused = FALSE
  /\ silent = Timeout + 1 /\ waited = 0
  /\ asked = "pause" /\ buffer = <<>> /\ seen = [h \in Handler |-> FALSE]
  /\ process = "none" /\ frozen = FALSE /\ hung = FALSE /\ commands = <<>> /\ answers = <<>>

-----------------------------------------------------------------------------
(***************************************************************************)
(* Play, in the main thread.                                               *)
(***************************************************************************)
Goto(t, label) == pc' = [pc EXCEPT ![t] = label]

Lock(t) == mutex = Nobody /\ mutex' = t
Unlock(t) == mutex = t /\ mutex' = Nobody

Later(passes) == IF passes > Timeout THEN passes ELSE passes + 1

\* What is under way between the session and the player.
Backlog == Len(commands) + Len(answers) + Len(buffer)

\* The main thread does something else than playing.
Idle ==
  /\ pc[Main] = "idle" /\ silent' = Later(silent)
  /\ UNCHANGED <<pc, mutex, override, open, pid, eof, paused, asked, buffer, seen, playerVars,
                 waited>>

\* Play shows what it is going to play, before it has the player to itself.
Announce ==
  /\ pc[Main] = "idle" /\ Goto(Main, "fork")
  /\ UNCHANGED <<mutex, sessionVars, playerVars, waited>>

Fork ==
  /\ pc[Main] = "fork" /\ Goto(Main, "wait") /\ Lock(Main)
  /\ open' = TRUE /\ pid' = TRUE /\ eof' = FALSE /\ buffer' = <<>>
  /\ process' = "running" /\ frozen' = FALSE /\ hung' = FALSE
  /\ commands' = <<>> /\ answers' = <<>>
  /\ waited' = 0
  /\ UNCHANGED <<override, paused, silent, asked, seen>>

\* The head of the loop: waitpid with WNOHANG, which reaps a player that has ended.
WaitRunning ==
  /\ pc[Main] = "wait" /\ process = "running"
  /\ Goto(Main, "sleep") /\ Unlock(Main)
  /\ UNCHANGED <<sessionVars, playerVars, waited>>

WaitEnded ==
  /\ pc[Main] = "wait" /\ process = "zombie"
  /\ Goto(Main, "death")
  /\ process' = "none" /\ seen' = [h \in Handler |-> FALSE]
  /\ UNCHANGED <<mutex, override, open, pid, eof, paused, silent, asked, buffer, frozen, hung,
                 commands, answers, waited>>

Sleep ==
  /\ pc[Main] = "sleep" /\ Goto(Main, "ask")
  /\ asked' = "pause"
  /\ silent' = Later(silent) /\ waited' = Later(waited)
  /\ UNCHANGED <<mutex, override, open, pid, eof, paused, buffer, seen, playerVars>>

NextMisspelt ==                          \* mutant: a property nobody answers
  /\ Goto(Main, IF asked = "pause" THEN "ask" ELSE "check")
  /\ asked' = "position"

\* GetProperty returns, and Play asks for the next property or ends its pass.
NextProperty ==
  /\ Goto(Main, IF asked = "pause" THEN "ask" ELSE "check")
  /\ asked' = "time_pos"

\* A write to a player that has ended is lost; SIGPIPE is ignored.
Sent(command) == IF process = "running" THEN Append(commands, command) ELSE commands

AskAtEof ==
  /\ pc[Main] = "ask" /\ eof /\ NextProperty
  /\ UNCHANGED <<mutex, override, open, pid, eof, paused, silent, buffer, seen, playerVars, waited>>

Ask ==
  /\ pc[Main] = "ask" /\ ~eof
  /\ Goto(Main, "select") /\ Lock(Main)
  /\ commands' = Sent(asked)
  /\ UNCHANGED <<sessionVars, process, frozen, hung, answers, waited>>

\* select looks at the pipe; fgets takes a line of what stdio has read from it before, and
\* reads all that the pipe holds only when that is used up.
Readable == answers # <<>> \/ process # "running"
Unread == IF buffer # <<>> THEN buffer ELSE answers

ReadLine ==
  /\ Unread # <<>>
  /\ buffer' = Tail(Unread)
  /\ answers' = IF buffer # <<>> THEN answers ELSE <<>>

ExpectedAny(line) == TRUE                \* mutant: no comparison with expected_answer
Expected(line) == line.asked = asked

OtherAnswer ==
  /\ pc[Main] = "select" /\ Readable /\ ReadLine /\ ~Expected(Unread[1])
  /\ UNCHANGED <<pc, mutex, override, open, pid, eof, paused, silent, asked, seen, process, frozen,
                 hung, commands, waited>>

\* The player is alive, and state_ takes its answer.
TakeAnswer ==
  /\ pc[Main] = "select" /\ Readable /\ ReadLine /\ Expected(Unread[1])
  /\ silent' = 0 /\ waited' = 0
  /\ paused' = IF asked = "pause" THEN Unread[1].value ELSE paused
  /\ NextProperty /\ Unlock(Main)
  /\ UNCHANGED <<override, open, pid, eof, seen, process, frozen, hung, commands>>

AnswersEnd ==
  /\ pc[Main] = "select" /\ Readable /\ Unread = <<>>
  /\ eof' = TRUE
  /\ NextProperty /\ Unlock(Main)
  /\ UNCHANGED <<override, open, pid, paused, silent, buffer, seen, playerVars, waited>>

NoAnswerEver == FALSE                    \* mutant: select without a timeout

\* 250 ms without an answer: the player hangs, or all it has written is in stdio's buffer.
NoAnswer ==
  /\ pc[Main] = "select" /\ ~Readable /\ (hung \/ commands = <<>>)
  /\ NextProperty /\ Unlock(Main)
  /\ UNCHANGED <<override, open, pid, eof, paused, silent, buffer, seen, playerVars, waited>>

TimedOut == silent > Timeout

Check ==
  /\ pc[Main] = "check" /\ Lock(Main)
  /\ Goto(Main, IF eof \/ TimedOut THEN "death" ELSE "wait")
  /\ UNCHANGED <<sessionVars, playerVars, waited>>

DeathUnwaited ==                         \* mutant: no waitpid after the kill
  /\ pc[Main] = "death" /\ Goto(Main, "clear")
  /\ process' = IF process = "running" THEN "zombie" ELSE process
  /\ UNCHANGED <<mutex, sessionVars, frozen, hung, commands, answers, waited>>

\* kill and waitpid, also of a player that has been waited for.
Death ==
  /\ pc[Main] = "death" /\ Goto(Main, "clear")
  /\ process' = "none" /\ seen' = [h \in Handler |-> FALSE]
  /\ UNCHANGED <<mutex, override, open, pid, eof, paused, silent, asked, buffer, frozen, hung,
                 commands, answers, waited>>

Clear ==
  /\ pc[Main] = "clear" /\ Goto(Main, "idle") /\ Unlock(Main)
  /\ paused' = FALSE /\ pid' = FALSE /\ open' = FALSE /\ eof' = FALSE
  /\ buffer' = <<>> /\ commands' = <<>> /\ answers' = <<>> /\ frozen' = FALSE /\ hung' = FALSE
  /\ UNCHANGED <<override, silent, asked, seen, process, waited>>

MainThread ==
  \/ Announce \/ Fork \/ WaitRunning \/ WaitEnded \/ Sleep
  \/ AskAtEof \/ Ask \/ OtherAnswer \/ TakeAnswer \/ AnswersEnd \/ NoAnswer
  \/ Check \/ Death \/ Clear

-----------------------------------------------------------------------------
(***************************************************************************)
(* The handlers.                                                           *)
(***************************************************************************)
OverrideEnable(h) ==
  /\ pc[h] = "ready" /\ override' = TRUE
  /\ UNCHANGED <<pc, mutex, open, pid, eof, paused, silent, asked, buffer, seen, playerVars,
                 waited>>

\* /player/pause looks at the override before it has the lock.
PlayerPause(h) ==
  /\ pc[h] = "ready" /\ override /\ Backlog < MaxBacklog
  /\ Goto(h, "pause")
  /\ UNCHANGED <<mutex, sessionVars, playerVars, waited>>

PauseWithoutTrack(h) ==
  /\ pc[h] = "pause" /\ mutex = Nobody /\ ~open
  /\ Goto(h, "ready")
  /\ UNCHANGED <<mutex, sessionVars, playerVars, waited>>

PauseUnlocked(h) ==                      \* mutant: both locks are released before the write
  /\ pc[h] = "pause" /\ mutex = Nobody /\ open
  /\ paused' = ~paused
  /\ Goto(h, "write")
  /\ UNCHANGED <<mutex, override, open, pid, eof, silent, asked, buffer, seen, playerVars, waited>>

Pause(h) ==
  /\ pc[h] = "pause" /\ Lock(h) /\ open
  /\ paused' = ~paused
  /\ Goto(h, "write")
  /\ UNCHANGED <<override, open, pid, eof, silent, asked, buffer, seen, playerVars, waited>>

PauseWrite(h) ==
  /\ pc[h] = "write" /\ Unlock(h)
  /\ commands' = Sent("toggle")
  /\ Goto(h, "ready")
  /\ UNCHANGED <<sessionVars, process, frozen, hung, answers, waited>>

\* /override/disable: Unpause, SetSpeed, and then the flag.
OverrideDisable(h) ==
  /\ pc[h] = "ready" /\ Goto(h, "unpause")
  /\ UNCHANGED <<mutex, sessionVars, playerVars, waited>>

UnpauseWaits(h) ==                       \* mutant: it polls state_ until the pause is over
  /\ pc[h] = "unpause" /\ mutex = Nobody
  /\ Goto(h, IF open /\ paused THEN "unpause" ELSE "speed")
  /\ UNCHANGED <<mutex, sessionVars, playerVars, waited>>

\* Unpause calls pause() of the C library, without either lock, where Pause() was meant.
Unpause(h) ==
  /\ pc[h] = "unpause" /\ mutex = Nobody
  /\ Goto(h, IF open /\ paused THEN "suspended" ELSE "speed")
  /\ UNCHANGED <<mutex, sessionVars, playerVars, waited>>

\* pause() returns when this thread, of all the process has, handles a signal.
SignalHandled(h) ==
  /\ pc[h] = "suspended" /\ Goto(h, "speed")
  /\ UNCHANGED <<mutex, sessionVars, playerVars, waited>>

SetSpeed(h) ==
  /\ pc[h] = "speed" /\ mutex = Nobody
  /\ Goto(h, "disable")
  /\ UNCHANGED <<mutex, sessionVars, playerVars, waited>>

OverrideDisabled(h) ==
  /\ pc[h] = "disable" /\ override' = FALSE
  /\ Goto(h, "ready")
  /\ UNCHANGED <<mutex, open, pid, eof, paused, silent, asked, buffer, seen, playerVars, waited>>

\* Stop takes no lock: the player it looks for may be gone when it kills.
StopTest(h) ==
  /\ pc[h] = "ready" /\ open /\ pid
  /\ seen' = [seen EXCEPT ![h] = process # "none"]
  /\ Goto(h, "kill")
  /\ UNCHANGED <<mutex, override, open, pid, eof, paused, silent, asked, buffer, playerVars,
                 waited>>

Killed == IF process = "running" THEN "zombie" ELSE process

\* The pid it kills is the one it tested, or what is in mplayer_pid_ by then.
StopKill(h) ==
  /\ pc[h] = "kill" /\ Goto(h, "ready")
  /\ \E tested \in BOOLEAN :
       process' = IF (IF tested THEN seen[h] ELSE pid) THEN Killed ELSE process
  /\ seen' = [seen EXCEPT ![h] = FALSE]
  /\ UNCHANGED <<mutex, override, open, pid, eof, paused, silent, asked, buffer, frozen, hung,
                 commands, answers, waited>>

Request(h) ==
  OverrideEnable(h) \/ PlayerPause(h) \/ OverrideDisable(h) \/ StopTest(h)

\* What a handler does once it is called, up to its answer.
Handle(h) ==
  \/ PauseWithoutTrack(h) \/ Pause(h) \/ PauseWrite(h)
  \/ Unpause(h) \/ SetSpeed(h) \/ OverrideDisabled(h) \/ StopKill(h)

-----------------------------------------------------------------------------
(***************************************************************************)
(* The mplayer process.                                                    *)
(***************************************************************************)
Serve ==
  /\ process = "running" /\ ~hung /\ commands # <<>>
  /\ commands' = Tail(commands)
  /\ IF commands[1] = "toggle"
     THEN frozen' = ~frozen /\ UNCHANGED answers
     ELSE /\ answers' = Append(answers, [asked |-> commands[1],
                                         value |-> commands[1] = "pause" /\ frozen])
          /\ UNCHANGED frozen
  /\ UNCHANGED <<pc, mutex, sessionVars, process, hung, waited>>

\* It loads, waits for the network or is broken, and may answer what it was asked afterwards.
Hang ==
  /\ process = "running" /\ ~hung /\ Backlog <= MaxBacklog
  /\ hung' = TRUE
  /\ UNCHANGED <<pc, mutex, sessionVars, process, frozen, commands, answers, waited>>

Recover ==
  /\ process = "running" /\ hung
  /\ hung' = FALSE
  /\ UNCHANGED <<pc, mutex, sessionVars, process, frozen, commands, answers, waited>>

\* The track is over, or the player fails.
Exit ==
  /\ process = "running" /\ process' = "zombie"
  /\ UNCHANGED <<pc, mutex, sessionVars, frozen, hung, commands, answers, waited>>

Next ==
  \/ MainThread \/ Idle
  \/ \E h \in Handler : Request(h) \/ Handle(h) \/ SignalHandled(h)
  \/ Serve \/ Hang \/ Recover \/ Exit

Spec == Init /\ [][Next]_vars

\* Threads run.  A thread that waits for mutex_ gets it in the end, since nobody holds it for
\* long: Play sleeps without it for 250 ms in each pass, and people's requests are far apart.
\* A player that does not hang serves its commands; nobody has to call, to hang or to end.
FairSpec ==
  /\ Spec /\ SF_vars(MainThread) /\ WF_vars(Serve)
  /\ \A h \in Handler : SF_vars(Handle(h))

-----------------------------------------------------------------------------
(***************************************************************************)
(* Properties.                                                             *)
(***************************************************************************)
PC == {"idle", "fork", "wait", "sleep", "ask", "select", "check", "death", "clear", "ready",
       "pause", "write", "unpause", "suspended", "speed", "disable", "kill"}

\* The type invariant.
TypeOK ==
  /\ pc \in [Thread -> PC] /\ mutex \in Thread \cup {Nobody}
  /\ override \in BOOLEAN /\ open \in BOOLEAN /\ pid \in BOOLEAN /\ eof \in BOOLEAN
  /\ paused \in BOOLEAN
  /\ silent \in 0 .. Timeout + 1 /\ waited \in 0 .. Timeout + 1
  /\ asked \in Asked /\ buffer \in Seq(Answer) /\ seen \in [Handler -> BOOLEAN]
  /\ process \in {"none", "running", "zombie"} /\ frozen \in BOOLEAN /\ hung \in BOOLEAN
  /\ commands \in Seq(Asked \cup {"toggle"}) /\ answers \in Seq(Answer)

\* A handler that found the pipe open still finds it open when it writes to it, although the main
\* thread closes it at the end of any track, and a player may end at any moment.
WritesToOpenPipe == \A h \in Handler : pc[h] = "write" => open

\* Play keeps the promise of Player: a player process is never started beside another one, it has
\* been waited for when Play returns, and no pause outlives its track, whatever the handlers do.
Promise == INSTANCE Player WITH playing <- open
KeepsPromise == Promise!Spec

\* A player that stops answering does not hold up the station: it answers again, or is killed,
\* also when answers from before are still to be read.
MuteIsKilled == hung ~> ~hung

\* The pause that the web API shows becomes the player's own: once nobody pauses any more and the
\* player answers, answers from before a pause no longer undo it in state_.
Quiet ==
  /\ ~hung /\ \A h \in Handler : pc[h] # "write"
  /\ \A i \in DOMAIN commands : commands[i] # "toggle"
PausedSettles == <>[]Quiet => <>[](process = "running" => paused = frozen)

\* A handler gets the lock and ends, although Play holds it most of the time and other handlers
\* want it too; /override/disable of a paused player is the exception.
HandlersFinish ==
  \A h \in Handler : pc[h] # "ready" ~> pc[h] \in {"ready", "suspended"}

(***************************************************************************)
(* What documentation and comments say, and the code does not do.          *)
(***************************************************************************)
\* apidocs.txt: /override/disable turns off manual override, and unpauses the player.
DisableFinishes == \A h \in Handler : pc[h] = "unpause" ~> pc[h] = "ready"

\* FLAGS_mplayertimeout: the seconds to wait before a dead player is killed.
TimeoutHonoured ==
  [][pc[Main] = "check" /\ pc'[Main] = "death" /\ ~eof => waited > Timeout]_vars

\* mplayersession.h: mutex_ is held by whoever interacts with the player, so that it is there.
StopHitsItsPlayer ==
  [][\A h \in Handler : pc[h] = "kill" /\ pc'[h] = "ready" => seen[h]]_vars
=============================================================================
