------------------------ MODULE MplayerSessionProofs ------------------------
(***************************************************************************)
(* Proofs about MplayerSession, for any number of handlers: its types, the *)
(* discipline of mutex_, and that it keeps the promise of Player.          *)
(***************************************************************************)
EXTENDS MplayerSession, TLAPS

\* The main thread or a handler is inside mutex_ exactly at these statements.
Discipline ==
  /\ pc[Main] \in {"wait", "select", "death", "clear"} <=> mutex = Main
  /\ \A h \in Handler : pc[h] = "write" <=> mutex = h

\* What the pipe, the player process and the pause are while Play is at a statement.
Stages ==
  /\ open <=> pc[Main] \notin {"idle", "fork"}
  /\ ~open => process = "none" /\ ~paused
  /\ pc[Main] = "clear" => process = "none"

\* The inductive invariant of the session.
IInv == TypeOK /\ Discipline /\ Stages

\* TypeOK holds initially.
LEMMA InitType == Init => TypeOK
<1> SUFFICES ASSUME Init PROVE TypeOK
  OBVIOUS
<1>1. pc \in [Thread -> PC] /\ seen \in [Handler -> BOOLEAN]
  BY DEF Init, PC
<1>2. silent \in 0 .. Timeout + 1 /\ waited \in 0 .. Timeout + 1
  BY SessionAssumption DEF Init
<1>3. buffer \in Seq(Answer) /\ answers \in Seq(Answer) /\ commands \in Seq(Asked \cup {"toggle"})
  BY DEF Init
<1> QED
  BY <1>1, <1>2, <1>3 DEF Init, TypeOK, Asked

\* A change of one thread's statement keeps the type of pc.
LEMMA GotoType ==
  ASSUME NEW t \in Thread, NEW label \in PC, pc \in [Thread -> PC], Goto(t, label)
  PROVE  pc' \in [Thread -> PC] /\ pc'[t] = label /\ \A u \in Thread \ {t} : pc'[u] = pc[u]
BY DEF Goto

\* The counters of passes stay within their bound.
LEMMA LaterType == ASSUME NEW n \in 0 .. Timeout + 1 PROVE Later(n) \in 0 .. Timeout + 1
BY SessionAssumption DEF Later

\* Commands that are sent are commands, whether the player is there to read them or not.
LEMMA SentType ==
  ASSUME TypeOK, NEW command \in Asked \cup {"toggle"}
  PROVE  Sent(command) \in Seq(Asked \cup {"toggle"})
BY DEF TypeOK, Sent

\* Reading a line leaves lines in stdio's buffer and in the pipe.
LEMMA ReadLineType ==
  ASSUME TypeOK, ReadLine
  PROVE  /\ buffer' \in Seq(Answer) /\ answers' \in Seq(Answer)
         /\ Unread[1] \in Answer
<1>1. Unread \in Seq(Answer) /\ Unread # <<>>
  BY DEF TypeOK, ReadLine, Unread
<1>2. Unread[1] \in Answer /\ Tail(Unread) \in Seq(Answer)
  BY <1>1
<1>3. answers' \in Seq(Answer)
  BY DEF TypeOK, ReadLine
<1> QED
  BY <1>2, <1>3 DEF ReadLine

-----------------------------------------------------------------------------
\* Main and the handlers are threads, and nobody is none of them.
LEMMA Threads ==
  /\ Main \in Thread /\ Main \notin Handler /\ Nobody # Main
  /\ \A h \in Handler : h \in Thread /\ h # Main /\ h # Nobody
BY SessionAssumption DEF Thread

\* The main thread's steps keep the types.
LEMMA MainType == ASSUME TypeOK, MainThread \/ Idle PROVE TypeOK'
<1> USE Threads DEF PC
<1>1. CASE Idle
  <2>1. silent' \in 0 .. Timeout + 1
    BY <1>1, LaterType DEF Idle, TypeOK
  <2> QED
    BY <1>1, <2>1 DEF Idle, TypeOK, playerVars
<1>2. CASE Announce
  BY <1>2, GotoType DEF Announce, TypeOK, sessionVars, playerVars
<1>3. CASE Fork
  <2>1. pc' \in [Thread -> PC]
    BY <1>3, GotoType DEF Fork, TypeOK
  <2>2. waited' \in 0 .. Timeout + 1
    BY <1>3, SessionAssumption DEF Fork
  <2>3. /\ buffer' \in Seq(Answer) /\ answers' \in Seq(Answer)
        /\ commands' \in Seq(Asked \cup {"toggle"})
    BY <1>3 DEF Fork
  <2> QED
    BY <1>3, <2>1, <2>2, <2>3 DEF Fork, Lock, TypeOK
<1>4. CASE WaitRunning
  BY <1>4, GotoType DEF WaitRunning, Unlock, TypeOK, sessionVars, playerVars
<1>5. CASE WaitEnded \/ Death
  <2>1. pc' \in [Thread -> PC]
    BY <1>5, GotoType DEF WaitEnded, Death, TypeOK
  <2> QED
    BY <1>5, <2>1 DEF WaitEnded, Death, TypeOK
<1>6. CASE Sleep
  <2>1. pc' \in [Thread -> PC]
    BY <1>6, GotoType DEF Sleep, TypeOK
  <2>2. silent' \in 0 .. Timeout + 1 /\ waited' \in 0 .. Timeout + 1
    BY <1>6, LaterType DEF Sleep, TypeOK
  <2> QED
    BY <1>6, <2>1, <2>2 DEF Sleep, TypeOK, playerVars, Asked
<1> DEFINE Answered == NextProperty /\ (Unlock(Main) \/ UNCHANGED mutex)
<1>7. ASSUME Answered
      PROVE  pc' \in [Thread -> PC] /\ asked' \in Asked /\ mutex' \in Thread \cup {Nobody}
  BY <1>7, GotoType DEF NextProperty, Unlock, TypeOK, Asked
<1>8. CASE AskAtEof
  BY <1>7, <1>8 DEF AskAtEof, TypeOK, playerVars
<1>9. CASE Ask
  <2>1. pc' \in [Thread -> PC]
    BY <1>9, GotoType DEF Ask, TypeOK
  <2>2. commands' \in Seq(Asked \cup {"toggle"})
    BY <1>9, SentType DEF Ask, TypeOK
  <2> QED
    BY <1>9, <2>1, <2>2 DEF Ask, Lock, TypeOK, sessionVars
<1>10. CASE OtherAnswer
  <2>1. buffer' \in Seq(Answer) /\ answers' \in Seq(Answer)
    BY <1>10, ReadLineType DEF OtherAnswer
  <2> QED
    BY <1>10, <2>1 DEF OtherAnswer, TypeOK
<1>11. CASE TakeAnswer
  <2>1. buffer' \in Seq(Answer) /\ answers' \in Seq(Answer) /\ Unread[1].value \in BOOLEAN
    BY <1>11, ReadLineType DEF TakeAnswer, Answer
  <2>2. paused' \in BOOLEAN
    BY <1>11, <2>1 DEF TakeAnswer, TypeOK
  <2>3. silent' \in 0 .. Timeout + 1 /\ waited' \in 0 .. Timeout + 1
    BY <1>11, SessionAssumption DEF TakeAnswer
  <2>4. pc' \in [Thread -> PC] /\ asked' \in Asked /\ mutex' \in Thread \cup {Nobody}
    BY <1>7, <1>11 DEF TakeAnswer
  <2> QED
    BY <1>11, <2>1, <2>2, <2>3, <2>4 DEF TakeAnswer, TypeOK
<1>12. CASE AnswersEnd \/ NoAnswer
  BY <1>7, <1>12 DEF AnswersEnd, NoAnswer, TypeOK, playerVars
<1>13. CASE Check
  <2>1. pc' \in [Thread -> PC]
    BY <1>13, GotoType DEF Check, TypeOK
  <2> QED
    BY <1>13, <2>1 DEF Check, Lock, TypeOK, sessionVars, playerVars
<1>14. CASE Clear
  <2>1. pc' \in [Thread -> PC]
    BY <1>14, GotoType DEF Clear, TypeOK
  <2>2. /\ buffer' \in Seq(Answer) /\ answers' \in Seq(Answer)
        /\ commands' \in Seq(Asked \cup {"toggle"})
    BY <1>14 DEF Clear
  <2> QED
    BY <1>14, <2>1, <2>2 DEF Clear, Unlock, TypeOK
<1> QED
  BY <1>1, <1>2, <1>3, <1>4, <1>5, <1>6, <1>8, <1>9, <1>10, <1>11, <1>12, <1>13, <1>14
  DEF MainThread

\* A handler's steps keep the types.
LEMMA HandlerType ==
  ASSUME TypeOK, NEW h \in Handler, Request(h) \/ Handle(h) \/ SignalHandled(h) PROVE TypeOK'
<1> USE Threads DEF PC
<1>1. CASE OverrideEnable(h)
  BY <1>1 DEF OverrideEnable, TypeOK, playerVars
<1>2. CASE PlayerPause(h) \/ OverrideDisable(h) \/ PauseWithoutTrack(h)
  BY <1>2, GotoType
  DEF PlayerPause, OverrideDisable, PauseWithoutTrack, TypeOK, sessionVars, playerVars
<1>3. CASE SignalHandled(h) \/ SetSpeed(h)
  BY <1>3, GotoType DEF SignalHandled, SetSpeed, TypeOK, sessionVars, playerVars
<1>4. CASE Unpause(h)
  BY <1>4, GotoType DEF Unpause, TypeOK, sessionVars, playerVars
<1>5. CASE OverrideDisabled(h)
  BY <1>5, GotoType DEF OverrideDisabled, TypeOK, playerVars
<1>6. CASE Pause(h)
  <2>1. pc' \in [Thread -> PC]
    BY <1>6, GotoType DEF Pause, TypeOK
  <2> QED
    BY <1>6, <2>1 DEF Pause, Lock, TypeOK, playerVars
<1>7. CASE PauseWrite(h)
  <2>1. pc' \in [Thread -> PC]
    BY <1>7, GotoType DEF PauseWrite, TypeOK
  <2>2. commands' \in Seq(Asked \cup {"toggle"})
    BY <1>7, SentType DEF PauseWrite
  <2> QED
    BY <1>7, <2>1, <2>2 DEF PauseWrite, Unlock, TypeOK, sessionVars
<1>8. CASE StopTest(h)
  <2>1. pc' \in [Thread -> PC]
    BY <1>8, GotoType DEF StopTest, TypeOK
  <2>2. seen' \in [Handler -> BOOLEAN]
    BY <1>8 DEF StopTest, TypeOK
  <2> QED
    BY <1>8, <2>1, <2>2 DEF StopTest, TypeOK, playerVars
<1>9. CASE StopKill(h)
  <2>1. pc' \in [Thread -> PC]
    BY <1>9, GotoType DEF StopKill, TypeOK
  <2>2. seen' \in [Handler -> BOOLEAN] /\ process' \in {"none", "running", "zombie"}
    BY <1>9 DEF StopKill, Killed, TypeOK
  <2> QED
    BY <1>9, <2>1, <2>2 DEF StopKill, TypeOK
<1> QED
  BY <1>1, <1>2, <1>3, <1>4, <1>5, <1>6, <1>7, <1>8, <1>9 DEF Request, Handle

\* The player's own steps keep the types.
LEMMA PlayerType == ASSUME TypeOK, Serve \/ Hang \/ Recover \/ Exit PROVE TypeOK'
<1>1. CASE Serve
  <2>1. commands[1] \in Asked \cup {"toggle"} /\ Tail(commands) \in Seq(Asked \cup {"toggle"})
    BY <1>1 DEF Serve, TypeOK
  <2>2. CASE commands[1] = "toggle"
    BY <1>1, <2>1, <2>2 DEF Serve, TypeOK, sessionVars
  <2>3. CASE commands[1] # "toggle"
    <3> DEFINE line == [asked |-> commands[1], value |-> commands[1] = "pause" /\ frozen]
    <3>1. line \in Answer
      BY <2>1, <2>3 DEF Answer
    <3>2. answers' = Append(answers, line)
      BY <1>1, <2>3 DEF Serve
    <3> HIDE DEF line
    <3>3. answers' \in Seq(Answer)
      BY <3>1, <3>2 DEF TypeOK
    <3> QED
      BY <1>1, <2>1, <2>3, <3>3 DEF Serve, TypeOK, sessionVars
  <2> QED
    BY <2>2, <2>3
<1>2. CASE Hang \/ Recover \/ Exit
  BY <1>2 DEF Hang, Recover, Exit, TypeOK, sessionVars
<1> QED
  BY <1>1, <1>2
-----------------------------------------------------------------------------
\* Types hold of every step, stutters included.
LEMMA NextType == TypeOK /\ [Next]_vars => TypeOK'
<1> SUFFICES ASSUME TypeOK, [Next]_vars PROVE TypeOK'
  OBVIOUS
<1>1. CASE UNCHANGED vars
  BY <1>1 DEF vars, sessionVars, playerVars, TypeOK
<1> QED
  BY <1>1, MainType, HandlerType, PlayerType DEF Next

\* The session's variables keep their types; silent, with its saturation, and the lines under way
\* in the two pipes are the part that is not obvious.
THEOREM SessionTypeCorrect == Spec => []TypeOK
<1> QED
  BY InitType, NextType, PTL DEF Spec

\* The discipline of the lock, and the stages of Play, hold initially.
LEMMA InitStages == Init => Discipline /\ Stages
BY Threads DEF Init, Discipline, Stages, Thread

\* The main thread's steps keep to the discipline and the stages.
LEMMA MainStages == ASSUME IInv, MainThread \/ Idle PROVE Discipline' /\ Stages'
<1> USE Threads DEF IInv, Discipline, Stages
<1>0. pc \in [Thread -> PC]
  BY DEF TypeOK
<1>1. CASE Idle
  BY <1>1 DEF Idle, playerVars
<1>2. CASE Announce
  BY <1>0, <1>2 DEF Announce, Goto, sessionVars, playerVars
<1>3. CASE Fork
  BY <1>0, <1>3 DEF Fork, Goto, Lock
<1>4. CASE WaitRunning
  BY <1>0, <1>4 DEF WaitRunning, Goto, Unlock, sessionVars, playerVars
<1>5. CASE WaitEnded \/ Death
  BY <1>0, <1>5 DEF WaitEnded, Death, Goto
<1>6. CASE Sleep
  BY <1>0, <1>6 DEF Sleep, Goto, playerVars
<1>7. CASE AskAtEof
  BY <1>0, <1>7 DEF AskAtEof, NextProperty, Goto, playerVars
<1>8. CASE Ask
  BY <1>0, <1>8 DEF Ask, Goto, Lock, sessionVars
<1>9. CASE OtherAnswer
  BY <1>9 DEF OtherAnswer
<1>10. CASE TakeAnswer
  BY <1>0, <1>10 DEF TakeAnswer, NextProperty, Goto, Unlock
<1>11. CASE AnswersEnd \/ NoAnswer
  BY <1>0, <1>11 DEF AnswersEnd, NoAnswer, NextProperty, Goto, Unlock, playerVars
<1>12. CASE Check
  BY <1>0, <1>12 DEF Check, Goto, Lock, sessionVars, playerVars
<1>13. CASE Clear
  BY <1>0, <1>13 DEF Clear, Goto, Unlock
<1> QED
  BY <1>1, <1>2, <1>3, <1>4, <1>5, <1>6, <1>7, <1>8, <1>9, <1>10, <1>11, <1>12, <1>13
  DEF MainThread

\* A handler's steps keep to the discipline and the stages.
LEMMA HandlerStages ==
  ASSUME IInv, NEW h \in Handler, Request(h) \/ Handle(h) \/ SignalHandled(h)
  PROVE  Discipline' /\ Stages'
<1> USE Threads DEF IInv, Discipline, Stages
<1>0. pc \in [Thread -> PC]
  BY DEF TypeOK
<1>1. CASE OverrideEnable(h)
  BY <1>1 DEF OverrideEnable, playerVars
<1>2. CASE PlayerPause(h) \/ OverrideDisable(h) \/ PauseWithoutTrack(h)
  BY <1>0, <1>2
  DEF PlayerPause, OverrideDisable, PauseWithoutTrack, Goto, sessionVars, playerVars
<1>3. CASE SignalHandled(h) \/ SetSpeed(h)
  BY <1>0, <1>3 DEF SignalHandled, SetSpeed, Goto, sessionVars, playerVars
<1>4. CASE Unpause(h)
  BY <1>0, <1>4 DEF Unpause, Goto, sessionVars, playerVars
<1>5. CASE OverrideDisabled(h)
  BY <1>0, <1>5 DEF OverrideDisabled, Goto, playerVars
<1>6. CASE Pause(h)
  BY <1>0, <1>6 DEF Pause, Goto, Lock, playerVars
<1>7. CASE PauseWrite(h)
  BY <1>0, <1>7 DEF PauseWrite, Goto, Unlock, sessionVars
<1>8. CASE StopTest(h)
  BY <1>0, <1>8 DEF StopTest, Goto, playerVars
<1>9. CASE StopKill(h)
  BY <1>0, <1>9 DEF StopKill, Killed, Goto
<1> QED
  BY <1>1, <1>2, <1>3, <1>4, <1>5, <1>6, <1>7, <1>8, <1>9 DEF Request, Handle

\* The invariant is inductive.
LEMMA NextIInv == IInv /\ [Next]_vars => IInv'
<1> SUFFICES ASSUME IInv, [Next]_vars PROVE IInv'
  OBVIOUS
<1>1. TypeOK'
  BY NextType DEF IInv
<1>2. CASE MainThread \/ Idle
  BY <1>1, <1>2, MainStages DEF IInv
<1>3. ASSUME NEW h \in Handler, Request(h) \/ Handle(h) \/ SignalHandled(h)
      PROVE  IInv'
  BY <1>1, <1>3, HandlerStages DEF IInv
<1>4. CASE Serve \/ Hang \/ Recover \/ Exit
  <2>1. Discipline' /\ Stages'
    BY <1>4 DEF Serve, Hang, Recover, Exit, sessionVars, IInv, Discipline, Stages
  <2> QED
    BY <1>1, <2>1 DEF IInv
<1>5. CASE UNCHANGED vars
  BY <1>1, <1>5 DEF vars, sessionVars, IInv, Discipline, Stages, playerVars
<1> QED
  BY <1>2, <1>3, <1>4, <1>5 DEF Next

\* The session keeps its types, the discipline of the lock and the stages of Play.
LEMMA SessionInvariant == Spec => []IInv
<1>1. Init => IInv
  BY InitType, InitStages DEF IInv
<1> QED
  BY <1>1, NextIInv, PTL DEF Spec

\* While a handler is to write to the pipe, no step closes it.
LEMMA NextWrites == IInv /\ WritesToOpenPipe /\ [Next]_vars => WritesToOpenPipe'
<1> SUFFICES ASSUME IInv, WritesToOpenPipe, [Next]_vars, NEW g \in Handler, pc'[g] = "write"
             PROVE  open'
  BY DEF WritesToOpenPipe
<1> USE Threads DEF WritesToOpenPipe
<1>0. pc \in [Thread -> PC]
  BY DEF IInv, TypeOK
<1>1. CASE pc[g] = "write"
  <2>1. open /\ pc[Main] # "clear"
    BY <1>1 DEF IInv, Discipline
  <2>2. CASE MainThread \/ Idle
    BY <2>1, <2>2
    DEF MainThread, Idle, Announce, Fork, WaitRunning, WaitEnded, Sleep, AskAtEof, Ask,
        OtherAnswer, TakeAnswer, AnswersEnd, NoAnswer, Check, Death, Clear, sessionVars
  <2>3. ASSUME NEW h \in Handler, Request(h) \/ Handle(h) \/ SignalHandled(h)
        PROVE  open'
    BY <2>1, <2>3
    DEF Request, Handle, SignalHandled, OverrideEnable, PlayerPause, OverrideDisable, StopTest,
        PauseWithoutTrack, Pause, PauseWrite, Unpause, SetSpeed, OverrideDisabled, StopKill,
        sessionVars
  <2>4. CASE Serve \/ Hang \/ Recover \/ Exit \/ UNCHANGED vars
    BY <2>1, <2>4 DEF Serve, Hang, Recover, Exit, vars, sessionVars
  <2> QED
    BY <2>2, <2>3, <2>4 DEF Next
<1>2. CASE pc[g] # "write"
  <2>1. CASE MainThread \/ Idle
    BY <1>0, <1>2, <2>1
    DEF MainThread, Idle, Announce, Fork, WaitRunning, WaitEnded, Sleep, AskAtEof, Ask,
        NextProperty, OtherAnswer, TakeAnswer, AnswersEnd, NoAnswer, Check, Death, Clear, Goto
  <2>2. ASSUME NEW h \in Handler, Request(h) \/ Handle(h) \/ SignalHandled(h)
        PROVE  open'
    <3>1. CASE Pause(h)
      BY <3>1 DEF Pause
    <3>2. CASE ~Pause(h)
      <4>1. pc'[g] # "write"
        BY <1>0, <1>2, <2>2, <3>2
        DEF Request, Handle, SignalHandled, OverrideEnable, PlayerPause, OverrideDisable, StopTest,
            PauseWithoutTrack, PauseWrite, Unpause, SetSpeed, OverrideDisabled, StopKill, Goto
      <4> QED
        BY <4>1
    <3> QED
      BY <3>1, <3>2
  <2>3. CASE Serve \/ Hang \/ Recover \/ Exit \/ UNCHANGED vars
    BY <1>2, <2>3 DEF Serve, Hang, Recover, Exit, vars
  <2> QED
    BY <2>1, <2>2, <2>3 DEF Next
<1> QED
  BY <1>1, <1>2

\* A handler writes to the pipe it found open, with any number of others beside it: at that
\* statement it holds the lock, which Play needs to close the pipe.
THEOREM PipeStaysOpen == Spec => []WritesToOpenPipe
<1>1. Init => WritesToOpenPipe
  BY Threads DEF Init, WritesToOpenPipe, Thread
<1> QED
  BY <1>1, NextWrites, SessionInvariant, PTL DEF Spec

-----------------------------------------------------------------------------
promised == <<open, process, paused>>

\* The main thread's steps are steps of the promise, or change nothing it speaks of.
LEMMA MainKeepsPromise ==
  ASSUME IInv, MainThread \/ Idle PROVE Promise!Next \/ UNCHANGED promised
<1> USE DEF promised
<1>1. CASE Fork
  BY <1>1 DEF Fork, IInv, Stages, Promise!Next, Promise!Start
<1>2. CASE WaitEnded \/ Death
  <2>1. open /\ process \in {"none", "running", "zombie"}
    BY <1>2 DEF WaitEnded, Death, IInv, Stages, TypeOK
  <2> QED
    BY <1>2, <2>1 DEF WaitEnded, Death, Promise!Next, Promise!Reap
<1>3. CASE TakeAnswer
  <2>1. open /\ paused \in BOOLEAN
    BY <1>3 DEF TakeAnswer, IInv, Stages, TypeOK
  <2>2. paused' \in BOOLEAN
    BY <1>3, ReadLineType DEF TakeAnswer, IInv, TypeOK, Answer
  <2>3. paused' = paused \/ paused' = ~paused
    BY <2>1, <2>2
  <2> QED
    BY <1>3, <2>1, <2>3 DEF TakeAnswer, Promise!Next, Promise!PauseChanges
<1>4. CASE Clear
  BY <1>4 DEF Clear, IInv, Stages, Promise!Next, Promise!End
<1>5. CASE Announce \/ WaitRunning \/ Sleep \/ AskAtEof \/ Ask \/ OtherAnswer \/ AnswersEnd
           \/ NoAnswer \/ Check \/ Idle
  BY <1>5
  DEF Announce, WaitRunning, Sleep, AskAtEof, Ask, OtherAnswer, AnswersEnd, NoAnswer, Check, Idle,
      sessionVars, playerVars
<1> QED
  BY <1>1, <1>2, <1>3, <1>4, <1>5 DEF MainThread

\* So are the handlers' and the player's.
LEMMA OthersKeepPromise ==
  ASSUME IInv,
         \/ \E h \in Handler : Request(h) \/ Handle(h) \/ SignalHandled(h)
         \/ Serve \/ Hang \/ Recover \/ Exit
  PROVE  Promise!Next \/ UNCHANGED promised
<1> USE DEF promised
<1>1. ASSUME NEW h \in Handler, Pause(h) PROVE Promise!Next
  BY <1>1 DEF Pause, playerVars, Promise!Next, Promise!PauseChanges
<1>2. ASSUME NEW h \in Handler, StopKill(h) PROVE Promise!Next \/ UNCHANGED promised
  <2>1. \/ UNCHANGED process
        \/ process = "running" /\ process' = "zombie"
    BY <1>2 DEF StopKill, Killed
  <2> QED
    BY <1>2, <2>1 DEF StopKill, Promise!Next, Promise!Die
<1>3. ASSUME NEW h \in Handler,
             \/ Request(h) \/ PauseWithoutTrack(h) \/ PauseWrite(h) \/ Unpause(h)
             \/ SetSpeed(h) \/ OverrideDisabled(h) \/ SignalHandled(h)
      PROVE  UNCHANGED promised
  BY <1>3
  DEF Request, OverrideEnable, PlayerPause, OverrideDisable, StopTest, PauseWithoutTrack,
      PauseWrite, Unpause, SetSpeed, OverrideDisabled, SignalHandled, sessionVars, playerVars
<1>4. CASE Exit
  BY <1>4 DEF Exit, sessionVars, Promise!Next, Promise!Die
<1>5. CASE Serve \/ Hang \/ Recover
  BY <1>5 DEF Serve, Hang, Recover, sessionVars
<1> QED
  BY <1>1, <1>2, <1>3, <1>4, <1>5 DEF Handle

\* Every step of the session is a step of Player or changes nothing of it: one player process at
\* a time, waited for before Play returns, and no pause that outlives its track, for any handlers.
THEOREM PromiseKept == Spec => KeepsPromise
<1>1. Init => Promise!Init
  BY DEF Init, Promise!Init
<1>2. IInv /\ [Next]_vars => [Promise!Next]_promised
  <2> SUFFICES ASSUME IInv, [Next]_vars PROVE Promise!Next \/ UNCHANGED promised
    OBVIOUS
  <2>1. CASE UNCHANGED vars
    BY <2>1 DEF vars, sessionVars, playerVars, promised
  <2> QED
    BY <2>1, MainKeepsPromise, OthersKeepPromise DEF Next
<1> QED
  BY <1>1, <1>2, SessionInvariant, PTL DEF Spec, KeepsPromise, Promise!Spec, promised
=============================================================================
