------------------------------- MODULE Agenda -------------------------------
(***************************************************************************)
(* What the station promises its schedule, whatever is played, paused,     *)
(* queued or killed meanwhile: the requirements of the first second that   *)
(* is due are looked up together, they wait for that second and are not    *)
(* passed over once it has come, they are run one by one in the order of   *)
(* the schedule, and the engine's own time goes on from there.             *)
(*                                                                         *)
(* What comes due is not all run.  A requirement can ask the engine to     *)
(* rejoin the clock at the end of its block, and what came due while the   *)
(* block ran is then skipped; a block that does not ask for it takes the   *)
(* engine some seconds on, past what else is due in those; and once the    *)
(* station has given way to a person, the engine goes on from the clock.   *)
(* The engine's time goes forward in no other way.                         *)
(***************************************************************************)
EXTENDS RequirementEngine

VARIABLES
  clock, position,   \* the wall clock, and the engine's own time
  schedule,
  stage,             \* what becomes of the plan
  due, left,         \* the planned second, and its requirements that are still to run
  rejoins,           \* the block that is run takes the engine to the clock, as it was asked
  wanted, yielded    \* a person wants the station; the station has given way
planVars == <<position, schedule, stage, due, left, rejoins>>
personVars == <<wanted, yielded>>
agendaVars == <<clock, planVars, personVars>>

Stage == {"seeking", "planned", "waiting", "running", "off"}
Planned == EffectiveSchedule(schedule)

Init ==
  /\ clock = 0 /\ position = 0 /\ due = 0 /\ wanted \in BOOLEAN
  /\ yielded = FALSE /\ rejoins = FALSE
  /\ \/ stage = "seeking" /\ left = NoBlock
     \/ stage = "running" /\ left = RebootBlock(Planned)

Goto(next) == stage' = next

\* The first second that has something due, with all that is due then; or a later look.
Plan ==
  /\ stage = "seeking" /\ Goto("planned")
  /\ IF DueTimes(Planned, position) = {}
     THEN left' = NoBlock /\ due' > clock
     ELSE IsEarliest(due', DueTimes(Planned, position)) /\ left' = BlockAt(Planned, due')
  /\ UNCHANGED <<clock, position, schedule, rejoins, personVars>>

Wait ==
  /\ stage = "planned" /\ clock < due /\ Goto("waiting")
  /\ UNCHANGED <<clock, position, schedule, due, left, rejoins, personVars>>

LookAgain ==
  /\ stage = "waiting" /\ Goto("seeking")
  /\ UNCHANGED <<clock, position, schedule, due, left, rejoins, personVars>>

Run ==
  /\ stage = "planned" /\ clock >= due /\ Goto("running") /\ rejoins' = FALSE
  /\ UNCHANGED <<clock, position, schedule, due, left, personVars>>

\* A requirement that cannot be run ends the process.
Serve ==
  /\ stage = "running" /\ stage' \in {"running", "off"}
  /\ \E i \in DOMAIN left :
       /\ IsEarliest(i, DOMAIN left)
       /\ left' = [j \in DOMAIN left \ {i} |-> left[j]]
       /\ rejoins' \in BOOLEAN /\ (rejoins' => rejoins \/ left[i].advance < 0)
  /\ UNCHANGED <<clock, position, schedule, due, personVars>>

Finished == stage = "running" /\ DOMAIN left = {}

\* The block takes some seconds of the engine's time, whatever else was due in them.
Advance ==
  /\ Finished /\ ~rejoins /\ Goto("seeking")
  /\ position' - position \in Nat
  /\ UNCHANGED <<clock, schedule, due, left, rejoins, personVars>>

\* The engine goes on from the clock: what came due while the block ran is skipped, but not
\* what comes due in the second that the clock has reached.
CatchUp ==
  /\ Finished /\ rejoins /\ Goto("seeking")
  /\ position' = clock /\ position' >= position
  /\ UNCHANGED <<clock, schedule, due, left, rejoins, personVars>>

Rewrite ==
  /\ stage # "off" /\ schedule' # schedule
  /\ UNCHANGED <<clock, position, stage, due, left, rejoins, personVars>>

Tick ==
  /\ stage # "off" /\ clock' = clock + 1
  /\ UNCHANGED <<planVars, personVars>>

\* A person takes the station over or gives it back, and what was queued is played.
Turn ==
  /\ stage # "off" /\ wanted' # wanted
  /\ UNCHANGED <<clock, planVars, yielded>>

GiveWay ==
  /\ stage = "seeking" /\ wanted /\ yielded' = TRUE
  /\ UNCHANGED <<clock, planVars, wanted>>

\* The station is on its own again: whatever came due while a person had it is skipped.
Skip ==
  /\ stage = "seeking" /\ yielded /\ ~wanted /\ position' = clock
  /\ UNCHANGED <<clock, schedule, stage, due, left, rejoins, personVars>>

GoOn ==
  /\ stage = "seeking" /\ yielded' = FALSE
  /\ UNCHANGED <<clock, planVars, wanted>>

Stop ==
  /\ stage # "off" /\ Goto("off")
  /\ UNCHANGED <<clock, position, schedule, due, left, rejoins>>

Next ==
  \/ Plan \/ Wait \/ LookAgain \/ Run \/ Serve \/ Advance \/ CatchUp \/ Rewrite \/ Tick
  \/ Turn \/ GiveWay \/ Skip \/ GoOn \/ Stop

Spec == Init /\ [][Next]_agendaVars
=============================================================================
