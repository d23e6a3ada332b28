------------------------- MODULE RequirementEngine -------------------------
(***************************************************************************)
(* The schedule arithmetic of RequirementEngine: which requirements are    *)
(* due at an instant, the implicit legal ID, the next deadline with the    *)
(* block of requirements that share it, and the running value of the       *)
(* internal time advance.  The engine's variables, and the steps that use  *)
(* these operators, are in Automation, whose main loop is their only       *)
(* caller.  Times are whole seconds, as time_t is in the code.             *)
(***************************************************************************)
EXTENDS Integers, Sequences

CONSTANTS
  CalendarField,    \* the fields of struct tm that a TimeSpecification can constrain
  TopOfHour,        \* the two of them (seconds and minutes) the implicit legal ID fixes at 0
  Localtime(_),     \* localtime_r: the calendar fields of an instant
  Window,           \* how far ahead FillNext looks: a week in the code
  DefaultWait,      \* the deadline, from now, when nothing is due: an hour in the code
  HugeGap,          \* the gap FillNext starts from: twenty years in the code
  ImplicitLegalId,  \* FLAGS_implicit_legalid
  ImplicitGap,      \* FLAGS_implicit_legalid_gap
  NoName            \* an absent target_playlistname

ASSUME EngineAssumption ==
  /\ Window \in Nat \ {0}
  /\ DefaultWait \in Nat \ {0}
  /\ HugeGap \in Nat
  /\ ImplicitGap \in Nat
  /\ ImplicitLegalId \in BOOLEAN
  /\ TopOfHour \subseteq CalendarField

ImplicitRequirement ==
  [type |-> "LEGAL_ID", only_at_times |-> {},
   constrained |-> [f \in CalendarField |-> IF f \in TopOfHour THEN {0} ELSE {}],
   gap |-> ImplicitGap, advance |-> -1, reboot |-> TRUE, items |-> <<>>, target |-> NoName]

\* The implicit legal ID comes first, so it is also the first of its block to run.
EffectiveSchedule(schedule) ==
  IF ImplicitLegalId THEN <<ImplicitRequirement>> \o schedule ELSE schedule

IsDue(r, t) ==
  IF r.only_at_times # {}
  THEN t \in r.only_at_times
  ELSE \A f \in CalendarField :
         r.constrained[f] = {} \/ Localtime(t)[f] \in r.constrained[f]

-----------------------------------------------------------------------------
(***************************************************************************)
(* FillNext scans forward from the internal time and stops at the first    *)
(* second at which anything is due.                                        *)
(***************************************************************************)
DuePositions(effective, t) == {i \in DOMAIN effective : IsDue(effective[i], t)}

DueTimesAfter(effective, from) == \* mutant: the scan starts one second late
  {t \in (from + 1) .. (from + Window) : DuePositions(effective, t) # {}}
DueTimes(effective, from) ==
  {t \in from .. (from + Window - 1) : DuePositions(effective, t) # {}}

IsEarliest(t, S) == t \in S /\ \A u \in S : t <= u

\* The requirements due at t, keyed by their position: RunBlock takes them in order.
BlockAt(effective, t) == [i \in DuePositions(effective, t) |-> effective[i]]

GapsAtStart(effective, t) == {HugeGap} \* mutant: the requirements' gaps are not looked at
GapsAt(effective, t) == {HugeGap} \cup {effective[i].gap : i \in DuePositions(effective, t)}

NoBlock == [i \in {} |-> ImplicitRequirement]

\* HandleReboot's schedule: the reboot requirements, forced to end at the wall clock.
RebootBlock(effective) ==
  [i \in {j \in DOMAIN effective : effective[j].reboot} |->
     [effective[i] EXCEPT !.advance = -1]]

\* One round of RunBlock's loop on its local internal_time_advance, which starts at 1.
AdvanceStep(acc, advance) ==
  IF advance < 0 /\ acc > 0 THEN -1
  ELSE IF advance > acc THEN advance ELSE acc
=============================================================================
