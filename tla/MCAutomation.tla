---------------------------- MODULE MCAutomation ----------------------------
(***************************************************************************)
(* Values for the constants of Automation: small stations, each with the   *)
(* playlists and the schedules that one question needs.                    *)
(***************************************************************************)
EXTENDS Automation

CONSTANTS t1, t2, t3, ghost, raw, p1, p2, none, anon

Tracks == {t1, t2, t3}
Lengths == (t1 :> 1) @@ (t2 :> 2) @@ (t3 :> 5) @@ (raw :> 1)

\* One playlist of everything, another of a single track.
Lists == (p1 :> {t1, t2, t3}) @@ (p2 :> {t1})

\* The station of the runs with a person in it: a playlist and a bumper.
ShortLengths == (t1 :> 1) @@ (t2 :> 2) @@ (raw :> 1)
ShortLists == (p1 :> {t2})

\* A clock whose minute has six seconds, and whose hour has two minutes.
Fields == {"sec", "min"}
Clock(t) == [f \in Fields |-> IF f = "sec" THEN t % 6 ELSE (t \div 6) % 2]

\* The parts of a requirement most of the schedules leave out.
Plain ==
  [type |-> "NO_OP", only_at_times |-> {}, constrained |-> [f \in Fields |-> {}],
   gap |-> 0, advance |-> -1, reboot |-> FALSE, items |-> <<>>, target |-> anon]

At(times, g) == [Plain EXCEPT !.only_at_times = times, !.gap = g]
Every(second, r) == [r EXCEPT !.constrained = [@ EXCEPT !["sec"] = {second}]]
Files(r, items) == [r EXCEPT !.type = "PLAY_FILES", !.items = items]
LegalID(r) == [r EXCEPT !.type = "LEGAL_ID"]
SetMainshow(r, name) == [r EXCEPT !.type = "SET_MAINSHOW", !.target = name]
Advancing(r, seconds) == [r EXCEPT !.advance = seconds]

\* A day of every command: files with a missing id, a new mainshow, advances of both kinds.
DaySchedule ==
  <<Files([At({5}, 2) EXCEPT !.reboot = TRUE], <<ghost, t1, raw>>),
    SetMainshow(Every(5, Plain), p2),
    LegalID(At({11}, 3)),
    Advancing(At({14}, 0), 2),
    Advancing(At({14}, 1), 0)>>
EveryCommand == {DaySchedule}

\* The schedule a person replaces while it runs.
Rewritten == {<<At({1, 4}, 1)>>, <<Advancing(At({2}, 3), 3)>>}

EarlyDeadline == {<<At({2}, 1)>>}

AllLegal == {{t1}, {t1, t2}, {t3}, {}}
ShortLegal == {{t1}}

NoRequests == -1
TrackPosted == {<<t2>>}
MissingPosted == {<<ghost>>}
=============================================================================
