------------------------------- MODULE Player -------------------------------
(***************************************************************************)
(* What the rest of the program is promised of a MplayerSession: one       *)
(* player process at a time, reaped before Play returns, and a pause that  *)
(* belongs to the track it was asked for and to no later one.              *)
(***************************************************************************)
VARIABLES
  playing,       \* a track is on, between its start and the end of Play
  process,       \* the player's process: none, running, or dead and not yet waited for
  paused         \* what the web API shows of the pause

Init == ~playing /\ process = "none" /\ ~paused

Start ==
  /\ ~playing /\ process = "none"
  /\ playing' = TRUE /\ process' = "running" /\ UNCHANGED paused

Die ==
  /\ process = "running" /\ process' = "zombie"
  /\ UNCHANGED <<playing, paused>>

Reap ==
  /\ playing /\ process # "none" /\ process' = "none"
  /\ UNCHANGED <<playing, paused>>

PauseChanges ==
  /\ playing /\ paused' = ~paused
  /\ UNCHANGED <<playing, process>>

End ==
  /\ playing /\ process = "none"
  /\ playing' = FALSE /\ paused' = FALSE /\ UNCHANGED process

Next == Start \/ Die \/ Reap \/ PauseChanges \/ End

Spec == Init /\ [][Next]_<<playing, process, paused>>
=============================================================================
