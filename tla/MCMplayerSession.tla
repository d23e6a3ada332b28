-------------------------- MODULE MCMplayerSession --------------------------
(***************************************************************************)
(* Threads for the runs of MplayerSession.                                 *)
(***************************************************************************)
EXTENDS MplayerSession

CONSTANTS main, h1, h2, nobody

OneHandler == {h1}
=============================================================================
