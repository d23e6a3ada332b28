---------------------------- MODULE MCWebCommand ----------------------------
(***************************************************************************)
(* Values for the constants of WebCommand: two handler threads, and the    *)
(* requests that differ in what they do to the members and to mainshow.    *)
(***************************************************************************)
EXTENDS WebCommand, TLC

CONSTANTS main, h1, h2, nobody, l1

\* A fetch of mainshow in some other format, an update that overwrites it, an update of the
\* list that its body names, a command that fetches mainshow.
Asked ==
  {[NoQuery EXCEPT !.list = "mainshow", !.format = "other"],
   [NoQuery EXCEPT !.kind = "update", !.list = "mainshow", !.overwrite = TRUE],
   [NoQuery EXCEPT !.kind = "update", !.body = l1],
   [NoQuery EXCEPT !.kind = "runonce"]}
=============================================================================
