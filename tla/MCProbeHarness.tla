---------------------------- MODULE MCProbeHarness ----------------------------
(***************************************************************************)
(* Small instances of ProbeHarness: open and write are hooked by handlers  *)
(* that log, so the log's own calls come back into the dispatcher.         *)
(***************************************************************************)
EXTENDS ProbeHarness

Library == {"open", "write", "stat", "gone", "shut"}

(* open first: the others are installed through a dispatcher in use.       *)
Hooks == <<"open", "gone", "write", "shut", "stat">>

Kinds == [f \in Library |-> IF f \in {"open", "stat"} THEN f ELSE "log"]

Budget == [t \in {"t1", "t2"} |-> IF t = "t1" THEN 2 ELSE 1]
=============================================================================
