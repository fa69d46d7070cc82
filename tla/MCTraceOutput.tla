----------------------------- MODULE MCTraceOutput -----------------------------
(***************************************************************************)
(* TraceOutput for TLC, with the sizes of the code and names at and beyond *)
(* them.                                                                   *)
(***************************************************************************)
EXTENDS TraceOutput

Paths ==
  {[cls |-> "plain", len |-> 512], [cls |-> "control", len |-> 2000],
   [cls |-> "wide", len |-> 513], [cls |-> "newline", len |-> 1],
   [cls |-> "broken", len |-> 4]}

Words == {{"open", "bogus"}, {"rename", "write"}}
=============================================================================
