----------------------------- MODULE MCEventRing -----------------------------
(***************************************************************************)
(* Small instances of EventRing for TLC.                                   *)
(***************************************************************************)
EXTENDS EventRing

CONSTANTS t1, t2

AppThreads == {t1, t2}
OneThread  == {t1}
=============================================================================
