-------------------------------- MODULE MCTool --------------------------------
(***************************************************************************)
(* Tool for TLC: every combination of options, a probe of two versions     *)
(* of which the verifier rejects one.                                      *)
(***************************************************************************)
EXTENDS Tool

(* The names of calls matter only where -t is given.  Of those with a      *)
(* probe, which all compile it alike, the ones that use it differently: -p *)
(* with -c, where main never looks at -c, is there without a probe.        *)
CommandLines ==
  {r \in [script : BOOLEAN, pid : BOOLEAN, check : BOOLEAN,
          opts : BOOLEAN, known : BOOLEAN, cmd : BOOLEAN] :
     /\ r.known \/ r.opts
     /\ r.script => /\ r.known
                    /\ r.opts => r.pid
                    /\ ~(r.cmd /\ (r.pid \/ r.check))
                    /\ ~(r.pid /\ r.check)}
=============================================================================
