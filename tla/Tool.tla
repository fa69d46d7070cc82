--------------------------------- MODULE Tool ---------------------------------
(***************************************************************************)
(* The mtdi command as a whole: a session (Session), the compiler it runs  *)
(* for -s (ProbeCompiler) and the injection it makes for -p (Injector),    *)
(* with the target, a second mtdi that compiles the same probe, and        *)
(* signals to the first at every point.                                    *)
(***************************************************************************)
EXTENDS Naturals, FiniteSetsExt

CONSTANTS
  Requests,                \* as in Session
  PathLengths, MaxPolls,   \* as in Injector
  Me, Other,               \* this mtdi and another one
  Texts, Safe              \* as in ProbeCompiler

Runs == {Me, Other}

ASSUME ToolAssumption ==
  /\ Requests \subseteq [script : BOOLEAN, pid : BOOLEAN, check : BOOLEAN,
                         opts : BOOLEAN, known : BOOLEAN, cmd : BOOLEAN]
  /\ PathLengths \subseteq Nat \ {0} /\ MaxPolls \in Nat \ {0}
  /\ Me # Other
  /\ Safe \subseteq Texts

VARIABLES
  args, pc, status, handled, child_pid, child, dying,                \* Session
  step, polls, ack, marks, detail, report, outcome, length,          \* Injector: mtdi
  path, ackWord, errWord, R, D, nap, stub, raw, worker, loaded,      \* and the target
  target,
  legacy, script, at, code, unit, wrapper, lib, got                  \* ProbeCompiler

sessionVars  == <<args, pc, status, handled, child_pid, child, dying>>
injectorVars == <<step, polls, ack, marks, detail, report, outcome, length, path, ackWord,
                  errWord, R, D, nap, stub, raw, worker, loaded, target>>
compilerVars == <<legacy, script, at, code, unit, wrapper, lib, got>>
vars         == <<sessionVars, injectorVars, compilerVars>>

S == INSTANCE Session
I == INSTANCE Injector WITH pc <- step, status <- outcome
C == INSTANCE ProbeCompiler

(* A compiled probe has a short path; what a command line does not use is  *)
(* fixed.                                                                  *)
Init ==
  /\ S!Init /\ I!Init /\ C!Init
  /\ args.script \/ ~args.pid => length = Min(PathLengths)
  /\ ~args.script => script \in Safe /\ legacy = [r \in Runs |-> FALSE]

(* main between its calls, the launched program, and signals.              *)
Session == (S!Main \/ S!End \/ S!Signals) /\ UNCHANGED <<injectorVars, compilerVars>>

(* compile_script, until it returns a dylib or an error.                   *)
Compile ==
  /\ S!At("resolve") /\ args.script
  /\ UNCHANGED injectorVars
  /\ \/ C!Step(Me) /\ UNCHANGED sessionVars
     \/ at[Me] = "ok" /\ S!Resolve /\ UNCHANGED compilerVars
     \/ at[Me] = "err" /\ S!ProbeRejected /\ UNCHANGED compilerVars

UseGivenDylib ==
  /\ ~args.script /\ S!Resolve
  /\ UNCHANGED <<injectorVars, compilerVars>>

(* inject_into_pid, until it returns or exits.                             *)
Inject ==
  /\ S!At("inject") /\ I!CliStep
  /\ IF outcome' = "running"
     THEN UNCHANGED sessionVars
     ELSE status' = outcome' /\ UNCHANGED <<args, pc, handled, child_pid, child, dying>>
  /\ UNCHANGED compilerVars

(* What dyld loads in a program mtdi launched or injected into.            *)
LoadsProbe == IF args.script THEN C!Load(Me) ELSE UNCHANGED compilerVars

InjectedLoads ==
  /\ I!DlOpen(TRUE) \/ I!RawDlOpen(TRUE)
  /\ LoadsProbe
  /\ UNCHANGED sessionVars

LaunchedLoads ==
  /\ child = "running" /\ args.script /\ got[Me] = C!None /\ C!Load(Me)
  /\ UNCHANGED <<sessionVars, injectorVars>>

(* The target goes on whether mtdi lives or not.                           *)
Target ==
  /\ args.pid
  /\ \/ I!Enter \/ I!Start \/ I!Acknowledge \/ I!StoreError \/ I!StoreDone
     \/ I!DlOpen(FALSE) \/ I!RawDlOpen(FALSE) \/ I!RawFaults \/ I!Die
  /\ UNCHANGED <<sessionVars, compilerVars>>

(* Another mtdi and an editor, as long as a target may still load.         *)
Others ==
  /\ args.script /\ got[Me] = C!None
  /\ status = "running" \/ child = "running" \/ (target = "alive" /\ raw # "absent")
  /\ C!Step(Other) \/ C!Edit
  /\ UNCHANGED <<sessionVars, injectorVars>>

Done == status # "running" /\ child # "running" /\ UNCHANGED vars

Mtdi ==
  \/ S!Main /\ UNCHANGED <<injectorVars, compilerVars>>
  \/ Compile \/ UseGivenDylib \/ Inject

Next ==
  \/ Session \/ Compile \/ UseGivenDylib \/ Inject
  \/ InjectedLoads \/ LaunchedLoads \/ Target \/ Others \/ Done

(* In task_for_pid mtdi waits for a person to click Allow.                 *)
Asking == S!At("inject") /\ step = "task"

(* Otherwise mtdi runs, and rustc ends; of that person, the target, the    *)
(* launched program and the others nothing is assumed.                     *)
Spec == Init /\ [][Next]_vars /\ WF_vars(~Asking /\ Mtdi)

-----------------------------------------------------------------------------
(* The variables of the three parts keep their types.                      *)
TypeOK == S!TypeOK /\ I!TypeOK /\ C!TypeOK

(* What the parts know of each other: nothing is injected but by           *)
(* inject_into_pid, which ends as mtdi does, and what main goes on with    *)
(* after compile_script is a probe that was compiled.                      *)
PartsInv ==
  /\ pc # "inject" => step = "task" /\ raw = "absent"
  /\ pc = "inject" /\ status = "0" => outcome = "0"
  /\ args.script /\ pc \notin {"parse", "resolve"} => at[Me] = "ok"

(* The inductive invariant: those of the three parts, and what ties them.  *)
ToolInv == S!SessionInv /\ I!InjectorInv /\ C!CompilerInv /\ PartsInv

(* main does nothing that Session does not do: the compiler and the        *)
(* injector change its state only by what they return (main.rs:24-77).     *)
ImplementsSession == S!Init /\ [][S!Next]_sessionVars

(* What exit status 0 means (main.rs:24-77).  Without -p, that the probe   *)
(* there may be was verified and compiled, that no process was injected,   *)
(* and that the program ran and ended, or none was started because -c only *)
(* asked for the check.  With -p, that none was started and that a thread  *)
(* was in another process; whether it loaded the dylib, or the warning     *)
(* that it did not, was printed, unless that thread is the fallback's, of  *)
(* which nothing is known.  So 0 is not a promise that the dylib is there, *)
(* and -p with -c injects, which args.rs:142 and README.md:70, 84 deny.    *)
SuccessAccounted ==
  status = "0" =>
    /\ args.script => at[Me] = "ok"
    /\ IF args.pid
       THEN /\ ~args.opts /\ child = "none" /\ raw # "absent"
            /\ report = "none" => ~I!Bootstrap
       ELSE /\ raw = "absent"
            /\ child = IF args.check THEN "none" ELSE "reaped"
            /\ args.check => args.script

HandlerReachesChild == S!HandlerReachesChild

(* An injection cut short by a signal to mtdi, by the death of the target  *)
(* or by a failed call leaves a target that still runs, if it was made     *)
(* through the bootstrap (mach.rs:176-252).                                *)
TargetUnharmed == I!TargetUnharmed

LoadedIsLoaded   == I!LoadedIsLoaded
FailureExplained == I!FailureExplained
RunsVerified     == C!RunsVerified

(* mtdi -p comes to its end or to the prompt that someone has to answer,   *)
(* and from the answer on it ends, although nothing is known of the        *)
(* target, the signals and the second mtdi (mach.rs:44-60, 258-272).       *)
Ends ==
  /\ args.pid ~> (status # "running" \/ Asking)
  /\ step # "task" ~> status # "running"
=============================================================================
