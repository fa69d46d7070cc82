-------------------------------- MODULE Session --------------------------------
(***************************************************************************)
(* One run of the mtdi command (src/src/main.rs, src/src/cli): arguments,  *)
(* the choice of the dylib, then attaching, checking or launching, and     *)
(* what a signal to mtdi does at each point.  Compiling a probe and        *)
(* injecting are single steps here; Tool puts ProbeCompiler and Injector   *)
(* in their place.                                                         *)
(***************************************************************************)
CONSTANT Requests      \* the command lines considered

(* script: -s, pid: -p, check: -c, opts: any of -o -t -j -e, known: -t     *)
(* names known calls only, cmd: a command to run.  -h, which prints the   *)
(* help and exits, is left out.                                            *)
AllRequests == [script : BOOLEAN, pid : BOOLEAN, check : BOOLEAN,
                opts : BOOLEAN, known : BOOLEAN, cmd : BOOLEAN]

VARIABLES
  args,        \* the request
  pc,          \* where main is
  status,      \* "running", an exit status, or "killed" by a signal
  handled,     \* signals handle_signal is installed for
  child_pid,   \* is CHILD_PID set?
  child,       \* the launched program
  dying        \* what ends it: "" (nothing yet), "exit", "sigterm" or "sigint"

childVars == <<child, dying>>
vars == <<args, pc, status, handled, child_pid, childVars>>

Init ==
  /\ args \in Requests
  /\ pc = "parse" /\ status = "running"
  /\ handled = {} /\ child_pid = FALSE
  /\ child = "none" /\ dying = ""

At(s) == status = "running" /\ pc = s

Goto(s) == pc' = s /\ UNCHANGED status

Exit(s) == status' = s /\ UNCHANGED pc

Deciding == UNCHANGED <<args, handled, child_pid, childVars>>

-----------------------------------------------------------------------------
(* main.                                                                   *)

Usable == (args.pid \/ args.check \/ args.cmd) /\ (args.opts => args.known)

(* Where the argument of -p is no number, Rust's panic ends mtdi.          *)
Parse ==
  /\ At("parse") /\ Deciding
  /\ \/ IF Usable THEN Goto("resolve") ELSE Exit("1")
     \/ args.pid /\ Exit("101")

(* A probe is compiled; otherwise the dylib is the one given, or mtdi's    *)
(* own.                                                                    *)
Resolve == At("resolve") /\ Deciding /\ Goto("exists")

(* The compiler, or the verifier before it, rejects the probe.             *)
ProbeRejected == At("resolve") /\ args.script /\ Deciding /\ Exit("1")

(* The dylib is there, or is not.                                          *)
Exists == At("exists") /\ Deciding /\ (Goto("dispatch") \/ Exit("1"))

(* Mutant: --check-only does not ask for a probe.                          *)
Dispatch_CheckNothing ==
  /\ At("dispatch") /\ Deciding
  /\ CASE args.pid -> IF args.opts THEN Exit("1") ELSE Goto("inject")
       [] ~args.pid /\ args.check -> Exit("0")
       [] ~args.pid /\ ~args.check -> Goto("spawn")

Dispatch ==
  /\ At("dispatch") /\ Deciding
  /\ CASE args.pid -> IF args.opts THEN Exit("1") ELSE Goto("inject")
       [] ~args.pid /\ args.check -> IF args.script THEN Exit("0") ELSE Exit("1")
       [] ~args.pid /\ ~args.check -> Goto("spawn")

(* inject_into_pid exits with 1, or returns.                               *)
Inject == At("inject") /\ Deciding /\ (Exit("0") \/ Exit("1"))

(* check_sip_and_codesign refuses the program, or spawn fails.             *)
SpawnFails == At("spawn") /\ Deciding /\ Exit("1")

(* Mutant: CHILD_PID is not stored.                                        *)
Spawn_NoPid ==
  /\ At("spawn")
  /\ child' = "running" /\ Goto("sigint")
  /\ UNCHANGED <<args, handled, child_pid, dying>>

Spawn ==
  /\ At("spawn")
  /\ child' = "running" /\ Goto("store")
  /\ UNCHANGED <<args, handled, child_pid, dying>>

StorePid ==
  /\ At("store")
  /\ child_pid' = TRUE /\ Goto("sigint")
  /\ UNCHANGED <<args, handled, childVars>>

Handle(s, sig, then) ==
  /\ At(s)
  /\ handled' = handled \cup {sig} /\ Goto(then)
  /\ UNCHANGED <<args, child_pid, childVars>>

HandleInt  == Handle("sigint", "int", "sigterm")
HandleTerm == Handle("sigterm", "term", "wait")

(* wait returns: the program's pid is free for another process.            *)
Wait ==
  /\ At("wait") /\ child = "zombie"
  /\ child' = "reaped" /\ Goto("clear")
  /\ UNCHANGED <<args, handled, child_pid, dying>>

ClearPid ==
  /\ At("clear")
  /\ child_pid' = FALSE /\ Exit("0")
  /\ UNCHANGED <<args, handled, childVars>>

(* The steps of main itself.                                               *)
Main ==
  \/ Parse \/ Exists \/ Dispatch \/ SpawnFails \/ Spawn
  \/ StorePid \/ HandleInt \/ HandleTerm \/ Wait \/ ClearPid

(* Those it leaves to the compiler and the injector.                       *)
Delegated == Resolve \/ ProbeRejected \/ Inject

-----------------------------------------------------------------------------
(* The launched program.                                                   *)

Living == child = "running"

(* It ends, by itself or told to.                                          *)
End ==
  /\ Living
  /\ child' = "zombie"
  /\ dying' = IF dying = "" THEN "exit" ELSE dying
  /\ UNCHANGED <<args, pc, status, handled, child_pid>>

Hit(sig) == dying' = IF Living /\ dying = "" THEN sig ELSE dying

-----------------------------------------------------------------------------
(* Signals to mtdi.                                                        *)

Kills(sig) == sig \in handled /\ child_pid

(* handle_signal forwards SIGTERM and exits; without it the signal kills.  *)
(* mtdi has one thread, so nothing else of it runs meanwhile, and no       *)
(* signal comes after the first.                                           *)
Die(sig) ==
  /\ status' = IF sig \in handled THEN "1" ELSE "killed"
  /\ UNCHANGED <<args, pc, handled, child_pid, child>>

(* SIGTERM, or SIGINT, sent to mtdi alone.                                 *)
Signal(sig) ==
  /\ status = "running"
  /\ IF Kills(sig) THEN Hit("sigterm") ELSE UNCHANGED dying
  /\ Die(sig)

(* Ctrl-C: the terminal sends SIGINT to mtdi and to the program, which is  *)
(* in mtdi's process group and has no handler for it.  Whichever signal    *)
(* reaches the program first ends it.                                      *)
CtrlC ==
  /\ status = "running"
  /\ (Hit("sigint") \/ (Kills("int") /\ Hit("sigterm")))
  /\ Die("int")

Signals == CtrlC \/ \E sig \in {"int", "term"} : Signal(sig)

Done == status # "running" /\ ~Living /\ UNCHANGED vars

Next == Main \/ Delegated \/ End \/ Signals \/ Done

Spec == Init /\ [][Next]_vars

-----------------------------------------------------------------------------
(* Properties.                                                             *)

StateOK ==
  /\ pc \in {"parse", "resolve", "exists", "dispatch", "inject", "spawn", "store",
             "sigint", "sigterm", "wait", "clear"}
  /\ status \in {"running", "0", "1", "101", "killed"}
  /\ handled \subseteq {"int", "term"}
  /\ child_pid \in BOOLEAN
  /\ child \in {"none", "running", "zombie", "reaped"}
  /\ dying \in {"", "exit", "sigterm", "sigint"}

TypeOK == args \in AllRequests /\ StateOK

(* The inductive invariant.  Each point of main knows which handlers are   *)
(* installed, whether CHILD_PID is set and what became of the program; an  *)
(* end keeps the point at which main was.                                  *)
Early    == {"parse", "resolve", "exists", "dispatch", "inject", "spawn"}
Guarding == {"sigint", "sigterm", "wait", "clear"}

HandlersInv ==
  handled = CASE pc = "sigterm" -> {"int"}
              [] pc \in {"wait", "clear"} -> {"int", "term"}
              [] OTHER -> {}

ChildInv ==
  /\ child_pid <=> pc \in Guarding /\ status # "0"
  /\ child = "none" <=> pc \in Early
  /\ child = "reaped" <=> pc = "clear"

RequestInv ==
  /\ pc = "inject" => args.pid /\ ~args.opts
  /\ pc \in {"spawn", "store"} \cup Guarding => ~args.pid /\ ~args.check
  /\ status = "0" =>
       \/ pc = "inject"
       \/ pc = "dispatch" /\ ~args.pid /\ args.check /\ args.script
       \/ pc = "clear"

(* Once a handler is in place no signal leaves the program behind: mtdi    *)
(* exits with it ended or told to end (main.rs:12-22, spawn.rs:108-117).   *)
HandlerReachesChild ==
  status = "1" /\ Living => dying # ""

SessionInv ==
  TypeOK /\ HandlersInv /\ ChildInv /\ RequestInv /\ HandlerReachesChild
=============================================================================
