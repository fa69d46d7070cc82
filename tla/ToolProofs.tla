------------------------------ MODULE ToolProofs ------------------------------
(***************************************************************************)
(* Proofs about Tool, for every set of requests, path lengths, texts and   *)
(* number of polls.  Each part has its own inductive invariant over its    *)
(* own variables; what makes them hold of the whole is that every step of  *)
(* the tool is, for each part, a step of that part or none                 *)
(* (SessionRefined, InjectorRefined, CompilerRefined).                     *)
(***************************************************************************)
EXTENDS Tool, TLAPS

-----------------------------------------------------------------------------
(* The parts.                                                              *)

(* No step of Tool does to the session what Session does not: where the    *)
(* compiler returns it is Resolve or ProbeRejected, where the injector     *)
(* returns or exits it is Inject.                                          *)
LEMMA SessionRefined == [Next]_vars => [S!Next]_sessionVars
<1> USE DEF sessionVars
<1> SUFFICES ASSUME [Next]_vars PROVE [S!Next]_sessionVars
  OBVIOUS
<1>1. CASE Session
  BY <1>1 DEF Session, S!Next
<1>2. CASE Compile
  BY <1>2 DEF Compile, S!Next, S!Delegated
<1>3. CASE UseGivenDylib
  BY <1>3 DEF UseGivenDylib, S!Next, S!Delegated
<1>4. CASE Inject
  <2>1. outcome' \in {outcome, "0", "1"} /\ outcome = "running"
    BY <1>4 DEF Inject, I!CliStep, I!Attach, I!WritePath, I!WriteStub, I!WriteDiag,
      I!ProtectStub, I!CreateThread, I!Fail, I!Poll, I!ReportLoaded, I!ReadMarkers,
      I!ReadErrorWord, I!ReadText, I!Warn, I!Return, I!Cli, I!Continue
  <2>2. CASE outcome' = "running"
    BY <1>4, <2>2 DEF Inject
  <2>3. CASE outcome' # "running"
    <3>1. S!Inject
      BY <1>4, <2>1, <2>3 DEF Inject, S!Inject, S!At, S!Deciding, S!Exit, S!childVars
    <3> QED
      BY <3>1 DEF S!Next, S!Delegated
  <2> QED
    BY <2>2, <2>3
<1>5. CASE InjectedLoads \/ LaunchedLoads \/ Target \/ Others \/ Done
  BY <1>5 DEF InjectedLoads, LaunchedLoads, Target, Others, Done, vars
<1> QED
  BY <1>1, <1>2, <1>3, <1>4, <1>5 DEF Next, vars

LEMMA InjectorRefined == [Next]_vars => [I!CliStep \/ I!TargetStep]_injectorVars
<1> USE DEF injectorVars
<1> SUFFICES ASSUME [Next]_vars PROVE [I!CliStep \/ I!TargetStep]_injectorVars
  OBVIOUS
<1>1. CASE Session \/ Compile \/ UseGivenDylib \/ LaunchedLoads \/ Others \/ Done
  BY <1>1 DEF Session, Compile, UseGivenDylib, LaunchedLoads, Others, Done, vars
<1>2. CASE Inject
  BY <1>2 DEF Inject
<1>3. CASE InjectedLoads \/ Target
  BY <1>3 DEF InjectedLoads, Target, I!TargetStep
<1> QED
  BY <1>1, <1>2, <1>3 DEF Next, vars

LEMMA CompilerRefined ==
  [Next]_vars =>
    [C!Edit \/ \E r \in Runs : C!Step(r) \/ C!Load(r)]_compilerVars
<1> USE DEF compilerVars, Runs
<1> SUFFICES ASSUME [Next]_vars
             PROVE  [C!Edit \/ \E r \in Runs : C!Step(r) \/ C!Load(r)]_compilerVars
  OBVIOUS
<1>1. CASE Session \/ UseGivenDylib \/ Inject \/ Target \/ Done
  BY <1>1 DEF Session, UseGivenDylib, Inject, Target, Done, vars
<1>2. CASE Compile
  BY <1>2 DEF Compile
<1>3. CASE InjectedLoads
  BY <1>3 DEF InjectedLoads, LoadsProbe
<1>4. CASE LaunchedLoads
  BY <1>4 DEF LaunchedLoads
<1>5. CASE Others
  BY <1>5 DEF Others
<1> QED
  BY <1>1, <1>2, <1>3, <1>4, <1>5 DEF Next, vars

-----------------------------------------------------------------------------
(* The session.                                                            *)

LEMMA SessionInit == S!Init => S!SessionInv
<1>. SUFFICES ASSUME S!Init PROVE S!SessionInv
  OBVIOUS
<1>1. args \in S!AllRequests
  BY ToolAssumption DEF S!Init, S!AllRequests
<1>2. S!StateOK /\ S!HandlersInv /\ S!ChildInv /\ S!RequestInv /\ S!HandlerReachesChild
  BY DEF S!Init, S!StateOK, S!HandlersInv, S!ChildInv, S!RequestInv, S!Early, S!Guarding,
    S!HandlerReachesChild, S!Living
<1>. QED  BY <1>1, <1>2 DEF S!SessionInv, S!TypeOK

(* main installs its handlers in an order, and stores CHILD_PID before; so *)
(* when a signal that is handled comes, it is forwarded.                   *)
LEMMA SessionStep == S!SessionInv /\ [S!Next]_sessionVars => S!SessionInv'
<1>. DEFINE Inv == S!StateOK /\ S!HandlersInv /\ S!ChildInv /\ S!RequestInv
                   /\ S!HandlerReachesChild
<1>. SUFFICES ASSUME S!SessionInv, [S!Next]_sessionVars PROVE S!SessionInv'
  OBVIOUS
<1>1. Inv
  BY DEF S!SessionInv, S!TypeOK
<1>2. args' = args
  BY DEF S!Next, S!Main, S!Parse, S!Exists, S!SpawnFails, S!Dispatch, S!Spawn, S!StorePid,
    S!HandleInt, S!HandleTerm, S!Handle, S!Wait, S!ClearPid, S!Deciding, S!Delegated,
    S!Resolve, S!ProbeRejected, S!Inject, S!End, S!Signals, S!CtrlC, S!Signal, S!Die,
    S!Done, S!vars, sessionVars
<1>3. Inv'
  <2>. USE <1>2 DEF S!StateOK, S!HandlersInv, S!ChildInv, S!RequestInv, S!Early,
         S!Guarding, S!HandlerReachesChild, S!Living
  <2>1. CASE S!Main
    <3>. USE DEF S!At, S!Goto, S!Exit, S!Deciding, S!childVars
    <3>1. CASE S!Parse
      BY <1>1, <3>1 DEF S!Parse
    <3>2. CASE S!Exists
      BY <1>1, <3>2 DEF S!Exists
    <3>3. CASE S!Dispatch
      <4>1. CASE args.pid
        BY <1>1, <3>3, <4>1 DEF S!Dispatch
      <4>2. CASE ~args.pid /\ args.check
        BY <1>1, <3>3, <4>2 DEF S!Dispatch
      <4>3. CASE ~args.pid /\ ~args.check
        BY <1>1, <3>3, <4>3 DEF S!Dispatch
      <4>. QED  BY <4>1, <4>2, <4>3
    <3>4. CASE S!SpawnFails
      BY <1>1, <3>4 DEF S!SpawnFails
    <3>5. CASE S!Spawn
      BY <1>1, <3>5 DEF S!Spawn
    <3>6. CASE S!StorePid
      BY <1>1, <3>6 DEF S!StorePid
    <3>7. CASE S!HandleInt
      BY <1>1, <3>7 DEF S!HandleInt, S!Handle
    <3>8. CASE S!HandleTerm
      BY <1>1, <3>8 DEF S!HandleTerm, S!Handle
    <3>9. CASE S!Wait
      BY <1>1, <3>9 DEF S!Wait
    <3>10. CASE S!ClearPid
      BY <1>1, <3>10 DEF S!ClearPid
    <3>. QED
      BY <2>1, <3>1, <3>2, <3>3, <3>4, <3>5, <3>6, <3>7, <3>8, <3>9, <3>10 DEF S!Main
  <2>2. CASE S!Delegated
    <3>. USE DEF S!At, S!Goto, S!Exit, S!Deciding, S!childVars
    <3>1. CASE S!Resolve
      BY <1>1, <3>1 DEF S!Resolve
    <3>2. CASE S!ProbeRejected
      BY <1>1, <3>2 DEF S!ProbeRejected
    <3>3. CASE S!Inject
      BY <1>1, <3>3 DEF S!Inject
    <3>. QED  BY <2>2, <3>1, <3>2, <3>3 DEF S!Delegated
  <2>3. CASE S!End
    BY <1>1, <2>3 DEF S!End
  <2>4. CASE S!Signals
    <3>. USE DEF S!Die, S!Hit, S!Kills
    <3>1. CASE S!CtrlC
      BY <1>1, <3>1 DEF S!CtrlC
    <3>2. ASSUME NEW sig \in {"int", "term"}, S!Signal(sig) PROVE Inv'
      BY <1>1, <3>2 DEF S!Signal
    <3>. QED  BY <2>4, <3>1, <3>2 DEF S!Signals
  <2>5. CASE UNCHANGED sessionVars
    <3>1. UNCHANGED <<args, pc, status, handled, child_pid, child, dying>>
      BY <2>5 DEF sessionVars
    <3>2. S!StateOK' /\ S!HandlersInv'
      BY <1>1, <3>1
    <3>3. S!ChildInv' /\ S!RequestInv' /\ S!HandlerReachesChild'
      BY <1>1, <3>1
    <3>. QED  BY <3>2, <3>3
  <2>6. CASE S!Done
    BY <1>1, <2>5, <2>6 DEF S!Done, S!vars, S!childVars, sessionVars
  <2>. QED  BY <2>1, <2>2, <2>3, <2>4, <2>5, <2>6 DEF S!Next
<1>. QED  BY <1>2, <1>3 DEF S!SessionInv, S!TypeOK

-----------------------------------------------------------------------------
(* The injector and the target.                                            *)

LEMMA LengthsAndPolls == PathLengths \subseteq Nat \ {0} /\ MaxPolls \in Nat \ {0}
  BY ToolAssumption

LEMMA InjectorInit == I!Init => I!InjectorInv
<1>. SUFFICES ASSUME I!Init PROVE I!InjectorInv
  OBVIOUS
<1>1. marks \in [R : BOOLEAN, D : BOOLEAN]
  BY DEF I!Init
<1>2. I!StateOK
  <2>1. polls \in 0 .. MaxPolls
    BY LengthsAndPolls DEF I!Init
  <2>. QED  BY <2>1, Zenon DEF I!Init, I!StateOK
<1>3. I!SetupInv /\ I!WorkerInv /\ I!ReadInv /\ I!TargetUnharmed
  BY DEF I!Init, I!SetupInv, I!WorkerInv, I!ReadInv, I!Setup, I!TargetUnharmed,
    I!Bootstrap
<1>. QED  BY <1>1, <1>2, <1>3 DEF I!InjectorInv, I!TypeOK

(* What the tool reads it reads after the thread was created, and what the *)
(* target has stored by then stays true.                                   *)
LEMMA CliStep ==
  ASSUME I!InjectorInv, I!CliStep
  PROVE  I!InjectorInv'
<1>. DEFINE Inv == I!StateOK /\ I!SetupInv /\ I!WorkerInv /\ I!ReadInv /\ I!TargetUnharmed
<1>1. Inv
  BY DEF I!InjectorInv, I!TypeOK
<1>2. marks' = marks \/ I!ReadMarkers
  BY DEF I!CliStep, I!Attach, I!WritePath, I!WriteStub, I!WriteDiag, I!ProtectStub,
    I!CreateThread, I!Fail, I!Poll, I!ReportLoaded, I!ReadErrorWord, I!ReadText, I!Warn,
    I!Return, I!Continue
<1>3. marks' \in [R : BOOLEAN, D : BOOLEAN]
  <2>1. R \in BOOLEAN /\ D \in BOOLEAN
    BY <1>1 DEF I!StateOK
  <2>2. [R |-> R, D |-> D] \in [R : BOOLEAN, D : BOOLEAN]
    BY <2>1
  <2>. QED  BY <1>2, <2>2 DEF I!ReadMarkers, I!InjectorInv, I!TypeOK
<1>4. Inv'
  <2>. USE LengthsAndPolls
       DEF I!StateOK, I!SetupInv, I!WorkerInv, I!ReadInv, I!Setup, I!TargetUnharmed,
         I!Bootstrap, I!Covered, I!Cli, I!Continue, I!remoteVars, I!targetVars, I!wordVars
  <2>1. CASE I!Attach
    BY <1>1, <2>1 DEF I!Attach
  <2>2. CASE I!WritePath
    BY <1>1, <2>2 DEF I!WritePath
  <2>3. CASE I!WriteStub
    BY <1>1, <2>3 DEF I!WriteStub
  <2>4. CASE I!WriteDiag
    <3>1. I!StateOK' /\ I!WorkerInv'
      BY <1>1, <2>4 DEF I!WriteDiag
    <3>2. I!ReadInv'
      BY <1>1, <2>4 DEF I!WriteDiag
    <3>3. I!SetupInv' /\ I!TargetUnharmed'
      BY <1>1, <2>4 DEF I!WriteDiag
    <3>. QED  BY <3>1, <3>2, <3>3
  <2>5. CASE I!ProtectStub
    BY <1>1, <2>5 DEF I!ProtectStub
  <2>6. CASE I!CreateThread
    BY <1>1, <2>6 DEF I!CreateThread
  <2>7. CASE I!Fail
    BY <1>1, <2>7 DEF I!Fail
  <2>8. CASE I!Poll
    BY <1>1, <2>8 DEF I!Poll
  <2>9. CASE I!ReportLoaded
    BY <1>1, <2>9 DEF I!ReportLoaded
  <2>10. CASE I!ReadMarkers
    BY <1>1, <2>10 DEF I!ReadMarkers
  <2>11. CASE I!ReadErrorWord
    BY <1>1, <2>11 DEF I!ReadErrorWord
  <2>12. CASE I!ReadText
    BY <1>1, <2>12 DEF I!ReadText
  <2>13. CASE I!Warn
    BY <1>1, <2>13 DEF I!Warn
  <2>14. CASE I!Return
    BY <1>1, <2>14 DEF I!Return
  <2>. QED
    BY <2>1, <2>2, <2>3, <2>4, <2>5, <2>6, <2>7, <2>8, <2>9, <2>10, <2>11, <2>12, <2>13,
      <2>14
    DEF I!CliStep
<1>. QED  BY <1>3, <1>4 DEF I!InjectorInv, I!TypeOK

(* dlopen answers once, and the worker stores what it answered in a fixed  *)
(* order.                                                                  *)
LEMMA TargetStep ==
  ASSUME I!InjectorInv, I!TargetStep
  PROVE  I!InjectorInv'
<1>. DEFINE Inv == I!StateOK /\ I!SetupInv /\ I!WorkerInv /\ I!ReadInv /\ I!TargetUnharmed
<1>1. Inv
  BY DEF I!InjectorInv, I!TypeOK
<1>2. UNCHANGED I!cliVars
  BY DEF I!TargetStep, I!Enter, I!Start, I!Acknowledge, I!StoreError, I!StoreDone, I!Die,
    I!DlOpen, I!RawDlOpen, I!RawFaults
<1>3. Inv'
  <2>. USE <1>1, <1>2
       DEF I!StateOK, I!SetupInv, I!WorkerInv, I!ReadInv, I!Setup, I!TargetUnharmed,
         I!Bootstrap, I!Covered, I!cliVars, I!remoteVars, I!wordVars
  <2>1. CASE I!Enter
    <3>1. stub = "rx" /\ raw = "entry" /\ worker = "absent" /\ ~loaded
      BY <2>1 DEF I!Enter
    <3>2. /\ raw' = "parked" /\ worker' \in {"start", "absent"}
          /\ UNCHANGED <<loaded, target, path, ackWord, errWord, R, D, nap, stub>>
      BY <2>1, <3>1 DEF I!Enter
    <3>3. I!StateOK' /\ I!WorkerInv' /\ I!ReadInv'
      BY <3>1, <3>2
    <3>4. I!SetupInv' /\ I!TargetUnharmed'
      BY <3>1, <3>2
    <3>. QED  BY <3>3, <3>4
  <2>2. CASE I!Start
    BY <2>2 DEF I!Start
  <2>3. CASE I!Acknowledge
    BY <2>3 DEF I!Acknowledge
  <2>4. CASE I!StoreError
    BY <2>4 DEF I!StoreError
  <2>5. CASE I!StoreDone
    BY <2>5 DEF I!StoreDone
  <2>6. CASE I!Die
    BY <2>6 DEF I!Die
  <2>7. ASSUME NEW ok \in BOOLEAN, I!DlOpen(ok) PROVE Inv'
    BY <2>7 DEF I!DlOpen
  <2>8. ASSUME NEW ok \in BOOLEAN, I!RawDlOpen(ok) PROVE Inv'
    BY <2>8 DEF I!RawDlOpen
  <2>9. CASE I!RawFaults
    BY <2>9 DEF I!RawFaults
  <2>. QED  BY <2>1, <2>2, <2>3, <2>4, <2>5, <2>6, <2>7, <2>8, <2>9 DEF I!TargetStep
<1>. QED  BY <1>2, <1>3 DEF I!InjectorInv, I!TypeOK, I!cliVars

LEMMA InjectorStep ==
  I!InjectorInv /\ [I!CliStep \/ I!TargetStep]_injectorVars => I!InjectorInv'
<1>1. ASSUME I!InjectorInv, UNCHANGED injectorVars PROVE I!InjectorInv'
  <2>1. I!TypeOK'
    BY <1>1 DEF injectorVars, I!InjectorInv, I!TypeOK, I!StateOK
  <2>. QED
    BY <1>1, <2>1 DEF injectorVars, I!InjectorInv, I!SetupInv, I!WorkerInv, I!ReadInv,
      I!TargetUnharmed, I!Setup, I!Bootstrap, I!Covered
<1>. QED  BY <1>1, CliStep, TargetStep

-----------------------------------------------------------------------------
(* The compiler.                                                           *)

(* What a file may hold; the five kinds differ in their length or words.   *)
LEMMA Contents ==
  /\ C!None \notin C!Harnesses /\ C!Empty \notin C!Harnesses /\ C!Part \notin C!Harnesses
  /\ C!Part \notin {C!None, C!Empty}
  /\ \A k \in Texts, l \in BOOLEAN :
       C!Harness(k, l) \in C!Harnesses /\ C!Harness(k, l)[1] = k
  BY DEF C!None, C!Empty, C!Part, C!Harnesses, C!Harness

LEMMA CompilerInit == C!Init => C!CompilerInv
<1>. SUFFICES ASSUME C!Init PROVE C!CompilerInv
  OBVIOUS
<1>1. code \in [Runs -> Texts]
  BY DEF C!Init
<1>. QED
  BY <1>1, Contents DEF C!Init, C!CompilerInv, C!TypeOK, C!FilesInv, C!RunInv

(* A run names its files after its text: whatever another run does to      *)
(* them, it writes the same text into them.                                *)
LEMMA CompilerStep ==
  C!CompilerInv /\ [C!Edit \/ \E r \in Runs : C!Step(r) \/ C!Load(r)]_compilerVars
    => C!CompilerInv'
<1>. USE DEF C!CompilerInv, C!TypeOK, C!FilesInv, C!RunInv, C!At, C!Goto, C!Key
<1>. SUFFICES ASSUME C!CompilerInv,
                     [C!Edit \/ \E r \in Runs : C!Step(r) \/ C!Load(r)]_compilerVars
              PROVE  C!CompilerInv'
  OBVIOUS
<1>1. CASE UNCHANGED compilerVars
  BY <1>1 DEF compilerVars
<1>2. CASE C!Edit
  BY <1>2 DEF C!Edit
<1>3. ASSUME NEW r \in Runs, C!Read(r) PROVE C!CompilerInv'
  BY <1>3 DEF C!Read
<1>4. ASSUME NEW r \in Runs, C!Fail(r) PROVE C!CompilerInv'
  BY <1>4 DEF C!Fail
<1>5. ASSUME NEW r \in Runs, C!Verify(r) PROVE C!CompilerInv'
  BY <1>5 DEF C!Verify
<1>6. ASSUME NEW r \in Runs, C!Truncate(r) PROVE C!CompilerInv'
  BY <1>6, Contents DEF C!Truncate
<1>7. ASSUME NEW r \in Runs, C!Fill(r) PROVE C!CompilerInv'
  <2>1. code[r] \in Texts /\ legacy[r] \in BOOLEAN
    OBVIOUS
  <2>. QED  BY <1>7, <2>1, Contents DEF C!Fill
<1>8. ASSUME NEW r \in Runs, C!RustcReads(r) PROVE C!CompilerInv'
  BY <1>8 DEF C!RustcReads
<1>9. ASSUME NEW r \in Runs, C!RustcLinks(r) PROVE C!CompilerInv'
  BY <1>9, Contents DEF C!RustcLinks
<1>10. ASSUME NEW r \in Runs, C!RustcEnds(r) PROVE C!CompilerInv'
  BY <1>10 DEF C!RustcEnds
<1>11. ASSUME NEW r \in Runs, C!Load(r) PROVE C!CompilerInv'
  BY <1>11 DEF C!Load
<1>. QED
  BY <1>1, <1>2, <1>3, <1>4, <1>5, <1>6, <1>7, <1>8, <1>9, <1>10, <1>11 DEF C!Step

-----------------------------------------------------------------------------
(* What ties the parts.                                                    *)

LEMMA PartsInit == Init => PartsInv
  BY DEF Init, S!Init, I!Init, PartsInv

(* main comes to inject_into_pid and past compile_script in one place      *)
(* each; a target is touched only after, and no other run writes at[Me].   *)
LEMMA PartsStep == ToolInv /\ [Next]_vars => PartsInv'
<1>. USE DEF PartsInv, sessionVars, injectorVars, compilerVars
<1>. SUFFICES ASSUME ToolInv, [Next]_vars PROVE PartsInv'
  OBVIOUS
<1>1. PartsInv
  BY DEF ToolInv
<1>2. CASE Session
  <2>. USE DEF S!At, S!Goto, S!Exit, S!Deciding, S!childVars
  <2>1. UNCHANGED <<args, step, raw, outcome, at>>
    BY <1>2 DEF Session, S!Main, S!Parse, S!Exists, S!SpawnFails, S!Dispatch, S!Spawn,
      S!StorePid, S!HandleInt, S!HandleTerm, S!Handle, S!Wait, S!ClearPid, S!End,
      S!Signals, S!CtrlC, S!Signal, S!Die
  <2>2. CASE S!Main
    <3>1. pc # "inject"
      BY <2>2 DEF S!Main, S!Parse, S!Exists, S!SpawnFails, S!Dispatch, S!Spawn, S!StorePid,
        S!HandleInt, S!HandleTerm, S!Handle, S!Wait, S!ClearPid
    <3>2. pc' = pc \/ status' = "running"
      BY <2>2 DEF S!Main, S!Parse, S!Exists, S!SpawnFails, S!Dispatch, S!Spawn, S!StorePid,
        S!HandleInt, S!HandleTerm, S!Handle, S!Wait, S!ClearPid
    <3>3. pc' \in {"parse", "resolve"} \/ pc \notin {"parse", "resolve"}
      BY <2>2 DEF S!Main, S!Parse, S!Exists, S!SpawnFails, S!Dispatch, S!Spawn, S!StorePid,
        S!HandleInt, S!HandleTerm, S!Handle, S!Wait, S!ClearPid
    <3>. QED  BY <1>1, <2>1, <3>1, <3>2, <3>3
  <2>3. CASE S!End \/ S!Signals
    <3>1. pc' = pc /\ (status' = status \/ status' \in {"1", "killed"})
      BY <2>3 DEF S!End, S!Signals, S!CtrlC, S!Signal, S!Die
    <3>. QED  BY <1>1, <2>1, <3>1
  <2>. QED  BY <1>2, <2>2, <2>3 DEF Session
<1>3. CASE Compile
  BY <1>1, <1>3 DEF Compile, S!Resolve, S!ProbeRejected, S!At, S!Goto, S!Exit, S!Deciding
<1>4. CASE UseGivenDylib
  BY <1>1, <1>4 DEF UseGivenDylib, S!Resolve, S!At, S!Goto, S!Deciding
<1>5. CASE Inject
  BY <1>1, <1>5 DEF Inject, S!At
<1>6. CASE InjectedLoads \/ Target
  <2>1. UNCHANGED <<sessionVars, step, outcome, at>>
    BY <1>6 DEF InjectedLoads, Target, LoadsProbe, C!Load, I!DlOpen, I!RawDlOpen, I!Enter,
      I!Start, I!Acknowledge, I!StoreError, I!StoreDone, I!RawFaults, I!Die, I!cliVars
  <2>2. raw # "absent" \/ raw' = raw
    BY <1>6 DEF InjectedLoads, Target, I!DlOpen, I!RawDlOpen, I!Enter, I!Start,
      I!Acknowledge, I!StoreError, I!StoreDone, I!RawFaults, I!Die
  <2>. QED  BY <1>1, <2>1, <2>2
<1>7. CASE LaunchedLoads
  BY <1>1, <1>7 DEF LaunchedLoads, C!Load
<1>8. CASE Others
  <2>1. at'[Me] = at[Me]
    <3>1. at \in [Runs -> {"read", "verify", "write", "fill", "rustc", "link", "linking",
                           "ok", "err"}]
      BY DEF ToolInv, C!CompilerInv, C!TypeOK
    <3>. QED
      BY <1>8, <3>1, ToolAssumption DEF Others, Runs, C!Edit, C!Step, C!Read, C!Fail,
        C!Verify, C!Truncate, C!Fill, C!RustcReads, C!RustcLinks, C!RustcEnds, C!Goto
  <2>. QED  BY <1>1, <1>8, <2>1 DEF Others
<1>9. CASE Done \/ UNCHANGED vars
  BY <1>1, <1>9 DEF Done, vars
<1>. QED  BY <1>2, <1>3, <1>4, <1>5, <1>6, <1>7, <1>8, <1>9 DEF Next

-----------------------------------------------------------------------------
(* The theorems.                                                           *)

(* The conjunction of the three invariants, and of what ties the parts, is *)
(* inductive for the composed system: main and the signals                 *)
(* (main.rs:24-77), the compiler (compiler.rs:62-124) and the injector     *)
(* (mach.rs:80-330).                                                       *)
THEOREM ToolInvariant == Spec => []ToolInv
<1>1. Init => ToolInv
  BY SessionInit, InjectorInit, CompilerInit, PartsInit DEF Init, ToolInv
<1>2. ToolInv /\ [Next]_vars => ToolInv'
  BY SessionRefined, SessionStep, InjectorRefined, InjectorStep, CompilerRefined,
    CompilerStep, PartsStep DEF ToolInv
<1>. QED  BY <1>1, <1>2, PTL DEF Spec

(* What the compiler and the injector do to main, and when, is what        *)
(* Session allows: the composition implements it (main.rs:24-77).          *)
THEOREM SessionImplemented == Spec => ImplementsSession
<1>1. Init => S!Init
  BY DEF Init
<1>. QED  BY <1>1, SessionRefined, PTL DEF Spec, ImplementsSession

(* Exit status 0 without -p means that the probe was compiled and that the *)
(* program ran and ended, or was not asked for, and nothing was injected;  *)
(* with -p, that a thread was started in the target and that mtdi has said *)
(* whether the dylib was loaded, unless it had no bootstrap to learn it    *)
(* from (main.rs:24-77).                                                   *)
THEOREM SuccessIsAccounted == Spec => []SuccessAccounted
<1>1. ToolInv => SuccessAccounted
  <2>. SUFFICES ASSUME ToolInv, status = "0" PROVE SuccessAccounted
    BY DEF SuccessAccounted
  <2>. USE DEF SuccessAccounted, ToolInv, PartsInv, S!SessionInv, S!RequestInv, S!ChildInv,
         S!Early, S!Guarding
  <2>1. CASE pc = "inject"
    <3>1. step = "return" /\ raw # "absent" /\ (report = "none" => ~I!Bootstrap)
      BY <2>1 DEF I!InjectorInv, I!ReadInv, I!Setup
    <3>. QED  BY <2>1, <3>1
  <2>2. CASE pc = "dispatch" /\ ~args.pid /\ args.check /\ args.script
    BY <2>2
  <2>3. CASE pc = "clear"
    BY <2>3
  <2>. QED  BY <2>1, <2>2, <2>3
<1>. QED  BY <1>1, ToolInvariant, PTL

(* A signal that mtdi handles leaves no program behind that was not told   *)
(* to end (main.rs:12-22, spawn.rs:108-117).                               *)
THEOREM HandlersReachChild == Spec => []HandlerReachesChild
<1>1. ToolInv => HandlerReachesChild
  BY DEF ToolInv, HandlerReachesChild, S!SessionInv
<1>. QED  BY <1>1, ToolInvariant, PTL

(* However an injection through the bootstrap ends, the remote threads     *)
(* never fetch from a page that is not executable, and park on a timespec  *)
(* of one second if the path ends before it (mach.rs:176-252).  Of the     *)
(* fallback nothing of the kind holds (mach.rs:225-231).                   *)
THEOREM TargetStaysUnharmed == Spec => []TargetUnharmed
<1>1. ToolInv => TargetUnharmed
  BY DEF ToolInv, TargetUnharmed, I!InjectorInv
<1>. QED  BY <1>1, ToolInvariant, PTL

(* "Dylib loaded" is true for every path that does not reach the word the  *)
(* ack is read from; only a path that covers it can deceive the tool       *)
(* (mach.rs:80, 124, 258-274).                                             *)
THEOREM LoadedMeansLoaded == Spec => []LoadedIsLoaded
<1>1. ToolInv => LoadedIsLoaded
  BY DEF ToolInv, LoadedIsLoaded, I!InjectorInv, I!ReadInv, I!LoadedIsLoaded
<1>. QED  BY <1>1, ToolInvariant, PTL

(* When the markers say that dlopen has returned, the tool has found the   *)
(* answer of dlerror by the time it warns, unless the target died or       *)
(* loaded the dylib in between (mach.rs:153-164, 276-328).                 *)
THEOREM FailuresExplained == Spec => []FailureExplained
<1>1. ToolInv => FailureExplained
  BY DEF ToolInv, FailureExplained, I!InjectorInv, I!ReadInv, I!FailureExplained
<1>. QED  BY <1>1, ToolInvariant, PTL

(* Whatever another mtdi writes to the shared files, and whoever edits the *)
(* probe, a run without -u loads no text the verifier would reject         *)
(* (compiler.rs:62-124).                                                   *)
THEOREM LoadsAreVerified == Spec => []RunsVerified
<1>1. ToolInv => RunsVerified
  BY DEF ToolInv, RunsVerified, C!CompilerInv, C!RunInv, C!RunsVerified
<1>. QED  BY <1>1, ToolInvariant, PTL
=============================================================================
