------------------------------- MODULE Injector -------------------------------
(***************************************************************************)
(* Attach mode (src/src/injector/mach.rs): mtdi writes the dylib's path, a *)
(* bootstrap stub and a few scratch words into the target, starts a raw    *)
(* thread there, and polls a word in which that thread's pthread stores    *)
(* what dlopen returned.                                                   *)
(*                                                                         *)
(* The one remote allocation holds the path at offset 0 and the scratch    *)
(* words at fixed offsets above it; the length of the path decides which   *)
(* of them it runs over.                                                   *)
(***************************************************************************)
EXTENDS Naturals

CONSTANTS
  PathLengths,    \* bytes the dylib's path may have, without its terminator
  MaxPolls        \* polls of the ack before giving up (50)

MarkerOff == 256      \* 0x100: 'R', then 'D'
NsecOff   == 280      \* 0x118: the nanoseconds of the timespec at 0x110
AckOff    == 352      \* 0x160
ErrOff    == 368      \* 0x170

VARIABLES
  pc,         \* where inject_into_pid is
  polls,      \* polls made
  ack,        \* has a poll read a word other than 0?
  marks,      \* the markers as read back
  detail,     \* of dlerror's answer was read: "none", its "word", or its "text"
  report,     \* what was printed last: "none", "loaded" or "warning"
  status,     \* exit status, or "running"
  length,     \* bytes of this path
  path,       \* the path in the target: "none", "whole" or "damaged"
  ackWord,    \* the word at AckOff
  errWord,    \* the word at ErrOff
  R, D,       \* the two marker bytes
  nap,        \* does the timespec say one second?
  stub,       \* the stub: "none", "rw" or "rx"
  raw,        \* the raw thread
  worker,     \* the pthread it creates
  loaded,     \* has the constructor of the dylib run?
  target      \* "alive", "dead", or "faulted" because of the injection

cliVars    == <<pc, polls, ack, marks, detail, report, status, length>>
wordVars   == <<ackWord, errWord, R, D, nap>>
remoteVars == <<path, wordVars, stub>>
targetVars == <<raw, worker, loaded, target>>
vars       == <<cliVars, remoteVars, targetVars>>

Init ==
  /\ pc = "task" /\ polls = 0 /\ ack = FALSE /\ detail = "none"
  /\ marks = [R |-> FALSE, D |-> FALSE]
  /\ report = "none" /\ status = "running" /\ length \in PathLengths
  /\ path = "none" /\ ackWord = "zero" /\ errWord = "zero"
  /\ R = FALSE /\ D = FALSE /\ nap = FALSE /\ stub = "none"
  /\ raw = "absent" /\ worker = "absent" /\ loaded = FALSE
  /\ target = "alive"

Cli(s) == status = "running" /\ pc = s

Continue(s) == pc' = s /\ UNCHANGED <<polls, ack, marks, detail, report, status, length>>

Covered(off) == length > off

(* Was a stub written, for pthread_create_from_mach_thread?                *)
Bootstrap == stub # "none"

-----------------------------------------------------------------------------
(* The command line tool.                                                  *)

(* task_for_pid, which blocks until someone clicks Allow, and              *)
(* mach_vm_allocate.                                                       *)
Attach ==
  /\ Cli("task") /\ target = "alive"
  /\ Continue("path")
  /\ UNCHANGED <<remoteVars, targetVars>>

(* The path may run on into the scratch words.  Then dlsym finds           *)
(* pthread_create_from_mach_thread, or does not.                           *)
WritePath ==
  /\ Cli("path") /\ target = "alive"
  /\ path' = "whole"
  /\ ackWord' = IF Covered(AckOff) THEN "path" ELSE "zero"
  /\ errWord' = IF Covered(ErrOff) THEN "path" ELSE "zero"
  /\ \E s \in {"stub", "create"} : Continue(s)
  /\ UNCHANGED <<R, D, nap, stub, targetVars>>

WriteStub ==
  /\ Cli("stub") /\ target = "alive"
  /\ stub' = "rw"
  /\ Continue("diag")
  /\ UNCHANGED <<path, wordVars, targetVars>>

(* Mutant: the stub is not made executable.                                *)
WriteDiag_NoProtect ==
  /\ Cli("diag") /\ target = "alive"
  /\ path' = IF Covered(MarkerOff) THEN "damaged" ELSE path
  /\ R' = FALSE /\ D' = FALSE /\ nap' = ~Covered(NsecOff)
  /\ Continue("create")
  /\ UNCHANGED <<ackWord, errWord, stub, targetVars>>

(* 24 bytes at MarkerOff: zero markers and the seconds of the timespec,    *)
(* whose nanoseconds are what was there: zero, or more of the path.        *)
WriteDiag ==
  /\ Cli("diag") /\ target = "alive"
  /\ path' = IF Covered(MarkerOff) THEN "damaged" ELSE path
  /\ R' = FALSE /\ D' = FALSE /\ nap' = ~Covered(NsecOff)
  /\ Continue("protect")
  /\ UNCHANGED <<ackWord, errWord, stub, targetVars>>

ProtectStub ==
  /\ Cli("protect") /\ target = "alive"
  /\ stub' = "rx"
  /\ Continue("create")
  /\ UNCHANGED <<path, wordVars, targetVars>>

(* Without the bootstrap the raw thread starts in dlopen itself, and       *)
(* inject_into_pid returns.                                                *)
CreateThread ==
  /\ Cli("create") /\ target = "alive"
  /\ raw' = IF Bootstrap THEN "entry" ELSE "dlopen"
  /\ pc' = IF Bootstrap THEN "poll" ELSE "return"
  /\ UNCHANGED <<polls, ack, marks, detail, report, status, length, remoteVars, worker, loaded, target>>

(* Mutant: mtdi exits with what the kernel call returned.                  *)
Fail_KernelCode ==
  /\ status = "running"
  /\ pc \in {"task", "path", "stub", "diag", "protect", "create"}
  /\ status' = "5"
  /\ UNCHANGED <<pc, polls, ack, marks, detail, report, length, remoteVars, targetVars>>

(* A call that sets up the target fails: exit(1).                          *)
Fail ==
  /\ status = "running"
  /\ pc \in {"task", "path", "stub", "diag", "protect", "create"}
  /\ status' = "1"
  /\ UNCHANGED <<pc, polls, ack, marks, detail, report, length, remoteVars, targetVars>>

(* Mutant: the polls are not counted.                                      *)
Poll_Forever ==
  /\ Cli("poll") /\ polls < MaxPolls
  /\ ack' = (target = "alive" /\ ackWord # "zero")
  /\ pc' = IF ack' THEN "verdict" ELSE "poll"
  /\ UNCHANGED <<polls, marks, detail, report, status, length, remoteVars, targetVars>>

(* Mutant: one poll too many.                                              *)
Poll_OneMore ==
  /\ Cli("poll") /\ polls <= MaxPolls
  /\ ack' = (target = "alive" /\ ackWord # "zero")
  /\ polls' = polls + 1
  /\ pc' = IF ack' \/ polls' > MaxPolls THEN "verdict" ELSE "poll"
  /\ UNCHANGED <<marks, detail, report, status, length, remoteVars, targetVars>>

(* Read the ack; a read that fails leaves it as it was.                    *)
Poll ==
  /\ Cli("poll") /\ polls < MaxPolls
  /\ ack' = (target = "alive" /\ ackWord # "zero")
  /\ polls' = polls + 1
  /\ pc' = IF ack' \/ polls' = MaxPolls THEN "verdict" ELSE "poll"
  /\ UNCHANGED <<marks, detail, report, status, length, remoteVars, targetVars>>

ReportLoaded ==
  /\ Cli("verdict") /\ ack
  /\ report' = "loaded" /\ pc' = "return"
  /\ UNCHANGED <<polls, ack, marks, detail, status, length, remoteVars, targetVars>>

ReadMarkers ==
  /\ Cli("verdict") /\ ~ack
  /\ marks' = IF target = "alive" THEN [R |-> R, D |-> D] ELSE marks
  /\ pc' = "detail"
  /\ UNCHANGED <<polls, ack, detail, report, status, length, remoteVars, targetVars>>

(* The word at ErrOff.                                                     *)
ReadErrorWord ==
  /\ Cli("detail")
  /\ detail' = IF target = "alive" /\ errWord # "zero" THEN "word" ELSE "none"
  /\ pc' = IF detail' = "word" THEN "text" ELSE "warn"
  /\ UNCHANGED <<polls, ack, marks, report, status, length, remoteVars, targetVars>>

(* The 256 bytes it points to, which need not all be mapped.               *)
ReadText ==
  /\ Cli("text")
  /\ detail' \in {"word"} \cup (IF target = "alive" THEN {"text"} ELSE {})
  /\ pc' = "warn"
  /\ UNCHANGED <<polls, ack, marks, report, status, length, remoteVars, targetVars>>

Warn ==
  /\ Cli("warn")
  /\ report' = "warning" /\ pc' = "return"
  /\ UNCHANGED <<polls, ack, marks, detail, status, length, remoteVars, targetVars>>

(* main returns Ok whatever was reported.                                  *)
Return ==
  /\ Cli("return")
  /\ status' = "0"
  /\ UNCHANGED <<pc, polls, ack, marks, detail, report, length, remoteVars, targetVars>>

CliStep ==
  \/ Attach \/ WritePath \/ WriteStub \/ WriteDiag \/ ProtectStub \/ CreateThread
  \/ Fail \/ Poll \/ ReportLoaded \/ ReadMarkers \/ ReadErrorWord
  \/ ReadText \/ Warn \/ Return

-----------------------------------------------------------------------------
(* The target.                                                             *)

(* The raw thread calls pthread_create_from_mach_thread, which may fail,   *)
(* and parks: it sleeps again and again, as the pthread will.  It faults   *)
(* on a stub it cannot execute.                                            *)
Enter ==
  /\ target = "alive" /\ raw = "entry"
  /\ IF stub = "rx"
     THEN /\ raw' = "parked"
          /\ worker' \in {"start", "absent"}
          /\ UNCHANGED target
     ELSE target' = "faulted" /\ UNCHANGED <<raw, worker>>
  /\ UNCHANGED <<cliVars, remoteVars, loaded>>

(* The marker is stored on the byte that ends a path of MarkerOff bytes.   *)
Start ==
  /\ target = "alive" /\ worker = "start"
  /\ R' = TRUE
  /\ path' = IF length >= MarkerOff THEN "damaged" ELSE path
  /\ worker' = "dlopen"
  /\ UNCHANGED <<cliVars, ackWord, errWord, D, nap, stub, raw, loaded, target>>

(* dlopen may refuse a path, and does refuse a damaged one.                *)
Opens(ok) == ok => path = "whole"

DlOpen(ok) ==
  /\ target = "alive" /\ worker = "dlopen" /\ Opens(ok)
  /\ loaded' = ok
  /\ worker' = IF ok THEN "opened" ELSE "refused"
  /\ UNCHANGED <<cliVars, remoteVars, raw, target>>

(* The fallback: before dyld4 a thread without TLS gets through dlopen and *)
(* returns into pthread_exit.                                              *)
RawDlOpen(ok) ==
  /\ target = "alive" /\ raw = "dlopen" /\ Opens(ok)
  /\ loaded' = ok
  /\ raw' = "exit"
  /\ UNCHANGED <<cliVars, remoteVars, worker, target>>

(* dyld4's dlopen reads the TLS that is not there, and so does             *)
(* pthread_exit.                                                           *)
RawFaults ==
  /\ target = "alive" /\ raw \in {"dlopen", "exit"}
  /\ target' = "faulted"
  /\ UNCHANGED <<cliVars, remoteVars, raw, worker, loaded>>

(* Mutant: what dlopen returned does not reach the ack.                    *)
Acknowledge_Always ==
  /\ target = "alive" /\ worker \in {"opened", "refused"}
  /\ ackWord' = "handle"
  /\ worker' = IF worker = "opened" THEN "ok" ELSE "error"
  /\ UNCHANGED <<cliVars, path, errWord, R, D, nap, stub, raw, loaded, target>>

Acknowledge ==
  /\ target = "alive" /\ worker \in {"opened", "refused"}
  /\ ackWord' = IF worker = "opened" THEN "handle" ELSE "zero"
  /\ worker' = IF worker = "opened" THEN "ok" ELSE "error"
  /\ UNCHANGED <<cliVars, path, errWord, R, D, nap, stub, raw, loaded, target>>

(* Mutant: dlerror is not asked.                                           *)
StoreError_Dropped ==
  /\ target = "alive" /\ worker \in {"ok", "error"}
  /\ worker' = "mark"
  /\ UNCHANGED <<cliVars, remoteVars, raw, loaded, target>>

(* dlerror returns null when nothing failed.                               *)
StoreError ==
  /\ target = "alive" /\ worker \in {"ok", "error"}
  /\ errWord' = IF worker = "error" THEN "text" ELSE "zero"
  /\ worker' = "mark"
  /\ UNCHANGED <<cliVars, path, ackWord, R, D, nap, stub, raw, loaded, target>>

StoreDone ==
  /\ target = "alive" /\ worker = "mark"
  /\ D' = TRUE
  /\ worker' = "parked"
  /\ UNCHANGED <<cliVars, path, ackWord, errWord, R, nap, stub, raw, loaded, target>>

Die ==
  /\ target = "alive"
  /\ target' = "dead"
  /\ UNCHANGED <<cliVars, remoteVars, raw, worker, loaded>>

TargetStep ==
  \/ Enter \/ Start \/ Acknowledge \/ StoreError \/ StoreDone \/ RawFaults \/ Die
  \/ \E ok \in BOOLEAN : DlOpen(ok) \/ RawDlOpen(ok)

Finished == status # "running" /\ UNCHANGED vars

Next == CliStep \/ TargetStep \/ Finished

(* The tool runs once it has the task's port; of the target, and of whoever *)
(* is to click Allow, nothing is assumed.                                  *)
Spec == Init /\ [][Next]_vars /\ WF_vars(pc # "task" /\ CliStep)

-----------------------------------------------------------------------------
(* Properties.                                                             *)

StateOK ==
  /\ pc \in {"task", "path", "stub", "diag", "protect", "create", "poll", "verdict",
             "detail", "text", "warn", "return"}
  /\ polls \in 0 .. MaxPolls
  /\ ack \in BOOLEAN /\ detail \in {"none", "word", "text"}
  /\ report \in {"none", "loaded", "warning"}
  /\ status \in {"running", "0", "1"} /\ length \in PathLengths
  /\ path \in {"none", "whole", "damaged"}
  /\ ackWord \in {"zero", "path", "handle"}
  /\ errWord \in {"zero", "path", "text"}
  /\ R \in BOOLEAN /\ D \in BOOLEAN /\ nap \in BOOLEAN
  /\ stub \in {"none", "rw", "rx"}
  /\ raw \in {"absent", "entry", "parked", "dlopen", "exit"}
  /\ worker \in {"absent", "start", "dlopen", "opened", "refused", "ok", "error",
                 "mark", "parked"}
  /\ loaded \in BOOLEAN
  /\ target \in {"alive", "dead", "faulted"}

TypeOK == marks \in [R : BOOLEAN, D : BOOLEAN] /\ StateOK

(* The inductive invariant.  Until the thread is created nothing runs in   *)
(* the target, and the stub is being prepared.                             *)
Setup == {"task", "path", "stub", "diag", "protect", "create"}

SetupInv ==
  /\ pc \in Setup => raw = "absent" /\ worker = "absent" /\ ~loaded
  /\ pc \in {"task", "path", "stub"} => stub = "none"
  /\ stub = "rw" => pc \in {"diag", "protect"}
  /\ pc = "protect" \/ stub = "rx" => nap = ~Covered(NsecOff)
  /\ worker # "absent" => raw = "parked"
  /\ raw \in {"entry", "parked"} => stub = "rx"
  /\ raw \in {"dlopen", "exit"} => ~Bootstrap

(* The worker's place tells what dlopen answered, and what it has stored.  *)
WorkerInv ==
  /\ worker \in {"opened", "ok"} => loaded
  /\ worker \in {"start", "dlopen", "refused", "error"} => ~loaded
  /\ raw \in {"absent", "entry", "dlopen"} => ~loaded
  /\ worker \in {"mark", "parked"} => loaded \/ errWord = "text"
  /\ D => worker = "parked"

(* What the tool has read is still true of the target, and where it is     *)
(* tells whether a thread was created.                                     *)
ReadInv ==
  /\ ackWord = "handle" => loaded
  /\ ackWord = "path" => Covered(AckOff)
  /\ ack => loaded \/ Covered(AckOff)
  /\ report = "loaded" => ack
  /\ report # "none" => pc = "return"
  /\ marks.D => D /\ pc \in {"detail", "text", "warn", "return"}
  /\ pc = "text" => detail = "word"
  /\ pc \in {"warn", "return"} /\ marks.D => detail # "none" \/ loaded \/ target = "dead"
  /\ pc \notin Setup => raw # "absent"
  /\ pc = "return" /\ report = "none" => ~Bootstrap
  /\ status = "0" => pc = "return"

(* The bootstrap does not bring the target down and leaves no thread that  *)
(* burns its time: the raw thread never fetches from a stub that is        *)
(* missing or not executable, and both threads park on a timespec that was *)
(* written whole, if the path ends before it (mach.rs:176-252).  The       *)
(* fallback is not covered: it starts a raw thread in dlopen with          *)
(* pthread_exit as its return address (mach.rs:225-231), and takes one of  *)
(* the crashes that README.md:80-83 and mach.rs:117-118 tell of.           *)
TargetUnharmed ==
  Bootstrap =>
    /\ target # "faulted"
    /\ raw = "parked" \/ worker = "parked" => nap \/ Covered(NsecOff)

(* "Dylib loaded" is printed only for a dylib that dlopen loaded           *)
(* (mach.rs:153-155, 258-274), whatever the order in which the worker      *)
(* stores and the tool reads, and whenever the target dies; but for paths  *)
(* that reach the word of the ack.                                         *)
LoadedIsLoaded == report = "loaded" => loaded \/ Covered(AckOff)

(* When the markers say that dlopen returned and the ack is still zero,    *)
(* dlerror's answer is found, to be printed if its bytes can be read,      *)
(* unless the target died or the dylib was loaded in between               *)
(* (mach.rs:153-164, 276-328).                                             *)
FailureExplained ==
  report = "warning" /\ marks.D => detail # "none" \/ loaded \/ target = "dead"

InjectorInv == TypeOK /\ SetupInv /\ WorkerInv /\ ReadInv /\ TargetUnharmed
=============================================================================
