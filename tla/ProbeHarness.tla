----------------------------- MODULE ProbeHarness -----------------------------
(***************************************************************************)
(* The code a compiled probe carries into the target                       *)
(* (src/src/script/compiler.rs, generate_harness): the initializer that    *)
(* installs the hooks, the dispatcher every hooked call passes through,    *)
(* and handlers such as those of src/probes/probe_bughunt.rs, which count, *)
(* and log to a file they open with the function they hook.                *)
(*                                                                         *)
(* A thread is a stack of calls: a handler that calls a hooked function    *)
(* puts another on top of its own.  Placing stubs and trampolines is       *)
(* Relocator's subject; here a hook is live from one step to the next.     *)
(***************************************************************************)
EXTENDS Naturals, Sequences, SequencesExt, FiniteSets

CONSTANTS
  Threads,     \* threads of the target
  Loader,      \* the thread that runs mtdis_init
  Symbols,     \* functions of the target
  Registered,  \* the sequence of symbols the probe registers
  Missing,     \* symbols dlsym does not find
  Sealed,      \* symbols on pages that refuse to be unprotected
  Handler,     \* Handler[f]: "open", "stat" or "log"
  Panics,      \* symbols whose handler may panic
  Legacy,      \* was the probe compiled with -u?
  EventCap,    \* EVENT_CAP of the probe
  MaxCalls     \* bound: MaxCalls[t] calls a thread t makes of its own

Free == "free"

ASSUME HarnessAssumption ==
  /\ Loader \notin Threads /\ Free \notin Threads \cup {Loader}
  /\ Registered \in Seq(Symbols)
  /\ Missing \subseteq Symbols /\ Sealed \subseteq Symbols
  /\ Panics \subseteq Symbols
  /\ Handler \in [Symbols -> {"open", "stat", "log"}]
  /\ Legacy \in BOOLEAN /\ EventCap \in Nat /\ MaxCalls \in [Threads -> Nat]
  /\ {"open", "write"} \subseteq Symbols

VARIABLES
  i,         \* the registration mtdis_init works on
  ipc,       \* where in it: "resolve", "jump", "lock" or "insert"
  live,      \* functions whose first words are a jump to the harness
  table,     \* functions with an entry in HOOKS
  lock,      \* the thread that holds the mutex of HOOKS, or Free
  stack,     \* stack[t]: the calls thread t is in, the innermost last
  depth,     \* depth[t]: HOOK_DEPTH
  calls,     \* calls[t]: calls the thread has made of its own
  counts,    \* OPEN_COUNTS and STAT_COUNTS, of one path
  events,    \* EVENTS
  creating,  \* CREATING
  file,      \* is LOG's file open?
  opened,    \* times it was opened
  log,       \* the lines in it
  proc       \* "alive", or "aborted" by a panic

initVars  == <<i, ipc, live, table>>
callVars  == <<stack, depth, calls>>
probeVars == <<counts, events, creating, file, opened, log>>
vars      == <<initVars, lock, callVars, probeVars, proc>>

(* A call: its function, where it is, the count its handler read; did    *)
(* a handler run for it, and should one have?                              *)
Call(f, pc, due) ==
  [f |-> f, pc |-> pc, n |-> 0, ran |-> FALSE, due |-> due]

Init ==
  /\ i = 1 /\ ipc = "resolve" /\ live = {} /\ table = {} /\ lock = Free
  /\ stack = [t \in Threads |-> <<>>]
  /\ depth = [t \in Threads |-> 0] /\ calls = [t \in Threads |-> 0]
  /\ counts = [k \in {"open", "stat"} |-> 0]
  /\ events = 0 /\ creating = FALSE /\ file = FALSE /\ opened = 0 /\ log = <<>>
  /\ proc = "alive"

-----------------------------------------------------------------------------
(* mtdis_init and raw_install_hook, on the loader's thread.                *)

Installing(s) == proc = "alive" /\ i <= Len(Registered) /\ ipc = s

NextHook == i' = i + 1 /\ ipc' = "resolve"

(* A symbol that is not found is skipped with a warning.                   *)
Resolve ==
  /\ Installing("resolve")
  /\ IF Registered[i] \in Missing THEN NextHook ELSE ipc' = "jump" /\ i' = i
  /\ UNCHANGED <<live, table, lock, callVars, probeVars, proc>>

(* The stub and the trampoline are ready; the jump goes live, unless the   *)
(* page refuses.                                                           *)
PatchJump ==
  /\ Installing("jump")
  /\ IF Registered[i] \in Sealed
       THEN NextHook /\ live' = live
       ELSE live' = live \cup {Registered[i]} /\ ipc' = "lock" /\ i' = i
  /\ UNCHANGED <<table, lock, callVars, probeVars, proc>>

LockToInsert ==
  /\ Installing("lock") /\ lock = Free
  /\ lock' = Loader /\ ipc' = "insert"
  /\ UNCHANGED <<i, live, table, callVars, probeVars, proc>>

Insert ==
  /\ Installing("insert")
  /\ table' = table \cup {Registered[i]}
  /\ lock' = Free /\ NextHook
  /\ UNCHANGED <<live, callVars, probeVars, proc>>

Install == Resolve \/ PatchJump \/ LockToInsert \/ Insert

-----------------------------------------------------------------------------
(* The dispatcher.                                                         *)

Top(t) == Last(stack[t])

At(t, pc) == proc = "alive" /\ stack[t] # <<>> /\ Top(t).pc = pc

Replace(t, c) == [stack EXCEPT ![t] = Append(Front(@), c)]

Goto(t, pc) == stack' = Replace(t, [Top(t) EXCEPT !.pc = pc])

(* The call starts in the harness once the jump is live.                   *)
Enter(f) == IF f \in live THEN "lock" ELSE "original"

(* The program calls a function.                                           *)
CallFunction(t, f) ==
  /\ proc = "alive" /\ stack[t] = <<>> /\ calls[t] < MaxCalls[t]
  /\ stack' = [stack EXCEPT ![t] = <<Call(f, Enter(f), f \in table)>>]
  /\ calls' = [calls EXCEPT ![t] = @ + 1]
  /\ UNCHANGED <<initVars, lock, depth, probeVars, proc>>

LockTable(t) ==
  /\ At(t, "lock") /\ lock = Free
  /\ lock' = t /\ Goto(t, "find")
  /\ UNCHANGED <<initVars, depth, calls, probeVars, proc>>

(* Mutant: the mutex is held while the handler runs, as the engine's       *)
(* dispatcher does.                                                        *)
Find_KeepsLock(t) ==
  /\ At(t, "find")
  /\ IF Top(t).f \in table THEN Goto(t, "guard") /\ lock' = lock
                           ELSE Goto(t, "original") /\ lock' = Free
  /\ UNCHANGED <<initVars, depth, calls, probeVars, proc>>

(* Trampoline and handler are copied out; without an entry the call goes   *)
(* on, since x16 holds the trampoline already.                             *)
Find(t) ==
  /\ At(t, "find")
  /\ lock' = Free
  /\ Goto(t, IF Top(t).f \in table THEN "guard" ELSE "original")
  /\ UNCHANGED <<initVars, depth, calls, probeVars, proc>>

(* Mutant: the guard is not looked at.                                     *)
Guard_Absent(t) ==
  /\ At(t, "guard")
  /\ stack' = Replace(t, [Top(t) EXCEPT !.pc = "handler", !.ran = TRUE])
  /\ depth' = [depth EXCEPT ![t] = 1]
  /\ UNCHANGED <<initVars, lock, calls, probeVars, proc>>

Guard(t) ==
  /\ At(t, "guard")
  /\ IF depth[t] > 0
       THEN Goto(t, "original") /\ depth' = depth
       ELSE /\ stack' = Replace(t, [Top(t) EXCEPT !.pc = "handler", !.ran = TRUE])
            /\ depth' = [depth EXCEPT ![t] = 1]
  /\ UNCHANGED <<initVars, lock, calls, probeVars, proc>>

(* Mutant: the depth stays when the handler returns.                       *)
Leave_Inside(t) ==
  /\ At(t, "leave")
  /\ Goto(t, "original")
  /\ UNCHANGED <<initVars, lock, depth, calls, probeVars, proc>>

Leave(t) ==
  /\ At(t, "leave")
  /\ depth' = [depth EXCEPT ![t] = 0]
  /\ Goto(t, "original")
  /\ UNCHANGED <<initVars, lock, calls, probeVars, proc>>

(* The thunk restores the registers and branches to the trampoline: the    *)
(* function runs, puts its result in x0 and returns to the caller.         *)
Original(t) ==
  /\ At(t, "original")
  /\ stack' = [stack EXCEPT ![t] = Front(@)]
  /\ UNCHANGED <<initVars, lock, depth, calls, probeVars, proc>>

-----------------------------------------------------------------------------
(* Handlers, by their kind.                                                *)

HandledBy(t, kinds) == At(t, "handler") /\ Handler[Top(t).f] \in kinds

InHandler(t) == UNCHANGED <<initVars, lock, depth, calls, proc>>

(* Under -u the dispatcher catches a panic; without, it aborts.            *)
Panic(t) ==
  /\ At(t, "handler") /\ Top(t).f \in Panics
  /\ IF Legacy THEN Goto(t, "leave") /\ proc' = proc
               ELSE proc' = "aborted" /\ UNCHANGED stack
  /\ UNCHANGED <<initVars, lock, depth, calls, probeVars>>

(* read_arg_str finds no string.                                           *)
Unreadable(t) ==
  /\ HandledBy(t, {"open", "stat"})
  /\ Goto(t, "leave")
  /\ InHandler(t) /\ UNCHANGED probeVars

Worth(kind, n) == kind = "open" \/ n \in {1, 10, 100, 1000, 10000}

(* on_open, on_stat and on_lstat: bump_count, under a mutex of its own.    *)
Count(t) ==
  /\ HandledBy(t, {"open", "stat"})
  /\ LET kind == Handler[Top(t).f]
         n    == counts[kind] + 1
     IN  /\ counts' = [counts EXCEPT ![kind] = n]
         /\ stack' = Replace(t, [Top(t) EXCEPT !.n = n,
                                   !.pc = IF Worth(kind, n) THEN "cap" ELSE "leave"])
  /\ InHandler(t) /\ UNCHANGED <<events, creating, file, opened, log>>

(* on_send and the like have nothing to count.                             *)
Note(t) ==
  /\ HandledBy(t, {"log"})
  /\ Goto(t, "cap")
  /\ InHandler(t) /\ UNCHANGED probeVars

(* log_line.                                                               *)
TakeEvent(t) ==
  /\ At(t, "cap")
  /\ events' = events + 1
  /\ Goto(t, IF events >= EventCap THEN "leave" ELSE "swap")
  /\ InHandler(t) /\ UNCHANGED <<counts, creating, file, opened, log>>

(* Mutant: the guard is set without looking.                               *)
SwapCreating_Store(t) ==
  /\ At(t, "swap")
  /\ creating' = TRUE
  /\ Goto(t, "check")
  /\ InHandler(t) /\ UNCHANGED <<counts, events, file, opened, log>>

SwapCreating(t) ==
  /\ At(t, "swap")
  /\ creating' = TRUE
  /\ Goto(t, IF creating THEN "leave" ELSE "check")
  /\ InHandler(t) /\ UNCHANGED <<counts, events, file, opened, log>>

Nested(t, f, pc) ==
  stack' = [stack EXCEPT ![t] = Append(Front(@), [Last(@) EXCEPT !.pc = pc])
                                  \o <<Call(f, Enter(f), FALSE)>>]

(* needs_open, and the call of open.                                       *)
CheckFile(t) ==
  /\ At(t, "check")
  /\ IF file THEN Goto(t, "write") ELSE Nested(t, "open", "store")
  /\ InHandler(t) /\ UNCHANGED probeVars

(* open has succeeded, or not; LOG keeps the first file.                   *)
StoreFile(t) ==
  /\ At(t, "store")
  /\ \E ok \in BOOLEAN : file' = (file \/ ok) /\ opened' = IF ok THEN opened + 1 ELSE opened
  /\ Goto(t, "write")
  /\ InHandler(t) /\ UNCHANGED <<counts, events, creating, log>>

WriteLine(t) ==
  /\ At(t, "write")
  /\ IF file
       THEN Nested(t, "write", "clear")
            /\ log' = Append(log, [kind |-> Handler[Top(t).f], n |-> Top(t).n])
       ELSE Goto(t, "clear") /\ log' = log
  /\ InHandler(t) /\ UNCHANGED <<counts, events, creating, file, opened>>

ClearCreating(t) ==
  /\ At(t, "clear")
  /\ creating' = FALSE
  /\ Goto(t, "leave")
  /\ InHandler(t) /\ UNCHANGED <<counts, events, file, opened, log>>

Run(t) ==
  \/ LockTable(t) \/ Find(t) \/ Guard(t) \/ Leave(t) \/ Original(t)
  \/ Panic(t) \/ Unreadable(t) \/ Count(t) \/ Note(t)
  \/ TakeEvent(t) \/ SwapCreating(t) \/ CheckFile(t) \/ StoreFile(t)
  \/ WriteLine(t) \/ ClearCreating(t)

Finished ==
  /\ \/ proc = "aborted"
     \/ i > Len(Registered) /\ \A t \in Threads : stack[t] = <<>> /\ calls[t] = MaxCalls[t]
  /\ UNCHANGED vars

Next ==
  \/ Install \/ Finished
  \/ \E t \in Threads : Run(t) \/ \E f \in Symbols \ Missing : CallFunction(t, f)

Spec == Init /\ [][Next]_vars

(* Every thread runs.  The calls are finitely many, so a thread that waits *)
(* for the mutex gets it once nobody keeps it.                             *)
FairSpec == Spec /\ WF_vars(Install) /\ \A t \in Threads : WF_vars(Run(t))

-----------------------------------------------------------------------------
CallPCs == {"lock", "find", "guard", "handler", "cap", "swap", "check", "store",
            "write", "clear", "leave", "original"}

InsideHandler == {"handler", "cap", "swap", "check", "store", "write", "clear", "leave"}

CallType == [f : Symbols, pc : CallPCs, n : Nat, ran : BOOLEAN, due : BOOLEAN]

(* The variables keep their types, a stack is a call and at most one that  *)
(* its handler makes.                                                      *)
StackOK ==
  /\ i \in 1 .. Len(Registered) + 1 /\ ipc \in {"resolve", "jump", "lock", "insert"}
  /\ live \subseteq Symbols /\ table \subseteq live
  /\ lock \in Threads \cup {Loader, Free}
  /\ stack \in [Threads -> Seq(CallType)] /\ \A t \in Threads : Len(stack[t]) <= 2
  /\ depth \in [Threads -> {0, 1}]
  /\ calls \in [Threads -> Nat] /\ \A t \in Threads : calls[t] <= MaxCalls[t]
  /\ proc \in {"alive", "aborted"}

LogOK ==
  /\ counts \in [{"open", "stat"} -> Nat] /\ events \in Nat
  /\ creating \in BOOLEAN /\ file \in BOOLEAN /\ opened \in Nat
  /\ log \in Seq([kind : {"open", "stat", "log"}, n : Nat])

TypeOK == StackOK /\ LogOK

(* A handler that calls what it hooks does not start a second one on its   *)
(* thread (compiler.rs:327-330).                                           *)
HandlersDoNotNest ==
  \A t \in Threads :
    \A j, k \in DOMAIN stack[t] :
      stack[t][j].pc \in InsideHandler /\ stack[t][k].pc \in InsideHandler => j = k

(* HOOK_DEPTH is set exactly while a handler is on the thread's stack,     *)
(* whichever way the handler leaves.                                       *)
DepthIsNesting ==
  \A t \in Threads :
    depth[t] = 1 <=> \E c \in Range(stack[t]) : c.pc \in InsideHandler

(* A call below another is in its handler.                                 *)
OnlyHandlersCall ==
  \A t \in Threads :
    \A j \in 1 .. Len(stack[t]) - 1 : stack[t][j].pc \in InsideHandler

(* The mutex of HOOKS is held by the thread that searches or fills it.     *)
InstallInv ==
  /\ ipc \in {"lock", "insert"} => i <= Len(Registered) /\ Registered[i] \in live
  /\ lock = Loader <=> ipc = "insert"

Calling(t) == stack[t] # <<>>

(* The first call of a stack is the one whose handler may run; while that  *)
(* call makes another, it is at one of the two places that do.             *)
DispatchInv ==
  \A t \in Threads :
    /\ Len(stack[t]) = 2 => /\ stack[t][1].pc \in {"store", "clear"}
                           /\ stack[t][2].pc \notin InsideHandler
    /\ depth[t] = 1 <=> Calling(t) /\ stack[t][1].pc \in InsideHandler
    /\ lock = t <=> Calling(t) /\ Top(t).pc = "find"

(* A call that must reach its handler has an entry, and once it is past    *)
(* the dispatcher a handler has run for it.                                *)
DueInv ==
  \A t \in Threads :
    \A k \in DOMAIN stack[t] :
      /\ stack[t][k].due => k = 1 /\ stack[t][k].f \in table
      /\ stack[t][k].pc \in InsideHandler => stack[t][k].ran
      /\ stack[t][k].pc = "original" /\ stack[t][k].due => stack[t][k].ran

(* Where the handler of a thread is, and the line it writes or may write.  *)
Place(t) == IF Calling(t) THEN stack[t][1].pc ELSE "none"

Line(t) == [kind |-> Handler[stack[t][1].f], n |-> stack[t][1].n]

(* CREATING is a mutex of log_line, which opens the file under it.         *)
CreatingInv ==
  /\ \A t \in Threads : Place(t) \in {"check", "store", "write", "clear"} =>
       /\ creating
       /\ \A u \in Threads : Place(u) \in {"check", "store", "write", "clear"} => u = t
  /\ \A t \in Threads : Place(t) = "store" => ~file
  /\ opened = IF file THEN 1 ELSE 0

(* The threads that took one of the EVENT_CAP events and have not written  *)
(* its line yet.                                                           *)
Writers == {t \in Threads : Place(t) \in {"swap", "check", "store", "write"}}

EventsInv ==
  /\ IsFiniteSet(Writers)
  /\ Len(log) + Cardinality(Writers) <= events
  /\ Len(log) + Cardinality(Writers) <= EventCap

(* No two lines, written or to be written, say the same of one count.      *)
Pending(t) == Place(t) \in {"cap", "swap", "check", "store", "write"}

Counted(line) == line.kind # "log"

CountInv ==
  /\ \A t \in Threads : Pending(t) /\ Counted(Line(t)) =>
       /\ Line(t).n <= counts[Line(t).kind]
       /\ \A u \in Threads : Pending(u) /\ Line(u) = Line(t) => u = t
       /\ \A k \in DOMAIN log : log[k] # Line(t)
  /\ \A k \in DOMAIN log : Counted(log[k]) => log[k].n <= counts[log[k].kind]
  /\ \A j, k \in DOMAIN log : Counted(log[j]) /\ log[j] = log[k] => j = k

(* No thread waits for the mutex of HOOKS that it holds itself             *)
(* (compiler.rs:317-325).                                                  *)
NoSelfWait == \A t \in Threads : At(t, "lock") => lock # t

(* The recursion guard of the dispatcher works: handlers that call hooked  *)
(* functions or panic neither nest nor leave the guard in the wrong        *)
(* position (compiler.rs:310-337).  With the relations between a thread's  *)
(* stack, the guard, the two mutexes, the counts and the log it is         *)
(* inductive.                                                              *)
DispatcherInv == StackOK /\ InstallInv /\ DispatchInv /\ DueInv

LogInv == LogOK /\ CreatingInv /\ EventsInv /\ CountInv

HarnessInv ==
  /\ DispatcherInv /\ LogInv
  /\ HandlersDoNotNest /\ DepthIsNesting /\ OnlyHandlersCall /\ NoSelfWait

(* A call the program makes of a function whose entry is in the table      *)
(* reaches its handler before the function: no earlier call on the thread, *)
(* whichever way it left the dispatcher, has left the guard shut           *)
(* (compiler.rs:310-337).                                                  *)
NoneMissed ==
  \A t \in Threads :
    At(t, "original") /\ Len(stack[t]) = 1 /\ Top(t).due => Top(t).ran

(* The log holds at most EVENT_CAP lines, is opened once, and says of each *)
(* count once that it was reached, however the threads race through        *)
(* log_line and bump_count (probe_bughunt.rs:26-79).                       *)
LogFaithful ==
  /\ Len(log) <= EventCap
  /\ opened <= 1
  /\ \A j, k \in DOMAIN log : Counted(log[j]) /\ log[j] = log[k] => j = k

(* Every call the program makes comes back to it, through the dispatcher's *)
(* mutex and the calls of the handler: nobody waits for a mutex that its   *)
(* own thread holds (compiler.rs:310-337, README.md:245).                  *)
CallsReturn ==
  \A t \in Threads : stack[t] # <<>> ~> (stack[t] = <<>> \/ proc = "aborted")
=============================================================================
