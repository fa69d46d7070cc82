----------------------------- MODULE HookInstall -----------------------------
(***************************************************************************)
(* Installation of the inline hooks (src/src/hook, and the install! macro  *)
(* of src/src/lib.rs): the constructor probes the page of each function    *)
(* in a forked child, copies the prologue into a trampoline, overwrites it *)
(* with a jump to the handler and stores the trampoline for the handler.   *)
(*                                                                         *)
(* In launch mode the program has no thread yet while this happens; in     *)
(* attach mode its threads keep calling the very functions whose  *)
(* code is being replaced.  The installer calls hooked functions as well:  *)
(* it forks to probe a page and writes a line when a hook is skipped.      *)
(***************************************************************************)
EXTENDS Naturals, Sequences, FiniteSets

CONSTANTS
  Funcs,         \* functions of libc
  Fork, Write,   \* the two the installer calls itself
  Pages,         \* code pages
  PageOf,        \* PageOf[f]: the page f lies on
  Sealed,        \* pages that refuse writes
  Plan,          \* the targets of the install! calls, in order
  Full,          \* targets hooked with HookType::FullContext
  Relocated,     \* Relocated[f]: bytes of f's prologue once relocated
  PageSize,      \* PAGE_SIZE of the trampoline allocator
  CacheSize,     \* entries of PROBED_PAGES (32)
  Threads,       \* threads of the program
  Modes          \* the modes considered, of "launch" and "attach"

BranchBack == 16
StubSize   == 32
TrampPage  == "trampolines"
NoAddr     == PageSize + 1       \* a TRAMP_* never stored

(* install! asks for fast-path hooks only, of fork and write as of the rest.*)
ASSUME PlanAssumption ==
  /\ Plan \in Seq(Funcs)
  /\ Fork \in Funcs /\ Write \in Funcs
  /\ Full \subseteq Funcs \ {Fork, Write}

ASSUME PageAssumption ==
  /\ PageOf \in [Funcs -> Pages] /\ Sealed \subseteq Pages
  /\ TrampPage \notin Pages

ASSUME LimitAssumption ==
  /\ Relocated \in [Funcs -> Nat] /\ PageSize \in Nat /\ CacheSize \in Nat
  /\ Modes \subseteq {"launch", "attach"}

VARIABLES
  mode,       \* how the dylib got into the process
  pc,         \* where install_hook, or the macro around it, is
  next,       \* index in Plan of the hook being installed
  lock,       \* is the mutex of HOOKS held?
  code,       \* code[f]: the first 16 bytes of f: "original" or "jump"
  prot,       \* protection of each page: "rx" or "rw"
  probed,     \* PROBED_PAGES: the verdict on each page probed, while it fits
  offset,     \* TRAMPOLINE_OFFSET
  mem,        \* what was written to the trampoline page
  built,      \* trampoline_addr of the hook being installed
  hooks,      \* HOOKS: trampoline address to function
  tramp,      \* tramp[f]: the TRAMP_* of f's handler
  where,      \* where[t]: what a thread of the program executes
  crash       \* how the process died, "none" while it lives

installVars == <<pc, next, lock, code, prot, probed, offset, mem, built, hooks, tramp>>
vars == <<mode, installVars, where, crash>>

tableVars == <<hooks, tramp>>
trampVars == <<offset, mem, built>>
otherVars == <<mode, where, crash>>

Out == [pc |-> "out", f |-> Fork, at |-> NoAddr]

Init ==
  /\ mode \in Modes
  /\ pc = "lock" /\ next = 1 /\ lock = FALSE
  /\ code = [f \in Funcs |-> "original"]
  /\ prot = [p \in Pages \cup {TrampPage} |-> "rx"]
  /\ probed = [p \in {} |-> TRUE]
  /\ offset = 0 /\ mem = {} /\ built = NoAddr
  /\ hooks = [a \in {} |-> Fork]
  /\ tramp = [f \in Funcs |-> NoAddr]
  /\ where = [t \in Threads |-> Out]
  /\ crash = "none"

Installing(s) == crash = "none" /\ pc = s /\ next <= Len(Plan)

Target == Plan[next]                   \* target_addr
Page   == PageOf[Target]

Crash(how) == crash' = how /\ UNCHANGED <<mode, installVars, where>>

-----------------------------------------------------------------------------
(* Executing a function.                                                   *)

(* The bytes a trampoline at a re-executes are the original ones of f, and *)
(* nothing written later overlaps them.                                    *)
Intact(a, f) ==
  \E m \in mem :
    /\ m.at = a /\ m.f = f /\ m.bytes = "original"
    /\ \A o \in mem \ {m} : o.at + o.len <= m.at \/ m.at + m.len <= o.at

Executable(f) == prot[PageOf[f]] = "rx"

Forwards(f, a) == prot[TrampPage] = "rx" /\ Intact(a, f)

(* A call of f by the installer comes back.                                *)
Reaches(f) ==
  /\ Executable(f)
  /\ code[f] = "jump" => Forwards(f, tramp[f])

-----------------------------------------------------------------------------
(* install_hook.                                                           *)

Lock ==
  /\ Installing("lock") /\ ~lock
  /\ lock' = TRUE /\ pc' = "duplicate"
  /\ UNCHANGED <<next, code, prot, probed, trampVars, tableVars, otherVars>>

Duplicates == {a \in DOMAIN hooks : hooks[a] = Target}

CheckDuplicate ==
  /\ Installing("duplicate")
  /\ pc' = IF Duplicates = {} THEN "probe" ELSE "skip"
  /\ UNCHANGED <<next, lock, code, prot, probed, trampVars, tableVars, otherVars>>

(* The first probe decides whether to build, the second whether to write.  *)
Verdict(ok) ==
  pc' = CASE ~ok -> "skip"
          [] ok /\ pc = "probe" -> "build"
          [] ok /\ pc = "reprobe" -> "unprotect"

Probing == Installing("probe") \/ Installing("reprobe")

(* Mutant: an entry of the cache counts as "writable".                     *)
ProbeCached_AnyEntry ==
  /\ Probing /\ Page \in DOMAIN probed
  /\ Verdict(TRUE)
  /\ UNCHANGED <<next, lock, code, prot, probed, trampVars, tableVars, otherVars>>

ProbeCached ==
  /\ Probing /\ Page \in DOMAIN probed
  /\ Verdict(probed[Page])
  /\ UNCHANGED <<next, lock, code, prot, probed, trampVars, tableVars, otherVars>>

Remember(ok) ==
  probed' = IF Cardinality(DOMAIN probed) < CacheSize
            THEN [p \in DOMAIN probed \cup {Page} |-> IF p = Page THEN ok ELSE probed[p]]
            ELSE probed

(* A child writes a byte of the page; or fork fails, and so does the probe.*)
ProbePage ==
  /\ Probing /\ Page \notin DOMAIN probed
  /\ IF Reaches(Fork)
     THEN /\ \E ok \in {Page \notin Sealed, FALSE} : Verdict(ok) /\ Remember(ok)
          /\ UNCHANGED <<next, lock, code, prot, trampVars, tableVars,
                         otherVars>>
     ELSE Crash("fault")

(* Mutant: only the offset is compared with the end of the page.           *)
Fits_OffsetOnly(size) == offset <= PageSize

Fits(size) == offset + size <= PageSize

(* allocate_trampoline panics in the constructor: the process aborts.      *)
OutOfTrampolines ==
  /\ \/ Installing("build") /\ ~Fits(Relocated[Target] + BranchBack)
     \/ Installing("stub") /\ ~Fits(StubSize)
  /\ Crash("panic")

(* Mutant: no room for the branch back.                                    *)
OpenTrampoline_Short ==
  /\ Installing("build") /\ Fits(Relocated[Target])
  /\ built' = offset
  /\ offset' = offset + Relocated[Target]
  /\ prot' = [prot EXCEPT ![TrampPage] = "rw"]
  /\ pc' = "fill"
  /\ UNCHANGED <<next, lock, code, probed, mem, tableVars, otherVars>>

(* build_trampoline: allocate_trampoline, unprotect_page ...               *)
OpenTrampoline ==
  /\ Installing("build") /\ Fits(Relocated[Target] + BranchBack)
  /\ built' = offset
  /\ offset' = offset + Relocated[Target] + BranchBack
  /\ prot' = [prot EXCEPT ![TrampPage] = "rw"]
  /\ pc' = "fill"
  /\ UNCHANGED <<next, lock, code, probed, mem, tableVars, otherVars>>

(* Mutant: the page stays writable.                                        *)
FillTrampoline_LeftOpen ==
  /\ Installing("fill")
  /\ mem' = mem \cup {[at |-> built, len |-> Relocated[Target] + BranchBack, f |-> Target,
                       bytes |-> code[Target]]}
  /\ pc' = IF Target \in Full THEN "stub" ELSE "reprobe"
  /\ UNCHANGED <<next, lock, code, prot, probed, offset, built, tableVars, otherVars>>

(* ... two copies, protect_page.  The stolen bytes are those found at the  *)
(* target.                                                                 *)
FillTrampoline ==
  /\ Installing("fill")
  /\ mem' = mem \cup {[at |-> built, len |-> Relocated[Target] + BranchBack, f |-> Target,
                       bytes |-> code[Target]]}
  /\ prot' = [prot EXCEPT ![TrampPage] = "rx"]
  /\ pc' = IF Target \in Full THEN "stub" ELSE "reprobe"
  /\ UNCHANGED <<next, lock, code, probed, offset, built, tableVars, otherVars>>

(* The stub that loads the hook's id and enters the thunk.                 *)
OpenStub ==
  /\ Installing("stub") /\ Fits(StubSize)
  /\ offset' = offset + StubSize
  /\ prot' = [prot EXCEPT ![TrampPage] = "rw"]
  /\ pc' = "fillstub"
  /\ UNCHANGED <<next, lock, code, probed, mem, built, tableVars, otherVars>>

FillStub ==
  /\ Installing("fillstub")
  /\ mem' = mem \cup {[at |-> offset - StubSize, len |-> StubSize, f |-> Target, bytes |-> "stub"]}
  /\ prot' = [prot EXCEPT ![TrampPage] = "rx"]
  /\ pc' = "reprobe"
  /\ UNCHANGED <<next, lock, code, probed, offset, built, tableVars, otherVars>>

(* Mutant: the result of unprotect_page is not looked at.                  *)
UnprotectFails_Ignored ==
  /\ Installing("unprotect")
  /\ pc' = "insert"
  /\ UNCHANGED <<next, lock, code, prot, probed, trampVars, tableVars, otherVars>>

(* overwrite_with_jump after its probe.                                    *)
UnprotectFails ==
  /\ Installing("unprotect")
  /\ pc' = "skip"
  /\ UNCHANGED <<next, lock, code, prot, probed, trampVars, tableVars, otherVars>>

Unprotect ==
  /\ Installing("unprotect")
  /\ prot' = [prot EXCEPT ![Page] = "rw"]
  /\ pc' = "write"
  /\ UNCHANGED <<next, lock, code, probed, trampVars, tableVars, otherVars>>

(* Sixteen bytes; the page cannot be executed while they are copied.       *)
WriteJump ==
  /\ Installing("write")
  /\ code' = [code EXCEPT ![Target] = "jump"]
  /\ pc' = "protect"
  /\ UNCHANGED <<next, lock, prot, probed, trampVars, tableVars, otherVars>>

Protect ==
  /\ Installing("protect")
  /\ prot' = [prot EXCEPT ![Page] = "rx"]
  /\ pc' = "insert"
  /\ UNCHANGED <<next, lock, code, probed, trampVars, tableVars, otherVars>>

(* The table is updated and install_hook returns Ok, which unlocks it.     *)
Insert ==
  /\ Installing("insert")
  /\ hooks' = [a \in DOMAIN hooks \cup {built} |-> IF a = built THEN Target ELSE hooks[a]]
  /\ lock' = FALSE
  /\ pc' = "store"
  /\ UNCHANGED <<next, code, prot, probed, offset, mem, built, tramp, otherVars>>

(* install! stores what install_hook returned.                             *)
Store ==
  /\ Installing("store")
  /\ tramp' = [tramp EXCEPT ![Target] = built]
  /\ next' = next + 1 /\ pc' = "lock"
  /\ UNCHANGED <<lock, code, prot, probed, offset, mem, built, hooks, otherVars>>

(* Mutant: a hook that was refused is tried again.                         *)
Skip_Retries ==
  /\ Installing("skip")
  /\ lock' = FALSE /\ pc' = "lock"
  /\ UNCHANGED <<next, code, prot, probed, trampVars, tableVars, otherVars>>

(* install_hook returns Err, and install! writes "Hook skipped".           *)
Skip ==
  /\ Installing("skip")
  /\ IF Reaches(Write)
     THEN /\ lock' = FALSE
          /\ next' = next + 1 /\ pc' = "lock"
          /\ UNCHANGED <<code, prot, probed, trampVars, tableVars,
                         otherVars>>
     ELSE Crash("fault")

Install ==
  \/ Lock \/ CheckDuplicate \/ ProbeCached \/ ProbePage
  \/ OutOfTrampolines \/ OpenTrampoline \/ FillTrampoline \/ OpenStub \/ FillStub
  \/ UnprotectFails \/ Unprotect \/ WriteJump \/ Protect \/ Insert \/ Store
  \/ Skip

-----------------------------------------------------------------------------
(* The program's threads.                                                  *)

Installed == next > Len(Plan)

Threaded == mode = "attach" \/ Installed

Thread(t, s) == crash = "none" /\ where[t].pc = s

Move(t, s) == where' = [where EXCEPT ![t].pc = s] /\ UNCHANGED <<mode, installVars, crash>>

(* t calls f: its first instruction, or the jump that replaced it.         *)
Enter(t, f) ==
  /\ Threaded
  /\ Thread(t, "out") /\ Executable(f)
  /\ where' = [where EXCEPT ![t] = [Out EXCEPT !.f = f,
       !.pc = CASE code[f] = "original" -> "prologue"
                [] code[f] = "jump" /\ f \in Full -> "thunk"
                [] code[f] = "jump" /\ f \notin Full -> "handler"]]
  /\ UNCHANGED <<mode, installVars, crash>>

(* The rest of the first 16 bytes, as t found them when it entered.        *)
RunPrologue(t) ==
  /\ Thread(t, "prologue") /\ Executable(where[t].f) /\ code[where[t].f] = "original"
  /\ Move(t, "body")

RunBody(t) ==
  /\ Thread(t, "body") /\ Executable(where[t].f)
  /\ where' = [where EXCEPT ![t] = Out]
  /\ UNCHANGED <<mode, installVars, crash>>

(* The handler forwards to what its TRAMP_* holds.                         *)
RunHandler(t) ==
  /\ Thread(t, "handler")
  /\ where' = [where EXCEPT ![t].pc = "trampoline", ![t].at = tramp[where[t].f]]
  /\ UNCHANGED <<mode, installVars, crash>>

(* hook_dispatcher waits for the mutex of HOOKS and finds the hook by its  *)
(* trampoline's address, which the stub loaded.                            *)
RunDispatcher(t) ==
  /\ Thread(t, "thunk") /\ ~lock
  /\ \E a \in DOMAIN hooks :
       /\ hooks[a] = where[t].f
       /\ where' = [where EXCEPT ![t].pc = "trampoline", ![t].at = a]
  /\ UNCHANGED <<mode, installVars, crash>>

RunTrampoline(t) ==
  /\ Thread(t, "trampoline") /\ Forwards(where[t].f, where[t].at)
  /\ Move(t, "body")

(* Code that is not executable, was replaced half-way, or is not there.    *)
Faults(t) ==
  /\ \/ Thread(t, "prologue") /\ (~Executable(where[t].f) \/ code[where[t].f] = "jump")
     \/ Thread(t, "body") /\ ~Executable(where[t].f)
     \/ Thread(t, "trampoline") /\ ~Forwards(where[t].f, where[t].at)
     \/ Thread(t, "out") /\ Threaded /\ \E f \in Funcs : ~Executable(f)
  /\ Crash("fault")

Run(t) ==
  \/ \E f \in Funcs : Enter(t, f)
  \/ RunPrologue(t) \/ RunBody(t) \/ RunHandler(t) \/ RunDispatcher(t)
  \/ RunTrampoline(t) \/ Faults(t)

Crashed == crash # "none" /\ UNCHANGED vars

Next == Install \/ (\E t \in Threads : Run(t)) \/ Crashed

(* The constructor runs to its end, and so does a thread inside a function.*)
Spec == Init /\ [][Next]_vars /\ WF_vars(Install)

-----------------------------------------------------------------------------
(* Properties.                                                             *)

Verdicts == UNION {[P -> BOOLEAN] : P \in SUBSET Pages}

TypeOK ==
  /\ mode \in Modes
  /\ pc \in {"lock", "duplicate", "probe", "build", "fill", "stub", "fillstub",
             "reprobe", "unprotect", "write", "protect", "insert", "store", "skip"}
  /\ next \in 1 .. Len(Plan) + 1
  /\ lock \in BOOLEAN
  /\ code \in [Funcs -> {"original", "jump"}]
  /\ prot \in [Pages \cup {TrampPage} -> {"rx", "rw"}]
  /\ probed \in Verdicts
  /\ offset \in 0 .. PageSize
  /\ mem \subseteq [at : 0 .. PageSize, len : Nat, f : Funcs,
                    bytes : {"original", "jump", "stub"}]
  /\ built \in 0 .. PageSize + 1
  /\ DOMAIN hooks \subseteq 0 .. PageSize /\ \A a \in DOMAIN hooks : hooks[a] \in Funcs
  /\ tramp \in [Funcs -> 0 .. PageSize + 1]
  /\ where \in [Threads -> [pc : {"out", "prologue", "body", "handler", "thunk",
                                  "trampoline"},
                            f : Funcs, at : 0 .. PageSize + 1]]
  /\ crash \in {"none", "fault", "panic"}

(* Launch mode never brings the program down: neither the installer, which *)
(* forks and writes through hooks it has just made, nor a thread that      *)
(* calls a hooked function afterwards executes a page that is not          *)
(* executable or a trampoline that is not there (lib.rs:103-135,           *)
(* hook/manager.rs:28-85).                                                 *)
NeverFaults == mode = "launch" => crash # "fault"

(* No byte of a page that refuses writes is ever written: the verdict is   *)
(* reached in a child, kept per page, and asked for again before the write *)
(* (hook/mod.rs:45-60, 108).                                               *)
SealedUntouched == crash = "none" /\ pc = "write" => Page \notin Sealed

(* Whenever the table is unlocked it lists the functions that carry a jump *)
(* and no others, each once: a hook that fails half-way leaves nothing     *)
(* behind (hook/manager.rs:73-82).                                         *)
TableMatchesCode ==
  ~lock => /\ {hooks[a] : a \in DOMAIN hooks} = {f \in Funcs : code[f] = "jump"}
           /\ \A a, b \in DOMAIN hooks : hooks[a] = hooks[b] => a = b

(* Whatever a handler may jump to re-executes the original bytes of its    *)
(* own function: a trampoline is never built from a jump, and nothing      *)
(* written later overlaps it (hook/manager.rs:31-46, allocator.rs:31-36).  *)
TrampolinesIntact ==
  /\ \A f \in Funcs : tramp[f] # NoAddr => Intact(tramp[f], f)
  /\ \A a \in DOMAIN hooks : Intact(a, hooks[a])

-----------------------------------------------------------------------------
(* The inductive invariant from which the safety properties follow.        *)

Hooked == {hooks[a] : a \in DOMAIN hooks}

(* A trampoline for f was written at a.                                    *)
Copied(a, f) == \E m \in mem : m.at = a /\ m.f = f /\ m.bytes = "original"

Patched == {"protect", "insert"}
Built   == {"stub", "fillstub", "reprobe", "unprotect", "write"} \cup Patched

(* What was written to the trampoline page lies below the offset, each     *)
(* piece clear of the others, and so does the piece about to be written.   *)
MemoryInv ==
  /\ \A m \in mem : m.len >= BranchBack /\ m.at + m.len <= offset
  /\ \A m, o \in mem : m # o => o.at + o.len <= m.at \/ m.at + m.len <= o.at
  /\ pc = "fill" =>
       /\ built + Relocated[Target] + BranchBack = offset
       /\ \A m \in mem : m.at + m.len <= built
  /\ pc = "fillstub" =>
       /\ StubSize <= offset
       /\ \A m \in mem : m.at + m.len <= offset - StubSize

(* Between the write of a jump and the entry in the table, and only there, *)
(* a function carries a jump and is not in the table.                      *)
TableInv ==
  /\ lock <=> pc \notin {"lock", "store"}
  /\ pc # "lock" => next <= Len(Plan)
  /\ \A a, b \in DOMAIN hooks : hooks[a] = hooks[b] => a = b
  /\ \A a \in DOMAIN hooks : code[hooks[a]] = "jump" /\ Copied(a, hooks[a])
  /\ \A f \in Funcs :
       code[f] = "jump" => f \in Hooked \/ (f = Target /\ pc \in Patched)
  /\ pc \in {"probe", "build", "fill"} \cup Built => Target \notin Hooked
  /\ pc \in Patched => code[Target] = "jump"
  /\ pc \in Built => Copied(built, Target)
  /\ pc = "store" => built \in DOMAIN hooks /\ hooks[built] = Target

(* A TRAMP_* that is set leads to a trampoline; the one of a function that *)
(* carries a jump is set as soon as install! is done with it.              *)
ForwardInv ==
  \A f \in Funcs :
    /\ tramp[f] # NoAddr => Copied(tramp[f], f)
    /\ code[f] = "jump" =>
         tramp[f] # NoAddr \/ (f = Target /\ pc \in Patched \cup {"store"})

(* Only a page whose probe succeeded is worked on, and a page is writable  *)
(* only while it is written to.                                            *)
PageInv ==
  /\ \A p \in DOMAIN probed : probed[p] => p \notin Sealed
  /\ pc \in {"build", "fill", "stub", "fillstub", "reprobe", "unprotect", "write"} =>
       Page \notin Sealed
  /\ \A p \in Pages : prot[p] = "rw" => p = Page /\ pc \in {"write", "protect"}
  /\ prot[TrampPage] = "rw" => pc \in {"fill", "fillstub"}

(* In launch mode the threads find the code as the constructor left it.    *)
LaunchInv ==
  mode = "launch" =>
    /\ crash # "fault"
    /\ ~Installed => \A t \in Threads : where[t].pc = "out"
    /\ \A t \in Threads :
         /\ where[t].pc = "prologue" => code[where[t].f] = "original"
         /\ where[t].pc = "handler" => code[where[t].f] = "jump"
         /\ where[t].pc = "trampoline" => Copied(where[t].at, where[t].f)

HookInv == TypeOK /\ MemoryInv /\ TableInv /\ ForwardInv /\ PageInv /\ LaunchInv

-----------------------------------------------------------------------------
(* The constructor gets through its list, with or without the hooks.       *)
Settles == <>(Installed \/ crash # "none")

(* What the repository says and the code does not do.                      *)

(* "detour target; forwards via $tramp" (lib.rs:710): a handler that runs  *)
(* has a trampoline to forward to.                                         *)
HandlersForward ==
  \A t \in Threads : where[t].pc = "trampoline" => where[t].at # NoAddr

=============================================================================
