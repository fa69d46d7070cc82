-------------------------- MODULE HookInstallProofs --------------------------
(***************************************************************************)
(* What HookInstall guarantees for every list of hooks, layout of pages,   *)
(* size of the trampoline page and of the cache, and number of threads.    *)
(* HookInv is inductive; the safety properties of the installer follow.    *)
(***************************************************************************)
EXTENDS HookInstall, TLAPS

USE DEF BranchBack, StubSize, TrampPage, NoAddr

(* What the installer works on while it works.                             *)
LEMMA TargetType ==
  ASSUME TypeOK, next <= Len(Plan)
  PROVE  /\ next \in 1 .. Len(Plan)
         /\ Target \in Funcs /\ Page \in Pages
         /\ Relocated[Target] \in Nat
         /\ next + 1 \in 1 .. Len(Plan) + 1
<1>1. Plan \in Seq(Funcs) /\ Len(Plan) \in Nat /\ next \in 1 .. Len(Plan)
  BY PlanAssumption DEF TypeOK
<1>2. Target \in Funcs
  BY <1>1 DEF Target
<1>. QED  BY <1>1, <1>2, PageAssumption, LimitAssumption DEF Page

(* The verdicts of the cache, with one more.                               *)
LEMMA RememberType ==
  ASSUME TypeOK, next <= Len(Plan), NEW ok \in BOOLEAN, Remember(ok)
  PROVE  /\ probed' \in Verdicts
         /\ \A p \in DOMAIN probed' :
              probed'[p] => (p \in DOMAIN probed /\ probed[p]) \/ (p = Page /\ ok)
<1>1. PICK P \in SUBSET Pages : probed \in [P -> BOOLEAN]
  BY DEF TypeOK, Verdicts
<1>2. CASE probed' = probed
  BY <1>1, <1>2 DEF TypeOK
<1>3. CASE probed' = [p \in DOMAIN probed \cup {Page} |-> IF p = Page THEN ok ELSE probed[p]]
  <2>1. P \cup {Page} \in SUBSET Pages
    BY TargetType
  <2>2. probed' \in [P \cup {Page} -> BOOLEAN]
    BY <1>1, <1>3
  <2>. QED  BY <1>1, <1>3, <2>1, <2>2 DEF Verdicts
<1>. QED  BY <1>2, <1>3 DEF Remember

(* Nothing that was written is hit by a later piece, so whatever was       *)
(* copied once can be executed.                                            *)
LEMMA CopiedIntact ==
  ASSUME MemoryInv, NEW a, NEW f, Copied(a, f)
  PROVE  Intact(a, f)
  BY DEF MemoryInv, Copied, Intact

(* While the constructor works the threads of a launched program have not  *)
(* begun.                                                                  *)
LEMMA LaunchKept ==
  ASSUME LaunchInv, next <= Len(Plan), next \in Nat, Len(Plan) \in Nat,
         UNCHANGED otherVars
  PROVE  LaunchInv'
<1>. SUFFICES ASSUME mode = "launch" PROVE LaunchInv'
  BY DEF LaunchInv, otherVars
<1>1. crash # "fault" /\ \A t \in Threads : where[t].pc = "out"
  BY DEF LaunchInv, Installed
<1>. QED  BY <1>1 DEF LaunchInv, otherVars

(* A step that changes neither the code, nor the table, nor what handlers  *)
(* and trampolines hold, in a place where nothing is half done.            *)
Calm == {"lock", "duplicate", "probe", "skip"}

LEMMA CalmStep ==
  ASSUME HookInv, NEW s \in {"lock", "duplicate", "probe", "reprobe", "unprotect", "skip"},
         Installing(s), pc' \in Calm,
         UNCHANGED <<code, prot, probed, trampVars, tableVars, otherVars>>,
         next' \in {next, next + 1}, pc' # "lock" => next' = next,
         lock' \in BOOLEAN, lock' <=> pc' # "lock",
         pc' = "probe" => Target \notin Hooked
  PROVE  HookInv'
<1>1. pc = s /\ next <= Len(Plan) /\ crash = "none"
  BY DEF Installing
<1>2. /\ next \in 1 .. Len(Plan) /\ next + 1 \in 1 .. Len(Plan) + 1
      /\ Len(Plan) \in Nat
  BY <1>1, TargetType, PlanAssumption DEF HookInv
<1>3. pc \notin Patched \cup {"store", "fill", "fillstub"}
  BY <1>1 DEF Patched
<1>4. TypeOK'
  BY <1>1, <1>2 DEF HookInv, TypeOK, Calm, trampVars, tableVars, otherVars
<1>5. MemoryInv'
  BY DEF HookInv, MemoryInv, Calm, trampVars
<1>6. TableInv'
  <2>1. Hooked' = Hooked /\ \A a, f : Copied(a, f) => Copied(a, f)'
    BY DEF Hooked, Copied, trampVars, tableVars
  <2>2. \A f \in Funcs : code[f] = "jump" => f \in Hooked
    BY <1>1, <1>3 DEF HookInv, TableInv
  <2>3. \A a \in DOMAIN hooks : code[hooks[a]] = "jump" /\ Copied(a, hooks[a])
    BY DEF HookInv, TableInv
  <2>4. \A a, b \in DOMAIN hooks : hooks[a] = hooks[b] => a = b
    BY DEF HookInv, TableInv
  <2>5. pc' = "probe" => Target' \notin Hooked'
    BY <2>1 DEF Target, Calm
  <2>. QED  BY <1>1, <2>1, <2>2, <2>3, <2>4, <2>5
            DEF TableInv, Patched, Built, Calm, trampVars, tableVars
<1>7. ForwardInv'
  BY <1>1, <1>3 DEF HookInv, ForwardInv, Copied, Patched, Calm, Target, trampVars, tableVars
<1>8. PageInv'
  BY <1>1, <1>3 DEF HookInv, PageInv, Calm
<1>9. LaunchInv'
  BY <1>1, <1>2, LaunchKept DEF HookInv
<1>. QED  BY <1>4, <1>5, <1>6, <1>7, <1>8, <1>9 DEF HookInv

(* A step of build_trampoline, of the stub or of overwrite_with_jump       *)
(* before the write: the code and the table stay, trampolines are added.   *)
Work == {"probe", "build", "fill", "stub", "fillstub", "reprobe", "unprotect", "write"}

LEMMA WorkStep ==
  ASSUME HookInv, NEW s \in Work, Installing(s), pc' \in Work,
         mem \subseteq mem', pc' \in Built => Copied(built, Target)',
         UNCHANGED <<next, lock, code, tableVars, otherVars>>
  PROVE  TableInv' /\ ForwardInv' /\ LaunchInv'
<1>1. pc \in Work /\ next <= Len(Plan)
  BY DEF Installing
<1>2. Hooked' = Hooked /\ Target' = Target /\ \A a, f : Copied(a, f) => Copied(a, f)'
  BY DEF Hooked, Target, Copied, tableVars
<1>3. pc \notin Patched \cup {"lock", "store"} /\ pc' \notin Patched \cup {"lock", "store"}
  BY <1>1 DEF Work, Patched
<1>4. TableInv'
  <2>1. lock /\ Target \notin Hooked
    BY <1>1 DEF HookInv, TableInv, Work, Built
  <2>2. /\ \A a, b \in DOMAIN hooks : hooks[a] = hooks[b] => a = b
        /\ \A a \in DOMAIN hooks : code[hooks[a]] = "jump" /\ Copied(a, hooks[a])
        /\ \A f \in Funcs : code[f] = "jump" => f \in Hooked
    BY <1>3 DEF HookInv, TableInv
  <2>. QED  BY <1>1, <1>2, <1>3, <2>1, <2>2 DEF TableInv, tableVars
<1>5. ForwardInv'
  BY <1>2, <1>3 DEF HookInv, ForwardInv, tableVars
<1>6. LaunchInv'
  BY <1>1, TargetType, PlanAssumption, LaunchKept DEF HookInv
<1>. QED  BY <1>4, <1>5, <1>6

-----------------------------------------------------------------------------
(* install_hook, step by step.                                             *)

LEMMA LockInv ==
  ASSUME HookInv, Lock
  PROVE  HookInv'
<1>. USE DEF Lock
<1>. QED  BY CalmStep DEF Calm

LEMMA CheckDuplicateInv ==
  ASSUME HookInv, CheckDuplicate
  PROVE  HookInv'
<1>1. pc = "duplicate" /\ lock' = lock /\ pc' \in {"probe", "skip"}
  BY DEF CheckDuplicate, Installing
<1>2. pc' = "probe" => Target \notin Hooked
  BY DEF CheckDuplicate, Duplicates, Hooked
<1>3. lock' \in BOOLEAN /\ (lock' <=> pc' # "lock")
  BY <1>1 DEF HookInv, TypeOK, TableInv
<1>. QED  BY <1>1, <1>2, <1>3, CalmStep DEF CheckDuplicate, Calm

(* A probe has given its verdict, which holds for the page.                *)
LEMMA VerdictInv ==
  ASSUME HookInv, Probing, NEW ok \in BOOLEAN, Verdict(ok), ok => Page \notin Sealed,
         probed' \in Verdicts, \A p \in DOMAIN probed' : probed'[p] => p \notin Sealed,
         UNCHANGED <<next, lock, code, prot, trampVars, tableVars, otherVars>>
  PROVE  HookInv'
<1>1. /\ pc \in {"probe", "reprobe"} /\ next <= Len(Plan)
      /\ pc' = CASE ~ok -> "skip" [] ok /\ pc = "probe" -> "build"
                 [] ok /\ pc = "reprobe" -> "unprotect"
  BY DEF Probing, Installing, Verdict
<1>2. pc' \in {"skip", "build", "unprotect"} /\ (pc' # "skip" => Page \notin Sealed)
  BY <1>1
<1>3. TypeOK'
  BY <1>2 DEF HookInv, TypeOK, trampVars, tableVars, otherVars
<1>4. MemoryInv'
  BY <1>2 DEF HookInv, MemoryInv, trampVars
<1>5. PageInv'
  BY <1>1, <1>2 DEF HookInv, PageInv, Page, Target
<1>6. CASE pc' # "skip"
  <2>1. pc' \in Built => Copied(built, Target)'
    BY <1>1, <1>6 DEF HookInv, TableInv, Built, Copied, Target, Patched, trampVars
  <2>. QED  BY <1>1, <1>2, <1>3, <1>4, <1>5, <1>6, <2>1, WorkStep
            DEF Work, Probing, HookInv, trampVars
<1>7. CASE pc' = "skip"
  <2>1. /\ lock' \in BOOLEAN /\ lock'
        /\ \A f \in Funcs : code[f] = "jump" => f \in Hooked
        /\ \A a, b \in DOMAIN hooks : hooks[a] = hooks[b] => a = b
        /\ \A a \in DOMAIN hooks : code[hooks[a]] = "jump" /\ Copied(a, hooks[a])
    BY <1>1 DEF HookInv, TypeOK, TableInv, Patched
  <2>2. TableInv'
    BY <1>1, <1>7, <2>1 DEF TableInv, Hooked, Copied, Patched, Built, trampVars, tableVars
  <2>3. ForwardInv'
    BY <1>1 DEF HookInv, ForwardInv, Copied, Patched, trampVars, tableVars
  <2>4. LaunchInv'
    BY <1>1, TargetType, PlanAssumption, LaunchKept DEF HookInv
  <2>. QED  BY <1>3, <1>4, <1>5, <2>2, <2>3, <2>4 DEF HookInv
<1>. QED  BY <1>6, <1>7

LEMMA ProbeCachedInv ==
  ASSUME HookInv, ProbeCached
  PROVE  HookInv'
<1>1. Page \in DOMAIN probed /\ Verdict(probed[Page]) /\ Probing
  BY DEF ProbeCached
<1>2. probed[Page] \in BOOLEAN
  BY <1>1 DEF HookInv, TypeOK, Verdicts
<1>3. probed[Page] => Page \notin Sealed
  BY <1>1 DEF HookInv, PageInv
<1>. QED  BY <1>1, <1>2, <1>3, VerdictInv DEF ProbeCached, HookInv, TypeOK, PageInv

(* The process dies; everything else stays.                                *)
LEMMA CrashInv ==
  ASSUME HookInv, NEW how \in {"fault", "panic"}, Crash(how),
         how = "fault" => mode # "launch"
  PROVE  HookInv'
<1>1. TypeOK'
  BY DEF HookInv, TypeOK, Crash, installVars
<1>2. MemoryInv' /\ TableInv' /\ ForwardInv' /\ PageInv'
  BY DEF HookInv, MemoryInv, TableInv, ForwardInv, PageInv, Hooked, Copied, Page, Target,
         Crash, installVars
<1>3. LaunchInv'
  BY DEF HookInv, LaunchInv, Installed, Copied, Crash, installVars
<1>. QED  BY <1>1, <1>2, <1>3 DEF HookInv

(* A hooked function the installer calls itself answers, whenever no page  *)
(* is open and no hook is half made.                                       *)
LEMMA ReachesKept ==
  ASSUME HookInv, NEW f \in Funcs, pc \in {"probe", "reprobe", "skip"}
  PROVE  Reaches(f)
<1>1. Executable(f)
  <2>1. PageOf[f] \in Pages /\ prot[PageOf[f]] \in {"rx", "rw"}
    BY PageAssumption DEF HookInv, TypeOK
  <2>. QED  BY <2>1 DEF HookInv, PageInv, Executable
<1>2. ASSUME code[f] = "jump" PROVE Forwards(f, tramp[f])
  <2>1. tramp[f] # NoAddr
    BY <1>2 DEF HookInv, ForwardInv, Patched
  <2>2. Intact(tramp[f], f)
    BY <2>1, CopiedIntact DEF HookInv, ForwardInv
  <2>3. prot[TrampPage] = "rx"
    BY DEF HookInv, TypeOK, PageInv
  <2>. QED  BY <2>2, <2>3 DEF Forwards
<1>. QED  BY <1>1, <1>2 DEF Reaches

LEMMA ProbePageInv ==
  ASSUME HookInv, ProbePage
  PROVE  HookInv'
<1>1. /\ pc \in {"probe", "reprobe"} /\ next <= Len(Plan) /\ Probing
      /\ TypeOK
  BY DEF ProbePage, Probing, Installing, HookInv
<1>2. Reaches(Fork)
  BY <1>1, ReachesKept, PlanAssumption
<1>3. PICK ok \in {Page \notin Sealed, FALSE} : Verdict(ok) /\ Remember(ok)
  BY <1>2 DEF ProbePage
<1>4. ok \in BOOLEAN /\ (ok => Page \notin Sealed)
  BY <1>3
<1>5. /\ probed' \in Verdicts
      /\ \A p \in DOMAIN probed' : probed'[p] => (p \in DOMAIN probed /\ probed[p]) \/ (p = Page /\ ok)
  BY <1>1, <1>3, <1>4, RememberType
<1>6. \A p \in DOMAIN probed' : probed'[p] => p \notin Sealed
  BY <1>4, <1>5 DEF HookInv, PageInv
<1>. QED  BY <1>1, <1>2, <1>3, <1>4, <1>5, <1>6, VerdictInv DEF ProbePage

LEMMA OpenTrampolineInv ==
  ASSUME HookInv, OpenTrampoline
  PROVE  HookInv'
<1>1. /\ pc = "build" /\ next <= Len(Plan)
      /\ built' = offset /\ offset' = offset + Relocated[Target] + BranchBack
      /\ offset + (Relocated[Target] + BranchBack) <= PageSize
      /\ prot' = [prot EXCEPT ![TrampPage] = "rw"] /\ pc' = "fill"
      /\ UNCHANGED <<next, lock, code, probed, mem, tableVars, otherVars>>
  BY DEF OpenTrampoline, Installing, Fits
<1>2. Relocated[Target] \in Nat /\ offset \in 0 .. PageSize /\ PageSize \in Nat
  BY <1>1, TargetType, LimitAssumption DEF HookInv, TypeOK
<1>3. /\ offset' \in 0 .. PageSize /\ built' \in 0 .. PageSize + 1
      /\ offset <= offset'
  BY <1>1, <1>2
<1>4. TypeOK'
  BY <1>1, <1>3, PageAssumption DEF HookInv, TypeOK, tableVars, otherVars
<1>5. MemoryInv'
  <2>1. \A m \in mem : m.at \in Nat /\ m.len \in Nat
    BY <1>2 DEF HookInv, TypeOK
  <2>2. \A m \in mem : m.len >= BranchBack /\ m.at + m.len <= offset
    BY DEF HookInv, MemoryInv
  <2>3. built' + Relocated[Target] + BranchBack = offset' /\ Target' = Target
    BY <1>1, <1>2 DEF Target
  <2>. QED  BY <1>1, <1>2, <1>3, <2>1, <2>2, <2>3, SMTT(30) DEF HookInv, MemoryInv
<1>6. PageInv'
  BY <1>1, PageAssumption DEF HookInv, TypeOK, PageInv, Page, Target
<1>7. TableInv' /\ ForwardInv' /\ LaunchInv'
  BY <1>1, WorkStep DEF OpenTrampoline, Work, Built, Patched
<1>. QED  BY <1>4, <1>5, <1>6, <1>7 DEF HookInv

(* The piece that was made room for is written.                            *)
LEMMA FillMemory ==
  ASSUME HookInv, NEW at \in 0 .. PageSize, NEW len \in Nat, NEW f \in Funcs,
         NEW bytes \in {"original", "jump", "stub"},
         len >= BranchBack, at + len <= offset,
         \A m \in mem : m.at + m.len <= at,
         mem' = mem \cup {[at |-> at, len |-> len, f |-> f, bytes |-> bytes]},
         offset' = offset, pc' \notin {"fill", "fillstub"}
  PROVE  /\ MemoryInv'
         /\ mem' \subseteq [at : 0 .. PageSize, len : Nat, f : Funcs,
                            bytes : {"original", "jump", "stub"}]
<1>1. /\ \A m \in mem : m.len >= BranchBack /\ m.at + m.len <= offset
      /\ \A m, o \in mem : m # o => o.at + o.len <= m.at \/ m.at + m.len <= o.at
  BY DEF HookInv, MemoryInv
<1>2. mem \subseteq [at : 0 .. PageSize, len : Nat, f : Funcs,
                     bytes : {"original", "jump", "stub"}]
  BY DEF HookInv, TypeOK
<1>. DEFINE new == [at |-> at, len |-> len, f |-> f, bytes |-> bytes]
<1>3. /\ new \in [at : 0 .. PageSize, len : Nat, f : Funcs, bytes : {"original", "jump", "stub"}]
      /\ new.at = at /\ new.len = len
  OBVIOUS
<1>4. mem' = mem \cup {new}
  OBVIOUS
<1>. HIDE DEF new
<1>5. MemoryInv'
  BY <1>1, <1>3, <1>4 DEF MemoryInv
<1>. QED  BY <1>2, <1>3, <1>4, <1>5

LEMMA FillTrampolineInv ==
  ASSUME HookInv, FillTrampoline
  PROVE  HookInv'
<1>. DEFINE new == [at |-> built, len |-> Relocated[Target] + BranchBack, f |-> Target,
                    bytes |-> code[Target]]
<1>1. /\ pc = "fill" /\ next <= Len(Plan) /\ mem' = mem \cup {new}
      /\ prot' = [prot EXCEPT ![TrampPage] = "rx"]
      /\ pc' \in {"stub", "reprobe"}
      /\ UNCHANGED <<next, lock, code, probed, offset, built, tableVars, otherVars>>
  BY DEF FillTrampoline, Installing
<1>2. /\ Relocated[Target] \in Nat /\ Target \in Funcs /\ PageSize \in Nat
      /\ offset \in 0 .. PageSize /\ built \in 0 .. PageSize + 1
      /\ built + Relocated[Target] + BranchBack = offset
      /\ \A m \in mem : m.at + m.len <= built
  BY <1>1, TargetType, LimitAssumption DEF HookInv, TypeOK, MemoryInv
<1>3. code[Target] = "original"
  BY <1>1, <1>2 DEF HookInv, TypeOK, TableInv, Patched
<1>4. /\ built \in 0 .. PageSize /\ Relocated[Target] + BranchBack \in Nat
      /\ Relocated[Target] + BranchBack >= BranchBack
      /\ built + (Relocated[Target] + BranchBack) <= offset
  BY <1>2
<1>5. /\ MemoryInv'
      /\ mem' \subseteq [at : 0 .. PageSize, len : Nat, f : Funcs,
                         bytes : {"original", "jump", "stub"}]
  BY <1>1, <1>2, <1>3, <1>4, FillMemory
<1>6. TypeOK'
  BY <1>1, <1>5, PageAssumption DEF HookInv, TypeOK, tableVars, otherVars
<1>7. PageInv'
  BY <1>1, PageAssumption DEF HookInv, TypeOK, PageInv, Page, Target
<1>8. Copied(built, Target)'
  <2>1. new \in mem' /\ new.at = built /\ new.f = Target /\ new.bytes = "original"
    BY <1>1, <1>3
  <2>. QED  BY <1>1, <2>1 DEF Copied, Target
<1>9. TableInv' /\ ForwardInv' /\ LaunchInv'
  BY <1>1, <1>8, WorkStep DEF FillTrampoline, Work
<1>. QED  BY <1>5, <1>6, <1>7, <1>9 DEF HookInv

LEMMA OpenStubInv ==
  ASSUME HookInv, OpenStub
  PROVE  HookInv'
<1>1. /\ pc = "stub" /\ next <= Len(Plan)
      /\ offset' = offset + StubSize /\ offset + StubSize <= PageSize
      /\ prot' = [prot EXCEPT ![TrampPage] = "rw"] /\ pc' = "fillstub"
      /\ UNCHANGED <<next, lock, code, probed, mem, built, tableVars, otherVars>>
  BY DEF OpenStub, Installing, Fits
<1>2. offset \in 0 .. PageSize /\ PageSize \in Nat
  BY LimitAssumption DEF HookInv, TypeOK
<1>3. offset' \in 0 .. PageSize
  BY <1>1, <1>2
<1>4. TypeOK'
  BY <1>1, <1>3, PageAssumption DEF HookInv, TypeOK, tableVars, otherVars
<1>5. MemoryInv'
  <2>1. \A m \in mem : m.at \in Nat /\ m.len \in Nat
    BY <1>2 DEF HookInv, TypeOK
  <2>. QED  BY <1>1, <1>2, <2>1 DEF HookInv, MemoryInv
<1>6. PageInv'
  BY <1>1, PageAssumption DEF HookInv, TypeOK, PageInv, Page, Target
<1>7. Copied(built, Target)'
  BY <1>1 DEF HookInv, TableInv, Built, Copied, Target
<1>8. TableInv' /\ ForwardInv' /\ LaunchInv'
  BY <1>1, <1>7, WorkStep DEF OpenStub, Work
<1>. QED  BY <1>4, <1>5, <1>6, <1>8 DEF HookInv

LEMMA FillStubInv ==
  ASSUME HookInv, FillStub
  PROVE  HookInv'
<1>1. /\ pc = "fillstub" /\ next <= Len(Plan)
      /\ mem' = mem \cup {[at |-> offset - StubSize, len |-> StubSize, f |-> Target,
                           bytes |-> "stub"]}
      /\ prot' = [prot EXCEPT ![TrampPage] = "rx"] /\ pc' = "reprobe"
      /\ UNCHANGED <<next, lock, code, probed, offset, built, tableVars, otherVars>>
  BY DEF FillStub, Installing
<1>2. /\ Target \in Funcs /\ PageSize \in Nat /\ offset \in 0 .. PageSize
      /\ StubSize <= offset
      /\ \A m \in mem : m.at + m.len <= offset - StubSize
  BY <1>1, TargetType, LimitAssumption DEF HookInv, TypeOK, MemoryInv
<1>3. /\ offset - StubSize \in 0 .. PageSize /\ StubSize >= BranchBack
      /\ offset - StubSize + StubSize <= offset /\ StubSize \in Nat
  BY <1>2
<1>4. /\ MemoryInv'
      /\ mem' \subseteq [at : 0 .. PageSize, len : Nat, f : Funcs,
                         bytes : {"original", "jump", "stub"}]
  BY <1>1, <1>2, <1>3, FillMemory
<1>5. TypeOK'
  BY <1>1, <1>4, PageAssumption DEF HookInv, TypeOK, tableVars, otherVars
<1>6. PageInv'
  BY <1>1, PageAssumption DEF HookInv, TypeOK, PageInv, Page, Target
<1>7. Copied(built, Target)'
  BY <1>1 DEF HookInv, TableInv, Built, Copied, Target
<1>8. TableInv' /\ ForwardInv' /\ LaunchInv'
  BY <1>1, <1>7, WorkStep DEF FillStub, Work
<1>. QED  BY <1>4, <1>5, <1>6, <1>8 DEF HookInv

LEMMA UnprotectInv ==
  ASSUME HookInv, Unprotect
  PROVE  HookInv'
<1>1. /\ pc = "unprotect" /\ next <= Len(Plan)
      /\ prot' = [prot EXCEPT ![Page] = "rw"] /\ pc' = "write"
      /\ UNCHANGED <<next, lock, code, probed, trampVars, tableVars, otherVars>>
  BY DEF Unprotect, Installing
<1>2. TypeOK'
  BY <1>1 DEF HookInv, TypeOK, trampVars, tableVars, otherVars
<1>3. MemoryInv'
  BY <1>1 DEF HookInv, MemoryInv, trampVars
<1>4. PageInv'
  <2>1. Page' = Page /\ Page \in Pages /\ Page # TrampPage
    BY <1>1, TargetType, PageAssumption DEF HookInv, Page, Target
  <2>2. /\ \A p \in Pages : prot'[p] = "rw" => p = Page
        /\ prot'[TrampPage] # "rw"
    BY <1>1, <2>1, PageAssumption DEF HookInv, TypeOK, PageInv
  <2>. QED  BY <1>1, <2>1, <2>2 DEF HookInv, PageInv
<1>5. Copied(built, Target)'
  BY <1>1 DEF HookInv, TableInv, Built, Copied, Target, trampVars
<1>6. TableInv' /\ ForwardInv' /\ LaunchInv'
  BY <1>1, <1>5, WorkStep DEF Unprotect, Work, trampVars
<1>. QED  BY <1>2, <1>3, <1>4, <1>6 DEF HookInv

(* The function carries the jump, and is not in the table yet.             *)
LEMMA WriteJumpInv ==
  ASSUME HookInv, WriteJump
  PROVE  HookInv'
<1>1. /\ pc = "write" /\ next <= Len(Plan)
      /\ code' = [code EXCEPT ![Target] = "jump"] /\ pc' = "protect"
      /\ UNCHANGED <<next, lock, prot, probed, trampVars, tableVars, otherVars>>
  BY DEF WriteJump, Installing
<1>2. /\ Target \in Funcs /\ Target' = Target /\ Hooked' = Hooked
      /\ \A a, f : Copied(a, f)' <=> Copied(a, f)
      /\ code \in [Funcs -> {"original", "jump"}]
  BY <1>1, TargetType DEF HookInv, TypeOK, Target, Hooked, Copied, trampVars, tableVars
<1>3. TypeOK'
  BY <1>1, <1>2 DEF HookInv, TypeOK, trampVars, tableVars, otherVars
<1>4. MemoryInv'
  BY <1>1 DEF HookInv, MemoryInv, trampVars
<1>5. TableInv'
  <2>1. /\ lock /\ Target \notin Hooked /\ Copied(built, Target)
        /\ \A a, b \in DOMAIN hooks : hooks[a] = hooks[b] => a = b
        /\ \A a \in DOMAIN hooks : code[hooks[a]] = "jump" /\ Copied(a, hooks[a])
        /\ \A f \in Funcs : code[f] = "jump" => f \in Hooked
    BY <1>1 DEF HookInv, TableInv, Built, Patched
  <2>2. \A f \in Funcs : f # Target => code'[f] = code[f]
    BY <1>1, <1>2
  <2>3. code'[Target] = "jump"
    BY <1>1, <1>2
  <2>4. \A a \in DOMAIN hooks : hooks[a] \in Funcs /\ code'[hooks[a]] = "jump"
    BY <2>1, <2>2, <2>3 DEF HookInv, TypeOK
  <2>. QED  BY <1>1, <1>2, <2>1, <2>2, <2>3, <2>4
            DEF TableInv, Built, Patched, trampVars, tableVars
<1>6. ForwardInv'
  BY <1>1, <1>2 DEF HookInv, ForwardInv, Patched, tableVars
<1>7. PageInv'
  BY <1>1, <1>2 DEF HookInv, PageInv, Page
<1>8. LaunchInv'
  BY <1>1, TargetType, PlanAssumption, LaunchKept DEF HookInv
<1>. QED  BY <1>3, <1>4, <1>5, <1>6, <1>7, <1>8 DEF HookInv

LEMMA ProtectInv ==
  ASSUME HookInv, Protect
  PROVE  HookInv'
<1>1. /\ pc = "protect" /\ next <= Len(Plan)
      /\ prot' = [prot EXCEPT ![Page] = "rx"] /\ pc' = "insert"
      /\ UNCHANGED <<next, lock, code, probed, trampVars, tableVars, otherVars>>
  BY DEF Protect, Installing
<1>2. /\ Target' = Target /\ Hooked' = Hooked
      /\ \A a, f : Copied(a, f)' <=> Copied(a, f)
  BY <1>1 DEF Target, Hooked, Copied, trampVars, tableVars
<1>3. TypeOK'
  BY <1>1 DEF HookInv, TypeOK, trampVars, tableVars, otherVars
<1>4. MemoryInv'
  BY <1>1 DEF HookInv, MemoryInv, trampVars
<1>5. TableInv'
  BY <1>1, <1>2 DEF HookInv, TableInv, Built, Patched, trampVars, tableVars
<1>6. ForwardInv'
  BY <1>1, <1>2 DEF HookInv, ForwardInv, Patched, tableVars
<1>7. PageInv'
  <2>1. Page' = Page /\ Page \in Pages /\ Page # TrampPage
    BY <1>1, TargetType, PageAssumption DEF HookInv, Page, Target
  <2>2. /\ \A p \in Pages : prot'[p] # "rw"
        /\ prot'[TrampPage] # "rw"
    BY <1>1, <2>1, PageAssumption DEF HookInv, TypeOK, PageInv
  <2>. QED  BY <1>1, <2>1, <2>2 DEF HookInv, PageInv
<1>8. LaunchInv'
  BY <1>1, TargetType, PlanAssumption, LaunchKept DEF HookInv
<1>. QED  BY <1>3, <1>4, <1>5, <1>6, <1>7, <1>8 DEF HookInv

(* A trampoline that was just built is not in the table: two trampolines   *)
(* of different functions do not lie at one address.                       *)
LEMMA BuiltIsNew ==
  ASSUME HookInv, next <= Len(Plan), pc \in Built
  PROVE  built \notin DOMAIN hooks
<1>. SUFFICES ASSUME built \in DOMAIN hooks PROVE FALSE
  OBVIOUS
<1>1. Copied(built, Target) /\ Copied(built, hooks[built]) /\ hooks[built] # Target
  BY DEF HookInv, TableInv, Hooked
<1>2. PICK m \in mem : m.at = built /\ m.f = Target
  BY <1>1 DEF Copied
<1>3. PICK o \in mem : o.at = built /\ o.f = hooks[built]
  BY <1>1 DEF Copied
<1>4. /\ m # o /\ m.at \in Nat /\ m.len \in Nat /\ o.len \in Nat /\ o.at \in Nat
      /\ m.len >= BranchBack /\ o.len >= BranchBack
  <2>1. m # o
    BY <1>1, <1>2, <1>3
  <2>2. m.at \in 0 .. PageSize /\ o.at \in 0 .. PageSize /\ m.len \in Nat /\ o.len \in Nat
    BY DEF HookInv, TypeOK
  <2>. QED  BY <2>1, <2>2, LimitAssumption DEF HookInv, MemoryInv
<1>5. o.at + o.len <= m.at \/ m.at + m.len <= o.at
  BY <1>4 DEF HookInv, MemoryInv
<1>. QED  BY <1>2, <1>3, <1>4, <1>5

LEMMA InsertInv ==
  ASSUME HookInv, Insert
  PROVE  HookInv'
<1>1. /\ pc = "insert" /\ next <= Len(Plan)
      /\ hooks' = [a \in DOMAIN hooks \cup {built} |-> IF a = built THEN Target ELSE hooks[a]]
      /\ lock' = FALSE /\ pc' = "store"
      /\ UNCHANGED <<next, code, prot, probed, offset, mem, built, tramp, otherVars>>
  BY DEF Insert, Installing
<1>2. /\ Target \in Funcs /\ Target' = Target
      /\ \A a, f : Copied(a, f)' <=> Copied(a, f)
  BY <1>1, TargetType DEF HookInv, Target, Copied
<1>3. /\ built \notin DOMAIN hooks /\ Copied(built, Target) /\ Target \notin Hooked
      /\ code[Target] = "jump"
  BY <1>1, BuiltIsNew DEF HookInv, TableInv, Built, Patched
<1>4. built \in 0 .. PageSize
  <2>1. \A m \in mem : m.at \in 0 .. PageSize
    BY DEF HookInv, TypeOK
  <2>. QED  BY <1>3, <2>1 DEF Copied
<1>5. /\ DOMAIN hooks' = DOMAIN hooks \cup {built}
      /\ hooks'[built] = Target
      /\ \A a \in DOMAIN hooks : hooks'[a] = hooks[a]
  BY <1>1, <1>3
<1>6. TypeOK'
  <2>1. DOMAIN hooks' \subseteq 0 .. PageSize /\ \A a \in DOMAIN hooks' : hooks'[a] \in Funcs
    BY <1>2, <1>4, <1>5 DEF HookInv, TypeOK
  <2>. QED  BY <1>1, <2>1 DEF HookInv, TypeOK, otherVars
<1>7. MemoryInv'
  BY <1>1 DEF HookInv, MemoryInv
<1>8. TableInv'
  <2>1. \A a \in DOMAIN hooks : hooks[a] # Target
    BY <1>3 DEF Hooked
  <2>2. \A a, b \in DOMAIN hooks' : hooks'[a] = hooks'[b] => a = b
    BY <1>5, <2>1 DEF HookInv, TableInv
  <2>3. \A a \in DOMAIN hooks' : code[hooks'[a]] = "jump" /\ Copied(a, hooks'[a])
    BY <1>3, <1>5 DEF HookInv, TableInv
  <2>4. \A f \in Funcs : code[f] = "jump" => f \in Hooked'
    <3>1. \A f \in Funcs : code[f] = "jump" => f \in Hooked \/ f = Target
      BY DEF HookInv, TableInv
    <3>. QED  BY <1>5, <3>1 DEF Hooked
  <2>. QED  BY <1>1, <1>2, <1>5, <2>2, <2>3, <2>4 DEF TableInv, Built, Patched
<1>9. ForwardInv'
  BY <1>1, <1>2 DEF HookInv, ForwardInv, Patched
<1>10. PageInv'
  BY <1>1 DEF HookInv, PageInv
<1>11. LaunchInv'
  BY <1>1, TargetType, PlanAssumption, LaunchKept DEF HookInv
<1>. QED  BY <1>6, <1>7, <1>8, <1>9, <1>10, <1>11 DEF HookInv

LEMMA StoreInv ==
  ASSUME HookInv, Store
  PROVE  HookInv'
<1>1. /\ pc = "store" /\ next <= Len(Plan)
      /\ tramp' = [tramp EXCEPT ![Target] = built]
      /\ next' = next + 1 /\ pc' = "lock"
      /\ UNCHANGED <<lock, code, prot, probed, offset, mem, built, hooks, otherVars>>
  BY DEF Store, Installing
<1>2. /\ Target \in Funcs /\ next' \in 1 .. Len(Plan) + 1
      /\ \A a, f : Copied(a, f)' <=> Copied(a, f)
      /\ Hooked' = Hooked
      /\ tramp \in [Funcs -> 0 .. PageSize + 1]
  BY <1>1, TargetType DEF HookInv, TypeOK, Copied, Hooked
<1>3. built \in DOMAIN hooks /\ Copied(built, Target) /\ built \in 0 .. PageSize
  BY <1>1 DEF HookInv, TypeOK, TableInv
<1>4. built # NoAddr /\ built \in 0 .. PageSize + 1
  BY <1>3, LimitAssumption
<1>5. TypeOK'
  BY <1>1, <1>2, <1>4 DEF HookInv, TypeOK, otherVars
<1>6. MemoryInv'
  BY <1>1 DEF HookInv, MemoryInv
<1>7. TableInv'
  BY <1>1, <1>2 DEF HookInv, TableInv, Built, Patched
<1>8. ForwardInv'
  BY <1>1, <1>2, <1>3, <1>4 DEF HookInv, ForwardInv, Patched
<1>9. PageInv'
  BY <1>1 DEF HookInv, PageInv
<1>10. LaunchInv'
  BY <1>1, TargetType, PlanAssumption, LaunchKept DEF HookInv
<1>. QED  BY <1>5, <1>6, <1>7, <1>8, <1>9, <1>10 DEF HookInv

(* The ways out that leave the function as it was.                         *)
LEMMA UnprotectFailsInv ==
  ASSUME HookInv, UnprotectFails
  PROVE  HookInv'
<1>1. pc = "unprotect" /\ pc' = "skip" /\ lock' = lock
  BY DEF UnprotectFails, Installing
<1>2. lock' \in BOOLEAN /\ (lock' <=> pc' # "lock")
  BY <1>1 DEF HookInv, TypeOK, TableInv
<1>. QED  BY <1>1, <1>2, CalmStep DEF UnprotectFails, Calm

LEMMA SkipInv ==
  ASSUME HookInv, Skip
  PROVE  HookInv'
<1>1. pc = "skip" /\ Reaches(Write)
  BY ReachesKept, PlanAssumption DEF Skip, Installing
<1>. QED  BY <1>1, CalmStep DEF Skip, Calm

LEMMA OutOfTrampolinesInv ==
  ASSUME HookInv, OutOfTrampolines
  PROVE  HookInv'
  BY CrashInv DEF OutOfTrampolines

LEMMA InstallInv ==
  ASSUME HookInv, Install
  PROVE  HookInv'
  BY LockInv, CheckDuplicateInv, ProbeCachedInv, ProbePageInv, OutOfTrampolinesInv,
     OpenTrampolineInv, FillTrampolineInv, OpenStubInv, FillStubInv, UnprotectFailsInv,
     UnprotectInv, WriteJumpInv, ProtectInv, InsertInv, StoreInv, SkipInv
  DEF Install

-----------------------------------------------------------------------------
(* The threads of the program change nothing but where they are.           *)

Places == [pc : {"out", "prologue", "body", "handler", "thunk", "trampoline"},
           f : Funcs, at : 0 .. PageSize + 1]

(* t goes to w, where it may be in launch mode.                            *)
LEMMA ThreadStep ==
  ASSUME HookInv, NEW t \in Threads, NEW w \in Places,
         where' = [where EXCEPT ![t] = w],
         UNCHANGED <<mode, installVars, crash>>,
         mode = "launch" /\ ~Installed => w.pc = "out",
         w.pc = "prologue" => code[w.f] = "original",
         w.pc = "handler" => code[w.f] = "jump",
         w.pc = "trampoline" /\ mode = "launch" => Copied(w.at, w.f)
  PROVE  HookInv'
<1>1. where' \in [Threads -> Places] /\ where'[t] = w
      /\ \A u \in Threads : u # t => where'[u] = where[u]
  BY DEF HookInv, TypeOK, Places
<1>2. TypeOK'
  BY <1>1 DEF HookInv, TypeOK, Places, installVars
<1>3. MemoryInv' /\ TableInv' /\ ForwardInv' /\ PageInv'
  BY DEF HookInv, MemoryInv, TableInv, ForwardInv, PageInv, Hooked, Copied, Page, Target,
         installVars
<1>4. LaunchInv'
  <2>. SUFFICES ASSUME mode = "launch" PROVE LaunchInv'
    BY DEF LaunchInv
  <2>1. code' = code /\ crash' = crash /\ mode' = mode /\ (Installed' <=> Installed)
        /\ \A a, f : Copied(a, f)' <=> Copied(a, f)
    BY DEF installVars, Installed, Copied
  <2>2. LaunchInv
    BY DEF HookInv
  <2>. QED  BY <1>1, <2>1, <2>2 DEF LaunchInv
<1>. QED  BY <1>2, <1>3, <1>4 DEF HookInv

LEMMA PlaceTypes ==
  ASSUME HookInv, NEW t \in Threads
  PROVE  /\ where[t] \in Places /\ where[t].f \in Funcs
         /\ where[t].pc \in {"out", "prologue", "body", "handler", "thunk", "trampoline"}
         /\ where[t].at \in 0 .. PageSize + 1
         /\ mode = "launch" /\ where[t].pc # "out" => Installed
<1>1. where[t] \in Places
  BY DEF HookInv, TypeOK, Places
<1>. QED  BY <1>1 DEF HookInv, LaunchInv, Places

(* Only pc changes.                                                        *)
LEMMA MovePlace ==
  ASSUME HookInv, NEW t \in Threads,
         NEW s \in {"out", "prologue", "body", "handler", "thunk", "trampoline"}
  PROVE  /\ [where[t] EXCEPT !.pc = s] \in Places
         /\ [where[t] EXCEPT !.pc = s].pc = s
         /\ [where EXCEPT ![t].pc = s] = [where EXCEPT ![t] = [where[t] EXCEPT !.pc = s]]
<1>1. where[t] \in Places
  BY PlaceTypes
<1>. QED  BY <1>1 DEF Places

LEMMA EnterInv ==
  ASSUME HookInv, NEW t \in Threads, NEW f \in Funcs, Enter(t, f)
  PROVE  HookInv'
<1>. DEFINE s == CASE code[f] = "original" -> "prologue"
                   [] code[f] = "jump" /\ f \in Full -> "thunk"
                   [] code[f] = "jump" /\ f \notin Full -> "handler"
            w == [Out EXCEPT !.f = f, !.pc = s]
<1>1. /\ Threaded /\ where' = [where EXCEPT ![t] = w]
      /\ UNCHANGED <<mode, installVars, crash>>
  BY DEF Enter
<1>2. code[f] \in {"original", "jump"}
  BY DEF HookInv, TypeOK
<1>3. /\ s \in {"prologue", "thunk", "handler"}
      /\ s = "prologue" => code[f] = "original"
      /\ s = "handler" => code[f] = "jump"
  BY <1>2
<1>. HIDE DEF s
<1>4. Out \in Places
  BY PlanAssumption, LimitAssumption DEF Out, Places
<1>5. w \in Places /\ w.pc = s /\ w.f = f
  BY <1>3, <1>4 DEF Places
<1>6. mode = "launch" => Installed
  BY <1>1 DEF Threaded
<1>. QED  BY <1>1, <1>3, <1>5, <1>6, ThreadStep

LEMMA RunPrologueInv ==
  ASSUME HookInv, NEW t \in Threads, RunPrologue(t)
  PROVE  HookInv'
<1>. DEFINE w == [where[t] EXCEPT !.pc = "body"]
<1>1. where[t].pc = "prologue" /\ UNCHANGED <<mode, installVars, crash>>
      /\ where' = [where EXCEPT ![t] = w]
  BY MovePlace DEF RunPrologue, Thread, Move
<1>2. w \in Places /\ w.pc = "body"
  BY MovePlace
<1>3. mode = "launch" => Installed
  BY <1>1, PlaceTypes
<1>. HIDE DEF w
<1>. QED  BY <1>1, <1>2, <1>3, ThreadStep

LEMMA RunBodyInv ==
  ASSUME HookInv, NEW t \in Threads, RunBody(t)
  PROVE  HookInv'
<1>1. where' = [where EXCEPT ![t] = Out] /\ UNCHANGED <<mode, installVars, crash>>
  BY DEF RunBody
<1>2. Out \in Places /\ Out.pc = "out"
  BY PlanAssumption, LimitAssumption DEF Out, Places
<1>. QED  BY <1>1, <1>2, ThreadStep

(* In launch mode the handler's TRAMP_* is set.                            *)
LEMMA RunHandlerInv ==
  ASSUME HookInv, NEW t \in Threads, RunHandler(t)
  PROVE  HookInv'
<1>. DEFINE f == where[t].f
            w == [where[t] EXCEPT !.pc = "trampoline", !.at = tramp[f]]
<1>1. /\ where[t].pc = "handler"
      /\ where' = [where EXCEPT ![t].pc = "trampoline", ![t].at = tramp[f]]
      /\ UNCHANGED <<mode, installVars, crash>>
  BY DEF RunHandler, Thread
<1>2. where[t] \in Places /\ f \in Funcs /\ tramp[f] \in 0 .. PageSize + 1
  BY PlaceTypes DEF HookInv, TypeOK
<1>3. /\ w \in Places /\ w.pc = "trampoline" /\ w.at = tramp[f] /\ w.f = f
      /\ where' = [where EXCEPT ![t] = w]
  BY <1>1, <1>2 DEF Places
<1>4. ASSUME mode = "launch" PROVE Installed /\ Copied(tramp[f], f)
  <2>1. Installed /\ code[f] = "jump"
    BY <1>1, <1>4, PlaceTypes DEF HookInv, LaunchInv
  <2>2. pc = "lock"
    BY <2>1, PlanAssumption DEF Installed, HookInv, TableInv, TypeOK
  <2>3. tramp[f] # NoAddr
    BY <1>2, <2>1, <2>2 DEF HookInv, ForwardInv, Patched
  <2>. QED  BY <1>2, <2>1, <2>3 DEF HookInv, ForwardInv
<1>. HIDE DEF w
<1>. QED  BY <1>1, <1>3, <1>4, ThreadStep

LEMMA RunDispatcherInv ==
  ASSUME HookInv, NEW t \in Threads, RunDispatcher(t)
  PROVE  HookInv'
<1>1. where[t].pc = "thunk" /\ UNCHANGED <<mode, installVars, crash>>
  BY DEF RunDispatcher, Thread
<1>2. PICK a \in DOMAIN hooks :
        /\ hooks[a] = where[t].f
        /\ where' = [where EXCEPT ![t].pc = "trampoline", ![t].at = a]
  BY DEF RunDispatcher
<1>. DEFINE w == [where[t] EXCEPT !.pc = "trampoline", !.at = a]
<1>3. where[t] \in Places /\ a \in 0 .. PageSize + 1
  BY PlaceTypes, LimitAssumption, SMTT(30) DEF HookInv, TypeOK
<1>4. /\ w \in Places /\ w.pc = "trampoline" /\ w.at = a /\ w.f = where[t].f
      /\ where' = [where EXCEPT ![t] = w]
  BY <1>2, <1>3 DEF Places
<1>5. Copied(a, where[t].f)
  BY <1>2 DEF HookInv, TableInv
<1>6. mode = "launch" => Installed
  BY <1>1, PlaceTypes
<1>. HIDE DEF w
<1>. QED  BY <1>1, <1>4, <1>5, <1>6, ThreadStep

LEMMA RunTrampolineInv ==
  ASSUME HookInv, NEW t \in Threads, RunTrampoline(t)
  PROVE  HookInv'
<1>. DEFINE w == [where[t] EXCEPT !.pc = "body"]
<1>1. where[t].pc = "trampoline" /\ UNCHANGED <<mode, installVars, crash>>
      /\ where' = [where EXCEPT ![t] = w]
  BY MovePlace DEF RunTrampoline, Thread, Move
<1>2. w \in Places /\ w.pc = "body"
  BY MovePlace
<1>3. mode = "launch" => Installed
  BY <1>1, PlaceTypes
<1>. HIDE DEF w
<1>. QED  BY <1>1, <1>2, <1>3, ThreadStep

(* A thread of a launched program finds every page executable and every    *)
(* trampoline in its place.                                                *)
LEMMA FaultsInv ==
  ASSUME HookInv, NEW t \in Threads, Faults(t)
  PROVE  HookInv'
<1>1. Crash("fault")
  BY DEF Faults
<1>2. ASSUME mode = "launch" PROVE FALSE
  <2>1. Installed
    BY <1>2, PlaceTypes DEF Faults, Thread, Threaded
  <2>2. pc = "lock"
    BY <2>1, PlanAssumption DEF Installed, HookInv, TableInv, TypeOK
  <2>3. \A f \in Funcs : Executable(f)
    <3>1. \A f \in Funcs : PageOf[f] \in Pages /\ prot[PageOf[f]] \in {"rx", "rw"}
      BY PageAssumption DEF HookInv, TypeOK
    <3>. QED  BY <2>2, <3>1 DEF HookInv, PageInv, Executable
  <2>4. where[t].f \in Funcs /\ where[t].pc = "prologue" => code[where[t].f] = "original"
    BY <1>2, PlaceTypes DEF HookInv, LaunchInv
  <2>5. where[t].pc = "trampoline" => Forwards(where[t].f, where[t].at)
    <3>1. where[t].pc = "trampoline" => Intact(where[t].at, where[t].f)
      BY <1>2, CopiedIntact DEF HookInv, LaunchInv
    <3>2. prot[TrampPage] = "rx"
      BY <2>2 DEF HookInv, TypeOK, PageInv
    <3>. QED  BY <3>1, <3>2 DEF Forwards
  <2>. QED  BY <2>3, <2>4, <2>5, PlaceTypes DEF Faults, Thread
<1>. QED  BY <1>1, <1>2, CrashInv

-----------------------------------------------------------------------------

LEMMA InitInv == Init => HookInv
<1>. SUFFICES ASSUME Init PROVE HookInv
  OBVIOUS
<1>1. TypeOK
  <2>1. 1 \in 1 .. Len(Plan) + 1 /\ Len(Plan) \in Nat
    BY PlanAssumption
  <2>2. [p \in {} |-> TRUE] \in Verdicts
    <3>1. \A P \in SUBSET Pages : [p \in P |-> TRUE] \in [P -> BOOLEAN]
      OBVIOUS
    <3>2. \A P \in SUBSET Pages : [p \in P |-> TRUE] \in Verdicts
      BY <3>1 DEF Verdicts
    <3>. QED  BY <3>2
  <2>3. Out \in Places
    BY PlanAssumption, LimitAssumption DEF Out, Places
  <2>4. 0 \in 0 .. PageSize /\ NoAddr \in 0 .. PageSize + 1
    BY LimitAssumption
  <2>5. DOMAIN hooks = {}
    BY DEF Init
  <2>6. /\ where \in [Threads -> Places] /\ tramp \in [Funcs -> 0 .. PageSize + 1]
        /\ code \in [Funcs -> {"original", "jump"}]
        /\ prot \in [Pages \cup {TrampPage} -> {"rx", "rw"}]
    BY <2>3, <2>4 DEF Init
  <2>7. probed \in Verdicts
    BY <2>2 DEF Init
  <2>. QED  BY <2>1, <2>4, <2>5, <2>6, <2>7, LimitAssumption DEF Init, TypeOK, Places
<1>2. MemoryInv
  BY DEF Init, MemoryInv
<1>3. TableInv
  BY DEF Init, TableInv, Patched, Built
<1>4. ForwardInv
  BY DEF Init, ForwardInv
<1>5. PageInv
  BY DEF Init, PageInv
<1>6. LaunchInv
  BY DEF Init, LaunchInv, Out
<1>. QED  BY <1>1, <1>2, <1>3, <1>4, <1>5, <1>6 DEF HookInv

LEMMA NextInv ==
  ASSUME HookInv, [Next]_vars
  PROVE  HookInv'
<1>1. CASE Install
  BY <1>1, InstallInv
<1>2. ASSUME NEW t \in Threads, Run(t) PROVE HookInv'
  BY <1>2, EnterInv, RunPrologueInv, RunBodyInv, RunHandlerInv, RunDispatcherInv,
     RunTrampolineInv, FaultsInv
  DEF Run
<1>3. CASE UNCHANGED vars
  <2>1. TypeOK' /\ MemoryInv'
    BY <1>3 DEF HookInv, TypeOK, MemoryInv, Target, vars, installVars
  <2>2. TableInv' /\ ForwardInv' /\ PageInv'
    BY <1>3 DEF HookInv, TableInv, ForwardInv, PageInv, Hooked, Copied, Page, Target,
                vars, installVars
  <2>3. LaunchInv'
    BY <1>3 DEF HookInv, LaunchInv, Installed, Copied, vars, installVars
  <2>. QED  BY <2>1, <2>2, <2>3 DEF HookInv
<1>. QED  BY <1>1, <1>2, <1>3 DEF Next, Crashed

(* The invariant of the installation holds for every list of hooks.        *)
THEOREM HookInvariant == Spec => []HookInv
<1>1. HookInv /\ [Next]_vars => HookInv'
  BY NextInv
<1>. QED  BY InitInv, <1>1, PTL DEF Spec

(* A launched program is not brought down by its hooks (lib.rs:103-135,    *)
(* hook/manager.rs:28-85).                                                 *)
THEOREM LaunchNeverFaults == Spec => []NeverFaults
<1>1. HookInv => NeverFaults
  BY DEF HookInv, LaunchInv, NeverFaults
<1>. QED  BY <1>1, HookInvariant, PTL

(* Pages that refuse writes are not written (hook/mod.rs:45-60, 108).      *)
THEOREM SealedStayUntouched == Spec => []SealedUntouched
<1>1. HookInv => SealedUntouched
  BY DEF HookInv, PageInv, SealedUntouched
<1>. QED  BY <1>1, HookInvariant, PTL

(* Whenever the table is unlocked it lists the functions that carry a      *)
(* jump, each once (hook/manager.rs:73-82).                                *)
THEOREM TableAlwaysMatches == Spec => []TableMatchesCode
<1>1. HookInv => TableMatchesCode
  <2>. SUFFICES ASSUME HookInv, ~lock PROVE TableMatchesCode
    BY DEF TableMatchesCode
  <2>1. pc \in {"lock", "store"}
    BY DEF HookInv, TableInv
  <2>2. Hooked \subseteq {f \in Funcs : code[f] = "jump"}
    BY DEF HookInv, TypeOK, TableInv, Hooked
  <2>3. {f \in Funcs : code[f] = "jump"} \subseteq Hooked
    BY <2>1 DEF HookInv, TableInv, Patched
  <2>. QED  BY <2>2, <2>3 DEF HookInv, TableInv, TableMatchesCode, Hooked
<1>. QED  BY <1>1, HookInvariant, PTL

(* Every trampoline in use re-executes its own function's original bytes,  *)
(* however large the relocated prologues and whatever was written later    *)
(* (hook/manager.rs:31-46, allocator.rs:31-36).                            *)
THEOREM TrampolinesStayIntact == Spec => []TrampolinesIntact
<1>1. HookInv => TrampolinesIntact
  BY CopiedIntact DEF HookInv, ForwardInv, TableInv, TrampolinesIntact
<1>. QED  BY <1>1, HookInvariant, PTL
=============================================================================
