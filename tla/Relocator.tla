------------------------------ MODULE Relocator ------------------------------
(***************************************************************************)
(* What a hook does to the first instructions of a function: the           *)
(* classifier and the relocator (src/src/hook/trampoline/disasm.rs,        *)
(* relocator.rs, builder.rs), the jump and the stub                        *)
(* (src/src/hook/manager.rs), and their copy in the code that a compiled   *)
(* probe carries (src/src/script/compiler.rs), which prefers a one-word    *)
(* branch.                                                                 *)
(*                                                                         *)
(* A behaviour runs the untouched prologue, installs the hook, and runs    *)
(* the function again through its trampoline; the two runs must agree.     *)
(***************************************************************************)
EXTENDS Arm64, SequencesExt

CONSTANTS
  F,          \* the hooked function
  Trampoline, \* where the trampoline is written
  Thunk,      \* hook_thunk
  Windows,    \* prologues: sequences of four words
  Stubs,      \* where the harness' allocate_near may put its stub
  MaxSteps    \* bound: instructions of one run

ASSUME WindowAssumption == Windows \subseteq [1 .. 4 -> Words]

(* No run through four words and what became of them is as long.           *)
ASSUME StepsAssumption == MaxSteps \in Nat /\ MaxSteps >= 30

(* What the hook writes lies in pages mapped for it, the thunk in the      *)
(* dylib: apart from the function and from each other.                     *)
Room(at, n) == {Plus(at, 4 * i) : i \in 0 .. n - 1}

Fresh == Room(Trampoline, 32) \cup {Thunk} \cup UNION {Room(s, 7) : s \in Stubs}

ASSUME LayoutAssumption ==
  /\ {F, Trampoline, Thunk} \cup Stubs \subseteq Addresses /\ Stubs # {}
  /\ \A a \in {F} \cup Stubs : a.off % 4 = 0
  /\ Room(F, 5) \cap Fresh = {} /\ Thunk \notin Room(Trampoline, 32)
  /\ \A s \in Stubs : Room(s, 7) \cap (Room(Trampoline, 32) \cup {Thunk}) = {}

(* A program does not branch to, or take the address of, memory that was   *)
(* not mapped when it was written.                                         *)
ASSUME FreshAssumption ==
  \A words \in Windows, i \in 1 .. 4 :
    LET pc == Plus(F, 4 * (i - 1)) IN
    /\ words[i].hi \in Branches => Target(words[i], pc) \notin Fresh
    /\ words[i].hi \in ADR \cup ADRP => Pointer(words[i], pc) \notin Fresh

VARIABLES
  builder,  \* "engine" (src/src/hook) or "harness" (a compiled probe)
  window,   \* the words of the prologue
  stub,     \* the address of the hook's stub
  yes,      \* the outcome of every test in the run
  phase,    \* "original", "install", "hooked", "done" or "panic"
  org,      \* the core that runs the prologue as it was
  new,      \* the core that runs it hooked
  mem       \* the segments the hook writes: the function, stub, trampoline

chosen == <<builder, window, stub, yes>>
vars   == <<chosen, phase, org, new, mem>>

-----------------------------------------------------------------------------
(* The classifier: tests on the top bits.                                  *)

IsPcRelative_NoAdrp(w) ==
  \/ w.hi \div 4 \in {5, 37}
  \/ w.hi = 84
  \/ (w.hi \div 2) % 64 \in {26, 27}
  \/ w.hi % 32 = 16 /\ w.hi < 128
  \/ w.hi % 64 \in {24, 28}

(* b and bl, b.cond, cbz and tbz, adr and adrp, ldr literal.               *)
IsPcRelative(w) ==
  \/ w.hi \div 4 \in {5, 37}
  \/ w.hi = 84
  \/ (w.hi \div 2) % 64 \in {26, 27}
  \/ w.hi % 32 = 16
  \/ w.hi % 64 \in {24, 28}

(* The harness tests adr and adrp with one mask.                           *)
IsPcRelativeCopy(w) ==
  \/ w.hi % 32 = 16
  \/ w.hi \div 4 \in {5, 37}
  \/ w.hi = 84
  \/ (w.hi \div 2) % 64 \in {26, 27}
  \/ w.hi % 64 \in {24, 28}

(* imm | high bits, when its top bit is set.                               *)
SignExtend(imm, top) ==
  IF (imm \div top) % 2 = 1 THEN imm - 2 * top ELSE imm

-----------------------------------------------------------------------------
(* The words both builders write, by the registers they name.              *)
LdrX16(words) == Word(88, 32 * words + 16)
LdrX17(words) == Word(88, 32 * words + 17)
LdrX30(words) == Word(88, 32 * words + 30)
BrX16  == Word(214, 2031616 + 512)
BrX17  == Word(214, 2031616 + 544)
SkipDword == Word(20, 3)
Ret    == Word(214, 6226880)

Instructions(words) == [i \in DOMAIN words |-> Insn(words[i])]

JumpVia(ldr, br, v) == Instructions(<<ldr, br>>) \o Dword(v)

JumpTo16(v) == JumpVia(LdrX16(2), BrX16, v)

Imm19Target(w, pc) ==
  Plus(pc, 4 * SignExtend((w.lo \div 32) % 2^19, 2^18))

RelocateAdr(w, pc) ==
  LET imm == SignExtend(((w.lo \div 32) % 2^19) * 4 + ((w.hi \div 32) % 4), 2^20)
      target == IF w.hi >= 128 THEN Address(pc.page + imm, 0) ELSE Plus(pc, imm)
  IN  Instructions(<<Word(88, 64 + Rd(w)), SkipDword>>) \o Dword(AddrV(target))

RelocateBranch_NoElse(w, pc) ==
  LET target == AddrV(Plus(pc, 4 * SignExtend((w.hi % 4) * 2^24 + w.lo, 2^25)))
  IN  JumpTo16(target) \o Instructions(<<LdrX30(3), LdrX16(4), BrX16>>)
        \o Dword(AddrV(Plus(pc, 4))) \o Dword(target)

RelocateBranch(w, pc) ==
  LET imm == SignExtend((w.hi % 4) * 2^24 + w.lo, 2^25)
      target == AddrV(Plus(pc, 4 * imm))
  IN  IF w.hi < 128 THEN JumpTo16(target)
      ELSE Instructions(<<LdrX30(3), LdrX16(4), BrX16>>)
             \o Dword(AddrV(Plus(pc, 4))) \o Dword(target)

(* The opposite test, over a jump of 16 bytes.                             *)
Around(inverse, target) == <<Insn(inverse)>> \o JumpTo16(AddrV(target))

RelocateCond(w, pc) ==
  Around(Word(84, 160 + 2 * (Cond(w) \div 2) + 1 - (Cond(w) % 2)),
         Imm19Target(w, pc))

Flip(hi) == IF hi % 2 = 0 THEN hi + 1 ELSE hi - 1

RelocateCbz(w, pc) ==
  Around(Word(Flip(w.hi), 160 + Rd(w)), Imm19Target(w, pc))

RelocateTbz_WideMask(w, pc) ==
  Around(Word(Flip(w.hi), 160 + Rd(w)),
         Plus(pc, 4 * SignExtend((w.lo \div 32) % 2^14, 2^13)))

(* The tested bit, above the 14 bits of the offset, stays.                 *)
RelocateTbz(w, pc) ==
  Around(Word(Flip(w.hi), (w.lo \div 2^19) * 2^19 + 160 + Rd(w)),
         Plus(pc, 4 * SignExtend((w.lo \div 32) % 2^14, 2^13)))

(* The eight bytes at the target, as they are now, travel with the load.   *)
RelocateLiteral(w, pc) ==
  Instructions(<<Word(w.hi, 64 + Rd(w)), SkipDword>>)
    \o Dword(MemV("mem", Imm19Target(w, pc), 8))

Unhandled == <<>>

(* relocate_instruction; the engine's panic is the empty sequence.         *)
Relocate(b, w, pc) ==
  LET special == IF b = "engine" THEN IsPcRelative(w) ELSE IsPcRelativeCopy(w)
  IN  CASE ~special                          -> <<Insn(w)>>
        [] w.hi % 32 = 16                    -> RelocateAdr(w, pc)
        [] w.hi \div 4 \in {5, 37}           -> RelocateBranch(w, pc)
        [] w.hi = 84                         -> RelocateCond(w, pc)
        [] (w.hi \div 2) % 64 = 26           -> RelocateCbz(w, pc)
        [] (w.hi \div 2) % 64 = 27           -> RelocateTbz(w, pc)
        [] w.hi % 64 \in {24, 28}            -> RelocateLiteral(w, pc)
        [] OTHER -> IF b = "engine" THEN Unhandled ELSE <<Insn(w)>>

-----------------------------------------------------------------------------
(* can_branch_26 and make_branch_26.                                       *)

CanBranch26(from, to) == Distance(to, from) \in -2^27 .. 2^27 - 4

MakeBranch26(from, to) ==
  LET imm == (Distance(to, from) \div 4) % 2^26
  IN  Word(20 + (imm \div 2^24), imm % 2^24)

(* The words the jump overwrites: four, or one when the stub is near.      *)
StolenLen == IF builder = "harness" /\ CanBranch26(F, stub) THEN 1 ELSE 4

Stolen == SubSeq(window, 1, StolenLen)

Moved == [i \in DOMAIN Stolen |-> Relocate(builder, Stolen[i], Plus(F, 4 * (i - 1)))]

Untouched == Segment(F, [i \in DOMAIN Stolen |-> Own(Stolen[i])])

(* Only the harness looks for a return among the stolen words.             *)
BranchBack ==
  IF builder = "harness" /\ Ret \in Range(Stolen) THEN <<>>
  ELSE JumpTo16(AddrV(Plus(F, 4 * StolenLen)))

BuildTrampoline == Segment(Trampoline, FlattenSeq(Moved) \o BranchBack)

(* ldr x16, #12; ldr x17, #16; br x17; the trampoline; the thunk.          *)
BuildStub ==
  Segment(stub, Instructions(<<LdrX16(3), LdrX17(4), BrX17>>)
                  \o Dword(AddrV(Trampoline)) \o Dword(AddrV(Thunk)))

OverwriteWithJump ==
  Segment(F, CASE builder = "engine" -> JumpTo16(AddrV(stub))
               [] StolenLen = 1      -> <<Insn(MakeBranch26(F, stub))>>
               [] OTHER              -> JumpVia(LdrX17(2), BrX17, AddrV(stub)))

-----------------------------------------------------------------------------
Init ==
  /\ builder \in {"engine", "harness"}
  /\ window \in Windows
  /\ stub \in IF builder = "engine" THEN {CHOOSE s \in Stubs : TRUE} ELSE Stubs
  /\ yes \in BOOLEAN
  /\ phase = "original"
  /\ org = Core(F) /\ new = Core(F)
  /\ mem = {}

(* One instruction of the function before anything touched it.             *)
RunOriginal ==
  /\ phase = "original"
  /\ org' = Step(org, {Untouched}, F, MaxSteps, yes)
  /\ phase' = IF org'.end = "" THEN "original" ELSE "install"
  /\ UNCHANGED <<chosen, new, mem>>

(* install_hook and raw_install_hook: trampoline, stub and jump.  Steps of *)
(* the installation that other threads may see are HookInstall's subject.  *)
Install ==
  /\ phase = "install"
  /\ IF Unhandled \in Range(Moved)
       THEN phase' = "panic" /\ UNCHANGED mem
       ELSE phase' = "hooked" /\ mem' = {BuildTrampoline, BuildStub, OverwriteWithJump}
  /\ UNCHANGED <<chosen, org, new>>

(* hook_thunk restores every register, puts the trampoline in x16 and      *)
(* branches there.                                                         *)
RunThunk == Go(Set(new, 16, AddrV(Trampoline)), Trampoline)

RunHooked ==
  /\ phase = "hooked"
  /\ new' = IF new.pc = Thunk THEN RunThunk ELSE Step(new, mem, F, MaxSteps, yes)
  /\ phase' = IF new'.end = "" THEN "hooked" ELSE "done"
  /\ UNCHANGED <<chosen, org, mem>>

Finished ==
  /\ phase \in {"done", "panic"}
  /\ UNCHANGED vars

Next == RunOriginal \/ Install \/ RunHooked \/ Finished

Spec == Init /\ [][Next]_vars

-----------------------------------------------------------------------------
(* Prologues the relocator does not promise to move.                       *)

(* One of the stolen words.  Not the first: a loop to the function's start *)
(* finds the jump there, and is a call of the hooked function again.       *)
Inside(a) == \E k \in 1 .. StolenLen - 1 : a = Plus(F, 4 * k)

(* A branch into the stolen words.                                         *)
BranchesInside ==
  \E i \in DOMAIN Stolen :
    /\ Stolen[i].hi \in Branches
    /\ Inside(Target(Stolen[i], Plus(F, 4 * (i - 1))))

(* A call before the last stolen word comes back into the jump.            *)
LinksInside == \E i \in 1 .. StolenLen - 1 : Stolen[i].hi \in BL

(* b.al and b.nv have no opposite; a 16-byte literal is copied by half.    *)
NoOpposite == \E w \in Range(Stolen) : w.hi \in BCond /\ Cond(w) >= 14
WideLiteral == \E w \in Range(Stolen) : w.hi \in LDR16

(* An address in the stolen words, for a register.                         *)
PointsInside ==
  \E i \in DOMAIN Stolen :
    /\ Stolen[i].hi \in ADR \cup ADRP
    /\ Inside(Pointer(Stolen[i], Plus(F, 4 * (i - 1))))

(* A test of, or a jump to, what the caller left in x16 or x17.            *)
Asks(w, r) ==
  \/ w.hi \in CBZ \cup CBNZ \cup TBZ \cup TBNZ /\ Rd(w) = r
  \/ (IsBr(w) \/ IsRet(w)) /\ Rn(w) = r
Writes(w, r) == w.hi \in ADR \cup ADRP \cup {24, 88, 152} /\ Rd(w) = r

ReadsScratch ==
  \E i \in DOMAIN Stolen, r \in {16, 17} :
    Asks(Stolen[i], r) /\ \A j \in 1 .. i - 1 : ~Writes(Stolen[j], r)

OutOfReach ==
  \/ BranchesInside \/ LinksInside \/ PointsInside
  \/ NoOpposite \/ WideLiteral \/ ReadsScratch

-----------------------------------------------------------------------------
(* What a run leaves: x16 and x17 belong to the linker's stubs.            *)
Effect(m) ==
  <<m.end, m.pc, m.log, [r \in DOMAIN m.x \ {16, 17} |-> m.x[r]]>>

(* The segments are well formed and the cores stay within their bounds; a  *)
(* trampoline has at most 28 bytes for each stolen word and 16 to return.  *)
TypeOK ==
  /\ Len(window) = 4 /\ yes \in BOOLEAN
  /\ phase \in {"original", "install", "hooked", "done", "panic"}
  /\ org.steps \in 0 .. MaxSteps /\ new.steps \in 0 .. MaxSteps
  /\ \A s \in mem : s.at = Trampoline => Len(s.cells) \in 1 .. 7 * StolenLen + 4

(* What a step preserves: both cores are cores, the words are words, and   *)
(* the panic for a word that no case moves has not happened                *)
(* (relocator.rs:150).                                                     *)
RelocatorInv ==
  /\ TypeOK
  /\ builder \in {"engine", "harness"} /\ window \in [1 .. 4 -> Words]
  /\ phase # "panic"
  /\ IsCore(org) /\ IsCore(new)

(* A hooked function does what it did: the same tests on the same values,  *)
(* the same calls and other instructions in order, the same registers, the *)
(* same way out (builder.rs, relocator.rs and the harness' copies).        *)
SameEffect ==
  phase = "done" /\ ~OutOfReach => Effect(new) = Effect(org)

(* Every encoding that depends on the pc is moved by a case of its own, no *)
(* other word is rewritten, and the engine's panic is unreachable.         *)
MovesWhatItMust ==
  /\ phase # "panic"
  /\ phase = "hooked" /\ new.steps = 0 =>
    \A i \in DOMAIN Stolen :
      (Moved[i] = <<Insn(Stolen[i])>>) = (Stolen[i].hi \notin PcRelative)

(* "re-executes stolen prologue instructions, then branches back into the  *)
(* original function" (src/src/hook/trampoline/builder.rs:5), of whatever  *)
(* the words are that a function begins with.                              *)
TrampolineReexecutes ==
  phase = "done" /\ builder = "engine" => Effect(new) = Effect(org)
=============================================================================
