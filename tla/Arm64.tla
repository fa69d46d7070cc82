--------------------------------- MODULE Arm64 ---------------------------------
(***************************************************************************)
(* The part of an ARM64 core that hooked prologues and trampolines use: an *)
(* architecture reference for Relocator, not code of this repository.      *)
(*                                                                         *)
(* A word is split at bit 24, which keeps every number small; an address   *)
(* is a 4 KiB page and an offset, as ADRP sees it.                         *)
(***************************************************************************)
EXTENDS Integers, Sequences, FiniteSetsExt

Word(hi, lo) == [hi |-> hi, lo |-> lo]
Words == [hi : 0 .. 255, lo : 0 .. 2^24 - 1]

Address(page, off) == [page |-> page, off |-> off]
Addresses == [page : Int, off : 0 .. 4095]

Plus(a, n) == Address(a.page + (a.off + n) \div 4096, (a.off + n) % 4096)

(* a - b, for addresses less than 2^30 apart.                              *)
Distance(a, b) == (a.page - b.page) * 4096 + a.off - b.off

Signed(n, bits) == IF n < 2^(bits - 1) THEN n ELSE n - 2^bits

(* Encodings that depend on the pc, by their top byte.                     *)
B == 20 .. 23
BL == 148 .. 151
BCond == {84}
CBZ == {52, 180}
CBNZ == {53, 181}
TBZ == {54, 182}
TBNZ == {55, 183}
ADR == {16, 48, 80, 112}
ADRP == {144, 176, 208, 240}
LDR4 == {24, 28}
LDR8 == {88, 92}
LDRSW == {152}
LDR16 == {156}
PRFM == {216}
NoLiteral == {220}
Literal == LDR4 \cup LDR8 \cup LDRSW \cup LDR16 \cup PRFM \cup NoLiteral
Branches == B \cup BL \cup BCond \cup CBZ \cup CBNZ \cup TBZ \cup TBNZ
PcRelative == Branches \cup ADR \cup ADRP \cup Literal

Imm26(w) == Signed((w.hi % 4) * 2^24 + w.lo, 26)
Imm19(w) == Signed(w.lo \div 32, 19)
Imm14(w) == Signed((w.lo \div 32) % 2^14, 14)
Imm21(w) == Signed((w.lo \div 32) * 4 + ((w.hi \div 32) % 4), 21)
Rd(w)    == w.lo % 32
Rn(w)    == (w.lo \div 32) % 32
Cond(w)  == w.lo % 16

(* Where a branch goes, and what adr and adrp compute.                     *)
Target(w, pc) ==
  Plus(pc, 4 * CASE w.hi \in B \cup BL     -> Imm26(w)
                 [] w.hi \in TBZ \cup TBNZ -> Imm14(w)
                 [] OTHER                  -> Imm19(w))

Pointer(w, pc) ==
  IF w.hi \in ADRP THEN Address(pc.page + Imm21(w), 0) ELSE Plus(pc, Imm21(w))

IsBr(w)  == w.hi = 214 /\ w.lo \div 2^16 = 31      \* br xn
IsRet(w) == w.hi = 214 /\ w.lo \div 2^16 = 95      \* ret xn

-----------------------------------------------------------------------------
(* Memory is a set of segments of 4-byte cells; what no segment covers is  *)
(* the rest of the program.  A cell holds an instruction, one the program  *)
(* came with (Own) or one written since (Insn), or half of a value.  A     *)
(* value is an address, the contents of memory there, what a register held *)
(* at the start, or the zero register.                                     *)

Own(w)        == [k |-> "own", w |-> w]
Insn(w)       == [k |-> "insn", w |-> w]
Data(v, half) == [k |-> "data", v |-> v, half |-> half]
Dword(v)      == <<Data(v, 0), Data(v, 1)>>
Segment(at, cells) == [at |-> at, cells |-> cells]

Nowhere  == Address(0, 0)
AddrV(a) == [k |-> "addr", a |-> a, n |-> 8]
MemV(kind, a, n) == [k |-> kind, a |-> a, n |-> n]
InitV(r) == [k |-> "init", a |-> Nowhere, n |-> r]

Holds(s, a) ==
  /\ a.page - s.at.page \in -1 .. 1
  /\ Distance(a, s.at) % 4 = 0
  /\ (Distance(a, s.at) \div 4) + 1 \in DOMAIN s.cells

Covered(mem, a) == \E s \in mem : Holds(s, a)

Cell(mem, a) ==
  LET s == CHOOSE s \in mem : Holds(s, a)
  IN  s.cells[(Distance(a, s.at) \div 4) + 1]

(* An aligned literal of 4, 8 or 16 bytes.  The bytes that follow a dword  *)
(* are not the rest of what it was copied from.                            *)
Load(mem, a, w) ==
  LET kind == IF w.hi \in LDRSW THEN "signed" ELSE "mem"
      size == CASE w.hi \in LDR16 -> 16 [] w.hi \in LDR8 -> 8 [] OTHER -> 4
  IN  IF ~Covered(mem, a) \/ Cell(mem, a).k = "own" THEN MemV(kind, a, size)
      ELSE LET c == Cell(mem, a) IN
           IF c.k = "insn" \/ c.half = 1 THEN MemV("code", a, size)
           ELSE IF c.v.k = "addr" THEN c.v
           ELSE MemV(kind, c.v.a, Min({size, c.v.n}))

-----------------------------------------------------------------------------
(* A core: x holds the registers written so far, vector registers from 32  *)
(* up; linked says that x30 was set by a call not yet made; log is what    *)
(* the program can tell (tests with what they test, calls, other           *)
(* instructions); end is how the run ended.                                *)

Core(pc) == [pc |-> pc, x |-> [r \in {} |-> InitV(r)], linked |-> FALSE,
             log |-> <<>>, steps |-> 0, end |-> ""]

IsCore(m) == m = [pc |-> m.pc, x |-> m.x, linked |-> m.linked, log |-> m.log,
                  steps |-> m.steps, end |-> m.end]

Go(m, pc)       == [m EXCEPT !.pc = pc]
X(m, r)         == IF r \in DOMAIN m.x THEN m.x[r] ELSE InitV(r)
Set(m, r, v)    == IF r = 31 THEN m
                   ELSE [m EXCEPT !.x = [q \in DOMAIN @ \cup {r} |-> IF q = r THEN v ELSE @[q]]]
Link(m, v)      == [Set(m, 30, v) EXCEPT !.linked = TRUE]
Put(m, r, v)    == IF r = 30 THEN Link(m, v) ELSE Set(m, r, v)
End(m, how)     == [m EXCEPT !.end = how]
See(m, what, v, n) == [m EXCEPT !.log = Append(@, [what |-> what, v |-> v, n |-> n])]

(* A conditional branch: the run's outcome of every test is "yes".         *)
Test(m, w, what, v, n, wants, yes) ==
  See(Go(m, IF yes = wants THEN Target(w, m.pc) ELSE Plus(m.pc, 4)), what, v, n)

JumpTo(m, v) == IF v.k = "addr" THEN Go(m, v.a) ELSE End(Go(m, Nowhere), "returned")

LoadLiteral(m, w, mem) ==
  LET v == Load(mem, Plus(m.pc, 4 * Imm19(w)), w)
      r == IF w.hi \in {28, 92, 156} THEN 32 + Rd(w) ELSE Rd(w)
      next == Go(m, Plus(m.pc, 4))
  IN  CASE w.hi \in PRFM      -> next
        [] w.hi \in NoLiteral -> End(Go(m, Nowhere), "undefined")
        [] OTHER              -> Put(next, r, v)

Execute(m, w, mem, yes) ==
  LET next == Go(m, Plus(m.pc, 4)) IN
  CASE w.hi \in B      -> Go(m, Target(w, m.pc))
    [] w.hi \in BL     -> Link(Go(m, Target(w, m.pc)), AddrV(Plus(m.pc, 4)))
    [] w.hi \in BCond  -> IF Cond(w) >= 14 THEN Go(m, Target(w, m.pc))
                          ELSE Test(m, w, "cond", InitV(0), Cond(w) \div 2,
                                    Cond(w) % 2 = 0, yes)
    [] w.hi \in CBZ \cup CBNZ -> Test(m, w, "zero", X(m, Rd(w)), w.hi \div 128,
                                      w.hi \in CBZ, yes)
    [] w.hi \in TBZ \cup TBNZ -> Test(m, w, "clear", X(m, Rd(w)),
                                      (w.hi \div 128) * 32 + (w.lo \div 2^19),
                                      w.hi \in TBZ, yes)
    [] w.hi \in ADR \cup ADRP -> Put(next, Rd(w), AddrV(Pointer(w, m.pc)))
    [] w.hi \in Literal -> LoadLiteral(m, w, mem)
    [] IsBr(w) \/ IsRet(w) -> JumpTo(m, X(m, Rn(w)))
    [] OTHER           -> See(next, "op", InitV(w.hi), w.lo)

(* Code elsewhere: a function called returns to x30; a jump away ends the  *)
(* run.                                                                    *)
Elsewhere(m) ==
  IF m.linked THEN JumpTo(See([m EXCEPT !.linked = FALSE], "call", AddrV(m.pc), 0), X(m, 30))
              ELSE End(m, "left")

(* One step of a run that began at entry; a run that comes back there, or  *)
(* goes on for too long, ends.                                             *)
Step(m, mem, entry, limit, yes) ==
  IF m.steps = limit THEN End(m, "looping")
  ELSE IF m.pc = entry /\ m.steps > 0 THEN End(m, "again")
  ELSE LET n == [m EXCEPT !.steps = @ + 1] IN
       IF ~Covered(mem, m.pc) THEN Elsewhere(n)
       ELSE LET c == Cell(mem, m.pc)
            IN  IF c.k = "data" THEN End(n, "crash") ELSE Execute(n, c.w, mem, yes)
=============================================================================
