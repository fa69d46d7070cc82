-------------------------- MODULE RelocatorProofs --------------------------
(***************************************************************************)
(* Proofs about Relocator, for every prologue of four 32-bit words, every  *)
(* address and both builders: what the masks and shifts of the relocator   *)
(* compute is what the architecture says of the word; every word that      *)
(* depends on the pc is rewritten and no other; the code that is written   *)
(* fits; a moved test decides as the original one; and the hooked function *)
(* does what the untouched one does, by a simulation: the hooked run       *)
(* follows the run of the prologue step by step, through the jump, the     *)
(* stub, the thunk and what became of each word.                           *)
(***************************************************************************)
EXTENDS Relocator, TLAPS

-----------------------------------------------------------------------------
(* The fields of a word: the relocator's masks and sign extensions, one    *)
(* for each width, against the architecture's signed fields.               *)

LEMMA SignExtended ==
  ASSUME NEW n, NEW top, n \in Int, top \in Int, 0 < top, 0 <= n, n < 2 * top
  PROVE  SignExtend(n, top) = (IF n < top THEN n ELSE n - 2 * top)
<1>1. CASE n < top
  <2>1. n \div top = 0
    BY <1>1, SMT
  <2>. QED  BY <1>1, <2>1, SMT DEF SignExtend
<1>2. CASE n >= top
  <2>1. n \div top = 1
    BY <1>2, SMT
  <2>. QED  BY <1>2, <2>1, SMT DEF SignExtend
<1>. QED  BY <1>1, <1>2, SMT

LEMMA Sizes ==
  /\ 2^13 = 8192 /\ 2^14 = 16384 /\ 2^18 = 262144 /\ 2^19 = 524288
  /\ 2^20 = 1048576 /\ 2^21 = 2097152
  /\ 2^24 = 16777216 /\ 2^25 = 33554432 /\ 2^26 = 67108864 /\ 2^27 = 134217728
  BY SMT

LEMMA WordFields ==
  ASSUME NEW w \in Words
  PROVE  /\ w.hi \in Int /\ 0 <= w.hi /\ w.hi < 256
         /\ w.lo \in Int /\ 0 <= w.lo /\ w.lo < 16777216
<1>1. w.hi \in 0 .. 255 /\ w.lo \in 0 .. 2^24 - 1
  BY DEF Words
<1>. QED  BY <1>1, Sizes, SMT

LEMMA Field19 ==
  ASSUME NEW w \in Words
  PROVE  SignExtend((w.lo \div 32) % 2^19, 2^18) = Imm19(w)
<1>. DEFINE n == w.lo \div 32
<1>1. n \in Int /\ 0 <= n /\ n < 524288
  BY WordFields, SMT
<1>2. n % 2^19 = n
  BY <1>1, Sizes, SMT
<1>3. Imm19(w) = IF n < 262144 THEN n ELSE n - 524288
  BY <1>1, Sizes, SMT DEF Imm19, Signed
<1>4. SignExtend(n, 262144) = IF n < 262144 THEN n ELSE n - 524288
  BY <1>1, SignExtended, SMT
<1>. QED  BY <1>2, <1>3, <1>4, Sizes, SMT

LEMMA Field26 ==
  ASSUME NEW w \in Words
  PROVE  SignExtend((w.hi % 4) * 2^24 + w.lo, 2^25) = Imm26(w)
<1>. DEFINE n == (w.hi % 4) * 16777216 + w.lo
<1>1. n \in Int /\ 0 <= n /\ n < 67108864
  BY WordFields, SMT
<1>2. Imm26(w) = IF n < 33554432 THEN n ELSE n - 67108864
  BY <1>1, Sizes, SMT DEF Imm26, Signed
<1>3. SignExtend(n, 33554432) = IF n < 33554432 THEN n ELSE n - 67108864
  BY <1>1, SignExtended, SMT
<1>. QED  BY <1>2, <1>3, Sizes, SMT

LEMMA Field14 ==
  ASSUME NEW w \in Words
  PROVE  SignExtend((w.lo \div 32) % 2^14, 2^13) = Imm14(w)
<1>. DEFINE n == (w.lo \div 32) % 16384
<1>1. n \in Int /\ 0 <= n /\ n < 16384
  BY WordFields, SMT
<1>2. Imm14(w) = IF n < 8192 THEN n ELSE n - 16384
  BY <1>1, Sizes, SMT DEF Imm14, Signed
<1>3. SignExtend(n, 8192) = IF n < 8192 THEN n ELSE n - 16384
  BY <1>1, SignExtended, SMT
<1>. QED  BY <1>2, <1>3, Sizes, SMT

LEMMA Field21 ==
  ASSUME NEW w \in Words
  PROVE  SignExtend(((w.lo \div 32) % 2^19) * 4 + ((w.hi \div 32) % 4), 2^20) = Imm21(w)
<1>. DEFINE k == w.lo \div 32
            n == k * 4 + ((w.hi \div 32) % 4)
<1>1. k \in Int /\ 0 <= k /\ k < 524288
  BY WordFields, SMT
<1>2. n \in Int /\ 0 <= n /\ n < 2097152
  BY <1>1, WordFields, SMT
<1>3. k % 2^19 = k
  BY <1>1, Sizes, SMT
<1>4. Imm21(w) = IF n < 1048576 THEN n ELSE n - 2097152
  BY <1>2, Sizes, SMT DEF Imm21, Signed
<1>5. SignExtend(n, 1048576) = IF n < 1048576 THEN n ELSE n - 2097152
  BY <1>2, SignExtended, SMT
<1>. QED  BY <1>3, <1>4, <1>5, Sizes, SMT

-----------------------------------------------------------------------------
(* The classes: the classifier's tests, in the engine (disasm.rs:1-24) and *)
(* in the harness (compiler.rs:351-359), against the encodings.            *)

LEMMA BranchTarget ==
  ASSUME NEW w \in Words, w.hi \in B \cup BL, NEW pc
  PROVE  Target(w, pc) = Plus(pc, 4 * Imm26(w))
  BY DEF Target, B, BL, TBZ, TBNZ

LEMMA BitTarget ==
  ASSUME NEW w \in Words, w.hi \in TBZ \cup TBNZ, NEW pc
  PROVE  Target(w, pc) = Plus(pc, 4 * Imm14(w))
  BY DEF Target, B, BL, TBZ, TBNZ

LEMMA ShortTarget ==
  ASSUME NEW w \in Words, w.hi \in BCond \cup CBZ \cup CBNZ, NEW pc
  PROVE  Target(w, pc) = Plus(pc, 4 * Imm19(w))
  BY DEF Target, B, BL, TBZ, TBNZ, BCond, CBZ, CBNZ

LEMMA Classes ==
  ASSUME NEW w \in Words
  PROVE  IsPcRelative(w) <=> w.hi \in PcRelative
  BY WordFields DEF IsPcRelative, PcRelative, Branches, B, BL, BCond, CBZ, CBNZ, TBZ, TBNZ,
                    ADR, ADRP, Literal, LDR4, LDR8, LDRSW, LDR16, PRFM, NoLiteral

LEMMA ClassesCopy ==
  ASSUME NEW w \in Words
  PROVE  IsPcRelativeCopy(w) <=> w.hi \in PcRelative
  BY WordFields DEF IsPcRelativeCopy, PcRelative, Branches, B, BL, BCond, CBZ, CBNZ, TBZ, TBNZ,
                    ADR, ADRP, Literal, LDR4, LDR8, LDRSW, LDR16, PRFM, NoLiteral

-----------------------------------------------------------------------------
(* A core stays a core, whatever it executes, and only Step counts.        *)

Keeps(m, n) == IsCore(n) /\ n.steps = m.steps

LEMMA GoKeeps ==
  ASSUME NEW m, IsCore(m), NEW pc
  PROVE  Keeps(m, Go(m, pc))
  BY DEF IsCore, Keeps, Go

LEMMA SetKeeps ==
  ASSUME NEW m, IsCore(m), NEW r, NEW v
  PROVE  Keeps(m, Set(m, r, v))
  BY DEF IsCore, Keeps, Set

LEMMA EndKeeps ==
  ASSUME NEW m, IsCore(m), NEW how
  PROVE  Keeps(m, End(m, how))
  BY DEF IsCore, Keeps, End

LEMMA SeeKeeps ==
  ASSUME NEW m, IsCore(m), NEW what, NEW v, NEW n
  PROVE  Keeps(m, See(m, what, v, n))
<1>. DEFINE e == Append(m.log, [what |-> what, v |-> v, n |-> n])
<1>1. See(m, what, v, n) = [m EXCEPT !.log = e]
  BY DEF See
<1>. HIDE DEF e
<1>. QED  BY <1>1 DEF IsCore, Keeps

LEMMA LinkKeeps ==
  ASSUME NEW m, IsCore(m), NEW v
  PROVE  Keeps(m, Link(m, v))
<1>. DEFINE n == Set(m, 30, v)
<1>1. IsCore(n) /\ n.steps = m.steps
  BY SetKeeps DEF Keeps
<1>2. Link(m, v) = [n EXCEPT !.linked = TRUE]
  BY DEF Link
<1>. HIDE DEF n
<1>. QED  BY <1>1, <1>2 DEF IsCore, Keeps

LEMMA PutKeeps ==
  ASSUME NEW m, IsCore(m), NEW r, NEW v
  PROVE  Keeps(m, Put(m, r, v))
  BY SetKeeps, LinkKeeps DEF Put

LEMMA JumpKeeps ==
  ASSUME NEW m, IsCore(m), NEW v
  PROVE  Keeps(m, JumpTo(m, v))
  BY GoKeeps, EndKeeps DEF Keeps, JumpTo

LEMMA TestKeeps ==
  ASSUME NEW m, IsCore(m), NEW w, NEW what, NEW v, NEW n, NEW wants, NEW b
  PROVE  Keeps(m, Test(m, w, what, v, n, wants, b))
  BY GoKeeps, SeeKeeps DEF Keeps, Test

LEMMA LoadKeeps ==
  ASSUME NEW m, IsCore(m), NEW w, NEW ss
  PROVE  Keeps(m, LoadLiteral(m, w, ss))
<1>. DEFINE next == Go(m, Plus(m.pc, 4))
            v == Load(ss, Plus(m.pc, 4 * Imm19(w)), w)
            r == IF w.hi \in {28, 92, 156} THEN 32 + Rd(w) ELSE Rd(w)
<1>1. Keeps(m, next) /\ IsCore(next)
  BY GoKeeps DEF Keeps
<1>2. LoadLiteral(m, w, ss) =
        CASE w.hi \in PRFM      -> next
          [] w.hi \in NoLiteral -> End(Go(m, Nowhere), "undefined")
          [] OTHER              -> Put(next, r, v)
  BY DEF LoadLiteral
<1>. HIDE DEF next, v, r
<1>3. Keeps(m, End(Go(m, Nowhere), "undefined"))
  BY GoKeeps, EndKeeps DEF Keeps
<1>4. Keeps(m, Put(next, r, v))
  BY <1>1, PutKeeps DEF Keeps
<1>. QED  BY <1>1, <1>2, <1>3, <1>4 DEF PRFM, NoLiteral

LEMMA ExecuteKeeps ==
  ASSUME NEW m, IsCore(m), NEW w, NEW ss, NEW b
  PROVE  Keeps(m, Execute(m, w, ss, b))
<1>. DEFINE next == Go(m, Plus(m.pc, 4))
<1>1. Keeps(m, next) /\ IsCore(next)
  BY GoKeeps DEF Keeps
<1>. HIDE DEF next
<1>2. \A pc : Keeps(m, Go(m, pc)) /\ IsCore(Go(m, pc))
  BY GoKeeps DEF Keeps
<1>3. \A pc, v : Keeps(m, Link(Go(m, pc), v))
  BY <1>2, LinkKeeps DEF Keeps
<1>4. \A what, v, n, wants : Keeps(m, Test(m, w, what, v, n, wants, b))
  BY TestKeeps
<1>5. Keeps(m, LoadLiteral(m, w, ss)) /\ \A v : Keeps(m, JumpTo(m, v))
  BY LoadKeeps, JumpKeeps
<1>6. \A r, v : Keeps(m, Put(next, r, v))
  BY <1>1, PutKeeps DEF Keeps
<1>7. \A what, v, n : Keeps(m, See(next, what, v, n))
  BY <1>1, SeeKeeps DEF Keeps
<1>8. Keeps(m, IF Cond(w) >= 14 THEN Go(m, Target(w, m.pc))
               ELSE Test(m, w, "cond", InitV(0), Cond(w) \div 2, Cond(w) % 2 = 0, b))
  BY <1>2, <1>4
<1>. QED  BY <1>2, <1>3, <1>4, <1>5, <1>6, <1>7, <1>8 DEF Execute, next

LEMMA CalledKeeps ==
  ASSUME NEW m, IsCore(m), NEW b
  PROVE  Keeps(m, [m EXCEPT !.linked = b])
  BY DEF IsCore, Keeps

LEMMA ElsewhereKeeps ==
  ASSUME NEW m, IsCore(m)
  PROVE  Keeps(m, Elsewhere(m))
<1>. DEFINE n == [m EXCEPT !.linked = FALSE]
            s == See(n, "call", AddrV(m.pc), 0)
<1>1. Keeps(m, n)
  BY CalledKeeps
<1>. HIDE DEF n
<1>2. Keeps(m, s)
  BY <1>1, SeeKeeps DEF Keeps
<1>. HIDE DEF s
<1>3. Keeps(m, JumpTo(s, X(m, 30)))
  BY <1>2, JumpKeeps DEF Keeps
<1>4. Keeps(m, End(m, "left"))
  BY EndKeeps
<1>. QED  BY <1>3, <1>4 DEF Elsewhere, n, s

LEMMA StepCounts ==
  ASSUME NEW m, IsCore(m), NEW ss, NEW entry, NEW limit \in Nat, NEW b,
         m.steps \in 0 .. limit
  PROVE  IsCore(Step(m, ss, entry, limit, b)) /\ Step(m, ss, entry, limit, b).steps \in 0 .. limit
<1>1. \A how : IsCore(End(m, how)) /\ End(m, how).steps = m.steps
  BY EndKeeps DEF Keeps
<1>2. CASE m.steps = limit \/ (m.pc = entry /\ m.steps > 0)
  BY <1>1, <1>2 DEF Step
<1>3. CASE m.steps # limit /\ ~(m.pc = entry /\ m.steps > 0)
  <2>. DEFINE n == [m EXCEPT !.steps = @ + 1]
              c == Cell(ss, m.pc)
  <2>1. IsCore(n) /\ n.steps = m.steps + 1
    BY DEF IsCore
  <2>. HIDE DEF n, c
  <2>2. Keeps(n, Elsewhere(n)) /\ Keeps(n, End(n, "crash")) /\ Keeps(n, Execute(n, c.w, ss, b))
    BY <2>1, ElsewhereKeeps, EndKeeps, ExecuteKeeps
  <2>. DEFINE r == Step(m, ss, entry, limit, b)
  <2>3. r = IF ~Covered(ss, m.pc) THEN Elsewhere(n)
            ELSE IF c.k = "data" THEN End(n, "crash") ELSE Execute(n, c.w, ss, b)
    BY <1>3 DEF Step, n, c
  <2>. HIDE DEF r
  <2>4. Keeps(n, r)
    BY <2>2, <2>3
  <2>5. IsCore(r) /\ r.steps \in 0 .. limit
    BY <1>3, <2>1, <2>4 DEF Keeps
  <2>. QED  BY <2>5 DEF r
<1>. QED  BY <1>2, <1>3

-----------------------------------------------------------------------------
(* How many cells a piece of code has.                                     *)

Sized(s, n) == \E S : s \in Seq(S) /\ Len(s) \in 1 .. n

LEMMA Concat ==
  ASSUME NEW m \in Nat, NEW n \in Nat, NEW s, NEW t, Sized(s, m), Sized(t, n)
  PROVE  Sized(s \o t, m + n)
<1>1. PICK S : s \in Seq(S) /\ Len(s) \in 1 .. m
  BY DEF Sized
<1>2. PICK T : t \in Seq(T) /\ Len(t) \in 1 .. n
  BY DEF Sized
<1>3. s \o t \in Seq(S \cup T) /\ Len(s \o t) = Len(s) + Len(t)
  <2>1. s \in Seq(S \cup T) /\ t \in Seq(S \cup T)
    BY <1>1, <1>2
  <2>. QED  BY <2>1
<1>. QED  BY <1>1, <1>2, <1>3 DEF Sized

LEMMA JoinedLength ==
  ASSUME NEW S, NEW s \in Seq(S), NEW t \in Seq(S)
  PROVE  Len(s \o t) = Len(s) + Len(t)
  OBVIOUS

LEMMA SizedSome ==
  ASSUME NEW s, NEW n \in Nat, Sized(s, n)
  PROVE  s # <<>>
  BY DEF Sized

LEMMA Prefix ==
  ASSUME NEW S, NEW s \in Seq(S), NEW n \in 1 .. Len(s)
  PROVE  /\ Len(SubSeq(s, 1, n)) = n
         /\ \A i \in 1 .. n : SubSeq(s, 1, n)[i] = s[i]
  OBVIOUS

LEMMA FlattenOne ==
  ASSUME NEW s, Len(s) = 1, NEW a, s[1] = a
  PROVE  FlattenSeq(s) = a
<1>. DEFINE f == [i \in 1 .. 1 |-> a]
            IsFlat(g) == g = [i \in 1 .. 1 |-> IF i = 1 THEN s[i] ELSE g[i - 1] \o s[i]]
<1>1. IsFlat(f)
  OBVIOUS
<1>2. \A g : IsFlat(g) => g[1] = a
  OBVIOUS
<1>3. FlattenSeq(s) = (CHOOSE g : IsFlat(g))[1]
  BY DEF FlattenSeq
<1>. HIDE DEF IsFlat
<1>. QED  BY <1>1, <1>2, <1>3

LEMMA FlattenFour ==
  ASSUME NEW s, Len(s) = 4
  PROVE  FlattenSeq(s) = ((s[1] \o s[2]) \o s[3]) \o s[4]
<1>. DEFINE f == [i \in 1 .. 4 |-> IF i = 1 THEN s[1] ELSE IF i = 2 THEN s[1] \o s[2]
                                   ELSE IF i = 3 THEN (s[1] \o s[2]) \o s[3]
                                   ELSE ((s[1] \o s[2]) \o s[3]) \o s[4]]
            IsFlat(g) == g = [i \in 1 .. 4 |-> IF i = 1 THEN s[i] ELSE g[i - 1] \o s[i]]
<1>1. IsFlat(f)
  <2>1. f[1] = s[1] /\ f[2] = f[1] \o s[2] /\ f[3] = f[2] \o s[3] /\ f[4] = f[3] \o s[4]
    OBVIOUS
  <2>2. f = [i \in 1 .. 4 |-> f[i]]
    OBVIOUS
  <2>. HIDE DEF f
  <2>3. ASSUME NEW i \in 1 .. 4
        PROVE  f[i] = IF i = 1 THEN s[i] ELSE f[i - 1] \o s[i]
    <3>1. CASE i = 1
      BY <2>1, <3>1
    <3>2. CASE i = 2
      <4>1. i # 1 /\ i - 1 = 1
        BY <3>2
      <4>. QED  BY <2>1, <3>2, <4>1, Zenon
    <3>3. CASE i = 3
      <4>1. i # 1 /\ i - 1 = 2
        BY <3>3
      <4>. QED  BY <2>1, <3>3, <4>1, Zenon
    <3>4. CASE i = 4
      <4>1. i # 1 /\ i - 1 = 3
        BY <3>4
      <4>. QED  BY <2>1, <3>4, <4>1, Zenon
    <3>. QED  BY <3>1, <3>2, <3>3, <3>4
  <2>. QED  BY <2>2, <2>3
<1>2. ASSUME NEW g, IsFlat(g) PROVE g[4] = ((s[1] \o s[2]) \o s[3]) \o s[4]
  <2>1. \A i \in 1 .. 4 : g[i] = IF i = 1 THEN s[i] ELSE g[i - 1] \o s[i]
    BY <1>2
  <2>2. g[1] = s[1] /\ g[2] = g[1] \o s[2]
    BY <2>1
  <2>3. g[3] = g[2] \o s[3] /\ g[4] = g[3] \o s[4]
    BY <2>1
  <2>. QED  BY <2>2, <2>3
<1>3. FlattenSeq(s) = (CHOOSE g : IsFlat(g))[4]
  BY DEF FlattenSeq
<1>. HIDE DEF IsFlat
<1>. QED  BY <1>1, <1>2, <1>3

LEMMA TwoWords ==
  ASSUME NEW a, NEW b
  PROVE  Instructions(<<a, b>>) = <<Insn(a), Insn(b)>>
  BY DEF Instructions

LEMMA ThreeWords ==
  ASSUME NEW a, NEW b, NEW c
  PROVE  Instructions(<<a, b, c>>) = <<Insn(a), Insn(b), Insn(c)>>
  BY DEF Instructions

Exactly(s, n) == \E S : s \in Seq(S) /\ Len(s) = n

LEMMA ExactConcat ==
  ASSUME NEW m \in Nat, NEW n \in Nat, NEW s, NEW t, Exactly(s, m), Exactly(t, n)
  PROVE  Exactly(s \o t, m + n)
<1>1. PICK S : s \in Seq(S) /\ Len(s) = m
  BY DEF Exactly
<1>2. PICK T : t \in Seq(T) /\ Len(t) = n
  BY DEF Exactly
<1>3. s \o t \in Seq(S \cup T) /\ Len(s \o t) = m + n
  <2>1. s \in Seq(S \cup T) /\ t \in Seq(S \cup T)
    BY <1>1, <1>2
  <2>. QED  BY <1>1, <1>2, <2>1
<1>. QED  BY <1>3 DEF Exactly

LEMMA ExactLonger ==
  ASSUME NEW s, NEW n \in {4, 5, 7}, Exactly(s, n), NEW c
  PROVE  s # <<c>>
  BY DEF Exactly

LEMMA Tuples ==
  ASSUME NEW a, NEW b, NEW c
  PROVE  Exactly(<<a>>, 1) /\ Exactly(<<a, b>>, 2) /\ Exactly(<<a, b, c>>, 3)
<1>1. <<a>> \in Seq({a, b, c}) /\ <<a, b>> \in Seq({a, b, c}) /\ <<a, b, c>> \in Seq({a, b, c})
  OBVIOUS
<1>. QED  BY <1>1 DEF Exactly

LEMMA Pieces ==
  ASSUME NEW a, NEW b, NEW c, NEW v
  PROVE  /\ Exactly(Dword(v), 2) /\ Exactly(<<Insn(a)>>, 1)
         /\ Exactly(Instructions(<<a, b>>), 2) /\ Exactly(Instructions(<<a, b, c>>), 3)
<1>1. Exactly(<<Data(v, 0), Data(v, 1)>>, 2) /\ Exactly(<<Insn(a)>>, 1)
      /\ Exactly(<<Insn(a), Insn(b)>>, 2) /\ Exactly(<<Insn(a), Insn(b), Insn(c)>>, 3)
  BY Tuples
<1>. QED  BY <1>1, TwoWords, ThreeWords DEF Dword

LEMMA JumpLength ==
  ASSUME NEW a, NEW b, NEW v
  PROVE  Exactly(JumpVia(a, b, v), 4)
<1>1. Exactly(Instructions(<<a, b>>), 2) /\ Exactly(Dword(v), 2)
  BY Pieces
<1>2. Exactly(Instructions(<<a, b>>) \o Dword(v), 2 + 2)
  BY <1>1, ExactConcat
<1>. QED  BY <1>2 DEF JumpVia

-----------------------------------------------------------------------------
(* What a moved word becomes: itself, or four, five or seven cells.        *)

LEMMA AdrLength ==
  ASSUME NEW w, NEW pc
  PROVE  Exactly(RelocateAdr(w, pc), 4)
<1>. DEFINE target == IF w.hi >= 128
                      THEN Address(pc.page + SignExtend(((w.lo \div 32) % 2^19) * 4 + ((w.hi \div 32) % 4), 2^20), 0)
                      ELSE Plus(pc, SignExtend(((w.lo \div 32) % 2^19) * 4 + ((w.hi \div 32) % 4), 2^20))
            code == Instructions(<<Word(88, 64 + Rd(w)), SkipDword>>)
            data == Dword(AddrV(target))
<1>1. RelocateAdr(w, pc) = code \o data
  BY DEF RelocateAdr
<1>2. Exactly(code, 2) /\ Exactly(data, 2)
  BY Pieces
<1>. HIDE DEF code, data
<1>3. Exactly(code \o data, 2 + 2)
  BY <1>2, ExactConcat
<1>. QED  BY <1>1, <1>3

LEMMA LiteralLength ==
  ASSUME NEW w, NEW pc
  PROVE  Exactly(RelocateLiteral(w, pc), 4)
<1>. DEFINE code == Instructions(<<Word(w.hi, 64 + Rd(w)), SkipDword>>)
            data == Dword(MemV("mem", Imm19Target(w, pc), 8))
<1>1. RelocateLiteral(w, pc) = code \o data
  BY DEF RelocateLiteral
<1>2. Exactly(code, 2) /\ Exactly(data, 2)
  BY Pieces
<1>. HIDE DEF code, data
<1>3. Exactly(code \o data, 2 + 2)
  BY <1>2, ExactConcat
<1>. QED  BY <1>1, <1>3

LEMMA AroundLength ==
  ASSUME NEW w, NEW a
  PROVE  Exactly(Around(w, a), 5)
<1>. DEFINE jump == JumpTo16(AddrV(a))
<1>1. Exactly(<<Insn(w)>>, 1) /\ Exactly(jump, 4)
  BY Pieces, JumpLength DEF JumpTo16
<1>. HIDE DEF jump
<1>2. Exactly(<<Insn(w)>> \o jump, 1 + 4)
  BY <1>1, ExactConcat
<1>. QED  BY <1>2 DEF Around, jump

LEMMA BranchLength ==
  ASSUME NEW w, NEW pc
  PROVE  \E n \in {4, 7} : Exactly(RelocateBranch(w, pc), n)
<1>. DEFINE target == AddrV(Plus(pc, 4 * SignExtend((w.hi % 4) * 2^24 + w.lo, 2^25)))
            code == Instructions(<<LdrX30(3), LdrX16(4), BrX16>>)
            back == Dword(AddrV(Plus(pc, 4)))
            data == Dword(target)
<1>1. RelocateBranch(w, pc) = IF w.hi < 128 THEN JumpTo16(target) ELSE code \o back \o data
  BY DEF RelocateBranch
<1>2. Exactly(code, 3) /\ Exactly(back, 2) /\ Exactly(data, 2) /\ Exactly(JumpTo16(target), 4)
  BY Pieces, JumpLength DEF JumpTo16
<1>. HIDE DEF target, code, back, data
<1>3. Exactly(code \o back, 3 + 2)
  BY <1>2, ExactConcat
<1>4. Exactly((code \o back) \o data, 5 + 2)
  BY <1>2, <1>3, ExactConcat
<1>. QED  BY <1>1, <1>2, <1>4

LEMMA Cases ==
  ASSUME NEW w \in Words, w.hi \in PcRelative
  PROVE  \/ w.hi % 32 = 16 \/ w.hi \div 4 \in {5, 37} \/ w.hi = 84
         \/ (w.hi \div 2) % 64 = 26 \/ (w.hi \div 2) % 64 = 27
         \/ w.hi % 64 \in {24, 28}
  BY Classes DEF IsPcRelative

LEMMA MovedLength ==
  ASSUME NEW b, NEW w \in Words, NEW pc
  PROVE  /\ w.hi \notin PcRelative => Relocate(b, w, pc) = <<Insn(w)>>
         /\ w.hi \in PcRelative => \E n \in {4, 5, 7} : Exactly(Relocate(b, w, pc), n)
<1>. DEFINE special == IF b = "engine" THEN IsPcRelative(w) ELSE IsPcRelativeCopy(w)
<1>1. special <=> w.hi \in PcRelative
  BY Classes, ClassesCopy
<1>2. CASE ~special
  <2>1. /\ w.hi % 32 # 16 /\ w.hi \div 4 \notin {5, 37} /\ w.hi # 84
        /\ (w.hi \div 2) % 64 # 26 /\ (w.hi \div 2) % 64 # 27
        /\ w.hi % 64 \notin {24, 28}
    BY <1>2 DEF IsPcRelative, IsPcRelativeCopy
  <2>2. Relocate(b, w, pc) = <<Insn(w)>>
    BY <1>2, <2>1, Zenon DEF Relocate
  <2>. QED  BY <1>1, <1>2, <2>2
<1>3. CASE special
  <2>. DEFINE r == Relocate(b, w, pc)
              adr == RelocateAdr(w, pc)
              br == RelocateBranch(w, pc)
              cond == RelocateCond(w, pc)
              cbz == RelocateCbz(w, pc)
              tbz == RelocateTbz(w, pc)
              lit == RelocateLiteral(w, pc)
  <2>1. r \in {adr, br, cond, cbz, tbz, lit}
    <3>1. \/ w.hi % 32 = 16 \/ w.hi \div 4 \in {5, 37} \/ w.hi = 84
          \/ (w.hi \div 2) % 64 = 26 \/ (w.hi \div 2) % 64 = 27
          \/ w.hi % 64 \in {24, 28}
      BY <1>1, <1>3, Cases
    <3>2. r = CASE w.hi % 32 = 16                    -> adr
                [] w.hi \div 4 \in {5, 37}           -> br
                [] w.hi = 84                         -> cond
                [] (w.hi \div 2) % 64 = 26           -> cbz
                [] (w.hi \div 2) % 64 = 27           -> tbz
                [] w.hi % 64 \in {24, 28}            -> lit
                [] OTHER -> IF b = "engine" THEN Unhandled ELSE <<Insn(w)>>
      BY <1>3 DEF Relocate
    <3>. HIDE DEF r, adr, br, cond, cbz, tbz, lit
    <3>. QED  BY <3>1, <3>2
  <2>2. /\ Exactly(adr, 4) /\ Exactly(lit, 4) /\ \E n \in {4, 7} : Exactly(br, n)
        /\ Exactly(cond, 5) /\ Exactly(cbz, 5) /\ Exactly(tbz, 5)
    BY AdrLength, LiteralLength, AroundLength, BranchLength
    DEF RelocateCond, RelocateCbz, RelocateTbz
  <2>. HIDE DEF r, adr, br, cond, cbz, tbz, lit
  <2>3. \E n \in {4, 5, 7} : Exactly(r, n)
    BY <2>1, <2>2
  <2>. QED  BY <1>1, <1>3, <2>3 DEF r
<1>. QED  BY <1>2, <1>3

LEMMA FourLong ==
  ASSUME NEW S, NEW s, s \in [1 .. 4 -> S]
  PROVE  s \in Seq(S) /\ Len(s) = 4
<1>. DEFINE f == [i \in 1 .. 4 |-> s[i]]
<1>1. s = f /\ \A i \in 1 .. 4 : s[i] \in S
  OBVIOUS
<1>2. f \in Seq(S) /\ Len(f) = 4
  BY <1>1
<1>. QED  BY <1>1, <1>2

LEMMA StolenWords ==
  ASSUME window \in [1 .. 4 -> Words]
  PROVE  /\ StolenLen \in {1, 4} /\ Len(Stolen) = StolenLen
         /\ DOMAIN Stolen = 1 .. StolenLen
         /\ \A i \in 1 .. StolenLen : Stolen[i] = window[i] /\ Stolen[i] \in Words
<1>1. window \in [1 .. 4 -> Words]
  OBVIOUS
<1>2. window \in Seq(Words) /\ Len(window) = 4
  BY FourLong
<1>3. StolenLen \in {1, 4}
  BY DEF StolenLen
<1>. DEFINE n == StolenLen
<1>. HIDE DEF n
<1>4. n \in 1 .. Len(window)
  BY <1>2, <1>3 DEF n
<1>5. /\ Len(SubSeq(window, 1, n)) = n
      /\ \A i \in 1 .. n : SubSeq(window, 1, n)[i] = window[i]
  BY <1>2, <1>4, Prefix
<1>6. Stolen = SubSeq(window, 1, n) /\ n = StolenLen
  BY DEF Stolen, n
<1>7. DOMAIN SubSeq(window, 1, n) = 1 .. n
  BY <1>2, <1>4
<1>. QED  BY <1>1, <1>3, <1>5, <1>6, <1>7

LEMMA MovedWords ==
  ASSUME window \in [1 .. 4 -> Words]
  PROVE  /\ Len(Moved) = StolenLen /\ DOMAIN Moved = 1 .. StolenLen
         /\ \A i \in 1 .. StolenLen :
              /\ Stolen[i].hi \notin PcRelative => Moved[i] = <<Insn(Stolen[i])>>
              /\ Stolen[i].hi \in PcRelative => \E n \in {4, 5, 7} : Exactly(Moved[i], n)
              /\ Sized(Moved[i], 7)
<1>1. /\ StolenLen \in {1, 4} /\ DOMAIN Stolen = 1 .. StolenLen
      /\ \A i \in 1 .. StolenLen : Stolen[i] \in Words
  BY StolenWords
<1>2. Moved = [i \in 1 .. StolenLen |-> Relocate(builder, Stolen[i], Plus(F, 4 * (i - 1)))]
  BY <1>1 DEF Moved
<1>3. Len(Moved) = StolenLen /\ DOMAIN Moved = 1 .. StolenLen
  BY <1>1, <1>2
<1>4. ASSUME NEW i \in 1 .. StolenLen
      PROVE  /\ Stolen[i].hi \notin PcRelative => Moved[i] = <<Insn(Stolen[i])>>
             /\ Stolen[i].hi \in PcRelative => \E n \in {4, 5, 7} : Exactly(Moved[i], n)
  <2>1. Moved[i] = Relocate(builder, Stolen[i], Plus(F, 4 * (i - 1)))
    BY <1>2
  <2>2. Stolen[i] \in Words
    BY <1>1
  <2>. QED  BY <2>1, <2>2, MovedLength
<1>5. ASSUME NEW i \in 1 .. StolenLen PROVE Sized(Moved[i], 7)
  <2>1. Exactly(<<Insn(Stolen[i])>>, 1)
    BY Pieces
  <2>2. \E n \in 1 .. 7 : Exactly(Moved[i], n)
    BY <1>4, <2>1
  <2>. QED  BY <2>2 DEF Exactly, Sized
<1>. QED  BY <1>3, <1>4, <1>5

LEMMA NothingUnhandled ==
  ASSUME window \in [1 .. 4 -> Words]
  PROVE  Unhandled \notin Range(Moved)
<1>. SUFFICES ASSUME NEW i \in 1 .. StolenLen PROVE Moved[i] # <<>>
  BY MovedWords DEF Range, Unhandled
<1>1. Sized(Moved[i], 7)
  BY MovedWords
<1>. QED  BY <1>1, SizedSome

LEMMA TrampolineSize ==
  ASSUME window \in [1 .. 4 -> Words]
  PROVE  Len(BuildTrampoline.cells) \in 1 .. 7 * StolenLen + 4
<1>. DEFINE body == FlattenSeq(Moved)
<1>1. Sized(body, 7 * StolenLen) /\ StolenLen \in {1, 4}
  <2>1. /\ Len(Moved) = StolenLen /\ StolenLen \in {1, 4}
        /\ \A i \in 1 .. StolenLen : Sized(Moved[i], 7)
    BY MovedWords, StolenWords
  <2>2. CASE StolenLen = 1
    <3>1. body = Moved[1]
      BY <2>1, <2>2, FlattenOne
    <3>. QED  BY <2>1, <2>2, <3>1
  <2>3. CASE StolenLen = 4
    <3>1. body = ((Moved[1] \o Moved[2]) \o Moved[3]) \o Moved[4]
      BY <2>1, <2>3, FlattenFour
    <3>2. Sized(Moved[1], 7) /\ Sized(Moved[2], 7) /\ Sized(Moved[3], 7) /\ Sized(Moved[4], 7)
      BY <2>1, <2>3
    <3>3. Sized(Moved[1] \o Moved[2], 7 + 7)
      BY <3>2, Concat
    <3>4. Sized((Moved[1] \o Moved[2]) \o Moved[3], 14 + 7)
      BY <3>2, <3>3, Concat
    <3>5. Sized(((Moved[1] \o Moved[2]) \o Moved[3]) \o Moved[4], 21 + 7)
      BY <3>2, <3>4, Concat
    <3>. QED  BY <2>3, <3>1, <3>5
  <2>. QED  BY <2>1, <2>2, <2>3
<1>. HIDE DEF body
<1>2. BranchBack = <<>> \/ Exactly(BranchBack, 4)
  BY JumpLength DEF BranchBack, JumpTo16
<1>3. PICK S : body \in Seq(S) /\ Len(body) \in 1 .. 7 * StolenLen
  BY <1>1 DEF Sized
<1>4. Len(body \o BranchBack) \in 1 .. 7 * StolenLen + 4
  <2>1. CASE BranchBack = <<>>
    BY <1>1, <1>3, <2>1
  <2>2. CASE Exactly(BranchBack, 4)
    <3>1. PICK T : BranchBack \in Seq(T) /\ Len(BranchBack) = 4
      BY <2>2 DEF Exactly
    <3>2. body \in Seq(S \cup T) /\ BranchBack \in Seq(S \cup T)
      BY <1>3, <3>1
    <3>3. Len(body \o BranchBack) = Len(body) + 4
      BY <3>1, <3>2, JoinedLength
    <3>. QED  BY <1>1, <1>3, <3>3
  <2>. QED  BY <1>2, <2>1, <2>2
<1>. QED  BY <1>4 DEF BuildTrampoline, Segment, body

LEMMA StubSize ==
  /\ Len(BuildStub.cells) = 7
  /\ Len(OverwriteWithJump.cells) \in {1, 4}
<1>1. Len(BuildStub.cells) = 7
  <2>. DEFINE code == Instructions(<<LdrX16(3), LdrX17(4), BrX17>>)
              hook == Dword(AddrV(Trampoline))
              next == Dword(AddrV(Thunk))
  <2>1. Exactly(code, 3) /\ Exactly(hook, 2) /\ Exactly(next, 2)
    BY Pieces
  <2>2. BuildStub.cells = (code \o hook) \o next
    BY DEF BuildStub, Segment
  <2>. HIDE DEF code, hook, next
  <2>3. Exactly(code \o hook, 3 + 2)
    BY <2>1, ExactConcat
  <2>4. Exactly((code \o hook) \o next, 5 + 2)
    BY <2>1, <2>3, ExactConcat
  <2>. QED  BY <2>2, <2>4 DEF Exactly
<1>2. Len(OverwriteWithJump.cells) \in {1, 4}
  <2>. DEFINE long == JumpTo16(AddrV(stub))
              near == <<Insn(MakeBranch26(F, stub))>>
              other == JumpVia(LdrX17(2), BrX17, AddrV(stub))
  <2>1. Len(long) = 4 /\ Len(near) = 1 /\ Len(other) = 4
    <3>1. Exactly(long, 4) /\ Exactly(near, 1) /\ Exactly(other, 4)
      BY JumpLength, Pieces DEF JumpTo16
    <3>. QED  BY <3>1 DEF Exactly
  <2>2. OverwriteWithJump.cells \in {long, near, other}
    BY DEF OverwriteWithJump, Segment
  <2>. QED  BY <2>1, <2>2
<1>. QED  BY <1>1, <1>2

-----------------------------------------------------------------------------
(* The invariant.                                                          *)

LEMMA InitInv == Init => RelocatorInv
<1>. SUFFICES ASSUME Init PROVE RelocatorInv
  OBVIOUS
<1>1. IsCore(Core(F)) /\ Core(F).steps = 0
  BY DEF Core, IsCore
<1>2. window \in [1 .. 4 -> Words] /\ Len(window) = 4
  BY WindowAssumption, FourLong DEF Init
<1>. QED  BY <1>1, <1>2, StepsAssumption DEF Init, RelocatorInv, TypeOK

LEMMA NextInv == RelocatorInv /\ [Next]_vars => RelocatorInv'
<1>. SUFFICES ASSUME RelocatorInv, [Next]_vars PROVE RelocatorInv'
  OBVIOUS
<1>. USE DEF RelocatorInv
<1>1. CASE RunOriginal
  <2>1. org' = Step(org, {Untouched}, F, MaxSteps, yes)
    BY <1>1 DEF RunOriginal
  <2>2. IsCore(org') /\ org'.steps \in 0 .. MaxSteps
    BY <2>1, StepsAssumption, StepCounts DEF TypeOK
  <2>3. phase' \in {"original", "install"} /\ UNCHANGED <<chosen, new, mem>>
    BY <1>1 DEF RunOriginal
  <2>. QED  BY <2>2, <2>3 DEF TypeOK, chosen, StolenLen
<1>2. CASE Install
  <2>1. phase' = "hooked" /\ mem' = {BuildTrampoline, BuildStub, OverwriteWithJump}
    BY <1>2, NothingUnhandled DEF Install
  <2>2. UNCHANGED <<chosen, org, new>> /\ StolenLen' = StolenLen
    BY <1>2 DEF Install, chosen, StolenLen
  <2>3. /\ Len(BuildTrampoline.cells) \in 1 .. 7 * StolenLen + 4
        /\ Len(BuildStub.cells) \in 1 .. 7 * StolenLen + 4
        /\ Len(OverwriteWithJump.cells) \in 1 .. 7 * StolenLen + 4
    <3>1. StolenLen \in {1, 4}
      BY StolenWords
    <3>. DEFINE a == Len(BuildTrampoline.cells)
                b == Len(BuildStub.cells)
                c == Len(OverwriteWithJump.cells)
    <3>2. a \in 1 .. 7 * StolenLen + 4 /\ b = 7 /\ c \in {1, 4}
      BY TrampolineSize, StubSize
    <3>. HIDE DEF a, b, c
    <3>3. b \in 1 .. 7 * StolenLen + 4 /\ c \in 1 .. 7 * StolenLen + 4
      BY <3>1, <3>2
    <3>. QED  BY <3>2, <3>3 DEF a, b, c
  <2>4. \A s \in mem' : Len(s.cells) \in 1 .. 7 * StolenLen' + 4
    BY <2>1, <2>2, <2>3
  <2>. QED  BY <2>1, <2>2, <2>4 DEF TypeOK, chosen
<1>3. CASE RunHooked
  <2>1. new' = IF new.pc = Thunk THEN RunThunk ELSE Step(new, mem, F, MaxSteps, yes)
    BY <1>3 DEF RunHooked
  <2>2. IsCore(RunThunk) /\ RunThunk.steps = new.steps
    BY SetKeeps, GoKeeps DEF RunThunk, Keeps
  <2>3. /\ IsCore(Step(new, mem, F, MaxSteps, yes))
        /\ Step(new, mem, F, MaxSteps, yes).steps \in 0 .. MaxSteps
    BY StepsAssumption, StepCounts DEF TypeOK
  <2>4. IsCore(new') /\ new'.steps \in 0 .. MaxSteps
    BY <2>1, <2>2, <2>3 DEF TypeOK
  <2>5. phase' \in {"hooked", "done"} /\ UNCHANGED <<chosen, org, mem>>
    BY <1>3 DEF RunHooked
  <2>. QED  BY <2>4, <2>5 DEF TypeOK, chosen, StolenLen
<1>4. CASE Finished \/ UNCHANGED vars
  BY <1>4 DEF Finished, vars, chosen, TypeOK, StolenLen
<1>. QED  BY <1>1, <1>2, <1>3, <1>4 DEF Next

(* Relocation never runs into the panic for a word that no case moves      *)
(* (relocator.rs:150), the trampoline has at most seven words for each     *)
(* stolen one and four to return (builder.rs), and runs stay in bounds.    *)
THEOREM RelocatorInvariant == Spec => []RelocatorInv
<1>. QED  BY InitInv, NextInv, PTL DEF Spec

(* Every encoding that depends on the pc is moved by a case of its own and *)
(* no other word is rewritten (disasm.rs:1-24, relocator.rs:3-148, and     *)
(* compiler.rs:351-443).                                                   *)
THEOREM EveryEncodingMoved == Spec => []MovesWhatItMust
<1>1. RelocatorInv => MovesWhatItMust
  <2>. SUFFICES ASSUME RelocatorInv PROVE MovesWhatItMust
    OBVIOUS
  <2>1. window \in [1 .. 4 -> Words] /\ phase # "panic"
    BY DEF RelocatorInv
  <2>2. ASSUME NEW i \in DOMAIN Stolen
        PROVE  (Moved[i] = <<Insn(Stolen[i])>>) = (Stolen[i].hi \notin PcRelative)
    <3>1. i \in 1 .. StolenLen
      BY <2>1, StolenWords
    <3>2. CASE Stolen[i].hi \notin PcRelative
      BY <2>1, <3>1, <3>2, MovedWords
    <3>3. CASE Stolen[i].hi \in PcRelative
      <4>1. PICK n \in {4, 5, 7} : Exactly(Moved[i], n)
        BY <2>1, <3>1, <3>3, MovedWords
      <4>2. Moved[i] # <<Insn(Stolen[i])>>
        BY <4>1, ExactLonger
      <4>. QED  BY <3>3, <4>2
    <3>. QED  BY <3>2, <3>3
  <2>. QED  BY <2>1, <2>2 DEF MovesWhatItMust
<1>. QED  BY <1>1, RelocatorInvariant, PTL

-----------------------------------------------------------------------------
(* What each class of word is rewritten to, in the architecture's terms.   *)

Tests == BCond \cup CBZ \cup CBNZ \cup TBZ \cup TBNZ

(* The opposite test, over the five words of a test and a jump.            *)
Opposite(w) ==
  CASE w.hi \in BCond -> Word(84, 160 + 2 * (Cond(w) \div 2) + 1 - (Cond(w) % 2))
    [] w.hi \in CBZ \cup CBNZ -> Word(Flip(w.hi), 160 + Rd(w))
    [] w.hi \in TBZ \cup TBNZ -> Word(Flip(w.hi), (w.lo \div 2^19) * 2^19 + 160 + Rd(w))

LEMMA CondCase ==
  ASSUME NEW w \in Words, w.hi \in BCond, NEW b, NEW pc
  PROVE  Relocate(b, w, pc) = Around(Opposite(w), Target(w, pc))
<1>1. /\ IsPcRelative(w) /\ IsPcRelativeCopy(w) /\ w.hi % 32 # 16
      /\ w.hi \div 4 \notin {5, 37} /\ w.hi = 84 /\ (w.hi \div 2) % 64 # 26
      /\ (w.hi \div 2) % 64 # 27 /\ w.hi % 64 \notin {24, 28}
  BY DEF BCond, IsPcRelative, IsPcRelativeCopy
<1>2. Relocate(b, w, pc) = RelocateCond(w, pc)
  BY <1>1, Zenon DEF Relocate
<1>3. Imm19Target(w, pc) = Target(w, pc)
  BY Field19, ShortTarget DEF Imm19Target
<1>4. Opposite(w) = Word(84, 160 + 2 * (Cond(w) \div 2) + 1 - (Cond(w) % 2))
  BY <1>1 DEF Opposite, BCond, CBZ, CBNZ, TBZ, TBNZ
<1>. QED  BY <1>2, <1>3, <1>4 DEF RelocateCond

LEMMA ZeroCase ==
  ASSUME NEW w \in Words, w.hi \in CBZ \cup CBNZ, NEW b, NEW pc
  PROVE  Relocate(b, w, pc) = Around(Opposite(w), Target(w, pc))
<1>1. /\ IsPcRelative(w) /\ IsPcRelativeCopy(w) /\ w.hi % 32 # 16
      /\ w.hi \div 4 \notin {5, 37} /\ w.hi # 84 /\ (w.hi \div 2) % 64 = 26
      /\ (w.hi \div 2) % 64 # 27 /\ w.hi % 64 \notin {24, 28}
  BY DEF CBZ, CBNZ, IsPcRelative, IsPcRelativeCopy
<1>2. Relocate(b, w, pc) = RelocateCbz(w, pc)
  BY <1>1, Zenon DEF Relocate
<1>3. Imm19Target(w, pc) = Target(w, pc)
  BY Field19, ShortTarget DEF Imm19Target
<1>4. Opposite(w) = Word(Flip(w.hi), 160 + Rd(w))
  <2>1. w.hi \notin BCond /\ w.hi \notin TBZ \cup TBNZ
    BY DEF BCond, CBZ, CBNZ, TBZ, TBNZ
  <2>. QED  BY <2>1, Zenon DEF Opposite
<1>. QED  BY <1>2, <1>3, <1>4 DEF RelocateCbz

LEMMA BitCase ==
  ASSUME NEW w \in Words, w.hi \in TBZ \cup TBNZ, NEW b, NEW pc
  PROVE  Relocate(b, w, pc) = Around(Opposite(w), Target(w, pc))
<1>1. /\ IsPcRelative(w) /\ IsPcRelativeCopy(w) /\ w.hi % 32 # 16
      /\ w.hi \div 4 \notin {5, 37} /\ w.hi # 84 /\ (w.hi \div 2) % 64 # 26
      /\ (w.hi \div 2) % 64 = 27 /\ w.hi % 64 \notin {24, 28}
  BY DEF TBZ, TBNZ, IsPcRelative, IsPcRelativeCopy
<1>2. Relocate(b, w, pc) = RelocateTbz(w, pc)
  BY <1>1, Zenon DEF Relocate
<1>3. Plus(pc, 4 * SignExtend((w.lo \div 32) % 2^14, 2^13)) = Target(w, pc)
  BY Field14, BitTarget
<1>4. Opposite(w) = Word(Flip(w.hi), (w.lo \div 2^19) * 2^19 + 160 + Rd(w))
  <2>1. w.hi \notin BCond /\ w.hi \notin CBZ \cup CBNZ
    BY DEF BCond, CBZ, CBNZ, TBZ, TBNZ
  <2>. QED  BY <2>1, Zenon DEF Opposite
<1>. QED  BY <1>2, <1>3, <1>4 DEF RelocateTbz

LEMMA JumpCase ==
  ASSUME NEW w \in Words, w.hi \in B \cup BL, NEW b, NEW pc
  PROVE  /\ w.hi \in B => Relocate(b, w, pc) = JumpTo16(AddrV(Target(w, pc)))
         /\ w.hi \in BL => Relocate(b, w, pc) =
              Instructions(<<LdrX30(3), LdrX16(4), BrX16>>)
                \o Dword(AddrV(Plus(pc, 4))) \o Dword(AddrV(Target(w, pc)))
<1>1. /\ IsPcRelative(w) /\ IsPcRelativeCopy(w) /\ w.hi % 32 # 16
      /\ w.hi \div 4 \in {5, 37} /\ w.hi # 84 /\ (w.hi \div 2) % 64 # 26
      /\ (w.hi \div 2) % 64 # 27 /\ w.hi % 64 \notin {24, 28}
  BY DEF B, BL, IsPcRelative, IsPcRelativeCopy
<1>2. Relocate(b, w, pc) = RelocateBranch(w, pc)
  BY <1>1, Zenon DEF Relocate
<1>3. Plus(pc, 4 * SignExtend((w.hi % 4) * 2^24 + w.lo, 2^25)) = Target(w, pc)
  BY Field26, BranchTarget
<1>4. (w.hi \in B => w.hi < 128) /\ (w.hi \in BL => ~(w.hi < 128))
  BY DEF B, BL
<1>. QED  BY <1>2, <1>3, <1>4, Zenon DEF RelocateBranch

LEMMA AdrCase ==
  ASSUME NEW w \in Words, w.hi \in ADR \cup ADRP, NEW b, NEW pc
  PROVE  Relocate(b, w, pc) =
           Instructions(<<Word(88, 64 + Rd(w)), SkipDword>>)
             \o Dword(AddrV(Pointer(w, pc)))
<1>1. /\ IsPcRelative(w) /\ IsPcRelativeCopy(w) /\ w.hi % 32 = 16
      /\ w.hi \div 4 \notin {5, 37} /\ w.hi # 84 /\ (w.hi \div 2) % 64 # 26
      /\ (w.hi \div 2) % 64 # 27 /\ w.hi % 64 \notin {24, 28}
  BY DEF ADR, ADRP, IsPcRelative, IsPcRelativeCopy
<1>2. Relocate(b, w, pc) = RelocateAdr(w, pc)
  BY <1>1, Zenon DEF Relocate
<1>3. w.hi >= 128 <=> w.hi \in ADRP
  BY DEF ADR, ADRP
<1>. QED  BY <1>2, <1>3, Field21, Zenon DEF RelocateAdr, Pointer

LEMMA LiteralCase ==
  ASSUME NEW w \in Words, w.hi \in Literal, NEW b, NEW pc
  PROVE  Relocate(b, w, pc) =
           Instructions(<<Word(w.hi, 64 + Rd(w)), SkipDword>>)
             \o Dword(MemV("mem", Plus(pc, 4 * Imm19(w)), 8))
<1>1. /\ IsPcRelative(w) /\ IsPcRelativeCopy(w) /\ w.hi % 32 # 16
      /\ w.hi \div 4 \notin {5, 37} /\ w.hi # 84 /\ (w.hi \div 2) % 64 # 26
      /\ (w.hi \div 2) % 64 # 27 /\ w.hi % 64 \in {24, 28}
  BY DEF Literal, LDR4, LDR8, LDRSW, LDR16, PRFM, NoLiteral, IsPcRelative, IsPcRelativeCopy
<1>2. Relocate(b, w, pc) = RelocateLiteral(w, pc)
  BY <1>1, Zenon DEF Relocate
<1>3. Imm19Target(w, pc) = Plus(pc, 4 * Imm19(w))
  BY Field19 DEF Imm19Target
<1>. QED  BY <1>2, <1>3 DEF RelocateLiteral

(* Whatever the word and wherever it stood, both builders put in its place *)
(* a snippet with the very address that the architecture computes from it: *)
(* a jump, a call, an opposite test around a jump, the value of adr and    *)
(* adrp, the memory a literal names; and any other word as it is           *)
(* (relocator.rs:3-148 and compiler.rs:361-443).                           *)
THEOREM MovedWordsDecode ==
  ASSUME NEW w \in Words, NEW b, NEW pc
  PROVE  LET r == Relocate(b, w, pc)
             target == AddrV(Target(w, pc))
             load(v) == Instructions(<<Word(v, 64 + Rd(w)), SkipDword>>)
         IN  /\ w.hi \in B => r = JumpTo16(target)
             /\ w.hi \in BL => r =
                  Instructions(<<LdrX30(3), LdrX16(4), BrX16>>)
                    \o Dword(AddrV(Plus(pc, 4))) \o Dword(target)
             /\ w.hi \in Tests => r = Around(Opposite(w), Target(w, pc))
             /\ w.hi \in ADR \cup ADRP =>
                  r = load(88) \o Dword(AddrV(Pointer(w, pc)))
             /\ w.hi \in Literal =>
                  r = load(w.hi) \o Dword(MemV("mem", Plus(pc, 4 * Imm19(w)), 8))
             /\ w.hi \notin PcRelative => r = <<Insn(w)>>
<1>. DEFINE r == Relocate(b, w, pc)
            target == AddrV(Target(w, pc))
            load(v) == Instructions(<<Word(v, 64 + Rd(w)), SkipDword>>)
<1>1. /\ w.hi \in B => r = JumpTo16(target)
      /\ w.hi \in BL => r =
           Instructions(<<LdrX30(3), LdrX16(4), BrX16>>)
             \o Dword(AddrV(Plus(pc, 4))) \o Dword(target)
  BY JumpCase, Zenon
<1>2. w.hi \in Tests => r = Around(Opposite(w), Target(w, pc))
  BY CondCase, ZeroCase, BitCase, Zenon DEF Tests
<1>3. w.hi \in ADR \cup ADRP => r = load(88) \o Dword(AddrV(Pointer(w, pc)))
  BY AdrCase, Zenon
<1>4. w.hi \in Literal =>
        r = load(w.hi) \o Dword(MemV("mem", Plus(pc, 4 * Imm19(w)), 8))
  BY LiteralCase, Zenon
<1>5. w.hi \notin PcRelative => r = <<Insn(w)>>
  BY MovedLength, Zenon
<1>. QED  BY <1>1, <1>2, <1>3, <1>4, <1>5, Zenon

-----------------------------------------------------------------------------
(* A moved test is the opposite one over a jump.                           *)

(* What a test logs, reads and asks.                                       *)
What(w) == IF w.hi \in BCond THEN "cond" ELSE IF w.hi \in CBZ \cup CBNZ THEN "zero" ELSE "clear"
Reads(m, w) == IF w.hi \in BCond THEN InitV(0) ELSE X(m, Rd(w))
Which(w) == IF w.hi \in BCond THEN Cond(w) \div 2
            ELSE IF w.hi \in CBZ \cup CBNZ THEN w.hi \div 128
            ELSE (w.hi \div 128) * 32 + (w.lo \div 2^19)
Wants(w) == IF w.hi \in BCond THEN Cond(w) % 2 = 0 ELSE w.hi \in CBZ \cup TBZ

IsTest(w) == w.hi \in Tests /\ (w.hi \in BCond => Cond(w) < 14)

LEMMA SmallTarget ==
  ASSUME NEW v \in Words, NEW pc, v.lo \div 32 = 5 \/ (v.lo \div 32) % 16384 = 5,
         v.hi \in BCond \cup CBZ \cup CBNZ => v.lo \div 32 = 5,
         v.hi \in Tests
  PROVE  Target(v, pc) = Plus(pc, 20)
<1>1. CASE v.hi \in BCond \cup CBZ \cup CBNZ
  <2>1. Imm19(v) = 5
    BY <1>1, Sizes, SMT DEF Imm19, Signed
  <2>2. Target(v, pc) = Plus(pc, 4 * 5)
    BY <1>1, <2>1, ShortTarget
  <2>. QED  BY <2>2
<1>2. CASE v.hi \in TBZ \cup TBNZ
  <2>1. (v.lo \div 32) % 16384 = 5
    BY SMT
  <2>2. Imm14(v) = 5
    BY <2>1, Sizes, SMT DEF Imm14, Signed
  <2>3. Target(v, pc) = Plus(pc, 4 * 5)
    BY <1>2, <2>2, BitTarget
  <2>. QED  BY <2>3
<1>. QED  BY <1>1, <1>2 DEF Tests

LEMMA OppositeCond ==
  ASSUME NEW w \in Words, w.hi \in BCond, Cond(w) < 14
  PROVE  LET v == Opposite(w) IN
         /\ v \in Words /\ v.hi \in BCond
         /\ Cond(v) \div 2 = Cond(w) \div 2 /\ Cond(v) < 14
         /\ (Cond(v) % 2 = 0) <=> (Cond(w) % 2 # 0)
         /\ v.lo \div 32 = 5
<1>. DEFINE c == Cond(w)
            v == Word(84, 160 + 2 * (c \div 2) + 1 - (c % 2))
<1>1. c \in Int /\ 0 <= c /\ c < 14
  BY WordFields, SMT DEF Cond
<1>2. Opposite(w) = v
  BY DEF Opposite, BCond, CBZ, CBNZ, TBZ, TBNZ
<1>3. v.lo = 160 + 2 * (c \div 2) + 1 - (c % 2) /\ v.hi = 84
  BY DEF Word
<1>. HIDE DEF c
<1>4. v.lo \in Int /\ 160 <= v.lo /\ v.lo < 176 /\ v.lo \div 32 = 5
  BY <1>1, <1>3, SMT
<1>5. v \in Words
  <2>1. v.lo \in 0 .. 2^24 - 1 /\ v.hi \in 0 .. 255
    BY <1>3, <1>4, Sizes, SMT
  <2>. QED  BY <2>1 DEF Word, Words
<1>6. Cond(v) = 2 * (c \div 2) + 1 - (c % 2)
  BY <1>1, <1>3, SMT DEF Cond
<1>7. /\ Cond(v) \div 2 = c \div 2 /\ Cond(v) < 14
      /\ (Cond(v) % 2 = 0) <=> (c % 2 # 0)
  BY <1>1, <1>6, SMT
<1>. QED  BY <1>2, <1>3, <1>4, <1>5, <1>7 DEF c, BCond

LEMMA Flipped ==
  ASSUME NEW w \in Words, w.hi \in CBZ \cup CBNZ \cup TBZ \cup TBNZ
  PROVE  /\ Flip(w.hi) \in 0 .. 255
         /\ w.hi \in CBZ <=> Flip(w.hi) \in CBNZ
         /\ w.hi \in CBNZ <=> Flip(w.hi) \in CBZ
         /\ w.hi \in TBZ <=> Flip(w.hi) \in TBNZ
         /\ w.hi \in TBNZ <=> Flip(w.hi) \in TBZ
         /\ Flip(w.hi) \div 128 = w.hi \div 128
  BY DEF Flip, CBZ, CBNZ, TBZ, TBNZ

LEMMA OppositeZero ==
  ASSUME NEW w \in Words, w.hi \in CBZ \cup CBNZ
  PROVE  LET v == Opposite(w) IN
         /\ v \in Words /\ v.hi = Flip(w.hi) /\ Rd(v) = Rd(w) /\ v.lo \div 32 = 5
<1>. DEFINE r == Rd(w)
            v == Word(Flip(w.hi), 160 + r)
<1>1. r \in Int /\ 0 <= r /\ r < 32
  BY WordFields, SMT DEF Rd
<1>2. Opposite(w) = v
  <2>1. w.hi \notin BCond /\ w.hi \notin TBZ \cup TBNZ
    BY DEF BCond, CBZ, CBNZ, TBZ, TBNZ
  <2>. QED  BY <2>1, Zenon DEF Opposite
<1>3. v.lo = 160 + r /\ v.hi = Flip(w.hi)
  BY DEF Word
<1>. HIDE DEF r
<1>4. v.lo \div 32 = 5 /\ v.lo % 32 = r
  BY <1>1, <1>3, SMT
<1>5. v \in Words
  <2>1. v.lo \in 0 .. 2^24 - 1
    BY <1>1, <1>3, Sizes, SMT
  <2>. QED  BY <1>3, <2>1, Flipped DEF Word, Words
<1>. QED  BY <1>2, <1>3, <1>4, <1>5 DEF r, Rd

LEMMA OppositeBit ==
  ASSUME NEW w \in Words, w.hi \in TBZ \cup TBNZ
  PROVE  LET v == Opposite(w) IN
         /\ v \in Words /\ v.hi = Flip(w.hi) /\ Rd(v) = Rd(w)
         /\ v.lo \div 2^19 = w.lo \div 2^19
         /\ (v.lo \div 32) % 16384 = 5
<1>. DEFINE r == Rd(w)
            k == w.lo \div 2^19
            v == Word(Flip(w.hi), k * 2^19 + 160 + r)
<1>1. r \in Int /\ 0 <= r /\ r < 32
  BY WordFields, SMT DEF Rd
<1>2. k \in Int /\ 0 <= k /\ k < 32
  BY WordFields, Sizes, SMT
<1>3. Opposite(w) = v
  <2>1. w.hi \notin BCond /\ w.hi \notin CBZ \cup CBNZ
    BY DEF BCond, CBZ, CBNZ, TBZ, TBNZ
  <2>. QED  BY <2>1, Zenon DEF Opposite
<1>4. v.lo = k * 2^19 + 160 + r /\ v.hi = Flip(w.hi)
  BY DEF Word
<1>. HIDE DEF r, k
<1>5. v.lo = k * 524288 + 160 + r
  BY <1>1, <1>2, <1>4, Sizes, SMT
<1>6. v.lo % 32 = r /\ v.lo \div 524288 = k /\ (v.lo \div 32) % 16384 = 5
  BY <1>1, <1>2, <1>5, SMT
<1>7. v \in Words
  <2>1. v.lo \in 0 .. 2^24 - 1
    BY <1>1, <1>2, <1>5, Sizes, SMT
  <2>. QED  BY <1>4, <2>1, Flipped DEF Word, Words
<1>8. v.lo \div 2^19 = k
  BY <1>6, Sizes, SMT
<1>. QED  BY <1>3, <1>4, <1>6, <1>7, <1>8 DEF r, k, Rd

LEMMA TestRuns ==
  ASSUME NEW m, IsCore(m), NEW w, NEW what, NEW v, NEW n, NEW wants, NEW b
  PROVE  LET r == Test(m, w, what, v, n, wants, b) IN
         /\ r.pc = IF b = wants THEN Target(w, m.pc) ELSE Plus(m.pc, 4)
         /\ r.log = Append(m.log, [what |-> what, v |-> v, n |-> n])
<1>. DEFINE pc == IF b = wants THEN Target(w, m.pc) ELSE Plus(m.pc, 4)
            g == Go(m, pc)
            e == [what |-> what, v |-> v, n |-> n]
<1>1. Test(m, w, what, v, n, wants, b) = See(g, what, v, n)
  BY DEF Test
<1>. HIDE DEF pc
<1>2. IsCore(g) /\ g.pc = pc /\ g.log = m.log
  BY DEF Go, IsCore
<1>3. See(g, what, v, n) = [g EXCEPT !.log = Append(g.log, e)]
  BY DEF See
<1>. HIDE DEF g, e
<1>4. See(g, what, v, n).pc = pc /\ See(g, what, v, n).log = Append(m.log, e)
  <2>. DEFINE l == Append(g.log, e)
  <2>1. l = Append(m.log, e) /\ See(g, what, v, n) = [g EXCEPT !.log = l]
    BY <1>2, <1>3
  <2>. HIDE DEF l
  <2>2. See(g, what, v, n).pc = pc /\ See(g, what, v, n).log = l
    BY <1>2, <2>1 DEF IsCore
  <2>. QED  BY <2>1, <2>2
<1>. QED  BY <1>1, <1>4 DEF pc, e

LEMMA ExecuteTest ==
  ASSUME NEW m, NEW w \in Words, IsTest(w), NEW ss, NEW b
  PROVE  Execute(m, w, ss, b) = Test(m, w, What(w), Reads(m, w), Which(w), Wants(w), b)
<1>1. w.hi \notin B /\ w.hi \notin BL
  BY DEF IsTest, Tests, B, BL, BCond, CBZ, CBNZ, TBZ, TBNZ
<1>2. /\ w.hi \notin ADR /\ w.hi \notin ADRP /\ w.hi \notin Literal /\ w.hi # 214
  BY DEF IsTest, Tests, BCond, CBZ, CBNZ, TBZ, TBNZ, ADR, ADRP, Literal, LDR4, LDR8, LDRSW,
         LDR16, PRFM, NoLiteral
<1>3. CASE w.hi \in BCond
  <2>1. w.hi \notin CBZ \cup CBNZ /\ w.hi \notin TBZ \cup TBNZ /\ ~(Cond(w) >= 14)
    <3>1. w.hi \notin CBZ \cup CBNZ /\ w.hi \notin TBZ \cup TBNZ
      BY <1>3 DEF BCond, CBZ, CBNZ, TBZ, TBNZ
    <3>2. Cond(w) < 14 /\ Cond(w) \in Int
      BY <1>3, WordFields, SMT DEF IsTest, Cond
    <3>. QED  BY <3>1, <3>2, SMT
  <2>. QED  BY <1>1, <1>2, <1>3, <2>1, Zenon DEF Execute, What, Reads, Which, Wants, IsBr, IsRet
<1>4. CASE w.hi \in CBZ \cup CBNZ
  <2>1. w.hi \notin BCond /\ w.hi \notin TBZ \cup TBNZ /\ (w.hi \in CBZ \cup TBZ) = (w.hi \in CBZ)
    BY <1>4 DEF BCond, CBZ, CBNZ, TBZ, TBNZ
  <2>. QED  BY <1>1, <1>2, <1>4, <2>1, Zenon DEF Execute, What, Reads, Which, Wants, IsBr, IsRet
<1>5. CASE w.hi \in TBZ \cup TBNZ
  <2>1. w.hi \notin BCond /\ w.hi \notin CBZ \cup CBNZ /\ (w.hi \in CBZ \cup TBZ) = (w.hi \in TBZ)
    BY <1>5 DEF BCond, CBZ, CBNZ, TBZ, TBNZ
  <2>. QED  BY <1>1, <1>2, <1>5, <2>1, Zenon DEF Execute, What, Reads, Which, Wants, IsBr, IsRet
<1>. QED  BY <1>3, <1>4, <1>5 DEF IsTest, Tests

LEMMA TestEffect ==
  ASSUME NEW m, IsCore(m), NEW w \in Words, IsTest(w), NEW ss, NEW b
  PROVE  LET r == Execute(m, w, ss, b) IN
         /\ r.pc = IF b = Wants(w) THEN Target(w, m.pc) ELSE Plus(m.pc, 4)
         /\ r.log = Append(m.log, [what |-> What(w), v |-> Reads(m, w), n |-> Which(w)])
<1>. DEFINE what == What(w)
            v == Reads(m, w)
            n == Which(w)
            wants == Wants(w)
            t == Test(m, w, what, v, n, wants, b)
<1>1. Execute(m, w, ss, b) = t
  BY ExecuteTest
<1>2. ASSUME NEW q, NEW u, NEW k, NEW c
      PROVE  LET r == Test(m, w, q, u, k, c, b) IN
             /\ r.pc = IF b = c THEN Target(w, m.pc) ELSE Plus(m.pc, 4)
             /\ r.log = Append(m.log, [what |-> q, v |-> u, n |-> k])
  BY TestRuns, SMTT(30)
<1>3. /\ t.pc = IF b = wants THEN Target(w, m.pc) ELSE Plus(m.pc, 4)
      /\ t.log = Append(m.log, [what |-> what, v |-> v, n |-> n])
  BY <1>2, Zenon
<1>. HIDE DEF what, v, n, wants, t
<1>4. LET r == Execute(m, w, ss, b) IN
      /\ r.pc = IF b = wants THEN Target(w, m.pc) ELSE Plus(m.pc, 4)
      /\ r.log = Append(m.log, [what |-> what, v |-> v, n |-> n])
  BY <1>1, <1>3, Zenon
<1>. QED  BY <1>4, Zenon DEF what, v, n, wants

LEMMA OppositeTests ==
  ASSUME NEW w \in Words, IsTest(w), NEW m, NEW n, Reads(n, w) = Reads(m, w)
  PROVE  LET v == Opposite(w) IN
         /\ v \in Words /\ IsTest(v)
         /\ What(v) = What(w) /\ Reads(n, v) = Reads(m, w) /\ Which(v) = Which(w)
         /\ Wants(v) = ~Wants(w)
         /\ \A pc : Target(v, pc) = Plus(pc, 20)
<1>. DEFINE v == Opposite(w)
<1>0. w.hi \notin BCond => X(n, Rd(w)) = X(m, Rd(w))
  BY DEF Reads
<1>1. CASE w.hi \in BCond
  <2>1. /\ v \in Words /\ v.hi \in BCond
        /\ Cond(v) \div 2 = Cond(w) \div 2 /\ Cond(v) < 14
        /\ (Cond(v) % 2 = 0) <=> (Cond(w) % 2 # 0)
        /\ v.lo \div 32 = 5
    BY <1>1, OppositeCond DEF IsTest
  <2>. HIDE DEF v
  <2>2. \A pc : Target(v, pc) = Plus(pc, 20)
    BY <2>1, SmallTarget DEF Tests
  <2>3. Wants(v) = ~Wants(w)
    BY <1>1, <2>1 DEF Wants
  <2>. QED  BY <1>1, <2>1, <2>2, <2>3 DEF IsTest, Tests, What, Reads, Which, v
<1>2. CASE w.hi \in CBZ \cup CBNZ
  <2>1. /\ v \in Words /\ v.hi = Flip(w.hi) /\ Rd(v) = Rd(w) /\ v.lo \div 32 = 5
    BY <1>2, OppositeZero
  <2>. HIDE DEF v
  <2>2. /\ v.hi \in CBZ \cup CBNZ /\ v.hi \div 128 = w.hi \div 128
        /\ v.hi \in CBZ <=> w.hi \in CBNZ
    BY <1>2, <2>1, Flipped
  <2>3. \A pc : Target(v, pc) = Plus(pc, 20)
    BY <2>1, <2>2, SmallTarget DEF Tests
  <2>4. /\ w.hi \notin BCond /\ v.hi \notin BCond /\ w.hi \notin TBZ /\ v.hi \notin TBZ
        /\ w.hi \in CBZ <=> w.hi \notin CBNZ
    BY <1>2, <2>2 DEF BCond, CBZ, CBNZ, TBZ
  <2>5. Wants(v) = ~Wants(w)
    BY <1>2, <2>2, <2>4 DEF Wants
  <2>. QED  BY <1>0, <1>2, <2>1, <2>2, <2>3, <2>4, <2>5 DEF IsTest, Tests, What, Reads, Which, v
<1>3. CASE w.hi \in TBZ \cup TBNZ
  <2>1. /\ v \in Words /\ v.hi = Flip(w.hi) /\ Rd(v) = Rd(w)
        /\ v.lo \div 2^19 = w.lo \div 2^19 /\ (v.lo \div 32) % 16384 = 5
    BY <1>3, OppositeBit
  <2>. HIDE DEF v
  <2>2. /\ v.hi \in TBZ \cup TBNZ /\ v.hi \div 128 = w.hi \div 128
        /\ v.hi \in TBZ <=> w.hi \in TBNZ
    BY <1>3, <2>1, Flipped
  <2>4. /\ w.hi \notin BCond /\ v.hi \notin BCond
        /\ w.hi \notin CBZ \cup CBNZ /\ v.hi \notin CBZ \cup CBNZ
        /\ w.hi \in TBZ <=> w.hi \notin TBNZ
    BY <1>3, <2>2 DEF BCond, CBZ, CBNZ, TBZ, TBNZ
  <2>3. \A pc : Target(v, pc) = Plus(pc, 20)
    BY <2>1, <2>2, <2>4, SmallTarget DEF Tests
  <2>5. Wants(v) = ~Wants(w)
    BY <1>3, <2>2, <2>4 DEF Wants
  <2>. QED  BY <1>0, <1>3, <2>1, <2>2, <2>3, <2>4, <2>5 DEF IsTest, Tests, What, Reads, Which, v
<1>. QED  BY <1>1, <1>2, <1>3 DEF IsTest, Tests

(* A moved test asks of the same register the same question as the         *)
(* original and goes over the jump exactly when that did not branch, for   *)
(* every test that has an opposite (relocator.rs:71-131).                  *)
THEOREM TestsAgree ==
  ASSUME NEW w \in Words, IsTest(w), NEW b \in BOOLEAN,
         NEW m, IsCore(m), NEW n, IsCore(n),
         Reads(n, w) = Reads(m, w), n.log = m.log, NEW ss, NEW tt
  PROVE  LET old == Execute(m, w, ss, b)
             moved == Execute(n, Opposite(w), tt, b)
         IN  /\ moved.log = old.log
             /\ \/ old.pc = Target(w, m.pc) /\ moved.pc = Plus(n.pc, 4)
                \/ old.pc = Plus(m.pc, 4) /\ moved.pc = Plus(n.pc, 20)
<1>. DEFINE v == Opposite(w)
            old == Execute(m, w, ss, b)
            moved == Execute(n, v, tt, b)
<1>1. /\ v \in Words /\ IsTest(v)
      /\ What(v) = What(w) /\ Reads(n, v) = Reads(m, w) /\ Which(v) = Which(w)
      /\ Wants(v) = ~Wants(w)
      /\ \A pc : Target(v, pc) = Plus(pc, 20)
  BY OppositeTests
<1>. HIDE DEF v
<1>3. /\ old.pc = IF b = Wants(w) THEN Target(w, m.pc) ELSE Plus(m.pc, 4)
      /\ old.log = Append(m.log, [what |-> What(w), v |-> Reads(m, w), n |-> Which(w)])
  BY TestEffect
<1>4. /\ moved.pc = IF b = Wants(v) THEN Target(v, n.pc) ELSE Plus(n.pc, 4)
      /\ moved.log = Append(n.log, [what |-> What(v), v |-> Reads(n, v), n |-> Which(v)])
  BY <1>1, TestEffect
<1>. HIDE DEF old, moved
<1>5. moved.log = old.log
  BY <1>1, <1>3, <1>4
<1>6. Wants(w) \in BOOLEAN
  <2>1. CASE w.hi \in BCond
    BY <2>1, Zenon DEF Wants
  <2>2. CASE w.hi \notin BCond /\ w.hi \in CBZ \cup TBZ
    BY <2>2 DEF Wants
  <2>3. CASE w.hi \notin BCond /\ w.hi \notin CBZ \cup TBZ
    BY <2>3 DEF Wants
  <2>. QED  BY <2>1, <2>2, <2>3
<1>7. \/ old.pc = Target(w, m.pc) /\ moved.pc = Plus(n.pc, 4)
      \/ old.pc = Plus(m.pc, 4) /\ moved.pc = Plus(n.pc, 20)
  BY <1>1, <1>3, <1>4, <1>6
<1>. QED  BY <1>5, <1>7 DEF old, moved, v

-----------------------------------------------------------------------------
(* The one-word jump of the harness.                                       *)

LEMMA Halves ==
  ASSUME NEW q \in Int
  PROVE  /\ q \div 16777216 \in Int /\ q % 16777216 \in Int
         /\ q = 16777216 * (q \div 16777216) + (q % 16777216)
         /\ 0 <= q % 16777216 /\ q % 16777216 < 16777216
  BY SMT

LEMMA Wraps ==
  ASSUME NEW q, q \in Int, -33554432 <= q, q < 33554432
  PROVE  LET r == q % 67108864 IN
         /\ r \in Int /\ 0 <= r /\ r < 67108864
         /\ q = IF r < 33554432 THEN r ELSE r - 67108864
  BY SMT

LEMMA Paged ==
  ASSUME NEW k \in Int, NEW o \in Int, 0 <= o, o < 4096
  PROVE  (4096 * k + o) \div 4096 = k /\ (4096 * k + o) % 4096 = o
  BY SMT

LEMMA Apart ==
  ASSUME NEW p \in Int, NEW o \in Int, 0 <= o, o < 4096, o % 4 = 0,
         NEW k \in Int, NEW n \in Int, 0 <= n, n < 4096, n % 4 = 0,
         NEW d, d = (k - p) * 4096 + n - o
  PROVE  /\ d \in Int /\ d % 4 = 0
         /\ (o + d) \div 4096 = k - p /\ (o + d) % 4096 = n
<1>1. o + d = 4096 * (k - p) + n
  BY SMT
<1>. QED  BY <1>1, Paged, SMTT(30)

LEMMA InPage ==
  ASSUME NEW a \in Addresses
  PROVE  /\ a.page \in Int /\ a.off \in Int /\ 0 <= a.off /\ a.off < 4096
         /\ a = [page |-> a.page, off |-> a.off]
<1>1. a.page \in Int /\ a.off \in 0 .. 4095 /\ a = [page |-> a.page, off |-> a.off]
  BY DEF Addresses
<1>. DEFINE o == a.off
<1>2. o \in 0 .. 4095
  BY <1>1
<1>. HIDE DEF o
<1>3. o \in Int /\ 0 <= o /\ o < 4096
  BY <1>2
<1>. QED  BY <1>1, <1>3 DEF o

LEMMA WordIn ==
  ASSUME NEW hi \in 0 .. 255, NEW lo \in 0 .. 2^24 - 1
  PROVE  Word(hi, lo) \in Words
  BY DEF Word, Words

(* Where can_branch_26 says that the stub is near, the word that           *)
(* make_branch_26 writes over the function is a branch to that stub        *)
(* (compiler.rs:340-349).                                                  *)
THEOREM NearJumpLands ==
  ASSUME NEW from \in Addresses, NEW to \in Addresses,
         from.off % 4 = 0, to.off % 4 = 0, CanBranch26(from, to)
  PROVE  /\ MakeBranch26(from, to) \in Words /\ MakeBranch26(from, to).hi \in B
         /\ Target(MakeBranch26(from, to), from) = to
<1>. DEFINE d == Distance(to, from)
            q == d \div 4
            r == q % 67108864
            v == MakeBranch26(from, to)
<1>1. /\ from.page \in Int /\ from.off \in Int /\ 0 <= from.off /\ from.off < 4096
      /\ to.page \in Int /\ to.off \in Int /\ 0 <= to.off /\ to.off < 4096
  BY InPage
<1>2. d = (to.page - from.page) * 4096 + to.off - from.off
  BY DEF Distance
<1>3. d \in Int /\ -134217728 <= d /\ d <= 134217724
  <2>1. d \in Int
    BY <1>1, <1>2, SMT
  <2>2. d \in -2^27 .. 2^27 - 4
    BY SMT DEF CanBranch26
  <2>. HIDE DEF d
  <2>. QED  BY <2>1, <2>2, Sizes, SMT
<1>4. d = 4 * q /\ q \in Int /\ -33554432 <= q /\ q < 33554432
  <2>1. d % 4 = 0
    BY <1>1, <1>2, Apart, SMT
  <2>. HIDE DEF d
  <2>. QED  BY <1>3, <2>1, SMT
<1>. HIDE DEF q
<1>5. /\ r \in Int /\ 0 <= r /\ r < 67108864
      /\ q = IF r < 33554432 THEN r ELSE r - 67108864
  BY <1>4, Wraps, SMT
<1>6. v = Word(20 + (r \div 16777216), r % 16777216)
  BY Sizes, SMT DEF MakeBranch26, q
<1>. HIDE DEF r, d, v
<1>7. /\ r \div 16777216 \in Int /\ r \div 16777216 >= 0 /\ r \div 16777216 < 4
      /\ r = 16777216 * (r \div 16777216) + (r % 16777216)
      /\ r % 16777216 \in Int /\ 0 <= r % 16777216 /\ r % 16777216 < 16777216
  BY <1>5, Halves, SMT
<1>8. v.hi = 20 + (r \div 16777216) /\ v.lo = r % 16777216
  BY <1>6 DEF Word
<1>9. v \in Words /\ v.hi \in B
  <2>1. v.hi \in 20 .. 23 /\ v.hi \in 0 .. 255 /\ v.lo \in 0 .. 2^24 - 1
    BY <1>7, <1>8, Sizes, SMT
  <2>2. Word(v.hi, v.lo) \in Words
    BY <2>1, WordIn
  <2>3. v = Word(v.hi, v.lo)
    BY <1>6, <1>8, SMT
  <2>. QED  BY <2>1, <2>2, <2>3 DEF B
<1>10. Imm26(v) = q
  <2>1. (v.hi % 4) * 2^24 + v.lo = r
    <3>. DEFINE h == r \div 16777216
                l == r % 16777216
    <3>1. h \in Int /\ 0 <= h /\ h < 4 /\ r = 16777216 * h + l /\ l \in Int
      BY <1>7, SMT
    <3>. HIDE DEF h, l
    <3>2. (20 + h) % 4 = h
      BY <3>1, SMT
    <3>. QED  BY <1>8, <3>1, <3>2, Sizes, SMT DEF h, l
  <2>2. Imm26(v) = IF r < 33554432 THEN r ELSE r - 67108864
    BY <1>5, <2>1, Sizes, SMT DEF Imm26, Signed
  <2>. QED  BY <1>5, <2>2, SMT
<1>11. Target(v, from) = Plus(from, 4 * q)
  BY <1>9, <1>10, BranchTarget
<1>12. Plus(from, 4 * q) = to
  <2>1. to = [page |-> to.page, off |-> to.off]
    BY InPage
  <2>2. (from.off + d) \div 4096 = to.page - from.page /\ (from.off + d) % 4096 = to.off
    <3>. DEFINE p == from.page
                o == from.off
                k == to.page
                n == to.off
    <3>1. /\ p \in Int /\ o \in Int /\ 0 <= o /\ o < 4096 /\ o % 4 = 0
          /\ k \in Int /\ n \in Int /\ 0 <= n /\ n < 4096 /\ n % 4 = 0
          /\ d = (k - p) * 4096 + n - o
      BY <1>1, <1>2
    <3>. HIDE DEF p, o, k, n
    <3>2. (o + d) \div 4096 = k - p /\ (o + d) % 4096 = n
      BY <3>1, Apart
    <3>. QED  BY <3>2 DEF p, o, k, n
  <2>3. Plus(from, d) = [page |-> from.page + (from.off + d) \div 4096, off |-> (from.off + d) % 4096]
    BY DEF Plus, Address
  <2>4. Plus(from, d) = [page |-> to.page, off |-> to.off]
    BY <1>1, <2>2, <2>3, SMT
  <2>. QED  BY <1>4, <2>1, <2>4, SMT
<1>. QED  BY <1>9, <1>11, <1>12 DEF v

-----------------------------------------------------------------------------
(* The hooked run follows the run of the prologue as it was.               *)

OldStep(m) == Step(m, {Untouched}, F, MaxSteps, yes)

Hooked == {BuildTrampoline, BuildStub, OverwriteWithJump}

(* One step of the hooked run.                                             *)
NewStep(n) ==
  IF n.pc = Thunk THEN Go(Set(n, 16, AddrV(Trampoline)), Trampoline)
  ELSE Step(n, Hooked, F, MaxSteps, yes)

(* n is in every set that holds m and, of a run not at its end, the next   *)
(* core: a run from m comes to n.                                          *)
Closed(own, b, cores) ==
  \A c \in cores : c.end = "" => Step(c, {own}, F, MaxSteps, b) \in cores

Leads(own, b, m, n) == \A cores : m \in cores /\ Closed(own, b, cores) => n \in cores

(* The addresses that mean the same before and after.                      *)
Free(a) == a \in Addresses /\ a \notin Fresh /\ ~Inside(a)

Linker == {16, 17}

Code == BuildTrampoline.cells
Place(k) == Plus(Trampoline, 4 * (k - 1))

(* The cells of the first i moved words.                                   *)
Start(i) ==
  (IF i > 0 THEN Len(Moved[1]) ELSE 0) + (IF i > 1 THEN Len(Moved[2]) ELSE 0)
    + (IF i > 2 THEN Len(Moved[3]) ELSE 0) + (IF i > 3 THEN Len(Moved[4]) ELSE 0)

(* But for x16 and x17, the same, and no address of a stolen word.         *)
Agree(m, n) ==
  /\ IsCore(m) /\ IsCore(n)
  /\ n.log = m.log /\ n.linked = m.linked /\ n.end = m.end
  /\ DOMAIN m.x \ Linker = DOMAIN n.x \ Linker
  /\ \A r \in DOMAIN m.x \ Linker : n.x[r] = m.x[r]
  /\ \A r \in DOMAIN m.x : m.x[r].k = "addr" => Free(m.x[r].a)

(* What the prologue itself wrote to x16 and x17 is there.                 *)
Carries(m, n) == \A r \in DOMAIN m.x \cap Linker : r \in DOMAIN n.x /\ n.x[r] = m.x[r]

(* m went through the first i words.                                       *)
Past(m, i) ==
  \A j \in 1 .. i :
    Stolen[j] # Ret /\ \A r \in Linker : Writes(Stolen[j], r) => r \in DOMAIN m.x

(* m has executed the first i words, and n what became of them.            *)
OnLine(m, n, i) ==
  /\ i \in 0 .. StolenLen
  /\ Agree(m, n) /\ m.end = ""
  /\ m.pc = Plus(F, 4 * i) /\ m.steps = i
  /\ Carries(m, n) /\ Past(m, i)

AtStart(m, n, i) ==
  OnLine(m, n, i) /\ n.pc = Place(Start(i) + 1) /\ n.steps \in 0 .. 5 + 2 * i

(* Before the jump over a literal.                                         *)
Skipping(m, n, i) ==
  /\ OnLine(m, n, i) /\ i > 0 /\ n.steps \in 0 .. 4 + 2 * i
  /\ Start(i) - 2 \in DOMAIN Code /\ n.pc = Place(Start(i) - 2)
  /\ Code[Start(i) - 2] = Insn(SkipDword)

(* m has left the prologue, n is on its way.                               *)
Away(m, n) ==
  Agree(m, n) /\ m.end = "" /\ Free(m.pc) /\ m.steps \in 1 .. 4

Jumping(m, n) ==
  /\ Away(m, n) /\ n.steps \in 1 .. 15
  /\ \E k \in DOMAIN Code, d \in {2, 4} :
       /\ n.pc = Place(k) /\ {k + 1, k + d} \subseteq DOMAIN Code
       /\ Code[k] = Insn(LdrX16(d)) /\ Code[k + 1] = Insn(BrX16)
       /\ Code[k + d] = Data(AddrV(m.pc), 0)

Branching(m, n) ==
  /\ Away(m, n) /\ n.steps \in 1 .. 16
  /\ \E k \in DOMAIN Code :
       /\ n.pc = Place(k) /\ Code[k] = Insn(BrX16)
       /\ 16 \in DOMAIN n.x /\ n.x[16] = AddrV(m.pc)

(* Both have left, or are at their end.                                    *)
Out(m, n) ==
  /\ Agree(m, n) /\ n.pc = m.pc
  /\ m.end = "" =>
       /\ Free(m.pc) /\ m.steps \in 1 .. 5 /\ n.steps \in 1 .. 21
       /\ m.linked => m.steps <= 4 /\ n.steps <= 20

(* The way from the jump to the trampoline.                                *)
Entering(m, n) ==
  /\ m = Core(F) /\ Agree(m, n)
  /\ \/ n.pc = F /\ n.steps = 0
     \/ /\ n.pc = Plus(F, 4) /\ StolenLen = 4 /\ n.steps = 1
        /\ LET r == IF builder = "engine" THEN 16 ELSE 17
           IN  r \in DOMAIN n.x /\ n.x[r] = AddrV(stub)
     \/ n.pc = stub /\ n.steps \in 1 .. 2
     \/ n.pc = Plus(stub, 4) /\ n.steps \in 1 .. 3
     \/ n.pc = Plus(stub, 8) /\ n.steps \in 1 .. 4 /\ 17 \in DOMAIN n.x /\ n.x[17] = AddrV(Thunk)
     \/ n.pc = Thunk /\ n.steps \in 1 .. 5

Follows(m, n) ==
  \/ Entering(m, n)
  \/ \E i \in 0 .. StolenLen : AtStart(m, n, i) \/ Skipping(m, n, i)
  \/ Jumping(m, n) \/ Branching(m, n) \/ Out(m, n)

-----------------------------------------------------------------------------
(* Addresses, flattened.                                                   *)

Flat(a) == 4096 * a.page + a.off

LEMMA Divided ==
  ASSUME NEW q \in Int
  PROVE  /\ q \div 4096 \in Int /\ q % 4096 \in Int
         /\ q = 4096 * (q \div 4096) + (q % 4096)
         /\ 0 <= q % 4096 /\ q % 4096 < 4096
  BY SMT

LEMMA IsAddress ==
  ASSUME NEW p \in Int, NEW o \in Int, 0 <= o, o < 4096
  PROVE  Address(p, o) \in Addresses /\ Flat(Address(p, o)) = 4096 * p + o
<1>1. o \in 0 .. 4095
  OBVIOUS
<1>. QED  BY <1>1 DEF Address, Addresses, Flat

LEMMA FlatPlus ==
  ASSUME NEW a \in Addresses, NEW n \in Int
  PROVE  Plus(a, n) \in Addresses /\ Flat(Plus(a, n)) = Flat(a) + n
<1>. DEFINE q == a.off + n
            p == a.page
<1>1. p \in Int /\ a.off \in Int /\ q \in Int
  BY InPage
<1>2. Plus(a, n) = Address(p + q \div 4096, q % 4096)
  BY DEF Plus
<1>. HIDE DEF q
<1>3. /\ q \div 4096 \in Int /\ q % 4096 \in Int
      /\ q = 4096 * (q \div 4096) + (q % 4096)
      /\ 0 <= q % 4096 /\ q % 4096 < 4096
  BY <1>1, Divided
<1>. DEFINE d == q \div 4096
            r == q % 4096
<1>. HIDE DEF d, r, p
<1>4. d \in Int /\ r \in Int /\ q = 4096 * d + r /\ 0 <= r /\ r < 4096
  BY <1>3 DEF d, r
<1>5. Address(p + d, r) \in Addresses /\ Flat(Address(p + d, r)) = 4096 * (p + d) + r
  BY <1>1, <1>4, IsAddress
<1>6. 4096 * (p + d) + r = 4096 * p + q
  BY <1>1, <1>4, SMT
<1>7. Flat(a) = 4096 * p + a.off /\ q = a.off + n
  BY DEF Flat, p, q
<1>. QED  BY <1>1, <1>2, <1>5, <1>6, <1>7, SMT DEF d, r

LEMMA FlatEqual ==
  ASSUME NEW a \in Addresses, NEW b \in Addresses, Flat(a) = Flat(b)
  PROVE  a = b
<1>1. /\ a.page \in Int /\ a.off \in Int /\ 0 <= a.off /\ a.off < 4096
      /\ b.page \in Int /\ b.off \in Int /\ 0 <= b.off /\ b.off < 4096
      /\ a = [page |-> a.page, off |-> a.off] /\ b = [page |-> b.page, off |-> b.off]
  BY InPage
<1>2. 4096 * a.page + a.off = 4096 * b.page + b.off
  BY DEF Flat
<1>3. a.page = b.page /\ a.off = b.off
  BY <1>1, <1>2, SMT
<1>. QED  BY <1>1, <1>3

LEMMA FlatInt ==
  ASSUME NEW a \in Addresses
  PROVE  Flat(a) \in Int
  BY InPage DEF Flat

LEMMA FlatDistance ==
  ASSUME NEW a \in Addresses, NEW b \in Addresses
  PROVE  Distance(a, b) = Flat(a) - Flat(b)
<1>1. a.page \in Int /\ a.off \in Int /\ b.page \in Int /\ b.off \in Int
  BY InPage
<1>. QED  BY <1>1, SMT DEF Distance, Flat

LEMMA PlusPlus ==
  ASSUME NEW a \in Addresses, NEW m \in Int, NEW n \in Int
  PROVE  Plus(Plus(a, m), n) = Plus(a, m + n)
<1>1. /\ Plus(a, m) \in Addresses /\ Flat(Plus(a, m)) = Flat(a) + m
      /\ Plus(a, m + n) \in Addresses /\ Flat(Plus(a, m + n)) = Flat(a) + (m + n)
  BY FlatPlus
<1>. DEFINE b == Plus(a, m)
<1>2. b \in Addresses /\ Flat(b) = Flat(a) + m
  BY <1>1
<1>. HIDE DEF b
<1>3. Plus(b, n) \in Addresses /\ Flat(Plus(b, n)) = Flat(b) + n
  BY <1>2, FlatPlus
<1>4. Flat(Plus(b, n)) = Flat(Plus(a, m + n))
  BY <1>1, <1>2, <1>3, FlatInt, SMT
<1>. QED  BY <1>1, <1>3, <1>4, FlatEqual DEF b

LEMMA PlusInjective ==
  ASSUME NEW a \in Addresses, NEW m \in Int, NEW n \in Int, Plus(a, m) = Plus(a, n)
  PROVE  m = n
<1>1. Flat(a) + m = Flat(a) + n /\ Flat(a) \in Int
  BY FlatPlus, FlatInt
<1>. QED  BY <1>1

LEMMA PlusZero ==
  ASSUME NEW a \in Addresses
  PROVE  Plus(a, 0) = a
<1>1. 0 \in Int /\ Flat(a) \in Int
  BY FlatInt
<1>2. Plus(a, 0) \in Addresses /\ Flat(Plus(a, 0)) = Flat(a) + 0
  BY <1>1, FlatPlus, Zenon
<1>. DEFINE f == Flat(a)
            b == Plus(a, 0)
<1>. HIDE DEF f, b
<1>3. Flat(b) = f
  <2>1. f + 0 = f
    BY <1>1 DEF f
  <2>. QED  BY <1>2, <2>1 DEF f, b
<1>. QED  BY <1>2, <1>3, FlatEqual, Zenon DEF f, b

-----------------------------------------------------------------------------
(* The cells of a segment.                                                 *)

LEMMA NearPages ==
  ASSUME NEW a \in Addresses, NEW b \in Addresses, NEW d \in Int, 0 <= d, d < 4096,
         Flat(a) = Flat(b) + d
  PROVE  a.page - b.page \in -1 .. 1
<1>. DEFINE p == a.page
            q == b.page
            u == a.off
            v == b.off
<1>1. /\ p \in Int /\ u \in Int /\ 0 <= u /\ u < 4096
      /\ q \in Int /\ v \in Int /\ 0 <= v /\ v < 4096
  BY InPage
<1>2. 4096 * p + u = 4096 * q + v + d
  BY DEF Flat
<1>. HIDE DEF p, q, u, v
<1>3. -1 <= p - q /\ p - q <= 1 /\ p - q \in Int
  BY <1>1, <1>2
<1>4. p - q \in -1 .. 1
  BY <1>3
<1>. QED  BY <1>4 DEF p, q

LEMMA HoldsItsCells ==
  ASSUME NEW s, s.at \in Addresses, NEW n \in 0 .. 32, DOMAIN s.cells = 1 .. n,
         NEW k \in 1 .. n
  PROVE  LET a == Plus(s.at, 4 * (k - 1)) IN
         Holds(s, a) /\ (Distance(a, s.at) \div 4) + 1 = k
<1>. DEFINE b == s.at
            d == 4 * (k - 1)
            a == Plus(b, d)
<1>1. d \in Int /\ 0 <= d /\ d < 4096
  OBVIOUS
<1>2. d % 4 = 0 /\ (d \div 4) + 1 = k
  OBVIOUS
<1>3. b \in Addresses
  OBVIOUS
<1>. HIDE DEF d, b
<1>4. a \in Addresses /\ Flat(a) = Flat(b) + d
  BY <1>1, <1>3, FlatPlus
<1>5. Flat(b) \in Int
  BY <1>3, FlatInt
<1>. HIDE DEF a
<1>6. Distance(a, b) = d
  BY <1>1, <1>3, <1>4, <1>5, FlatDistance
<1>7. a.page - b.page \in -1 .. 1
  BY <1>1, <1>3, <1>4, NearPages
<1>8. (Distance(a, b) \div 4) + 1 = k /\ Distance(a, b) % 4 = 0
  BY <1>2, <1>6
<1>9. Holds(s, a)
  BY <1>7, <1>8 DEF Holds, b
<1>. QED  BY <1>8, <1>9 DEF a, b, d

LEMMA HoldsNoOther ==
  ASSUME NEW s, s.at \in Addresses, NEW n \in Nat, DOMAIN s.cells = 1 .. n,
         NEW a \in Addresses, Holds(s, a)
  PROVE  \E k \in 1 .. n : a = Plus(s.at, 4 * (k - 1))
<1>. DEFINE b == s.at
            d == Distance(a, b)
            k == (d \div 4) + 1
<1>1. d % 4 = 0 /\ k \in 1 .. n
  BY Zenon DEF Holds
<1>2. d = Flat(a) - Flat(b) /\ Flat(a) \in Int /\ Flat(b) \in Int
  BY FlatDistance, FlatInt
<1>. HIDE DEF d, b
<1>3. d = 4 * (k - 1) /\ d \in Int
  BY <1>1, <1>2, SMT
<1>. HIDE DEF k
<1>4. b \in Addresses
  BY DEF b
<1>5. Plus(b, d) \in Addresses /\ Flat(Plus(b, d)) = Flat(b) + d
  BY <1>3, <1>4, FlatPlus
<1>6. Flat(Plus(b, d)) = Flat(a)
  BY <1>2, <1>5
<1>7. a = Plus(b, 4 * (k - 1))
  BY <1>3, <1>5, <1>6, FlatEqual
<1>. QED  BY <1>1, <1>7 DEF b

(* a is where s holds its cell k.                                          *)
CellAt(s, n, k, a) ==
  /\ s.at \in Addresses /\ n \in 0 .. 32 /\ DOMAIN s.cells = 1 .. n
  /\ k \in 1 .. n /\ a = Plus(s.at, 4 * (k - 1))

(* What a core finds at an address that one segment holds.                 *)
LEMMA CellOf ==
  ASSUME NEW ss, NEW s \in ss, NEW n, NEW k, NEW a, CellAt(s, n, k, a),
         \A t \in ss : Holds(t, a) => t = s
  PROVE  Covered(ss, a) /\ Cell(ss, a) = s.cells[k]
<1>1. Holds(s, a) /\ (Distance(a, s.at) \div 4) + 1 = k
  <2>1. /\ s.at \in Addresses /\ n \in 0 .. 32 /\ DOMAIN s.cells = 1 .. n
        /\ k \in 1 .. n /\ a = Plus(s.at, 4 * (k - 1))
    BY DEF CellAt
  <2>2. /\ Holds(s, Plus(s.at, 4 * (k - 1)))
        /\ (Distance(Plus(s.at, 4 * (k - 1)), s.at) \div 4) + 1 = k
    BY <2>1, HoldsItsCells, Zenon
  <2>. QED  BY <2>1, <2>2, Zenon
<1>2. (CHOOSE t \in ss : Holds(t, a)) = s
  BY <1>1
<1>3. Covered(ss, a)
  BY <1>1 DEF Covered
<1>4. Cell(ss, a) = s.cells[k]
  BY <1>1, <1>2 DEF Cell
<1>. QED  BY <1>3, <1>4

-----------------------------------------------------------------------------
(* The cells of the pieces of code, one by one.                            *)

Splits(u, s, t) ==
  /\ Len(u) = Len(s) + Len(t)
  /\ \A k \in 1 .. Len(s) + Len(t) : u[k] = IF k <= Len(s) THEN s[k] ELSE t[k - Len(s)]

LEMMA Elements ==
  ASSUME NEW S, NEW s \in Seq(S), NEW t \in Seq(S)
  PROVE  s \o t \in Seq(S) /\ Splits(s \o t, s, t)
<1>1. s \o t \in Seq(S) /\ Len(s \o t) = Len(s) + Len(t)
  OBVIOUS
<1>2. ASSUME NEW k \in 1 .. Len(s) + Len(t)
      PROVE  (s \o t)[k] = IF k <= Len(s) THEN s[k] ELSE t[k - Len(s)]
  OBVIOUS
<1>. QED  BY <1>1, <1>2, Zenon DEF Splits

LEMMA Tuple ==
  ASSUME NEW S, NEW t \in Seq(S)
  PROVE  /\ Len(t) = 4 => t = <<t[1], t[2], t[3], t[4]>>
         /\ Len(t) = 5 => t = <<t[1], t[2], t[3], t[4], t[5]>>
         /\ Len(t) = 7 => t = <<t[1], t[2], t[3], t[4], t[5], t[6], t[7]>>
  OBVIOUS

LEMMA Join22 ==
  ASSUME NEW S, NEW s \in Seq(S), NEW t \in Seq(S), Len(s) = 2, Len(t) = 2
  PROVE  s \o t = <<s[1], s[2], t[1], t[2]>>
<1>. DEFINE u == s \o t
<1>1. u \in Seq(S) /\ Splits(u, s, t)
  BY Elements, Zenon
<1>. HIDE DEF u
<1>2. /\ Len(u) = Len(s) + Len(t)
      /\ \A k \in 1 .. Len(s) + Len(t) : u[k] = IF k <= Len(s) THEN s[k] ELSE t[k - Len(s)]
  BY <1>1 DEF Splits
<1>3. u[1] = s[1] /\ u[2] = s[2] /\ u[3] = t[1] /\ u[4] = t[2]
  BY <1>2
<1>4. Len(u) = 4
  BY <1>2
<1>5. u = <<u[1], u[2], u[3], u[4]>>
  BY <1>1, <1>4, Tuple
<1>6. u = <<s[1], s[2], t[1], t[2]>>
  BY <1>3, <1>5
<1>. QED  BY <1>6, Zenon DEF u

LEMMA Join14 ==
  ASSUME NEW S, NEW s \in Seq(S), NEW t \in Seq(S), Len(s) = 1, Len(t) = 4
  PROVE  s \o t = <<s[1], t[1], t[2], t[3], t[4]>>
<1>. DEFINE u == s \o t
<1>1. u \in Seq(S) /\ Splits(u, s, t)
  BY Elements, Zenon
<1>. HIDE DEF u
<1>2. /\ Len(u) = Len(s) + Len(t)
      /\ \A k \in 1 .. Len(s) + Len(t) : u[k] = IF k <= Len(s) THEN s[k] ELSE t[k - Len(s)]
  BY <1>1 DEF Splits
<1>3. u[1] = s[1] /\ u[2] = t[1] /\ u[3] = t[2] /\ u[4] = t[3] /\ u[5] = t[4]
  BY <1>2
<1>4. Len(u) = 5
  BY <1>2
<1>5. u = <<u[1], u[2], u[3], u[4], u[5]>>
  BY <1>1, <1>4, Tuple
<1>6. u = <<s[1], t[1], t[2], t[3], t[4]>>
  BY <1>3, <1>5
<1>. QED  BY <1>6, Zenon DEF u

LEMMA Join32 ==
  ASSUME NEW S, NEW s \in Seq(S), NEW t \in Seq(S), Len(s) = 3, Len(t) = 2
  PROVE  s \o t = <<s[1], s[2], s[3], t[1], t[2]>>
<1>. DEFINE u == s \o t
<1>1. u \in Seq(S) /\ Splits(u, s, t)
  BY Elements, Zenon
<1>. HIDE DEF u
<1>2. /\ Len(u) = Len(s) + Len(t)
      /\ \A k \in 1 .. Len(s) + Len(t) : u[k] = IF k <= Len(s) THEN s[k] ELSE t[k - Len(s)]
  BY <1>1 DEF Splits
<1>3. u[1] = s[1] /\ u[2] = s[2] /\ u[3] = s[3] /\ u[4] = t[1] /\ u[5] = t[2]
  BY <1>2
<1>4. Len(u) = 5
  BY <1>2
<1>5. u = <<u[1], u[2], u[3], u[4], u[5]>>
  BY <1>1, <1>4, Tuple
<1>6. u = <<s[1], s[2], s[3], t[1], t[2]>>
  BY <1>3, <1>5
<1>. QED  BY <1>6, Zenon DEF u

LEMMA Join52 ==
  ASSUME NEW S, NEW s \in Seq(S), NEW t \in Seq(S), Len(s) = 5, Len(t) = 2
  PROVE  s \o t = <<s[1], s[2], s[3], s[4], s[5], t[1], t[2]>>
<1>. DEFINE u == s \o t
<1>1. u \in Seq(S) /\ Splits(u, s, t)
  BY Elements, Zenon
<1>. HIDE DEF u
<1>2. /\ Len(u) = Len(s) + Len(t)
      /\ \A k \in 1 .. Len(s) + Len(t) : u[k] = IF k <= Len(s) THEN s[k] ELSE t[k - Len(s)]
  BY <1>1 DEF Splits
<1>3. u[1] = s[1] /\ u[2] = s[2] /\ u[3] = s[3] /\ u[4] = s[4] /\ u[5] = s[5] /\ u[6] = t[1] /\ u[7] = t[2]
  BY <1>2
<1>4. Len(u) = 7
  BY <1>2
<1>5. u = <<u[1], u[2], u[3], u[4], u[5], u[6], u[7]>>
  BY <1>1, <1>4, Tuple
<1>6. u = <<s[1], s[2], s[3], s[4], s[5], t[1], t[2]>>
  BY <1>3, <1>5
<1>. QED  BY <1>6, Zenon DEF u

LEMMA LoadCells ==
  ASSUME NEW a, NEW b, NEW v
  PROVE  /\ Instructions(<<a, b>>) \o Dword(v) = <<Insn(a), Insn(b), Data(v, 0), Data(v, 1)>>
         /\ JumpVia(a, b, v) = <<Insn(a), Insn(b), Data(v, 0), Data(v, 1)>>
<1>. DEFINE S == {Insn(a), Insn(b), Data(v, 0), Data(v, 1)}
            s == <<Insn(a), Insn(b)>>
            t == <<Data(v, 0), Data(v, 1)>>
<1>1. /\ s \in Seq(S) /\ t \in Seq(S) /\ Len(s) = 2 /\ Len(t) = 2
      /\ s[1] = Insn(a) /\ s[2] = Insn(b) /\ t[1] = Data(v, 0) /\ t[2] = Data(v, 1)
  OBVIOUS
<1>2. Instructions(<<a, b>>) = s /\ Dword(v) = t
  BY TwoWords DEF Dword
<1>. HIDE DEF s, t, S
<1>3. s \o t = <<s[1], s[2], t[1], t[2]>>
  BY <1>1, Join22
<1>4. s \o t = <<Insn(a), Insn(b), Data(v, 0), Data(v, 1)>>
  BY <1>1, <1>3, Zenon
<1>. QED  BY <1>2, <1>4, Zenon DEF JumpVia

LEMMA AroundCells ==
  ASSUME NEW w, NEW a
  PROVE  Around(w, a) = <<Insn(w), Insn(LdrX16(2)), Insn(BrX16), Data(AddrV(a), 0), Data(AddrV(a), 1)>>
<1>. DEFINE l == Insn(LdrX16(2))
            b == Insn(BrX16)
            c == Data(AddrV(a), 0)
            d == Data(AddrV(a), 1)
            o == Insn(w)
<1>1. Around(w, a) = <<o>> \o <<l, b, c, d>>
  BY LoadCells, Zenon DEF Around, JumpTo16
<1>. HIDE DEF l, b, c, d, o
<1>. DEFINE S == {l, b, c, d, o}
            s == <<o>>
            t == <<l, b, c, d>>
<1>2. /\ s \in Seq(S) /\ t \in Seq(S) /\ Len(s) = 1 /\ Len(t) = 4
      /\ s[1] = o /\ t[1] = l /\ t[2] = b /\ t[3] = c /\ t[4] = d
  OBVIOUS
<1>3. Around(w, a) = s \o t
  BY <1>1
<1>. HIDE DEF s, t, S
<1>4. s \o t = <<s[1], t[1], t[2], t[3], t[4]>>
  BY <1>2, Join14
<1>5. s \o t = <<o, l, b, c, d>>
  BY <1>2, <1>4, Zenon
<1>. QED  BY <1>3, <1>5, Zenon DEF l, b, c, d, o

CallLaid(a, b, c, v, u) ==
  Instructions(<<a, b, c>>) \o Dword(v) \o Dword(u) =
    <<Insn(a), Insn(b), Insn(c), Data(v, 0), Data(v, 1), Data(u, 0), Data(u, 1)>>

LEMMA CallCells ==
  ASSUME NEW a, NEW b, NEW c, NEW v, NEW u
  PROVE  CallLaid(a, b, c, v, u)
<1>. DEFINE o == Insn(a)
            p == Insn(b)
            q == Insn(c)
            d == Data(v, 0)
            e == Data(v, 1)
            f == Data(u, 0)
            g == Data(u, 1)
<1>1. Instructions(<<a, b, c>>) = <<o, p, q>> /\ Dword(v) = <<d, e>> /\ Dword(u) = <<f, g>>
  BY ThreeWords DEF Dword
<1>. HIDE DEF o, p, q, d, e, f, g
<1>. DEFINE S == {o, p, q, d, e, f, g}
            r == <<o, p, q>>
            s == <<d, e>>
            t == <<f, g>>
<1>2. /\ r \in Seq(S) /\ s \in Seq(S) /\ t \in Seq(S) /\ Len(r) = 3 /\ Len(s) = 2 /\ Len(t) = 2
      /\ r[1] = o /\ r[2] = p /\ r[3] = q /\ s[1] = d /\ s[2] = e /\ t[1] = f /\ t[2] = g
  OBVIOUS
<1>3. Instructions(<<a, b, c>>) = r /\ Dword(v) = s /\ Dword(u) = t
  BY <1>1
<1>. HIDE DEF r, s, t
<1>4. r \o s = <<r[1], r[2], r[3], s[1], s[2]>>
  BY <1>2, Join32
<1>5. r \o s = <<o, p, q, d, e>>
  BY <1>2, <1>4, Zenon
<1>. DEFINE h == <<o, p, q, d, e>>
<1>6. /\ h \in Seq(S) /\ Len(h) = 5
      /\ h[1] = o /\ h[2] = p /\ h[3] = q /\ h[4] = d /\ h[5] = e
  OBVIOUS
<1>7. r \o s = h
  BY <1>5
<1>. HIDE DEF h, S
<1>8. h \o t = <<h[1], h[2], h[3], h[4], h[5], t[1], t[2]>>
  BY <1>2, <1>6, Join52
<1>9. h \o t = <<o, p, q, d, e, f, g>>
  BY <1>2, <1>6, <1>8, Zenon
<1>10. (r \o s) \o t = <<o, p, q, d, e, f, g>>
  BY <1>7, <1>9, Zenon
<1>. QED  BY <1>3, <1>10, Zenon DEF CallLaid, o, p, q, d, e, f, g

-----------------------------------------------------------------------------
(* Where the cells of a moved word and of the way back are.                *)

Parts(u, s, t) ==
  /\ Len(u) = Len(s) + Len(t) /\ Len(u) \in Nat
  /\ \A k \in 1 .. Len(s) : u[k] = s[k]
  /\ \A k \in 1 .. Len(t) : u[Len(s) + k] = t[k]

LEMMA Halved ==
  ASSUME NEW u, NEW s, NEW t, Splits(u, s, t), Len(s) \in Nat, Len(t) \in Nat
  PROVE  Parts(u, s, t)
<1>. DEFINE a == Len(s)
            b == Len(t)
            c == Len(u)
<1>1. /\ c = a + b /\ a \in Nat /\ b \in Nat
      /\ \A k \in 1 .. a + b : u[k] = IF k <= a THEN s[k] ELSE t[k - a]
  BY DEF Splits
<1>. HIDE DEF a, b, c
<1>2. ASSUME NEW k \in 1 .. a PROVE u[k] = s[k]
  BY <1>1
<1>3. ASSUME NEW k \in 1 .. b PROVE u[a + k] = t[k]
  <2>1. a + k \in 1 .. a + b /\ ~(a + k <= a) /\ (a + k) - a = k
    BY <1>1
  <2>2. u[a + k] = t[(a + k) - a]
    BY <1>1, <2>1
  <2>. QED  BY <2>1, <2>2
<1>. QED  BY <1>1, <1>2, <1>3 DEF a, b, c, Parts

LEMMA InCommon ==
  ASSUME window \in [1 .. 4 -> Words]
  PROVE  \E S : /\ BranchBack \in Seq(S)
                /\ \A i \in 1 .. StolenLen : Moved[i] \in Seq(S) /\ Len(Moved[i]) \in 1 .. 7
<1>1. \A i \in 1 .. StolenLen : \E T : Moved[i] \in Seq(T) /\ Len(Moved[i]) \in 1 .. 7
  BY MovedWords DEF Sized
<1>2. \E T : BranchBack \in Seq(T)
  <2>1. <<>> \in Seq({})
    OBVIOUS
  <2>2. BranchBack = <<>> \/ Exactly(BranchBack, 4)
    BY JumpLength DEF BranchBack, JumpTo16
  <2>. QED  BY <2>1, <2>2 DEF Exactly
<1>. DEFINE S == Range(BranchBack) \cup UNION {Range(Moved[i]) : i \in 1 .. StolenLen}
<1>3. \A T, s : s \in Seq(T) => s \in Seq(Range(s))
  BY DEF Range
<1>4. BranchBack \in Seq(Range(BranchBack)) /\ \A i \in 1 .. StolenLen : Moved[i] \in Seq(Range(Moved[i]))
  BY <1>1, <1>2, <1>3
<1>5. \A T, U, s : s \in Seq(T) /\ T \subseteq U => s \in Seq(U)
  OBVIOUS
<1>6. Range(BranchBack) \subseteq S /\ \A i \in 1 .. StolenLen : Range(Moved[i]) \subseteq S
  OBVIOUS
<1>7. BranchBack \in Seq(S) /\ \A i \in 1 .. StolenLen : Moved[i] \in Seq(S)
  BY <1>4, <1>5, <1>6
<1>. QED  BY <1>1, <1>7

LEMMA BackLength == BranchBack = <<>> \/ Len(BranchBack) = 4
<1>1. BranchBack = <<>> \/ Exactly(BranchBack, 4)
  BY JumpLength DEF BranchBack, JumpTo16
<1>. QED  BY <1>1 DEF Exactly

LEMMA CodeOfOne ==
  ASSUME window \in [1 .. 4 -> Words], StolenLen = 1
  PROVE  \E S : Moved[1] \in Seq(S) /\ BranchBack \in Seq(S) /\ Code = Moved[1] \o BranchBack
<1>1. PICK S : BranchBack \in Seq(S) /\ \A i \in 1 .. StolenLen : Moved[i] \in Seq(S)
  BY InCommon
<1>2. FlattenSeq(Moved) = Moved[1]
  BY MovedWords, FlattenOne
<1>3. Code = Moved[1] \o BranchBack
  BY <1>2 DEF Code, BuildTrampoline, Segment
<1>4. 1 \in 1 .. StolenLen
  OBVIOUS
<1>. QED  BY <1>1, <1>3, <1>4, Zenon

LEMMA CodeOfFour ==
  ASSUME window \in [1 .. 4 -> Words], StolenLen = 4
  PROVE  Code = (((Moved[1] \o Moved[2]) \o Moved[3]) \o Moved[4]) \o BranchBack
<1>1. FlattenSeq(Moved) = ((Moved[1] \o Moved[2]) \o Moved[3]) \o Moved[4]
  BY MovedWords, FlattenFour
<1>. QED  BY <1>1, Zenon DEF Code, BuildTrampoline, Segment

LEMMA Starts ==
  ASSUME window \in [1 .. 4 -> Words]
  PROVE  /\ Start(0) = 0 /\ StolenLen \in {1, 4}
         /\ \A i \in 1 .. StolenLen :
              /\ Len(Moved[i]) \in 1 .. 7
              /\ Start(i - 1) \in 0 .. 7 * (i - 1) /\ Start(i) \in 1 .. 7 * i
              /\ Start(i) = Start(i - 1) + Len(Moved[i])
              /\ Start(i) <= Start(StolenLen)
<1>0. StolenLen \in {1, 4} /\ \A i \in 1 .. StolenLen : Len(Moved[i]) \in 1 .. 7
  <2>1. \A i \in 1 .. StolenLen : Sized(Moved[i], 7)
    BY MovedWords
  <2>. QED  BY <2>1, StolenWords DEF Sized
<1>. DEFINE a == Len(Moved[1])
            b == Len(Moved[2])
            c == Len(Moved[3])
            d == Len(Moved[4])
<1>1. \A i : Start(i) = (IF i > 0 THEN a ELSE 0) + (IF i > 1 THEN b ELSE 0)
                          + (IF i > 2 THEN c ELSE 0) + (IF i > 3 THEN d ELSE 0)
  BY DEF Start
<1>2. a \in 1 .. 7 /\ (StolenLen = 4 => b \in 1 .. 7 /\ c \in 1 .. 7 /\ d \in 1 .. 7)
  BY <1>0
<1>. HIDE DEF a, b, c, d
<1>3. Start(0) = 0 /\ Start(1) = a
  BY <1>1, <1>2
<1>4. CASE StolenLen = 1
  <2>. SUFFICES ASSUME NEW i \in 1 .. 1
                PROVE  /\ Len(Moved[i]) \in 1 .. 7
                       /\ Start(i - 1) \in 0 .. 7 * (i - 1) /\ Start(i) \in 1 .. 7 * i
                       /\ Start(i) = Start(i - 1) + Len(Moved[i])
                       /\ Start(i) <= Start(1)
    BY <1>3, <1>4
  <2>1. i = 1 /\ i - 1 = 0 /\ Len(Moved[1]) = a
    BY DEF a
  <2>. QED  BY <1>2, <1>3, <2>1
<1>5. CASE StolenLen = 4
  <2>1. Start(2) = a + b /\ Start(3) = a + b + c /\ Start(4) = a + b + c + d
    BY <1>1, <1>2, <1>5
  <2>2. /\ Len(Moved[1]) = a /\ Len(Moved[2]) = b /\ Len(Moved[3]) = c /\ Len(Moved[4]) = d
    BY DEF a, b, c, d
  <2>3. /\ a \in 1 .. 7 /\ b \in 1 .. 7 /\ c \in 1 .. 7 /\ d \in 1 .. 7
    BY <1>2, <1>5
  <2>. SUFFICES ASSUME NEW i \in 1 .. 4
                PROVE  /\ Len(Moved[i]) \in 1 .. 7
                       /\ Start(i - 1) \in 0 .. 7 * (i - 1) /\ Start(i) \in 1 .. 7 * i
                       /\ Start(i) = Start(i - 1) + Len(Moved[i])
                       /\ Start(i) <= Start(4)
    BY <1>3, <1>5
  <2>4. \/ i = 1 /\ i - 1 = 0
        \/ i = 2 /\ i - 1 = 1
        \/ i = 3 /\ i - 1 = 2
        \/ i = 4 /\ i - 1 = 3
    OBVIOUS
  <2>. DEFINE p == Start(i - 1)
              q == Start(i)
              l == Len(Moved[i])
  <2>5. \/ i = 1 /\ p = 0 /\ q = a /\ l = a
        \/ i = 2 /\ p = a /\ q = a + b /\ l = b
        \/ i = 3 /\ p = a + b /\ q = a + b + c /\ l = c
        \/ i = 4 /\ p = a + b + c /\ q = a + b + c + d /\ l = d
    BY <1>3, <2>1, <2>2, <2>4
  <2>. HIDE DEF p, q, l
  <2>6. l \in 1 .. 7 /\ p \in 0 .. 7 * (i - 1) /\ q \in 1 .. 7 * i /\ q = p + l /\ q <= Start(4)
    BY <2>1, <2>3, <2>5
  <2>. QED  BY <2>6 DEF p, q, l
<1>. QED  BY <1>0, <1>4, <1>5

Laid(i) == \A k \in 1 .. Len(Moved[i]) : Code[Start(i - 1) + k] = Moved[i][k]

LEMMA CodeCells ==
  ASSUME window \in [1 .. 4 -> Words]
  PROVE  /\ DOMAIN Code = 1 .. Len(Code)
         /\ Len(Code) = Start(StolenLen) + Len(BranchBack)
         /\ \A i \in 1 .. StolenLen : Laid(i)
         /\ \A k \in 1 .. Len(BranchBack) : Code[Start(StolenLen) + k] = BranchBack[k]
<1>1. StolenLen \in {1, 4}
  BY Starts
<1>2. CASE StolenLen = 1
  <2>1. PICK S : Moved[1] \in Seq(S) /\ BranchBack \in Seq(S) /\ Code = Moved[1] \o BranchBack
    BY <1>2, CodeOfOne
  <2>2. Code \in Seq(S) /\ Splits(Code, Moved[1], BranchBack)
    BY <2>1, Elements, Zenon
  <2>3. Len(Moved[1]) \in Nat /\ Len(BranchBack) \in Nat
    BY <2>1
  <2>4. /\ Len(Code) = Len(Moved[1]) + Len(BranchBack)
        /\ \A k \in 1 .. Len(Moved[1]) : Code[k] = Moved[1][k]
        /\ \A k \in 1 .. Len(BranchBack) : Code[Len(Moved[1]) + k] = BranchBack[k]
    <3>1. Parts(Code, Moved[1], BranchBack)
      BY <2>2, <2>3, Halved, Zenon
    <3>. QED  BY <3>1, Zenon DEF Parts
  <2>5. Start(0) = 0 /\ Start(1) = Len(Moved[1])
    BY <1>2, <2>3, Starts DEF Start
  <2>6. Laid(1)
    <3>1. \A k \in 1 .. Len(Moved[1]) : Start(1 - 1) + k = k
      BY <2>3, <2>5
    <3>. QED  BY <2>4, <3>1 DEF Laid
  <2>7. DOMAIN Code = 1 .. Len(Code)
    BY <2>2
  <2>8. \A i \in 1 .. StolenLen : i = 1
    BY <1>2
  <2>. QED  BY <1>2, <2>4, <2>5, <2>6, <2>7, <2>8, Zenon
<1>3. CASE StolenLen = 4
  <2>. DEFINE a == Moved[1]
              b == Moved[2]
              c == Moved[3]
              d == Moved[4]
              t == BranchBack
              ab == a \o b
              abc == ab \o c
              abcd == abc \o d
              all == abcd \o t
  <2>1. PICK S : t \in Seq(S) /\ \A i \in 1 .. StolenLen : Moved[i] \in Seq(S)
    BY InCommon
  <2>2. Code = all
    BY <1>3, CodeOfFour, Zenon
  <2>3. /\ a \in Seq(S) /\ b \in Seq(S) /\ c \in Seq(S) /\ d \in Seq(S)
    BY <1>3, <2>1
  <2>4. /\ Len(a) \in Nat /\ Len(b) \in Nat /\ Len(c) \in Nat /\ Len(d) \in Nat /\ Len(t) \in Nat
    BY <2>1, <2>3
  <2>5. /\ Start(0) = 0 /\ Start(1) = Len(a) /\ Start(2) = Len(a) + Len(b)
        /\ Start(3) = Len(a) + Len(b) + Len(c) /\ Start(4) = Len(a) + Len(b) + Len(c) + Len(d)
    BY <2>4 DEF Start
  <2>. HIDE DEF a, b, c, d, t
  <2>6. ab \in Seq(S) /\ Splits(ab, a, b)
    BY <2>3, Elements, Zenon
  <2>. HIDE DEF ab
  <2>7. abc \in Seq(S) /\ Splits(abc, ab, c)
    BY <2>3, <2>6, Elements, Zenon
  <2>. HIDE DEF abc
  <2>8. abcd \in Seq(S) /\ Splits(abcd, abc, d)
    BY <2>3, <2>7, Elements, Zenon
  <2>. HIDE DEF abcd
  <2>9. all \in Seq(S) /\ Splits(all, abcd, t)
    BY <2>1, <2>8, Elements, Zenon
  <2>. HIDE DEF all
  <2>10. Parts(ab, a, b)
    BY <2>4, <2>6, Halved, Zenon
  <2>11. Parts(abc, ab, c)
    <3>1. Len(ab) \in Nat
      BY <2>10 DEF Parts
    <3>. QED  BY <2>4, <2>7, <2>10, <3>1, Halved, Zenon
  <2>12. Parts(abcd, abc, d)
    <3>1. Len(abc) \in Nat
      BY <2>11 DEF Parts
    <3>. QED  BY <2>4, <2>8, <2>11, <3>1, Halved, Zenon
  <2>13. Parts(all, abcd, t)
    <3>1. Len(abcd) \in Nat
      BY <2>12 DEF Parts
    <3>. QED  BY <2>4, <2>9, <2>12, <3>1, Halved, Zenon
  <2>14. /\ Start(1) = Len(a) /\ Start(2) = Len(ab) /\ Start(3) = Len(abc) /\ Start(4) = Len(abcd)
    BY <2>5, <2>10, <2>11, <2>12 DEF Parts
  <2>15. ASSUME NEW k \in 1 .. Len(a) PROVE all[Start(0) + k] = a[k]
    <3>1. k \in Int /\ k \in 1 .. Len(ab)
      BY <2>4, <2>10 DEF Parts
    <3>2. k \in 1 .. Len(abc)
      BY <2>4, <2>11, <3>1 DEF Parts
    <3>3. k \in 1 .. Len(abcd)
      BY <2>4, <2>12, <3>2 DEF Parts
    <3>4. Start(0) + k = k
      BY <2>5, <3>1
    <3>5. ab[k] = a[k] /\ abc[k] = ab[k]
      BY <2>10, <2>11, <3>1, Zenon DEF Parts
    <3>6. abcd[k] = abc[k] /\ all[k] = abcd[k]
      BY <2>12, <2>13, <3>2, <3>3, Zenon DEF Parts
    <3>. QED  BY <3>4, <3>5, <3>6, Zenon
  <2>16. ASSUME NEW k \in 1 .. Len(b) PROVE all[Start(1) + k] = b[k]
    <3>. DEFINE j == Len(a) + k
    <3>1. j \in 1 .. Len(ab) /\ j \in 1 .. Len(abc) /\ j \in 1 .. Len(abcd)
      BY <2>4, <2>10, <2>11, <2>12 DEF Parts
    <3>2. ab[j] = b[k]
      BY <2>10, Zenon DEF Parts
    <3>. HIDE DEF j
    <3>3. all[j] = b[k]
      BY <2>11, <2>12, <2>13, <3>1, <3>2, Zenon DEF Parts
    <3>. QED  BY <2>14, <3>3, Zenon DEF j
  <2>17. ASSUME NEW k \in 1 .. Len(c) PROVE all[Start(2) + k] = c[k]
    <3>. DEFINE j == Len(ab) + k
    <3>1. j \in 1 .. Len(abc) /\ j \in 1 .. Len(abcd)
      BY <2>4, <2>10, <2>11, <2>12 DEF Parts
    <3>2. abc[j] = c[k]
      BY <2>11, Zenon DEF Parts
    <3>. HIDE DEF j
    <3>3. all[j] = c[k]
      BY <2>12, <2>13, <3>1, <3>2, Zenon DEF Parts
    <3>. QED  BY <2>14, <3>3, Zenon DEF j
  <2>18. ASSUME NEW k \in 1 .. Len(d) PROVE all[Start(3) + k] = d[k]
    <3>. DEFINE j == Len(abc) + k
    <3>1. j \in 1 .. Len(abcd)
      BY <2>4, <2>11, <2>12 DEF Parts
    <3>2. abcd[j] = d[k]
      BY <2>12, Zenon DEF Parts
    <3>. HIDE DEF j
    <3>3. all[j] = d[k]
      BY <2>13, <3>1, <3>2, Zenon DEF Parts
    <3>. QED  BY <2>14, <3>3, Zenon DEF j
  <2>19. Laid(1) /\ Laid(2) /\ Laid(3) /\ Laid(4)
    <3>1. 1 - 1 = 0 /\ 2 - 1 = 1 /\ 3 - 1 = 2 /\ 4 - 1 = 3
      OBVIOUS
    <3>. QED  BY <2>2, <2>15, <2>16, <2>17, <2>18, <3>1, Zenon DEF Laid, a, b, c, d
  <2>20. \A i \in 1 .. StolenLen : Laid(i)
    <3>1. \A i \in 1 .. StolenLen : i = 1 \/ i = 2 \/ i = 3 \/ i = 4
      BY <1>3
    <3>. QED  BY <2>19, <3>1, Zenon
  <2>21. DOMAIN Code = 1 .. Len(Code) /\ Len(Code) = Start(4) + Len(BranchBack)
    <3>1. DOMAIN all = 1 .. Len(all)
      BY <2>9
    <3>. QED  BY <2>2, <2>13, <2>14, <3>1, Zenon DEF t, Parts
  <2>22. \A k \in 1 .. Len(BranchBack) : Code[Start(4) + k] = BranchBack[k]
    BY <2>2, <2>13, <2>14, Zenon DEF t, Parts
  <2>. QED  BY <1>3, <2>20, <2>21, <2>22, Zenon
<1>. QED  BY <1>1, <1>2, <1>3

-----------------------------------------------------------------------------
(* Memory, before and after.                                               *)

Chosen ==
  /\ window \in Windows /\ stub \in Stubs
  /\ builder \in {"engine", "harness"} /\ yes \in BOOLEAN

LEMMA ChosenWindow ==
  ASSUME Chosen
  PROVE  /\ window \in [1 .. 4 -> Words] /\ StolenLen \in {1, 4}
         /\ F \in Addresses /\ Trampoline \in Addresses /\ Thunk \in Addresses /\ stub \in Addresses
         /\ F.off % 4 = 0 /\ stub.off % 4 = 0
<1>1. window \in [1 .. 4 -> Words]
  BY WindowAssumption DEF Chosen
<1>. QED  BY <1>1, LayoutAssumption, StolenWords DEF Chosen

LEMMA InRoom ==
  ASSUME NEW at \in Addresses, NEW n \in Nat, NEW k \in 1 .. n
  PROVE  Plus(at, 4 * (k - 1)) \in Room(at, n)
<1>1. k - 1 \in 0 .. n - 1
  OBVIOUS
<1>. QED  BY <1>1 DEF Room

LEMMA JumpCells ==
  ASSUME Chosen
  PROVE  /\ OverwriteWithJump.at = F /\ DOMAIN OverwriteWithJump.cells = 1 .. StolenLen
         /\ StolenLen = 1 => /\ builder = "harness" /\ CanBranch26(F, stub)
                             /\ OverwriteWithJump.cells[1] = Insn(MakeBranch26(F, stub))
         /\ StolenLen = 4 =>
              LET r == IF builder = "engine" THEN 16 ELSE 17 IN
              /\ OverwriteWithJump.cells[1] = Insn(Word(88, 64 + r))
              /\ OverwriteWithJump.cells[2] = Insn(Word(214, 2031616 + 32 * r))
              /\ OverwriteWithJump.cells[3] = Data(AddrV(stub), 0)
<1>. DEFINE j == OverwriteWithJump
            d == Data(AddrV(stub), 0)
            e == Data(AddrV(stub), 1)
<1>1. j.at = F /\ j.cells = CASE builder = "engine" -> JumpTo16(AddrV(stub))
                             [] StolenLen = 1      -> <<Insn(MakeBranch26(F, stub))>>
                             [] OTHER              -> JumpVia(LdrX17(2), BrX17, AddrV(stub))
  BY DEF OverwriteWithJump, Segment
<1>2. /\ JumpTo16(AddrV(stub)) = <<Insn(LdrX16(2)), Insn(BrX16), d, e>>
      /\ JumpVia(LdrX17(2), BrX17, AddrV(stub)) = <<Insn(LdrX17(2)), Insn(BrX17), d, e>>
  BY LoadCells, Zenon DEF JumpTo16
<1>3. /\ LdrX16(2) = Word(88, 64 + 16) /\ BrX16 = Word(214, 2031616 + 32 * 16)
      /\ LdrX17(2) = Word(88, 64 + 17) /\ BrX17 = Word(214, 2031616 + 32 * 17)
  BY DEF LdrX16, LdrX17, BrX16, BrX17
<1>4. StolenLen \in {1, 4} /\ (StolenLen = 1 => builder = "harness" /\ CanBranch26(F, stub))
  BY DEF StolenLen
<1>5. builder \in {"engine", "harness"}
  BY DEF Chosen
<1>. HIDE DEF j, d, e
<1>6. CASE StolenLen = 1
  <2>1. j.cells = <<Insn(MakeBranch26(F, stub))>>
    BY <1>1, <1>4, <1>6
  <2>. QED  BY <1>1, <1>4, <1>6, <2>1 DEF j
<1>7. CASE StolenLen = 4 /\ builder = "engine"
  <2>1. j.cells = <<Insn(LdrX16(2)), Insn(BrX16), d, e>>
    BY <1>1, <1>2, <1>7
  <2>. QED  BY <1>1, <1>3, <1>7, <2>1 DEF j, d
<1>8. CASE StolenLen = 4 /\ builder # "engine"
  <2>1. j.cells = <<Insn(LdrX17(2)), Insn(BrX17), d, e>>
    BY <1>1, <1>2, <1>8
  <2>. QED  BY <1>1, <1>3, <1>8, <2>1 DEF j, d
<1>. QED  BY <1>4, <1>6, <1>7, <1>8

LEMMA StubCells ==
  /\ BuildStub.at = stub
  /\ BuildStub.cells = <<Insn(LdrX16(3)), Insn(LdrX17(4)), Insn(BrX17),
                         Data(AddrV(Trampoline), 0), Data(AddrV(Trampoline), 1),
                         Data(AddrV(Thunk), 0), Data(AddrV(Thunk), 1)>>
<1>. DEFINE a == LdrX16(3)
            b == LdrX17(4)
            v == AddrV(Trampoline)
            u == AddrV(Thunk)
<1>1. BuildStub = [at |-> stub, cells |-> Instructions(<<a, b, BrX17>>) \o Dword(v) \o Dword(u)]
  BY DEF BuildStub, Segment
<1>. HIDE DEF a, b, v, u
<1>2. Instructions(<<a, b, BrX17>>) \o Dword(v) \o Dword(u) =
        <<Insn(a), Insn(b), Insn(BrX17), Data(v, 0), Data(v, 1), Data(u, 0), Data(u, 1)>>
  <2>1. CallLaid(a, b, BrX17, v, u)
    BY CallCells, Zenon
  <2>. QED  BY <2>1, Zenon DEF CallLaid
<1>3. BuildStub.at = stub /\ BuildStub.cells =
        <<Insn(a), Insn(b), Insn(BrX17), Data(v, 0), Data(v, 1), Data(u, 0), Data(u, 1)>>
  BY <1>1, <1>2
<1>. QED  BY <1>3, Zenon DEF a, b, v, u

LEMMA CodeLength ==
  ASSUME Chosen
  PROVE  DOMAIN Code = 1 .. Len(Code) /\ Len(Code) \in 0 .. 32 /\ BuildTrampoline.at = Trampoline
<1>1. window \in [1 .. 4 -> Words] /\ StolenLen \in {1, 4}
  BY ChosenWindow
<1>. DEFINE n == Len(Code)
            l == StolenLen
<1>2. n \in 1 .. 7 * l + 4 /\ l \in {1, 4}
  BY <1>1, TrampolineSize DEF Code
<1>3. DOMAIN Code = 1 .. n
  BY <1>1, CodeCells
<1>. HIDE DEF n, l
<1>4. n \in 0 .. 32
  BY <1>2
<1>. QED  BY <1>3, <1>4 DEF n, BuildTrampoline, Segment

LEMMA WhereHeld ==
  ASSUME Chosen, NEW a \in Addresses
  PROVE  /\ Holds(BuildTrampoline, a) => a \in Room(Trampoline, 32)
         /\ Holds(BuildStub, a) => a \in Room(stub, 7)
         /\ Holds(OverwriteWithJump, a) => a \in Room(F, 4) /\ (a = F \/ Inside(a))
<1>1. /\ StolenLen \in {1, 4}
      /\ F \in Addresses /\ Trampoline \in Addresses /\ stub \in Addresses
  BY ChosenWindow
<1>2. ASSUME Holds(BuildTrampoline, a) PROVE a \in Room(Trampoline, 32)
  <2>1. /\ BuildTrampoline.at = Trampoline /\ DOMAIN BuildTrampoline.cells = 1 .. Len(Code)
        /\ Len(Code) \in 0 .. 32
    BY CodeLength DEF Code
  <2>2. PICK k \in 1 .. Len(Code) : a = Plus(Trampoline, 4 * (k - 1))
    <3>. DEFINE n == Len(Code)
    <3>. HIDE DEF n
    <3>1. n \in Nat /\ DOMAIN BuildTrampoline.cells = 1 .. n
      BY <2>1 DEF n
    <3>2. \E k \in 1 .. n : a = Plus(BuildTrampoline.at, 4 * (k - 1))
      BY <1>1, <1>2, <2>1, <3>1, HoldsNoOther
    <3>. QED  BY <2>1, <3>2 DEF n
  <2>3. k \in 1 .. 32
    <3>. DEFINE n == Len(Code)
    <3>1. n \in 0 .. 32 /\ k \in 1 .. n
      BY <2>1, <2>2
    <3>. HIDE DEF n
    <3>. QED  BY <3>1
  <2>. QED  BY <1>1, <2>2, <2>3, InRoom
<1>3. ASSUME Holds(BuildStub, a) PROVE a \in Room(stub, 7)
  <2>1. BuildStub.at = stub /\ DOMAIN BuildStub.cells = 1 .. 7
    BY StubCells
  <2>2. PICK k \in 1 .. 7 : a = Plus(stub, 4 * (k - 1))
    <3>1. \E k \in 1 .. 7 : a = Plus(BuildStub.at, 4 * (k - 1))
      BY <1>1, <1>3, <2>1, HoldsNoOther
    <3>. QED  BY <2>1, <3>1
  <2>. QED  BY <1>1, <2>2, InRoom
<1>4. ASSUME Holds(OverwriteWithJump, a) PROVE a \in Room(F, 4) /\ (a = F \/ Inside(a))
  <2>1. OverwriteWithJump.at = F /\ DOMAIN OverwriteWithJump.cells = 1 .. StolenLen
    BY JumpCells
  <2>2. PICK k \in 1 .. StolenLen : a = Plus(F, 4 * (k - 1))
    <3>. DEFINE n == StolenLen
    <3>. HIDE DEF n
    <3>1. n \in Nat /\ DOMAIN OverwriteWithJump.cells = 1 .. n
      BY <1>1, <2>1 DEF n
    <3>2. \E k \in 1 .. n : a = Plus(OverwriteWithJump.at, 4 * (k - 1))
      BY <1>1, <1>4, <2>1, <3>1, HoldsNoOther
    <3>. QED  BY <2>1, <3>2 DEF n
  <2>3. k \in 1 .. 4
    BY <1>1
  <2>4. a \in Room(F, 4)
    BY <1>1, <2>2, <2>3, InRoom
  <2>5. CASE k = 1
    BY <1>1, <2>2, <2>4, <2>5, PlusZero
  <2>6. CASE k # 1
    <3>1. k - 1 \in 1 .. StolenLen - 1
      BY <1>1, <2>6
    <3>. QED  BY <2>2, <2>4, <3>1 DEF Inside
  <2>. QED  BY <2>5, <2>6
<1>. QED  BY <1>2, <1>3, <1>4

(* The places of the hook are apart.                                       *)
LEMMA RoomsApart ==
  ASSUME Chosen
  PROVE  /\ Room(F, 5) \cap Room(Trampoline, 32) = {} /\ Room(F, 5) \cap Room(stub, 7) = {}
         /\ Room(stub, 7) \cap Room(Trampoline, 32) = {}
         /\ Thunk \notin Room(F, 5) /\ Thunk \notin Room(stub, 7) /\ Thunk \notin Room(Trampoline, 32)
         /\ Room(F, 4) \subseteq Room(F, 5) /\ F \in Room(F, 4)
         /\ Room(Trampoline, 32) \subseteq Fresh /\ Room(stub, 7) \subseteq Fresh /\ Thunk \in Fresh
<1>1. stub \in Stubs /\ F \in Addresses
  BY ChosenWindow DEF Chosen
<1>2. /\ Room(Trampoline, 32) \subseteq Fresh /\ Room(stub, 7) \subseteq Fresh /\ Thunk \in Fresh
  BY <1>1 DEF Fresh
<1>3. /\ Room(F, 5) \cap Fresh = {} /\ Thunk \notin Room(Trampoline, 32)
      /\ Room(stub, 7) \cap (Room(Trampoline, 32) \cup {Thunk}) = {}
  BY <1>1, LayoutAssumption
<1>4. Room(F, 4) \subseteq Room(F, 5)
  <2>1. \A i : i \in 0 .. 4 - 1 => i \in 0 .. 5 - 1
    OBVIOUS
  <2>. QED  BY <2>1 DEF Room
<1>5. F \in Room(F, 4)
  <2>1. 1 \in 1 .. 4 /\ 4 * (1 - 1) = 0 /\ 4 \in Nat
    OBVIOUS
  <2>2. Plus(F, 4 * (1 - 1)) \in Room(F, 4)
    BY <1>1, <2>1, InRoom
  <2>. QED  BY <1>1, <2>1, <2>2, PlusZero
<1>. QED  BY <1>2, <1>3, <1>4, <1>5

LEMMA InCode ==
  ASSUME Chosen, NEW k \in DOMAIN Code
  PROVE  /\ Place(k) \in Addresses /\ Covered(Hooked, Place(k)) /\ Cell(Hooked, Place(k)) = Code[k]
         /\ Place(k) # F /\ Place(k) # Thunk
<1>. DEFINE a == Place(k)
            n == Len(Code)
<1>1. n \in 0 .. 32 /\ k \in 1 .. n /\ Trampoline \in Addresses /\ BuildTrampoline.at = Trampoline
      /\ DOMAIN BuildTrampoline.cells = 1 .. n
  BY CodeLength, ChosenWindow DEF Code
<1>. HIDE DEF n
<1>2. k \in 1 .. 32 /\ 4 * (k - 1) \in Int
  <2>1. n \in 0 .. 32 /\ k \in 1 .. n
    BY <1>1
  <2>. QED  BY <2>1
<1>3. a \in Addresses /\ a \in Room(Trampoline, 32)
  BY <1>1, <1>2, FlatPlus, InRoom DEF Place
<1>. HIDE DEF a
<1>4. \A t \in Hooked : Holds(t, a) => t = BuildTrampoline
  BY <1>3, WhereHeld, RoomsApart DEF Hooked
<1>5. Covered(Hooked, a) /\ Cell(Hooked, a) = BuildTrampoline.cells[k]
  <2>1. BuildTrampoline \in Hooked /\ a = Plus(BuildTrampoline.at, 4 * (k - 1))
    BY <1>1 DEF Hooked, a, Place
  <2>2. CellAt(BuildTrampoline, n, k, a)
    BY <1>1, <1>2, <2>1 DEF CellAt
  <2>. QED  BY <1>4, <2>1, <2>2, CellOf
<1>6. a # F /\ a # Thunk
  BY <1>3, RoomsApart
<1>. QED  BY <1>3, <1>5, <1>6 DEF a, Code

LEMMA InStub ==
  ASSUME Chosen, NEW k \in 1 .. 7
  PROVE  LET a == Plus(stub, 4 * (k - 1)) IN
         /\ a \in Addresses /\ Covered(Hooked, a) /\ Cell(Hooked, a) = BuildStub.cells[k]
         /\ a # F /\ a # Thunk
<1>. DEFINE a == Plus(stub, 4 * (k - 1))
<1>1. stub \in Addresses /\ BuildStub.at = stub /\ DOMAIN BuildStub.cells = 1 .. 7
  BY ChosenWindow, StubCells
<1>2. 7 \in 0 .. 32 /\ 4 * (k - 1) \in Int /\ 7 \in Nat
  OBVIOUS
<1>3. a \in Addresses /\ a \in Room(stub, 7)
  BY <1>1, <1>2, FlatPlus, InRoom
<1>. HIDE DEF a
<1>4. \A t \in Hooked : Holds(t, a) => t = BuildStub
  BY <1>3, WhereHeld, RoomsApart DEF Hooked
<1>5. Covered(Hooked, a) /\ Cell(Hooked, a) = BuildStub.cells[k]
  <2>1. BuildStub \in Hooked /\ a = Plus(BuildStub.at, 4 * (k - 1))
    BY <1>1 DEF Hooked, a
  <2>2. CellAt(BuildStub, 7, k, a)
    BY <1>1, <1>2, <2>1 DEF CellAt
  <2>. QED  BY <1>4, <2>1, <2>2, CellOf
<1>6. a # F /\ a # Thunk
  BY <1>3, RoomsApart
<1>. QED  BY <1>3, <1>5, <1>6 DEF a

LEMMA InJump ==
  ASSUME Chosen, NEW k \in 1 .. StolenLen
  PROVE  LET a == Plus(F, 4 * (k - 1)) IN
         /\ a \in Addresses /\ Covered(Hooked, a) /\ Cell(Hooked, a) = OverwriteWithJump.cells[k]
         /\ a # Thunk
<1>. DEFINE a == Plus(F, 4 * (k - 1))
            n == StolenLen
<1>1. /\ F \in Addresses /\ OverwriteWithJump.at = F /\ DOMAIN OverwriteWithJump.cells = 1 .. n
      /\ n \in {1, 4}
  BY ChosenWindow, JumpCells
<1>2. n \in 0 .. 32 /\ 4 * (k - 1) \in Int /\ k \in 1 .. n /\ k \in 1 .. 4
  BY <1>1
<1>. HIDE DEF n
<1>3. a \in Addresses /\ a \in Room(F, 4)
  BY <1>1, <1>2, FlatPlus, InRoom
<1>. HIDE DEF a
<1>4. \A t \in Hooked : Holds(t, a) => t = OverwriteWithJump
  BY <1>3, WhereHeld, RoomsApart DEF Hooked
<1>5. Covered(Hooked, a) /\ Cell(Hooked, a) = OverwriteWithJump.cells[k]
  <2>1. OverwriteWithJump \in Hooked /\ a = Plus(OverwriteWithJump.at, 4 * (k - 1))
    BY <1>1 DEF Hooked, a
  <2>2. CellAt(OverwriteWithJump, n, k, a)
    BY <1>1, <1>2, <2>1 DEF CellAt
  <2>. QED  BY <1>4, <2>1, <2>2, CellOf
<1>6. a # Thunk
  BY <1>3, RoomsApart
<1>. QED  BY <1>3, <1>5, <1>6 DEF a

LEMMA InOriginal ==
  ASSUME Chosen, NEW k \in 1 .. StolenLen
  PROVE  LET a == Plus(F, 4 * (k - 1)) IN
         a \in Addresses /\ Covered({Untouched}, a) /\ Cell({Untouched}, a) = Own(Stolen[k])
<1>. DEFINE n == StolenLen
<1>1. /\ F \in Addresses /\ n \in {1, 4} /\ DOMAIN Stolen = 1 .. n
  BY ChosenWindow, StolenWords
<1>2. Untouched.at = F /\ Untouched.cells = [i \in 1 .. n |-> Own(Stolen[i])]
  BY <1>1 DEF Untouched, Segment
<1>3. n \in 0 .. 32 /\ 4 * (k - 1) \in Int /\ k \in 1 .. n
  BY <1>1
<1>. HIDE DEF n
<1>4. DOMAIN Untouched.cells = 1 .. n /\ Untouched.cells[k] = Own(Stolen[k])
  BY <1>2, <1>3
<1>. DEFINE a == Plus(F, 4 * (k - 1))
<1>5. Untouched \in {Untouched} /\ Untouched.at \in Addresses
      /\ \A t \in {Untouched} : Holds(t, a) => t = Untouched
  BY <1>1, <1>2
<1>6. a = Plus(Untouched.at, 4 * (k - 1)) /\ a \in Addresses
  BY <1>1, <1>2, <1>3, FlatPlus
<1>. HIDE DEF a
<1>7. Covered({Untouched}, a) /\ Cell({Untouched}, a) = Untouched.cells[k]
  <2>1. CellAt(Untouched, n, k, a)
    BY <1>3, <1>4, <1>5, <1>6 DEF CellAt
  <2>. QED  BY <1>5, <2>1, CellOf
<1>. QED  BY <1>4, <1>6, <1>7 DEF a

(* What is free is in neither memory, the function itself excepted.        *)
LEMMA OutOfBoth ==
  ASSUME Chosen, NEW a, Free(a), a # F
  PROVE  ~Covered(Hooked, a) /\ ~Covered({Untouched}, a) /\ a # Thunk
<1>1. a \in Addresses /\ a \notin Fresh /\ ~Inside(a)
  BY DEF Free
<1>2. ~Covered(Hooked, a) /\ a # Thunk
  BY <1>1, WhereHeld, RoomsApart DEF Covered, Hooked
<1>3. ~Covered({Untouched}, a)
  <2>. SUFFICES ASSUME Holds(Untouched, a) PROVE FALSE
    BY DEF Covered
  <2>. DEFINE n == StolenLen
  <2>1. /\ F \in Addresses /\ n \in {1, 4} /\ DOMAIN Stolen = 1 .. n
    BY ChosenWindow, StolenWords
  <2>2. Untouched.at = F /\ DOMAIN Untouched.cells = 1 .. n
    BY <2>1 DEF Untouched, Segment
  <2>. HIDE DEF n
  <2>3. PICK k \in 1 .. n : a = Plus(F, 4 * (k - 1))
    <3>1. n \in Nat
      BY <2>1
    <3>2. \E k \in 1 .. n : a = Plus(Untouched.at, 4 * (k - 1))
      BY <1>1, <2>1, <2>2, <3>1, HoldsNoOther
    <3>. QED  BY <2>2, <3>2
  <2>4. CASE k = 1
    BY <2>1, <2>3, <2>4, PlusZero
  <2>5. CASE k # 1
    <3>1. k - 1 \in 1 .. n - 1
      BY <2>1, <2>5
    <3>. QED  BY <1>1, <2>3, <3>1 DEF Inside, n
  <2>. QED  BY <2>4, <2>5
<1>. QED  BY <1>2, <1>3

-----------------------------------------------------------------------------
(* What an operation of a core leaves.                                     *)

Tick(m) == [m EXCEPT !.steps = @ + 1]

(* n is m elsewhere, or later.                                             *)
Alike(m, n) ==
  IsCore(n) /\ n.x = m.x /\ n.linked = m.linked /\ n.log = m.log /\ n.end = m.end

(* n is m with v in register r, which is the zero register for 31.         *)
Wrote(m, n, r, v) ==
  /\ IsCore(n) /\ n.pc = m.pc /\ n.steps = m.steps /\ n.log = m.log /\ n.end = m.end
  /\ n.linked = IF r = 30 THEN TRUE ELSE m.linked
  /\ DOMAIN n.x = IF r = 31 THEN DOMAIN m.x ELSE DOMAIN m.x \cup {r}
  /\ \A q \in DOMAIN n.x : n.x[q] = IF q = r /\ r # 31 THEN v ELSE m.x[q]

(* n is m with one more entry in its log.                                  *)
Logged(m, n, e) ==
  /\ IsCore(n) /\ n.pc = m.pc /\ n.steps = m.steps /\ n.end = m.end
  /\ n.x = m.x /\ n.linked = m.linked /\ n.log = Append(m.log, e)

(* n is m at its end.                                                      *)
Ended(m, n, how) ==
  /\ IsCore(n) /\ n.pc = m.pc /\ n.steps = m.steps /\ n.end = how
  /\ n.x = m.x /\ n.linked = m.linked /\ n.log = m.log

LEMMA TickLater ==
  ASSUME NEW m, IsCore(m)
  PROVE  Alike(m, Tick(m)) /\ Tick(m).pc = m.pc /\ Tick(m).steps = m.steps + 1
  BY DEF IsCore, Alike, Tick

LEMMA GoElsewhere ==
  ASSUME NEW m, IsCore(m), NEW pc
  PROVE  Alike(m, Go(m, pc)) /\ Go(m, pc).pc = pc /\ Go(m, pc).steps = m.steps
  BY DEF IsCore, Alike, Go

Has(n, pc, x, linked, log, steps, end) ==
  n = [pc |-> pc, x |-> x, linked |-> linked, log |-> log, steps |-> steps, end |-> end]

Written(x, r, v) == [q \in DOMAIN x \cup {r} |-> IF q = r THEN v ELSE x[q]]

LEMMA SetHas ==
  ASSUME NEW m, IsCore(m), NEW r, r # 31, NEW v
  PROVE  Has(Set(m, r, v), m.pc, Written(m.x, r, v), m.linked, m.log, m.steps, m.end)
<1>. DEFINE x == Written(m.x, r, v)
<1>1. Set(m, r, v) = [m EXCEPT !.x = x]
  BY DEF Set, Written
<1>. HIDE DEF x
<1>2. Has(Set(m, r, v), m.pc, x, m.linked, m.log, m.steps, m.end)
  BY <1>1 DEF IsCore, Has
<1>. QED  BY <1>2 DEF x

LEMMA LinkHas ==
  ASSUME NEW m, IsCore(m), NEW v
  PROVE  Has(Link(m, v), m.pc, Written(m.x, 30, v), TRUE, m.log, m.steps, m.end)
<1>. DEFINE s == Set(m, 30, v)
            x == Written(m.x, 30, v)
<1>1. Link(m, v) = [s EXCEPT !.linked = TRUE]
  BY DEF Link
<1>2. 30 # 31
  OBVIOUS
<1>3. Has(s, m.pc, x, m.linked, m.log, m.steps, m.end)
  BY <1>2, SetHas
<1>. HIDE DEF s, x
<1>4. Has(Link(m, v), m.pc, x, TRUE, m.log, m.steps, m.end)
  BY <1>1, <1>3 DEF Has
<1>. QED  BY <1>4 DEF x

LEMMA HasWrote ==
  ASSUME NEW m, NEW n, NEW r, NEW v, NEW l, r # 31,
         r = 30 => l = TRUE, r # 30 => l = m.linked,
         Has(n, m.pc, Written(m.x, r, v), l, m.log, m.steps, m.end)
  PROVE  Wrote(m, n, r, v)
<1>. DEFINE x == Written(m.x, r, v)
<1>1. DOMAIN x = DOMAIN m.x \cup {r} /\ \A q \in DOMAIN x : x[q] = IF q = r THEN v ELSE m.x[q]
  BY DEF Written
<1>. HIDE DEF x
<1>2. Has(n, m.pc, x, l, m.log, m.steps, m.end)
  BY DEF x
<1>3. /\ IsCore(n) /\ n.pc = m.pc /\ n.steps = m.steps /\ n.log = m.log /\ n.end = m.end
      /\ n.linked = l /\ n.x = x
  BY <1>2 DEF Has, IsCore
<1>. QED  BY <1>1, <1>3 DEF Wrote

LEMMA SetWrote ==
  ASSUME NEW m, IsCore(m), NEW r, r # 30, NEW v
  PROVE  Wrote(m, Set(m, r, v), r, v)
<1>1. CASE r = 31
  BY <1>1 DEF Set, Wrote
<1>2. CASE r # 31
  <2>1. Has(Set(m, r, v), m.pc, Written(m.x, r, v), m.linked, m.log, m.steps, m.end)
    BY <1>2, SetHas
  <2>. QED  BY <1>2, <2>1, HasWrote
<1>. QED  BY <1>1, <1>2

LEMMA LinkWrote ==
  ASSUME NEW m, IsCore(m), NEW v
  PROVE  Wrote(m, Link(m, v), 30, v)
<1>1. 30 # 31
  OBVIOUS
<1>. QED  BY <1>1, LinkHas, HasWrote

LEMMA PutWrote ==
  ASSUME NEW m, IsCore(m), NEW r, NEW v
  PROVE  Wrote(m, Put(m, r, v), r, v)
  BY SetWrote, LinkWrote DEF Put

LEMMA SeeLogged ==
  ASSUME NEW m, IsCore(m), NEW what, NEW v, NEW k
  PROVE  Logged(m, See(m, what, v, k), [what |-> what, v |-> v, n |-> k])
<1>. DEFINE e == [what |-> what, v |-> v, n |-> k]
            l == Append(m.log, e)
<1>1. See(m, what, v, k) = [m EXCEPT !.log = l]
  BY DEF See
<1>. HIDE DEF l
<1>. DEFINE n == [m EXCEPT !.log = l]
<1>2. /\ IsCore(n) /\ n.pc = m.pc /\ n.steps = m.steps /\ n.end = m.end
      /\ n.x = m.x /\ n.linked = m.linked /\ n.log = l
  BY DEF IsCore
<1>. HIDE DEF n, e
<1>3. Logged(m, n, e)
  BY <1>2 DEF Logged, l
<1>. QED  BY <1>1, <1>3, Zenon DEF n, e

LEMMA EndEnded ==
  ASSUME NEW m, IsCore(m), NEW how
  PROVE  Ended(m, End(m, how), how)
  BY DEF IsCore, Ended, End

-----------------------------------------------------------------------------
(* Two cores go on agreeing.                                               *)

LEMMA AgreeAlike ==
  ASSUME NEW m, NEW n, Agree(m, n), NEW a, NEW b, Alike(m, a), Alike(n, b)
  PROVE  Agree(a, b) /\ (Carries(m, n) => Carries(a, b))
  BY DEF Agree, Alike, Carries

LEMMA AlikeCore ==
  ASSUME NEW m, NEW n, Alike(m, n)
  PROVE  IsCore(n) /\ n.end = m.end /\ n.x = m.x /\ n.linked = m.linked /\ n.log = m.log
  BY DEF Alike

LEMMA AlikeTwice ==
  ASSUME NEW m, NEW n, NEW o, Alike(m, n), Alike(n, o)
  PROVE  Alike(m, o)
  BY DEF Alike

LEMMA AgreeWrote ==
  ASSUME NEW m, NEW n, Agree(m, n), NEW a, NEW b, NEW r, NEW v,
         Wrote(m, a, r, v), Wrote(n, b, r, v), v.k = "addr" => Free(v.a)
  PROVE  Agree(a, b) /\ (Carries(m, n) => Carries(a, b))
<1>. DEFINE L == Linker
<1>1. DOMAIN a.x \ L = DOMAIN b.x \ L
  BY DEF Agree, Wrote
<1>2. \A q \in DOMAIN a.x \ L : b.x[q] = a.x[q]
  <2>. SUFFICES ASSUME NEW q \in DOMAIN a.x \ L PROVE b.x[q] = a.x[q]
    OBVIOUS
  <2>1. q \in DOMAIN b.x
    BY <1>1
  <2>2. CASE q = r /\ r # 31
    BY <2>1, <2>2 DEF Wrote
  <2>3. CASE ~(q = r /\ r # 31)
    <3>1. a.x[q] = m.x[q] /\ b.x[q] = n.x[q]
      BY <2>1, <2>3 DEF Wrote
    <3>2. q \in DOMAIN m.x \ L
      BY <2>3 DEF Wrote
    <3>. QED  BY <3>1, <3>2 DEF Agree
  <2>. QED  BY <2>2, <2>3
<1>3. \A q \in DOMAIN a.x : a.x[q].k = "addr" => Free(a.x[q].a)
  <2>. SUFFICES ASSUME NEW q \in DOMAIN a.x, a.x[q].k = "addr" PROVE Free(a.x[q].a)
    OBVIOUS
  <2>1. CASE q = r /\ r # 31
    <3>1. a.x[q] = v
      BY <2>1 DEF Wrote
    <3>. QED  BY <3>1
  <2>2. CASE ~(q = r /\ r # 31)
    <3>1. a.x[q] = m.x[q] /\ q \in DOMAIN m.x
      BY <2>2 DEF Wrote
    <3>. QED  BY <3>1 DEF Agree
  <2>. QED  BY <2>1, <2>2
<1>4. /\ IsCore(a) /\ IsCore(b) /\ b.log = a.log /\ b.linked = a.linked /\ b.end = a.end
  BY DEF Agree, Wrote
<1>5. ASSUME Carries(m, n) PROVE Carries(a, b)
  <2>. SUFFICES ASSUME NEW q \in DOMAIN a.x \cap L PROVE q \in DOMAIN b.x /\ b.x[q] = a.x[q]
    BY DEF Carries
  <2>1. CASE q = r /\ r # 31
    BY <2>1 DEF Wrote
  <2>2. CASE ~(q = r /\ r # 31)
    <3>1. q \in DOMAIN m.x \cap L /\ a.x[q] = m.x[q]
      BY <2>2 DEF Wrote
    <3>2. q \in DOMAIN n.x /\ n.x[q] = m.x[q]
      BY <1>5, <3>1 DEF Carries
    <3>3. q \in DOMAIN b.x /\ b.x[q] = n.x[q]
      BY <2>2, <3>2 DEF Wrote
    <3>. QED  BY <3>1, <3>2, <3>3
  <2>. QED  BY <2>1, <2>2
<1>. QED  BY <1>1, <1>2, <1>3, <1>4, <1>5 DEF Agree

(* What the moved code writes to x16 and x17 on its own account.           *)
LEMMA AgreeScratch ==
  ASSUME NEW m, NEW n, Agree(m, n), NEW b, NEW r \in Linker, NEW v, Wrote(n, b, r, v)
  PROVE  Agree(m, b)
<1>0. r # 30 /\ r # 31
  BY DEF Linker
<1>1. DOMAIN b.x = DOMAIN n.x \cup {r} /\ b.linked = n.linked
  BY <1>0 DEF Wrote
<1>2. DOMAIN m.x \ Linker = DOMAIN b.x \ Linker
  BY <1>1 DEF Agree
<1>3. \A q \in DOMAIN m.x \ Linker : b.x[q] = m.x[q]
  <2>. SUFFICES ASSUME NEW q \in DOMAIN m.x \ Linker PROVE b.x[q] = m.x[q]
    OBVIOUS
  <2>1. q # r /\ q \in DOMAIN b.x
    BY <1>2
  <2>2. b.x[q] = n.x[q]
    BY <2>1 DEF Wrote
  <2>. QED  BY <2>2 DEF Agree
<1>. QED  BY <1>1, <1>2, <1>3 DEF Agree, Wrote

LEMMA AgreeLogged ==
  ASSUME NEW m, NEW n, Agree(m, n), NEW a, NEW b, NEW e, Logged(m, a, e), Logged(n, b, e)
  PROVE  Agree(a, b) /\ (Carries(m, n) => Carries(a, b))
  BY DEF Agree, Logged, Carries

LEMMA AgreeEnded ==
  ASSUME NEW m, NEW n, Agree(m, n), NEW a, NEW b, NEW how, Ended(m, a, how), Ended(n, b, how)
  PROVE  Agree(a, b)
  BY DEF Agree, Ended

(* A jump through a register that both have.                               *)
LEMMA JumpsAgree ==
  ASSUME NEW m, NEW n, Agree(m, n), NEW r, X(n, r) = X(m, r),
         m.end = ""
  PROVE  LET a == JumpTo(m, X(m, r))
             b == JumpTo(n, X(n, r))
         IN  /\ Agree(a, b) /\ b.pc = a.pc /\ a.steps = m.steps /\ b.steps = n.steps
             /\ a.linked = m.linked
             /\ a.end = "" => Free(a.pc)
<1>. DEFINE v == X(m, r)
<1>1. v.k = "addr" => Free(v.a)
  <2>1. InitV(r).k = "init"
    BY DEF InitV
  <2>. QED  BY <2>1 DEF X, Agree
<1>2. X(n, r) = v /\ IsCore(m) /\ IsCore(n)
  BY DEF Agree
<1>. HIDE DEF v
<1>3. CASE v.k = "addr"
  <2>. DEFINE a == Go(m, v.a)
              b == Go(n, v.a)
  <2>1. JumpTo(m, v) = a /\ JumpTo(n, v) = b
    BY <1>3 DEF JumpTo
  <2>2. /\ Alike(m, a) /\ a.pc = v.a /\ a.steps = m.steps
        /\ Alike(n, b) /\ b.pc = v.a /\ b.steps = n.steps
    BY <1>2, GoElsewhere
  <2>. HIDE DEF a, b
  <2>3. Agree(a, b) /\ a.linked = m.linked
    BY <2>2, AgreeAlike, AlikeCore
  <2>. QED  BY <1>1, <1>2, <1>3, <2>1, <2>2, <2>3 DEF v
<1>4. CASE v.k # "addr"
  <2>. DEFINE a == Go(m, Nowhere)
              b == Go(n, Nowhere)
              p == End(a, "returned")
              q == End(b, "returned")
  <2>1. JumpTo(m, v) = p /\ JumpTo(n, v) = q
    BY <1>4 DEF JumpTo
  <2>2. /\ Alike(m, a) /\ a.pc = Nowhere /\ a.steps = m.steps
        /\ Alike(n, b) /\ b.pc = Nowhere /\ b.steps = n.steps
    BY <1>2, GoElsewhere
  <2>. HIDE DEF a, b
  <2>3. Agree(a, b) /\ a.linked = m.linked /\ IsCore(a) /\ IsCore(b)
    BY <2>2, AgreeAlike, AlikeCore
  <2>4. Ended(a, p, "returned") /\ Ended(b, q, "returned")
    BY <2>3, EndEnded
  <2>. HIDE DEF p, q
  <2>5. Agree(p, q)
    BY <2>3, <2>4, AgreeEnded
  <2>6. q.pc = p.pc /\ p.steps = m.steps /\ q.steps = n.steps /\ p.linked = m.linked /\ p.end = "returned"
    BY <2>2, <2>3, <2>4 DEF Ended
  <2>. QED  BY <1>2, <2>1, <2>5, <2>6 DEF v
<1>. QED  BY <1>3, <1>4

LEMMA SameRegister ==
  ASSUME NEW m, NEW n, Agree(m, n), NEW r, r \notin Linker \/ (Carries(m, n) /\ r \in DOMAIN m.x)
  PROVE  X(n, r) = X(m, r)
<1>1. CASE r \notin Linker
  <2>1. r \in DOMAIN m.x <=> r \in DOMAIN n.x
    BY <1>1 DEF Agree
  <2>2. r \in DOMAIN m.x => n.x[r] = m.x[r]
    BY <1>1 DEF Agree
  <2>. QED  BY <2>1, <2>2 DEF X
<1>2. CASE r \in Linker
  BY <1>2 DEF X, Carries
<1>. QED  BY <1>1, <1>2

-----------------------------------------------------------------------------
(* What one step does with the word it finds.                              *)

LEMMA StepFetch ==
  ASSUME NEW m, NEW ss, NEW entry, NEW limit, NEW b,
         m.steps # limit, ~(m.pc = entry /\ m.steps > 0),
         Covered(ss, m.pc), Cell(ss, m.pc).k # "data"
  PROVE  Step(m, ss, entry, limit, b) = Execute(Tick(m), Cell(ss, m.pc).w, ss, b)
  BY Zenon DEF Step, Tick

LEMMA PlaceOf ==
  ASSUME Chosen, NEW k \in Int, NEW d \in Int
  PROVE  Place(k) \in Addresses /\ Plus(Place(k), 4 * d) = Place(k + d)
<1>1. Trampoline \in Addresses /\ 4 * (k - 1) \in Int /\ 4 * d \in Int
      /\ 4 * (k - 1) + 4 * d = 4 * (k + d - 1)
  BY ChosenWindow
<1>2. Plus(Trampoline, 4 * (k - 1)) \in Addresses
  BY <1>1, FlatPlus
<1>3. Plus(Plus(Trampoline, 4 * (k - 1)), 4 * d) = Plus(Trampoline, 4 * (k + d - 1))
  BY <1>1, PlusPlus
<1>. QED  BY <1>2, <1>3 DEF Place

LEMMA RunsNew ==
  ASSUME Chosen, NEW n, n.steps \in 0 .. 20, NEW k \in DOMAIN Code, n.pc = Place(k),
         NEW w, Code[k] = Insn(w)
  PROVE  NewStep(n) = Execute(Tick(n), w, Hooked, yes)
<1>1. /\ Covered(Hooked, n.pc) /\ Cell(Hooked, n.pc) = Insn(w) /\ n.pc # F /\ n.pc # Thunk
  BY InCode
<1>2. n.steps # MaxSteps
  BY StepsAssumption
<1>3. Insn(w).k # "data" /\ Insn(w).w = w
  BY DEF Insn
<1>4. Step(n, Hooked, F, MaxSteps, yes) = Execute(Tick(n), Cell(Hooked, n.pc).w, Hooked, yes)
  BY <1>1, <1>2, <1>3, StepFetch
<1>. QED  BY <1>1, <1>3, <1>4 DEF NewStep

LEMMA RunsOld ==
  ASSUME Chosen, NEW m, NEW i \in 0 .. StolenLen - 1, m.steps = i, m.pc = Plus(F, 4 * i)
  PROVE  OldStep(m) = Execute(Tick(m), Stolen[i + 1], {Untouched}, yes)
<1>1. StolenLen \in {1, 4} /\ F \in Addresses
  BY ChosenWindow
<1>2. i \in 0 .. 3 /\ i + 1 \in 1 .. StolenLen /\ (i + 1) - 1 = i
  BY <1>1
<1>3. Covered({Untouched}, m.pc) /\ Cell({Untouched}, m.pc) = Own(Stolen[i + 1])
  <2>1. LET a == Plus(F, 4 * ((i + 1) - 1)) IN
        Covered({Untouched}, a) /\ Cell({Untouched}, a) = Own(Stolen[i + 1])
    BY <1>2, InOriginal
  <2>. QED  BY <1>2, <2>1
<1>4. m.steps # MaxSteps
  BY <1>2, StepsAssumption
<1>5. ~(m.pc = F /\ m.steps > 0)
  <2>1. Plus(F, 0) = F /\ 4 * i \in Int
    BY <1>1, <1>2, PlusZero
  <2>2. Plus(F, 4 * i) = Plus(F, 0) => 4 * i = 0
    BY <1>1, <2>1, PlusInjective
  <2>. QED  BY <1>2, <2>1, <2>2
<1>6. Own(Stolen[i + 1]).k # "data" /\ Own(Stolen[i + 1]).w = Stolen[i + 1]
  BY DEF Own
<1>. QED  BY <1>3, <1>4, <1>5, <1>6, StepFetch DEF OldStep

LEMMA OwnCells ==
  ASSUME NEW a, Covered({Untouched}, a)
  PROVE  Cell({Untouched}, a).k = "own"
<1>1. (CHOOSE s \in {Untouched} : Holds(s, a)) = Untouched
  BY DEF Covered
<1>. DEFINE j == (Distance(a, Untouched.at) \div 4) + 1
<1>2. j \in DOMAIN Untouched.cells
  BY DEF Covered, Holds
<1>3. Cell({Untouched}, a) = Untouched.cells[j]
  BY <1>1 DEF Cell
<1>4. Untouched.cells = [i \in DOMAIN Stolen |-> Own(Stolen[i])]
  BY DEF Untouched, Segment
<1>. HIDE DEF j
<1>5. Untouched.cells[j] = Own(Stolen[j])
  BY <1>2, <1>4
<1>. QED  BY <1>3, <1>5 DEF Own

-----------------------------------------------------------------------------
(* One word of each class.                                                 *)

Dest(w) == IF w.hi \in {28, 92, 156} THEN 32 + Rd(w) ELSE Rd(w)
Kind(w) == IF w.hi \in LDRSW THEN "signed" ELSE "mem"
Size(w) == IF w.hi \in LDR8 THEN 8 ELSE 4
Next4(m) == Go(m, Plus(m.pc, 4))
Plain == LDR4 \cup LDR8 \cup LDRSW

LEMMA LiteralOnly ==
  ASSUME NEW w, w.hi \in Literal
  PROVE  /\ w.hi \notin B /\ w.hi \notin BL /\ w.hi \notin BCond
         /\ w.hi \notin CBZ \cup CBNZ /\ w.hi \notin TBZ \cup TBNZ
         /\ w.hi \notin ADR \cup ADRP /\ ~IsBr(w) /\ ~IsRet(w)
         /\ w.hi \in Plain => w.hi \notin PRFM /\ w.hi \notin NoLiteral /\ w.hi \notin LDR16
         /\ w.hi \in NoLiteral => w.hi \notin PRFM
  BY DEF Literal, Plain, LDR4, LDR8, LDRSW, LDR16, PRFM, NoLiteral, B, BL, BCond, CBZ, CBNZ, TBZ,
         TBNZ, ADR, ADRP, IsBr, IsRet

LEMMA ExecLiteral ==
  ASSUME NEW m, NEW w, w.hi \in Literal, NEW ss, NEW b
  PROVE  /\ w.hi \in Plain =>
              Execute(m, w, ss, b) = Put(Next4(m), Dest(w), Load(ss, Plus(m.pc, 4 * Imm19(w)), w))
         /\ w.hi \in PRFM => Execute(m, w, ss, b) = Next4(m)
         /\ w.hi \in NoLiteral => Execute(m, w, ss, b) = End(Go(m, Nowhere), "undefined")
<1>1. Execute(m, w, ss, b) = LoadLiteral(m, w, ss)
  BY LiteralOnly, Zenon DEF Execute
<1>. QED  BY <1>1, LiteralOnly, Zenon DEF LoadLiteral, Next4, Dest

Short(w) == w.lo \in 0 .. 4000

LEMMA ShortField ==
  ASSUME NEW w, Short(w)
  PROVE  Imm19(w) = w.lo \div 32 /\ Rd(w) = w.lo % 32
<1>. DEFINE q == w.lo
<1>0. q \in 0 .. 4000
  BY DEF Short
<1>. HIDE DEF q
<1>1. q \div 32 < 262144
  BY <1>0
<1>3. Signed(q \div 32, 19) = q \div 32
  BY <1>1, Sizes, SMT DEF Signed
<1>4. Imm19(w) = Signed(q \div 32, 19) /\ Rd(w) = q % 32
  BY DEF Imm19, Rd, q
<1>. QED  BY <1>3, <1>4 DEF q

LEMMA ShortWord ==
  ASSUME NEW d \in 2 .. 4, NEW r \in 0 .. 31, NEW w, w.lo = 32 * d + r
  PROVE  Imm19(w) = d /\ Rd(w) = r
<1>. DEFINE e == 32 * d + r
<1>1. e \in 0 .. 4000 /\ e \div 32 = d /\ e % 32 = r
  OBVIOUS
<1>. HIDE DEF e
<1>2. w.lo = e
  BY DEF e
<1>3. Imm19(w) = w.lo \div 32 /\ Rd(w) = w.lo % 32
  <2>1. Short(w)
    BY <1>1, <1>2 DEF Short
  <2>. QED  BY <2>1, ShortField, Zenon
<1>. QED  BY <1>1, <1>2, <1>3

LEMMA LiteralWord ==
  ASSUME NEW hi, NEW r \in 0 .. 31
  PROVE  LET v == Word(hi, 64 + r) IN v.hi = hi /\ Imm19(v) = 2 /\ Rd(v) = r
<1>. DEFINE v == Word(hi, 64 + r)
<1>1. v.hi = hi /\ v.lo = 64 + r
  BY DEF Word
<1>2. v.lo = 32 * 2 + r /\ 2 \in 2 .. 4
  BY <1>1
<1>. HIDE DEF v
<1>3. Imm19(v) = 2 /\ Rd(v) = r
  BY <1>2, ShortWord
<1>. QED  BY <1>1, <1>3 DEF v

(* A load that the builders write finds the address they wrote.            *)
LEMMA LoadsAddress ==
  ASSUME NEW n, NEW d \in 2 .. 4, NEW r \in 0 .. 31, NEW w, w = Word(88, 32 * d + r),
         NEW ss, NEW b, NEW a, Covered(ss, Plus(n.pc, 4 * d)),
         Cell(ss, Plus(n.pc, 4 * d)) = Data(AddrV(a), 0)
  PROVE  Execute(n, w, ss, b) = Put(Next4(n), r, AddrV(a))
<1>1. w.hi = 88 /\ Imm19(w) = d /\ Rd(w) = r
  <2>1. w.hi = 88 /\ w.lo = 32 * d + r
    BY DEF Word
  <2>. QED  BY <2>1, ShortWord
<1>2. w.hi \in Literal /\ w.hi \in Plain /\ Dest(w) = r
  BY <1>1 DEF Literal, Plain, LDR8, Dest
<1>3. Load(ss, Plus(n.pc, 4 * d), w) = AddrV(a)
  <2>. DEFINE c == Data(AddrV(a), 0)
  <2>1. c.k = "data" /\ c.half = 0 /\ c.v = AddrV(a) /\ AddrV(a).k = "addr"
    BY DEF Data, AddrV
  <2>. HIDE DEF c
  <2>2. Cell(ss, Plus(n.pc, 4 * d)) = c
    BY DEF c
  <2>3. c.k # "own" /\ c.k # "insn" /\ c.half # 1
    BY <2>1
  <2>. QED  BY <2>1, <2>2, <2>3, Zenon DEF Load
<1>. QED  BY <1>1, <1>2, <1>3, ExecLiteral

(* A moved literal finds the bytes that travelled with it.                 *)
LEMMA LoadsCopy ==
  ASSUME NEW n, NEW w \in Words, w.hi \in Plain, NEW v, v = Word(w.hi, 64 + Rd(w)),
         NEW ss, NEW b, NEW a, Covered(ss, Plus(n.pc, 8)),
         Cell(ss, Plus(n.pc, 8)) = Data(MemV("mem", a, 8), 0)
  PROVE  Execute(n, v, ss, b) = Put(Next4(n), Dest(w), MemV(Kind(w), a, Size(w)))
<1>0. Rd(w) \in 0 .. 31
  BY WordFields DEF Rd
<1>1. v.hi = w.hi /\ Imm19(v) = 2 /\ Rd(v) = Rd(w)
  BY <1>0, LiteralWord
<1>2. w.hi \in Literal
  BY DEF Literal, Plain
<1>3. Load(ss, Plus(n.pc, 8), v) = MemV(Kind(w), a, Size(w))
  <2>. DEFINE c == Data(MemV("mem", a, 8), 0)
              d == c.v
              s == CASE v.hi \in LDR16 -> 16 [] v.hi \in LDR8 -> 8 [] OTHER -> 4
              kind == IF v.hi \in LDRSW THEN "signed" ELSE "mem"
  <2>1. c.k = "data" /\ c.half = 0 /\ d.k = "mem" /\ d.a = a /\ d.n = 8
    BY DEF Data, MemV
  <2>. HIDE DEF c, d
  <2>2. Cell(ss, Plus(n.pc, 8)) = c
    BY DEF c
  <2>3. c.k # "own" /\ c.k # "insn" /\ c.half # 1 /\ d.k # "addr"
    BY <2>1
  <2>4. Load(ss, Plus(n.pc, 8), v) = MemV(kind, d.a, Min({s, d.n}))
    BY <2>1, <2>2, <2>3, Zenon DEF Load, d
  <2>5. w.hi \notin LDR16
    BY <1>2, LiteralOnly
  <2>6. s = Size(w) /\ kind = Kind(w)
    BY <1>1, <2>5, Zenon DEF Size, Kind
  <2>. HIDE DEF s, kind
  <2>7. s \in {4, 8}
    BY <2>6 DEF Size
  <2>8. Min({s, 8}) = s
    BY <2>7 DEF Min
  <2>. QED  BY <2>1, <2>4, <2>6, <2>8
<1>4. Dest(v) = Dest(w) /\ v.hi \in Literal /\ v.hi \in Plain
  BY <1>1, <1>2 DEF Dest
<1>5. 4 * 2 = 8
  OBVIOUS
<1>. QED  BY <1>1, <1>3, <1>4, <1>5, ExecLiteral

(* In its place, a literal finds memory that no one wrote to.              *)
LEMMA LoadsOwn ==
  ASSUME NEW m, NEW w, w.hi \in Plain, NEW b
  PROVE  Execute(m, w, {Untouched}, b) =
           Put(Next4(m), Dest(w), MemV(Kind(w), Plus(m.pc, 4 * Imm19(w)), Size(w)))
<1>. DEFINE a == Plus(m.pc, 4 * Imm19(w))
<1>. HIDE DEF a
<1>1. w.hi \in Literal /\ w.hi \notin LDR16
  BY LiteralOnly DEF Literal, Plain
<1>2. ~Covered({Untouched}, a) \/ Cell({Untouched}, a).k = "own"
  BY OwnCells
<1>3. Load({Untouched}, a, w) = MemV(Kind(w), a, Size(w))
  BY <1>1, <1>2, Zenon DEF Load, Kind, Size
<1>. QED  BY <1>1, <1>3, ExecLiteral DEF a

LEMMA ExecLeave ==
  ASSUME NEW n, NEW w, IsBr(w) \/ IsRet(w), NEW ss, NEW b
  PROVE  Execute(n, w, ss, b) = JumpTo(n, X(n, Rn(w))) /\ w.hi \notin PcRelative
<1>1. w.hi = 214
  BY DEF IsBr, IsRet
<1>5. /\ w.hi \notin B /\ w.hi \notin BL /\ w.hi \notin BCond
      /\ w.hi \notin CBZ \cup CBNZ /\ w.hi \notin TBZ \cup TBNZ
      /\ w.hi \notin ADR \cup ADRP /\ w.hi \notin Literal
  BY <1>1 DEF Literal, LDR4, LDR8, LDRSW, LDR16, PRFM, NoLiteral, B, BL, BCond, CBZ, CBNZ, TBZ,
              TBNZ, ADR, ADRP
<1>6. w.hi \notin PcRelative
  BY <1>5 DEF PcRelative, Branches
<1>. QED  BY <1>5, <1>6, Zenon DEF Execute

LEMMA ExecBr ==
  ASSUME NEW n, NEW r \in 0 .. 31, NEW w, w = Word(214, 2031616 + 32 * r), NEW ss, NEW b
  PROVE  Execute(n, w, ss, b) = JumpTo(n, X(n, r))
<1>1. w.hi = 214 /\ w.lo = 2031616 + 32 * r
  BY DEF Word
<1>2. w.lo \div 32 = 63488 + r
  BY <1>1
<1>3. Rn(w) = r
  BY <1>2 DEF Rn
<1>4. IsBr(w)
  <2>1. 2^16 = 65536
    BY SMT
  <2>2. w.lo \div 65536 = 31
    BY <1>1
  <2>. QED  BY <1>1, <2>1, <2>2 DEF IsBr
<1>. QED  BY <1>3, <1>4, ExecLeave

LEMMA ExecJump ==
  ASSUME NEW n, NEW w, w.hi \in B \cup BL, NEW ss, NEW b
  PROVE  /\ w.hi \in B => Execute(n, w, ss, b) = Go(n, Target(w, n.pc))
         /\ w.hi \in BL => Execute(n, w, ss, b) = Link(Go(n, Target(w, n.pc)), AddrV(Plus(n.pc, 4)))
<1>1. /\ w.hi \in BL => w.hi \notin B
      /\ w.hi \notin BCond
      /\ w.hi \notin CBZ \cup CBNZ /\ w.hi \notin TBZ \cup TBNZ
      /\ w.hi \notin ADR \cup ADRP /\ w.hi \notin Literal /\ ~IsBr(w) /\ ~IsRet(w)
  BY DEF Literal, LDR4, LDR8, LDRSW, LDR16, PRFM, NoLiteral, B, BL, BCond, CBZ, CBNZ, TBZ,
         TBNZ, ADR, ADRP, IsBr, IsRet
<1>. QED  BY <1>1, Zenon DEF Execute

LEMMA ExecSkip ==
  ASSUME NEW n, NEW ss, NEW b
  PROVE  Execute(n, SkipDword, ss, b) = Go(n, Plus(n.pc, 12))
<1>. DEFINE w == SkipDword
<1>1. w.hi = 20 /\ w.lo = 3 /\ w = Word(20, 3)
  BY DEF SkipDword, Word
<1>. HIDE DEF w
<1>2. w \in Words
  <2>1. 20 \in 0 .. 255 /\ 3 \in 0 .. 2^24 - 1
    BY Sizes
  <2>2. Word(20, 3) \in Words
    BY <2>1, WordIn, Zenon
  <2>. QED  BY <1>1, <2>2
<1>3. w.hi \in B
  BY <1>1 DEF B
<1>4. Imm26(w) = 3
  <2>1. (w.hi % 4) * 2^24 + w.lo = 3 /\ 3 < 2^(26 - 1)
    BY <1>1, Sizes
  <2>. QED  BY <2>1 DEF Imm26, Signed
<1>5. Target(w, n.pc) = Plus(n.pc, 4 * 3)
  BY <1>2, <1>3, <1>4, BranchTarget
<1>6. 4 * 3 = 12
  OBVIOUS
<1>. QED  BY <1>3, <1>5, <1>6, ExecJump DEF w

LEMMA ExecAdr ==
  ASSUME NEW n, NEW w, w.hi \in ADR \cup ADRP, NEW ss, NEW b
  PROVE  Execute(n, w, ss, b) = Put(Next4(n), Rd(w), AddrV(Pointer(w, n.pc)))
<1>1. /\ w.hi \notin B /\ w.hi \notin BL /\ w.hi \notin BCond
      /\ w.hi \notin CBZ \cup CBNZ /\ w.hi \notin TBZ \cup TBNZ
      /\ w.hi \notin Literal /\ ~IsBr(w) /\ ~IsRet(w)
  BY DEF Literal, LDR4, LDR8, LDRSW, LDR16, PRFM, NoLiteral, B, BL, BCond, CBZ, CBNZ, TBZ,
         TBNZ, ADR, ADRP, IsBr, IsRet
<1>. QED  BY <1>1, Zenon DEF Execute, Next4

LEMMA ExecOp ==
  ASSUME NEW n, NEW w, w.hi \notin PcRelative, ~IsBr(w), ~IsRet(w), NEW ss, NEW b
  PROVE  Execute(n, w, ss, b) = See(Next4(n), "op", InitV(w.hi), w.lo)
<1>1. /\ w.hi \notin B /\ w.hi \notin BL /\ w.hi \notin BCond
      /\ w.hi \notin CBZ \cup CBNZ /\ w.hi \notin TBZ \cup TBNZ
      /\ w.hi \notin ADR \cup ADRP /\ w.hi \notin Literal
  BY DEF PcRelative, Branches
<1>. QED  BY <1>1, Zenon DEF Execute, Next4

-----------------------------------------------------------------------------
(* The stolen words, and what they name.                                   *)

Pc(i) == Plus(F, 4 * i)

LEMMA PcOf ==
  ASSUME Chosen, NEW i \in Int
  PROVE  Pc(i) \in Addresses /\ Plus(Pc(i), 4) = Pc(i + 1)
<1>1. F \in Addresses /\ 4 * i \in Int /\ 4 \in Int /\ 4 * i + 4 = 4 * (i + 1)
  BY ChosenWindow
<1>2. Plus(F, 4 * i) \in Addresses /\ Plus(Plus(F, 4 * i), 4) = Plus(F, 4 * i + 4)
  BY <1>1, FlatPlus, PlusPlus
<1>. QED  BY <1>1, <1>2 DEF Pc

LEMMA SignedInt ==
  ASSUME NEW n \in Int
  PROVE  /\ Signed(n, 26) \in Int /\ Signed(n, 19) \in Int
         /\ Signed(n, 14) \in Int /\ Signed(n, 21) \in Int
<1>1. \A bits : 2^bits \in Int => Signed(n, bits) \in Int
  BY DEF Signed
<1>2. 2^26 \in Int /\ 2^19 \in Int /\ 2^14 \in Int /\ 2^21 \in Int
  BY Sizes
<1>. QED  BY <1>1, <1>2

LEMMA Immediates ==
  ASSUME NEW w \in Words
  PROVE  Imm26(w) \in Int /\ Imm19(w) \in Int /\ Imm14(w) \in Int /\ Imm21(w) \in Int
<1>1. /\ (w.hi % 4) * 16777216 + w.lo \in Int /\ w.lo \div 32 \in Int
      /\ (w.lo \div 32) % 16384 \in Int
      /\ (w.lo \div 32) * 4 + ((w.hi \div 32) % 4) \in Int
  BY WordFields, SMT
<1>2. 2^24 = 16777216 /\ 2^14 = 16384
  BY Sizes
<1>3. /\ (w.hi % 4) * 2^24 + w.lo \in Int /\ (w.lo \div 32) % 2^14 \in Int
  BY <1>1, <1>2
<1>. QED  BY <1>1, <1>3, SignedInt DEF Imm26, Imm19, Imm14, Imm21

LEMMA TargetIn ==
  ASSUME NEW w \in Words, NEW pc \in Addresses
  PROVE  Target(w, pc) \in Addresses /\ Pointer(w, pc) \in Addresses
<1>1. Imm26(w) \in Int /\ Imm19(w) \in Int /\ Imm14(w) \in Int /\ Imm21(w) \in Int
  BY Immediates
<1>2. Target(w, pc) \in Addresses
  <2>. DEFINE imm == CASE w.hi \in B \cup BL     -> Imm26(w)
                       [] w.hi \in TBZ \cup TBNZ -> Imm14(w)
                       [] OTHER                  -> Imm19(w)
  <2>1. imm \in Int
    <3>1. CASE w.hi \in B \cup BL
      <4>1. w.hi \notin TBZ \cup TBNZ
        BY <3>1 DEF B, BL, TBZ, TBNZ
      <4>. QED  BY <1>1, <3>1, <4>1
    <3>2. CASE w.hi \notin B \cup BL
      BY <1>1, <3>2
    <3>. QED  BY <3>1, <3>2
  <2>2. Target(w, pc) = Plus(pc, 4 * imm)
    BY DEF Target
  <2>. HIDE DEF imm
  <2>3. 4 * imm \in Int
    BY <2>1
  <2>. QED  BY <2>2, <2>3, FlatPlus
<1>3. Pointer(w, pc) \in Addresses
  <2>1. Plus(pc, Imm21(w)) \in Addresses
    BY <1>1, FlatPlus
  <2>2. Address(pc.page + Imm21(w), 0) \in Addresses
    <3>1. pc.page + Imm21(w) \in Int
      BY <1>1, InPage
    <3>. QED  BY <3>1, IsAddress
  <2>. QED  BY <2>1, <2>2 DEF Pointer
<1>. QED  BY <1>2, <1>3

LEMMA StolenWord ==
  ASSUME Chosen, NEW i \in 0 .. StolenLen - 1
  PROVE  /\ i \in 0 .. 3 /\ i + 1 \in 1 .. 4 /\ i + 1 \in 1 .. StolenLen /\ i + 1 \in DOMAIN Stolen
         /\ (i + 1) - 1 = i
         /\ Stolen[i + 1] \in Words /\ Stolen[i + 1] = window[i + 1]
         /\ Stolen[i + 1] \in Range(Stolen)
         /\ Moved[i + 1] = Relocate(builder, Stolen[i + 1], Pc(i))
<1>1. StolenLen \in {1, 4} /\ window \in [1 .. 4 -> Words]
  BY ChosenWindow
<1>2. i \in 0 .. 3 /\ i + 1 \in 1 .. 4 /\ i + 1 \in 1 .. StolenLen /\ (i + 1) - 1 = i
  BY <1>1
<1>3. DOMAIN Stolen = 1 .. StolenLen
  BY <1>1, StolenWords
<1>4. Stolen[i + 1] \in Words /\ Stolen[i + 1] = window[i + 1]
  BY <1>1, <1>2, StolenWords
<1>5. Moved[i + 1] = Relocate(builder, Stolen[i + 1], Plus(F, 4 * ((i + 1) - 1)))
  BY <1>2, <1>3 DEF Moved
<1>6. Moved[i + 1] = Relocate(builder, Stolen[i + 1], Pc(i))
  BY <1>2, <1>5 DEF Pc
<1>. QED  BY <1>2, <1>3, <1>4, <1>6 DEF Range

(* What a stolen word branches or points to means the same after.          *)
LEMMA NamesFree ==
  ASSUME Chosen, ~OutOfReach, NEW i \in 0 .. StolenLen - 1
  PROVE  LET w == Stolen[i + 1] IN
         /\ w.hi \in Branches => Free(Target(w, Pc(i)))
         /\ w.hi \in ADR \cup ADRP => Free(Pointer(w, Pc(i)))
<1>. DEFINE w == Stolen[i + 1]
            j == i + 1
<1>1. /\ j \in 1 .. 4 /\ j \in DOMAIN Stolen /\ j - 1 = i /\ w \in Words /\ w = window[j]
      /\ i \in Int
  BY StolenWord
<1>2. Target(w, Pc(i)) \in Addresses /\ Pointer(w, Pc(i)) \in Addresses
  <2>1. Pc(i) \in Addresses
    BY <1>1, PcOf
  <2>. QED  BY <1>1, <2>1, TargetIn
<1>3. Plus(F, 4 * (j - 1)) = Pc(i)
  BY <1>1 DEF Pc
<1>4. /\ window[j].hi \in Branches => Target(window[j], Pc(i)) \notin Fresh
      /\ window[j].hi \in ADR \cup ADRP => Pointer(window[j], Pc(i)) \notin Fresh
  <2>1. window \in Windows
    BY DEF Chosen
  <2>2. LET pc == Plus(F, 4 * (j - 1)) IN
        /\ window[j].hi \in Branches => Target(window[j], pc) \notin Fresh
        /\ window[j].hi \in ADR \cup ADRP => Pointer(window[j], pc) \notin Fresh
    BY <1>1, <2>1, FreshAssumption, Zenon
  <2>. QED  BY <1>3, <2>2
<1>5. /\ Stolen[j].hi \in Branches => ~Inside(Target(Stolen[j], Pc(i)))
      /\ Stolen[j].hi \in ADR \cup ADRP => ~Inside(Pointer(Stolen[j], Pc(i)))
  BY <1>1, <1>3, Zenon DEF OutOfReach, BranchesInside, PointsInside
<1>. QED  BY <1>1, <1>2, <1>4, <1>5 DEF Free

(* Where the moved word is.                                                *)
LEMMA MovedAt ==
  ASSUME Chosen, NEW i \in 0 .. StolenLen - 1
  PROVE  /\ Start(i) \in 0 .. 21 /\ Start(i + 1) \in 1 .. 28
         /\ Start(i + 1) = Start(i) + Len(Moved[i + 1])
         /\ \A k \in 1 .. Len(Moved[i + 1]) :
              Start(i) + k \in DOMAIN Code /\ Code[Start(i) + k] = Moved[i + 1][k]
<1>0. window \in [1 .. 4 -> Words] /\ StolenLen \in {1, 4}
  BY ChosenWindow
<1>. DEFINE j == i + 1
<1>1. j \in 1 .. StolenLen /\ j - 1 = i /\ j \in 1 .. 4 /\ i \in 0 .. 3
  BY StolenWord
<1>. HIDE DEF j
<1>2. /\ Len(Moved[j]) \in 1 .. 7
      /\ Start(j - 1) \in 0 .. 7 * (j - 1) /\ Start(j) \in 1 .. 7 * j
      /\ Start(j) = Start(j - 1) + Len(Moved[j])
      /\ Start(j) <= Start(StolenLen)
  BY <1>0, <1>1, Starts
<1>3. /\ DOMAIN Code = 1 .. Len(Code) /\ Len(Code) = Start(StolenLen) + Len(BranchBack) /\ Laid(j)
  BY <1>0, <1>1, CodeCells
<1>4. Len(BranchBack) \in Nat
  <2>1. Len(BranchBack) \in {0, 4}
    BY BackLength
  <2>. QED  BY <2>1
<1>. DEFINE s == Start(i)
            e == Start(j)
            l == Len(Moved[j])
            all == Start(StolenLen)
            n == Len(Code)
            back == Len(BranchBack)
<1>5. l \in 1 .. 7 /\ s \in 0 .. 7 * i /\ e \in 1 .. 7 * j /\ e = s + l /\ e <= all
      /\ n = all + back /\ back \in Nat
  BY <1>1, <1>2, <1>3, <1>4
<1>6. all \in Int
  BY <1>0, Starts
<1>7. ASSUME NEW k \in 1 .. l PROVE s + k \in DOMAIN Code /\ Code[s + k] = Moved[j][k]
  <2>1. Code[s + k] = Moved[j][k]
    BY <1>1, <1>3 DEF Laid
  <2>. HIDE DEF s, e, l, all, n, back
  <2>2. s + k \in 1 .. n
    BY <1>1, <1>5, <1>6
  <2>. QED  BY <1>3, <2>1, <2>2 DEF n
<1>8. s \in 0 .. 21 /\ e \in 1 .. 28
  <2>. HIDE DEF s, e, l, all, n, back
  <2>. QED  BY <1>1, <1>5
<1>. QED  BY <1>5, <1>7, <1>8 DEF j

(* Both are about to execute word i + 1, in its place or moved.            *)
Ready(t, u, i) ==
  /\ i \in 0 .. StolenLen - 1
  /\ Agree(t, u) /\ Carries(t, u) /\ t.end = "" /\ Past(t, i)
  /\ t.pc = Pc(i) /\ t.steps = i + 1
  /\ u.pc = Place(Start(i) + 1) /\ u.steps \in 1 .. 6 + 2 * i

LEMMA BeginReady ==
  ASSUME Chosen, NEW m, NEW n, NEW i \in 0 .. StolenLen - 1, AtStart(m, n, i)
  PROVE  /\ Ready(Tick(m), Tick(n), i)
         /\ m.steps = i /\ m.pc = Plus(F, 4 * i) /\ n.pc = Place(Start(i) + 1) /\ n.steps \in 0 .. 20
<1>1. /\ Agree(m, n) /\ Carries(m, n) /\ Past(m, i) /\ m.end = ""
      /\ m.pc = Plus(F, 4 * i) /\ m.steps = i /\ n.pc = Place(Start(i) + 1)
      /\ n.steps \in 0 .. 5 + 2 * i
  BY DEF AtStart, OnLine
<1>2. IsCore(m) /\ IsCore(n)
  BY <1>1 DEF Agree
<1>. DEFINE t == Tick(m)
            u == Tick(n)
<1>3. /\ Alike(m, t) /\ t.pc = m.pc /\ t.steps = m.steps + 1
      /\ Alike(n, u) /\ u.pc = n.pc /\ u.steps = n.steps + 1
  BY <1>2, TickLater
<1>. HIDE DEF t, u
<1>4. Agree(t, u) /\ Carries(t, u)
  BY <1>1, <1>3, AgreeAlike
<1>5. t.end = "" /\ Past(t, i)
  BY <1>1, <1>3 DEF Alike, Past
<1>6. i \in 0 .. 3
  BY StolenWord
<1>7. t.steps = i + 1 /\ u.steps \in 1 .. 6 + 2 * i /\ n.steps \in 0 .. 20
  <2>. DEFINE p == n.steps
              q == u.steps
  <2>1. t.steps = i + 1 /\ q = p + 1 /\ p \in 0 .. 5 + 2 * i
    BY <1>1, <1>3
  <2>. HIDE DEF p, q
  <2>2. q \in 1 .. 6 + 2 * i /\ p \in 0 .. 20
    BY <1>6, <2>1
  <2>. QED  BY <2>1, <2>2 DEF p, q
<1>8. Ready(t, u, i)
  BY <1>1, <1>3, <1>4, <1>5, <1>7 DEF Ready, Pc
<1>. QED  BY <1>1, <1>7, <1>8 DEF t, u

LEMMA Begin ==
  ASSUME Chosen, NEW m, NEW n, NEW i \in 0 .. StolenLen - 1, AtStart(m, n, i),
         NEW v, Moved[i + 1][1] = Insn(v)
  PROVE  /\ OldStep(m) = Execute(Tick(m), Stolen[i + 1], {Untouched}, yes)
         /\ NewStep(n) = Execute(Tick(n), v, Hooked, yes)
<1>1. m.steps = i /\ m.pc = Plus(F, 4 * i) /\ n.pc = Place(Start(i) + 1) /\ n.steps \in 0 .. 20
  BY BeginReady, Zenon
<1>2. NewStep(n) = Execute(Tick(n), v, Hooked, yes)
  <2>1. Start(i) + 1 \in DOMAIN Code /\ Code[Start(i) + 1] = Insn(v)
    <3>1. 1 \in 1 .. Len(Moved[i + 1])
      <4>1. window \in [1 .. 4 -> Words]
        BY ChosenWindow
      <4>2. i + 1 \in 1 .. StolenLen
        BY StolenWord
      <4>3. Len(Moved[i + 1]) \in 1 .. 7
        BY <4>1, <4>2, Starts
      <4>. QED  BY <4>3
    <3>. QED  BY <3>1, MovedAt
  <2>. QED  BY <1>1, <2>1, RunsNew
<1>3. OldStep(m) = Execute(Tick(m), Stolen[i + 1], {Untouched}, yes)
  BY <1>1, RunsOld
<1>. QED  BY <1>2, <1>3

LEMMA WordCount ==
  ASSUME NEW n \in {1, 4}, NEW i \in 0 .. n - 1
  PROVE  /\ i \in 0 .. 3 /\ i + 1 \in 0 .. n /\ i \in Int
         /\ \A j \in 1 .. i + 1 : j # i + 1 => j \in 1 .. i
  OBVIOUS

LEMMA Onward ==
  ASSUME Chosen, NEW t, NEW u, NEW i, Ready(t, u, i), NEW a, NEW b,
         Agree(a, b), Carries(a, b), a.end = "", a.pc = Plus(t.pc, 4), a.steps = t.steps,
         DOMAIN t.x \subseteq DOMAIN a.x, Stolen[i + 1] # Ret,
         \A r \in Linker : Writes(Stolen[i + 1], r) => r \in DOMAIN a.x
  PROVE  OnLine(a, b, i + 1)
<1>1. i \in 0 .. StolenLen - 1 /\ t.pc = Pc(i) /\ t.steps = i + 1 /\ Past(t, i)
  BY DEF Ready
<1>2. i \in 0 .. 3 /\ i + 1 \in 0 .. StolenLen /\ i \in Int
  BY <1>1, ChosenWindow, WordCount, Zenon
<1>3. a.pc = Plus(F, 4 * (i + 1))
  BY <1>1, <1>2, PcOf DEF Pc
<1>4. Past(a, i + 1)
  <2>. SUFFICES ASSUME NEW j \in 1 .. i + 1
                PROVE  Stolen[j] # Ret /\ \A r \in Linker : Writes(Stolen[j], r) => r \in DOMAIN a.x
    BY DEF Past
  <2>1. CASE j = i + 1
    BY <2>1
  <2>2. CASE j # i + 1
    <3>1. j \in 1 .. i
      BY <1>1, <2>2, ChosenWindow, WordCount, Zenon
    <3>. QED  BY <1>1, <3>1 DEF Past
  <2>. QED  BY <2>1, <2>2
<1>. QED  BY <1>1, <1>2, <1>3, <1>4 DEF OnLine

-----------------------------------------------------------------------------
(* One stolen word, in its place and moved.                                *)

LEMMA ReadyFacts ==
  ASSUME Chosen, NEW t, NEW u, NEW i, Ready(t, u, i)
  PROVE  /\ i \in 0 .. StolenLen - 1 /\ Agree(t, u) /\ Carries(t, u) /\ Past(t, i)
         /\ IsCore(t) /\ IsCore(u) /\ t.end = ""
         /\ t.pc = Pc(i) /\ u.pc = Place(Start(i) + 1)
         /\ t.steps \in 1 .. 4 /\ u.steps \in 1 .. 12
         /\ u.steps \in 0 .. 5 + 2 * (i + 1) /\ u.steps \in 0 .. 4 + 2 * (i + 1)
         /\ i + 1 \in 0 .. StolenLen /\ i + 1 > 0
<1>1. /\ i \in 0 .. StolenLen - 1 /\ Agree(t, u) /\ Carries(t, u) /\ t.end = "" /\ Past(t, i)
      /\ t.pc = Pc(i) /\ t.steps = i + 1 /\ u.pc = Place(Start(i) + 1)
      /\ u.steps \in 1 .. 6 + 2 * i
  BY DEF Ready
<1>2. i \in 0 .. 3 /\ i + 1 \in 0 .. StolenLen
  BY <1>1, ChosenWindow, WordCount, Zenon
<1>3. IsCore(t) /\ IsCore(u)
  BY <1>1 DEF Agree
<1>4. \A s : s \in 1 .. 6 + 2 * i =>
        s \in 1 .. 12 /\ s \in 0 .. 5 + 2 * (i + 1) /\ s \in 0 .. 4 + 2 * (i + 1)
  BY <1>2, SMT
<1>5. i + 1 \in 1 .. 4 /\ i + 1 > 0
  BY <1>2, SMT
<1>. QED  BY <1>1, <1>2, <1>3, <1>4, <1>5, Zenon

(* The n-th cell of the moved word.                                        *)
(* The cells of the word that follows the first i are in the trampoline.   *)
CellsHeld(i) ==
  \A n \in 1 .. 7 : n <= Len(Moved[i + 1]) =>
    Start(i) + n \in DOMAIN Code /\ Code[Start(i) + n] = Moved[i + 1][n]

LEMMA MovedCell ==
  ASSUME Chosen, NEW t, NEW u, NEW i, Ready(t, u, i)
  PROVE  CellsHeld(i)
<1>1. i \in 0 .. StolenLen - 1
  BY ReadyFacts, Zenon
<1>. DEFINE l == Len(Moved[i + 1])
<1>. SUFFICES ASSUME NEW n \in 1 .. 7, n <= l
              PROVE  Start(i) + n \in DOMAIN Code /\ Code[Start(i) + n] = Moved[i + 1][n]
  BY DEF CellsHeld
<1>2. l \in 1 .. 7
  <2>1. window \in [1 .. 4 -> Words]
    BY ChosenWindow
  <2>2. i + 1 \in 1 .. StolenLen
    BY <1>1, StolenWord
  <2>. QED  BY <2>1, <2>2, Starts
<1>3. n \in 1 .. l
  <2>1. n <= l
    OBVIOUS
  <2>. HIDE DEF l
  <2>. QED  BY <1>2, <2>1
<1>. QED  BY <1>1, <1>3, MovedAt, Zenon

LEMMA PlaceNext ==
  ASSUME Chosen, NEW t, NEW u, NEW i, Ready(t, u, i), NEW d \in 0 .. 8
  PROVE  Plus(u.pc, 4 * d) = Place(Start(i) + (1 + d))
<1>1. i \in 0 .. StolenLen - 1 /\ u.pc = Place(Start(i) + 1)
  BY ReadyFacts, Zenon
<1>2. Start(i) \in 0 .. 21
  BY <1>1, MovedAt
<1>. DEFINE s == Start(i)
<1>3. s + 1 \in Int /\ d \in Int /\ (s + 1) + d = s + (1 + d)
  <2>1. s \in 0 .. 21
    BY <1>2
  <2>. HIDE DEF s
  <2>. QED  BY <2>1
<1>4. Plus(Place(s + 1), 4 * d) = Place((s + 1) + d)
  BY <1>3, PlaceOf
<1>. QED  BY <1>1, <1>3, <1>4

LEMMA NextPlaces ==
  ASSUME Chosen, NEW t, NEW u, NEW i, Ready(t, u, i)
  PROVE  /\ Plus(u.pc, 4) = Place(Start(i) + 2) /\ Plus(u.pc, 8) = Place(Start(i) + 3)
         /\ Plus(u.pc, 12) = Place(Start(i) + 4) /\ Plus(u.pc, 16) = Place(Start(i) + 5)
         /\ Plus(u.pc, 20) = Place(Start(i) + 6)
<1>1. /\ Plus(u.pc, 4 * 1) = Place(Start(i) + (1 + 1)) /\ Plus(u.pc, 4 * 2) = Place(Start(i) + (1 + 2))
      /\ Plus(u.pc, 4 * 3) = Place(Start(i) + (1 + 3)) /\ Plus(u.pc, 4 * 4) = Place(Start(i) + (1 + 4))
      /\ Plus(u.pc, 4 * 5) = Place(Start(i) + (1 + 5))
  <2>1. \A d \in 0 .. 8 : Plus(u.pc, 4 * d) = Place(Start(i) + (1 + d))
    BY PlaceNext, Zenon
  <2>2. 1 \in 0 .. 8 /\ 2 \in 0 .. 8 /\ 3 \in 0 .. 8 /\ 4 \in 0 .. 8 /\ 5 \in 0 .. 8
    OBVIOUS
  <2>. QED  BY <2>1, <2>2, Zenon
<1>2. /\ 4 * 1 = 4 /\ 4 * 2 = 8 /\ 4 * 3 = 12 /\ 4 * 4 = 16 /\ 4 * 5 = 20
      /\ 1 + 1 = 2 /\ 1 + 2 = 3 /\ 1 + 3 = 4 /\ 1 + 4 = 5 /\ 1 + 5 = 6
  OBVIOUS
<1>. QED  BY <1>1, <1>2, Zenon

LEMMA Arrive ==
  ASSUME Chosen, NEW t, NEW u, NEW i, Ready(t, u, i), NEW a, NEW b, OnLine(a, b, i + 1),
         NEW n \in 1 .. 5, Len(Moved[i + 1]) = n, b.pc = Place(Start(i) + (n + 1)), b.steps = u.steps
  PROVE  AtStart(a, b, i + 1)
<1>1. i \in 0 .. StolenLen - 1 /\ u.steps \in 0 .. 5 + 2 * (i + 1)
  BY ReadyFacts, Zenon
<1>2. Start(i) \in 0 .. 21 /\ Start(i + 1) = Start(i) + n
  BY <1>1, MovedAt
<1>3. Start(i) + (n + 1) = Start(i + 1) + 1
  <2>. DEFINE s == Start(i)
              e == Start(i + 1)
  <2>1. s \in 0 .. 21 /\ e = s + n
    BY <1>2
  <2>. HIDE DEF s, e
  <2>2. s + (n + 1) = e + 1
    BY <2>1
  <2>. QED  BY <2>2 DEF s, e
<1>. QED  BY <1>1, <1>3 DEF AtStart

LEMMA Skips ==
  ASSUME Chosen, NEW t, NEW u, NEW i, Ready(t, u, i), NEW a, NEW b, OnLine(a, b, i + 1),
         Len(Moved[i + 1]) = 4, Moved[i + 1][2] = Insn(SkipDword),
         b.pc = Place(Start(i) + 2), b.steps = u.steps
  PROVE  Skipping(a, b, i + 1)
<1>1. i \in 0 .. StolenLen - 1 /\ u.steps \in 0 .. 4 + 2 * (i + 1) /\ i + 1 > 0
  BY ReadyFacts, Zenon
<1>2. Start(i) \in 0 .. 21 /\ Start(i + 1) = Start(i) + 4
  BY <1>1, MovedAt
<1>3. Start(i + 1) - 2 = Start(i) + 2
  <2>. DEFINE s == Start(i)
              e == Start(i + 1)
  <2>1. s \in 0 .. 21 /\ e = s + 4
    BY <1>2
  <2>. HIDE DEF s, e
  <2>2. e - 2 = s + 2
    BY <2>1
  <2>. QED  BY <2>2 DEF s, e
<1>4. Start(i) + 2 \in DOMAIN Code /\ Code[Start(i) + 2] = Insn(SkipDword)
  <2>1. 2 \in 1 .. 7 /\ 2 <= 4
    OBVIOUS
  <2>2. 2 <= Len(Moved[i + 1])
    BY <2>1
  <2>3. CellsHeld(i)
    BY MovedCell, Zenon
  <2>4. Start(i) + 2 \in DOMAIN Code /\ Code[Start(i) + 2] = Moved[i + 1][2]
    BY <2>1, <2>2, <2>3, Zenon DEF CellsHeld
  <2>. QED  BY <2>4
<1>. QED  BY <1>1, <1>3, <1>4 DEF Skipping

-----------------------------------------------------------------------------
(* Instructions that are copied as they are.                               *)

LEMMA NotRet ==
  ASSUME NEW w, w.hi \in PcRelative \/ (~IsBr(w) /\ ~IsRet(w))
  PROVE  w # Ret
<1>. SUFFICES ASSUME w = Ret PROVE FALSE
  OBVIOUS
<1>1. w.hi = 214 /\ w.lo = 6226880
  BY DEF Ret, Word
<1>2. 214 \notin PcRelative
  BY DEF PcRelative, Branches, B, BL, BCond, CBZ, CBNZ, TBZ, TBNZ, ADR, ADRP, Literal,
         LDR4, LDR8, LDRSW, LDR16, PRFM, NoLiteral
<1>3. 2^16 = 65536
  BY SMT
<1>4. w.lo \div 65536 = 95
  BY <1>1, SMT
<1>5. w.lo \div 2^16 = 95
  BY <1>3, <1>4
<1>6. IsRet(w)
  BY <1>1, <1>5 DEF IsRet
<1>. QED  BY <1>1, <1>2, <1>6

(* x16 and x17 hold what the prologue put there when a word asks.          *)
LEMMA Known ==
  ASSUME Chosen, ~OutOfReach, NEW t, NEW u, NEW i, Ready(t, u, i),
         NEW r, Asks(Stolen[i + 1], r)
  PROVE  X(u, r) = X(t, r)
<1>1. i \in 0 .. StolenLen - 1 /\ Agree(t, u) /\ Carries(t, u) /\ Past(t, i)
  BY ReadyFacts, Zenon
<1>2. CASE r \notin Linker
  BY <1>1, <1>2, SameRegister, Zenon
<1>3. CASE r \in Linker
  <2>1. i + 1 \in DOMAIN Stolen /\ (i + 1) - 1 = i
    BY <1>1, StolenWord, Zenon
  <2>2. \E j \in 1 .. (i + 1) - 1 : Writes(Stolen[j], r)
    BY <1>3, <2>1, Zenon DEF OutOfReach, ReadsScratch, Linker
  <2>3. \E j \in 1 .. i : Writes(Stolen[j], r)
    BY <2>1, <2>2
  <2>4. r \in DOMAIN t.x
    BY <1>1, <1>3, <2>3, Zenon DEF Past
  <2>. QED  BY <1>1, <2>4, SameRegister, Zenon
<1>. QED  BY <1>2, <1>3

LEMMA NextRuns ==
  ASSUME NEW m, IsCore(m)
  PROVE  Alike(m, Next4(m)) /\ Next4(m).pc = Plus(m.pc, 4) /\ Next4(m).steps = m.steps
BY GoElsewhere DEF Next4

(* Any other instruction is copied.                                        *)
LEMMA OpMoves ==
  ASSUME Chosen, NEW t, NEW u, NEW i, Ready(t, u, i), NEW w, w = Stolen[i + 1],
         w.hi \notin PcRelative, ~IsBr(w), ~IsRet(w), Len(Moved[i + 1]) = 1
  PROVE  AtStart(Execute(t, w, {Untouched}, yes), Execute(u, w, Hooked, yes), i + 1)
<1>. DEFINE a == Execute(t, w, {Untouched}, yes)
            b == Execute(u, w, Hooked, yes)
            p == Next4(t)
            q == Next4(u)
<1>1. a = See(p, "op", InitV(w.hi), w.lo) /\ b = See(q, "op", InitV(w.hi), w.lo)
  BY ExecOp
<1>2. IsCore(t) /\ IsCore(u) /\ Agree(t, u) /\ Carries(t, u) /\ t.end = ""
  BY ReadyFacts, Zenon
<1>3. /\ Alike(t, p) /\ p.pc = Plus(t.pc, 4) /\ p.steps = t.steps
      /\ Alike(u, q) /\ q.pc = Plus(u.pc, 4) /\ q.steps = u.steps
  BY <1>2, NextRuns
<1>. HIDE DEF p, q
<1>4. Agree(p, q) /\ Carries(p, q) /\ IsCore(p) /\ IsCore(q) /\ p.x = t.x /\ p.end = ""
  BY <1>2, <1>3, AgreeAlike, AlikeCore
<1>. DEFINE e == [what |-> "op", v |-> InitV(w.hi), n |-> w.lo]
<1>5. Logged(p, a, e) /\ Logged(q, b, e)
  BY <1>1, <1>4, SeeLogged
<1>. HIDE DEF a, b, e
<1>6. Agree(a, b) /\ Carries(a, b)
  BY <1>4, <1>5, AgreeLogged, Zenon
<1>7. a.pc = p.pc /\ a.steps = p.steps /\ a.end = p.end /\ a.x = p.x /\ b.pc = q.pc /\ b.steps = q.steps
  BY <1>5 DEF Logged
<1>8. OnLine(a, b, i + 1)
  <2>1. a.end = "" /\ a.pc = Plus(t.pc, 4) /\ a.steps = t.steps /\ DOMAIN t.x \subseteq DOMAIN a.x
    BY <1>3, <1>4, <1>7
  <2>2. \A r : ~Writes(w, r)
    BY DEF Writes, PcRelative, Literal, LDR4, LDR8, LDRSW
  <2>3. Stolen[i + 1] # Ret
    BY NotRet
  <2>. QED  BY <1>6, <2>1, <2>2, <2>3, Onward
<1>9. b.pc = Place(Start(i) + 2) /\ b.steps = u.steps
  BY <1>3, <1>7, NextPlaces
<1>10. 1 \in 1 .. 5 /\ 1 + 1 = 2
  OBVIOUS
<1>11. b.pc = Place(Start(i) + (1 + 1))
  BY <1>9, <1>10
<1>12. AtStart(a, b, i + 1)
  BY <1>8, <1>9, <1>10, <1>11, Arrive
<1>. QED  BY <1>12 DEF a, b

(* br and ret leave for the same address.                                  *)
LEMMA Leaves ==
  ASSUME Chosen, ~OutOfReach, NEW t, NEW u, NEW i, Ready(t, u, i), NEW w, w = Stolen[i + 1],
         IsBr(w) \/ IsRet(w)
  PROVE  Out(Execute(t, w, {Untouched}, yes), Execute(u, w, Hooked, yes))
<1>. DEFINE a == Execute(t, w, {Untouched}, yes)
            b == Execute(u, w, Hooked, yes)
            r == Rn(w)
<1>1. a = JumpTo(t, X(t, r)) /\ b = JumpTo(u, X(u, r))
  BY ExecLeave
<1>2. Asks(Stolen[i + 1], r)
  BY DEF Asks
<1>. HIDE DEF r
<1>3. X(u, r) = X(t, r)
  <2>. HIDE DEF a, b
  <2>1. \A q : Asks(Stolen[i + 1], q) => X(u, q) = X(t, q)
    BY Known, Zenon
  <2>. QED  BY <1>2, <2>1, Zenon
<1>4. Agree(t, u) /\ t.end = "" /\ t.steps \in 1 .. 4 /\ u.steps \in 1 .. 12
  BY ReadyFacts, Zenon
<1>5. /\ Agree(a, b) /\ b.pc = a.pc /\ a.steps = t.steps /\ b.steps = u.steps
      /\ a.end = "" => Free(a.pc)
  <2>. HIDE DEF a, b
  <2>1. LET c == JumpTo(t, X(t, r))
            d == JumpTo(u, X(u, r))
        IN  /\ Agree(c, d) /\ d.pc = c.pc /\ c.steps = t.steps /\ d.steps = u.steps
            /\ c.linked = t.linked
            /\ c.end = "" => Free(c.pc)
    BY <1>3, <1>4, JumpsAgree
  <2>. QED  BY <1>1, <2>1
<1>. HIDE DEF a, b
<1>6. a.steps \in 1 .. 5 /\ a.steps <= 4 /\ b.steps \in 1 .. 21 /\ b.steps <= 20
  <2>1. a.steps \in 1 .. 4 /\ b.steps \in 1 .. 12
    BY <1>4, <1>5
  <2>. DEFINE x == a.steps
              y == b.steps
  <2>. HIDE DEF x, y
  <2>2. x \in 1 .. 4 /\ y \in 1 .. 12
    BY <2>1 DEF x, y
  <2>3. x \in 1 .. 5 /\ x <= 4 /\ y \in 1 .. 21 /\ y <= 20
    BY <2>2
  <2>. QED  BY <2>3 DEF x, y
<1>7. Out(a, b)
  BY <1>5, <1>6 DEF Out
<1>. QED  BY <1>7 DEF a, b

-----------------------------------------------------------------------------
(* The load that took the place of an adr or of a load: the same register  *)
(* gets the same value.                                                    *)
LEMMA LoadsOn ==
  ASSUME Chosen, NEW t, NEW u, NEW i, Ready(t, u, i), NEW r, NEW v,
         v.k = "addr" => Free(v.a),
         Stolen[i + 1] # Ret, \A q \in Linker : Writes(Stolen[i + 1], q) => q = r,
         Len(Moved[i + 1]) = 4, Moved[i + 1][2] = Insn(SkipDword)
  PROVE  Skipping(Put(Next4(t), r, v), Put(Next4(u), r, v), i + 1)
<1>. DEFINE a == Put(Next4(t), r, v)
            b == Put(Next4(u), r, v)
            p == Next4(t)
            q == Next4(u)
<1>1. IsCore(t) /\ IsCore(u) /\ Agree(t, u) /\ Carries(t, u) /\ t.end = ""
  BY ReadyFacts, Zenon
<1>2. /\ Alike(t, p) /\ p.pc = Plus(t.pc, 4) /\ p.steps = t.steps
      /\ Alike(u, q) /\ q.pc = Plus(u.pc, 4) /\ q.steps = u.steps
  BY <1>1, NextRuns
<1>. HIDE DEF p, q
<1>3. Agree(p, q) /\ Carries(p, q) /\ IsCore(p) /\ IsCore(q) /\ p.x = t.x /\ p.end = ""
  BY <1>1, <1>2, AgreeAlike, AlikeCore
<1>4. Wrote(p, a, r, v) /\ Wrote(q, b, r, v)
  BY <1>3, PutWrote DEF p, q
<1>. HIDE DEF a, b
<1>5. Agree(a, b) /\ Carries(a, b)
  BY <1>3, <1>4, AgreeWrote, Zenon
<1>6. /\ a.pc = p.pc /\ a.steps = p.steps /\ a.end = p.end /\ b.pc = q.pc /\ b.steps = q.steps
      /\ DOMAIN a.x = IF r = 31 THEN DOMAIN p.x ELSE DOMAIN p.x \cup {r}
  BY <1>4 DEF Wrote
<1>7. OnLine(a, b, i + 1)
  <2>1. a.end = "" /\ a.pc = Plus(t.pc, 4) /\ a.steps = t.steps
    BY <1>2, <1>3, <1>6
  <2>2. DOMAIN t.x \subseteq DOMAIN a.x
    BY <1>3, <1>6
  <2>3. ASSUME NEW s \in Linker, Writes(Stolen[i + 1], s) PROVE s \in DOMAIN a.x
    <3>1. s = r /\ r # 31
      BY <2>3 DEF Linker
    <3>. QED  BY <1>6, <3>1
  <2>. QED  BY <1>5, <2>1, <2>2, <2>3, Onward
<1>8. b.pc = Place(Start(i) + 2) /\ b.steps = u.steps
  BY <1>2, <1>6, NextPlaces
<1>9. Skipping(a, b, i + 1)
  BY <1>7, <1>8, Skips
<1>. QED  BY <1>9 DEF a, b

(* The cells of the moved word, under the feet of u.                       *)
LEMMA HeldCell ==
  ASSUME Chosen, NEW t, NEW u, NEW i, Ready(t, u, i), NEW n \in 1 .. 7, n <= Len(Moved[i + 1])
  PROVE  /\ Start(i) + n \in DOMAIN Code /\ Code[Start(i) + n] = Moved[i + 1][n]
         /\ Covered(Hooked, Place(Start(i) + n))
         /\ Cell(Hooked, Place(Start(i) + n)) = Moved[i + 1][n]
<1>0. CellsHeld(i)
  BY MovedCell, Zenon
<1>1. Start(i) + n \in DOMAIN Code /\ Code[Start(i) + n] = Moved[i + 1][n]
  BY <1>0, Zenon DEF CellsHeld
<1>. DEFINE k == Start(i) + n
<1>2. k \in DOMAIN Code /\ Code[k] = Moved[i + 1][n]
  BY <1>1
<1>. HIDE DEF k
<1>3. Covered(Hooked, Place(k)) /\ Cell(Hooked, Place(k)) = Code[k]
  BY <1>2, InCode
<1>. QED  BY <1>1, <1>2, <1>3 DEF k

LEMMA FourCells ==
  ASSUME Chosen, NEW t, NEW u, NEW i, Ready(t, u, i), NEW a, NEW b, NEW v,
         Moved[i + 1] = <<Insn(a), Insn(b), Data(v, 0), Data(v, 1)>>
  PROVE  /\ Len(Moved[i + 1]) = 4 /\ Moved[i + 1][1] = Insn(a) /\ Moved[i + 1][2] = Insn(b)
         /\ Start(i) + 2 \in DOMAIN Code /\ Code[Start(i) + 2] = Insn(b)
         /\ Covered(Hooked, Plus(u.pc, 8)) /\ Cell(Hooked, Plus(u.pc, 8)) = Data(v, 0)
<1>1. /\ Len(Moved[i + 1]) = 4 /\ Moved[i + 1][1] = Insn(a) /\ Moved[i + 1][2] = Insn(b)
      /\ Moved[i + 1][3] = Data(v, 0)
  OBVIOUS
<1>2. \A n \in 1 .. 7 : n <= Len(Moved[i + 1]) =>
        /\ Start(i) + n \in DOMAIN Code /\ Code[Start(i) + n] = Moved[i + 1][n]
        /\ Covered(Hooked, Place(Start(i) + n))
        /\ Cell(Hooked, Place(Start(i) + n)) = Moved[i + 1][n]
  BY HeldCell, Zenon
<1>3. 2 \in 1 .. 7 /\ 2 <= Len(Moved[i + 1]) /\ 3 \in 1 .. 7 /\ 3 <= Len(Moved[i + 1])
  BY <1>1
<1>4. Start(i) + 2 \in DOMAIN Code /\ Code[Start(i) + 2] = Insn(b)
  BY <1>1, <1>2, <1>3
<1>5. Covered(Hooked, Place(Start(i) + 3)) /\ Cell(Hooked, Place(Start(i) + 3)) = Data(v, 0)
  BY <1>1, <1>2, <1>3
<1>6. Plus(u.pc, 8) = Place(Start(i) + 3)
  BY NextPlaces, Zenon
<1>. QED  BY <1>1, <1>4, <1>5, <1>6

(* adr and adrp: the address is a literal now.                             *)
LEMMA AdrMoves ==
  ASSUME Chosen, ~OutOfReach, NEW t, NEW u, NEW i, Ready(t, u, i), NEW w, w = Stolen[i + 1],
         w.hi \in ADR \cup ADRP
  PROVE  \E v : /\ Moved[i + 1][1] = Insn(v)
                /\ Skipping(Execute(t, w, {Untouched}, yes), Execute(u, v, Hooked, yes), i + 1)
<1>. DEFINE v == Word(88, 64 + Rd(w))
            p == Pointer(w, Pc(i))
<1>1. /\ i \in 0 .. StolenLen - 1 /\ t.pc = Pc(i)
  BY ReadyFacts, Zenon
<1>2. w \in Words /\ Moved[i + 1] = Relocate(builder, w, Pc(i))
  BY <1>1, StolenWord
<1>3. Moved[i + 1] = <<Insn(v), Insn(SkipDword), Data(AddrV(p), 0), Data(AddrV(p), 1)>>
  <2>1. \A b, pc : Relocate(b, w, pc) =
          Instructions(<<v, SkipDword>>) \o Dword(AddrV(Pointer(w, pc)))
    <3>1. w \in Words /\ w.hi \in ADR \cup ADRP
      BY <1>2
    <3>. QED  BY <3>1, AdrCase, Zenon
  <2>. HIDE DEF v, p
  <2>2. Instructions(<<v, SkipDword>>) \o Dword(AddrV(p)) =
          <<Insn(v), Insn(SkipDword), Data(AddrV(p), 0), Data(AddrV(p), 1)>>
    BY LoadCells
  <2>3. Relocate(builder, w, Pc(i)) = Instructions(<<v, SkipDword>>) \o Dword(AddrV(p))
    BY <2>1, Zenon DEF p
  <2>. QED  BY <1>2, <2>2, <2>3, Zenon
<1>4. Free(p)
  BY <1>1, NamesFree
<1>5. Execute(t, w, {Untouched}, yes) = Put(Next4(t), Rd(w), AddrV(p))
  BY <1>1, ExecAdr
<1>. HIDE DEF p
<1>6. /\ Len(Moved[i + 1]) = 4 /\ Moved[i + 1][1] = Insn(v) /\ Moved[i + 1][2] = Insn(SkipDword)
      /\ Covered(Hooked, Plus(u.pc, 8)) /\ Cell(Hooked, Plus(u.pc, 8)) = Data(AddrV(p), 0)
  <2>. HIDE DEF v
  <2>. QED  BY <1>3, FourCells
<1>7. Execute(u, v, Hooked, yes) = Put(Next4(u), Rd(w), AddrV(p))
  <2>1. Rd(w) \in 0 .. 31
    BY <1>2, WordFields DEF Rd
  <2>. DEFINE r == Rd(w)
  <2>2. v = Word(88, 32 * 2 + r) /\ 4 * 2 = 8 /\ 2 \in 2 .. 4
    OBVIOUS
  <2>3. r \in 0 .. 31
    BY <2>1
  <2>. HIDE DEF v, r
  <2>4. Execute(u, v, Hooked, yes) = Put(Next4(u), r, AddrV(p))
    BY <1>6, <2>2, <2>3, LoadsAddress
  <2>. QED  BY <2>4 DEF r
<1>8. Skipping(Put(Next4(t), Rd(w), AddrV(p)), Put(Next4(u), Rd(w), AddrV(p)), i + 1)
  <2>1. AddrV(p).k = "addr" => Free(AddrV(p).a)
    BY <1>4 DEF AddrV
  <2>2. Stolen[i + 1] # Ret
    <3>1. w.hi \in PcRelative
      BY DEF PcRelative
    <3>. QED  BY <3>1, NotRet
  <2>3. \A q \in Linker : Writes(Stolen[i + 1], q) => q = Rd(w)
    BY DEF Writes
  <2>. QED  BY <1>6, <2>1, <2>2, <2>3, LoadsOn
<1>. QED  BY <1>5, <1>6, <1>7, <1>8

(* A load of a literal: the same register gets the same bytes.             *)
LEMMA LiteralMoves ==
  ASSUME Chosen, ~OutOfReach, NEW t, NEW u, NEW i, Ready(t, u, i), NEW w, w = Stolen[i + 1],
         w.hi \in Literal
  PROVE  \E v : /\ Moved[i + 1][1] = Insn(v)
                /\ LET a == Execute(t, w, {Untouched}, yes)
                       b == Execute(u, v, Hooked, yes)
                   IN  Skipping(a, b, i + 1) \/ Out(a, b)
<1>. DEFINE v == Word(w.hi, 64 + Rd(w))
            p == Plus(Pc(i), 4 * Imm19(w))
<1>1. i \in 0 .. StolenLen - 1 /\ t.pc = Pc(i) /\ Agree(t, u) /\ Carries(t, u) /\ IsCore(t) /\ IsCore(u)
  BY ReadyFacts, Zenon
<1>2. w \in Words /\ Moved[i + 1] = Relocate(builder, w, Pc(i)) /\ w \in Range(Stolen)
  BY <1>1, StolenWord
<1>3. Moved[i + 1] = <<Insn(v), Insn(SkipDword), Data(MemV("mem", p, 8), 0), Data(MemV("mem", p, 8), 1)>>
  <2>1. Relocate(builder, w, Pc(i)) = Instructions(<<v, SkipDword>>) \o Dword(MemV("mem", p, 8))
    <3>1. w \in Words
      BY <1>2
    <3>2. \A x \in Words : x.hi \in Literal => \A d, pc :
            Relocate(d, x, pc) = Instructions(<<Word(x.hi, 64 + Rd(x)), SkipDword>>)
                                   \o Dword(MemV("mem", Plus(pc, 4 * Imm19(x)), 8))
      BY LiteralCase, Zenon
    <3>. QED  BY <3>1, <3>2, Zenon
  <2>. HIDE DEF v, p
  <2>2. Instructions(<<v, SkipDword>>) \o Dword(MemV("mem", p, 8)) =
          <<Insn(v), Insn(SkipDword), Data(MemV("mem", p, 8), 0), Data(MemV("mem", p, 8), 1)>>
    BY LoadCells
  <2>. QED  BY <1>2, <2>1, <2>2
<1>4. w.hi \in Plain \/ w.hi \in PRFM \/ w.hi \in NoLiteral
  <2>1. w.hi \notin LDR16
    BY <1>2, Zenon DEF OutOfReach, WideLiteral
  <2>. QED  BY <2>1 DEF Literal, Plain
<1>5. /\ Len(Moved[i + 1]) = 4 /\ Moved[i + 1][1] = Insn(v) /\ Moved[i + 1][2] = Insn(SkipDword)
      /\ Covered(Hooked, Plus(u.pc, 8)) /\ Cell(Hooked, Plus(u.pc, 8)) = Data(MemV("mem", p, 8), 0)
  <2>. HIDE DEF v, p
  <2>. QED  BY <1>3, FourCells
<1>6. v.hi = w.hi
  BY DEF Word
<1>7. Stolen[i + 1] # Ret
  <2>1. w.hi \in PcRelative
    BY DEF PcRelative
  <2>. QED  BY <2>1, NotRet
<1>. DEFINE a == Execute(t, w, {Untouched}, yes)
            b == Execute(u, v, Hooked, yes)
<1>8. CASE w.hi \in Plain
  <2>. DEFINE c == MemV(Kind(w), p, Size(w))
  <2>1. a = Put(Next4(t), Dest(w), c)
    BY <1>1, <1>8, LoadsOwn
  <2>2. b = Put(Next4(u), Dest(w), c)
    <3>. HIDE DEF p
    <3>. QED  BY <1>2, <1>5, <1>8, LoadsCopy
  <2>3. c.k = "addr" => Free(c.a)
    BY DEF MemV, Kind
  <2>4. \A q \in Linker : Writes(Stolen[i + 1], q) => q = Dest(w)
    BY <1>8 DEF Writes, Dest, Plain, LDR4, LDR8, LDRSW, ADR, ADRP
  <2>. HIDE DEF c
  <2>5. Skipping(Put(Next4(t), Dest(w), c), Put(Next4(u), Dest(w), c), i + 1)
    BY <1>5, <1>7, <2>3, <2>4, LoadsOn
  <2>. QED  BY <1>5, <2>1, <2>2, <2>5
<1>9. CASE w.hi \in PRFM
  <2>1. a = Next4(t) /\ b = Next4(u)
    BY <1>6, <1>9, ExecLiteral
  <2>. HIDE DEF a, b, v
  <2>2. /\ Alike(t, a) /\ a.pc = Plus(t.pc, 4) /\ a.steps = t.steps
        /\ Alike(u, b) /\ b.pc = Plus(u.pc, 4) /\ b.steps = u.steps
    BY <1>1, <2>1, NextRuns
  <2>3. Agree(a, b) /\ Carries(a, b) /\ a.x = t.x /\ a.end = t.end
    BY <1>1, <2>2, AgreeAlike, AlikeCore
  <2>4. OnLine(a, b, i + 1)
    <3>1. t.end = "" /\ DOMAIN t.x \subseteq DOMAIN a.x
      BY <2>3, ReadyFacts
    <3>2. \A r : ~Writes(w, r)
      BY <1>9 DEF Writes, PRFM, ADR, ADRP
    <3>. QED  BY <1>7, <2>2, <2>3, <3>1, <3>2, Onward
  <2>5. b.pc = Place(Start(i) + 2)
    BY <2>2, NextPlaces
  <2>6. Skipping(a, b, i + 1)
    BY <1>5, <2>2, <2>4, <2>5, Skips
  <2>. QED  BY <1>5, <2>6 DEF a, b
<1>10. CASE w.hi \in NoLiteral
  <2>1. a = End(Go(t, Nowhere), "undefined") /\ b = End(Go(u, Nowhere), "undefined")
    <3>1. v.hi \in NoLiteral /\ v.hi \in Literal
      BY <1>6, <1>10
    <3>. HIDE DEF v
    <3>2. a = End(Go(t, Nowhere), "undefined")
      BY <1>10, ExecLiteral
    <3>3. b = End(Go(u, Nowhere), "undefined")
      BY <3>1, ExecLiteral
    <3>. QED  BY <3>2, <3>3
  <2>2. Alike(t, Go(t, Nowhere)) /\ Alike(u, Go(u, Nowhere)) /\ Go(t, Nowhere).pc = Go(u, Nowhere).pc
    BY <1>1, GoElsewhere
  <2>3. IsCore(Go(t, Nowhere)) /\ IsCore(Go(u, Nowhere)) /\ Agree(Go(t, Nowhere), Go(u, Nowhere))
    BY <1>1, <2>2, AlikeCore, AgreeAlike
  <2>. HIDE DEF a, b, v
  <2>4. Ended(Go(t, Nowhere), a, "undefined") /\ Ended(Go(u, Nowhere), b, "undefined")
    BY <2>1, <2>3, EndEnded
  <2>5. Agree(a, b)
    BY <2>3, <2>4, AgreeEnded
  <2>6. a.pc = b.pc /\ a.end # ""
    BY <2>2, <2>4 DEF Ended
  <2>7. Out(a, b)
    BY <2>5, <2>6 DEF Out
  <2>. QED  BY <1>5, <2>7 DEF a, b
<1>. QED  BY <1>4, <1>8, <1>9, <1>10

-----------------------------------------------------------------------------
(* Tests: the opposite one, over a jump.                                   *)

LEMMA OneCell ==
  ASSUME NEW c, NEW s, s = <<c>>
  PROVE  Len(s) = 1 /\ s[1] = c
  OBVIOUS

LEMMA StepBounds ==
  ASSUME NEW s
  PROVE  /\ s \in 1 .. 12 => s \in 1 .. 15 /\ s \in 1 .. 16
         /\ s \in 1 .. 4 => s \in 1 .. 5
  OBVIOUS

LEMMA WantsOne ==
  ASSUME NEW w
  PROVE  Wants(w) \in BOOLEAN
<1>1. CASE w.hi \in BCond
  BY <1>1, Zenon DEF Wants
<1>2. CASE w.hi \notin BCond /\ w.hi \in CBZ \cup TBZ
  BY <1>2 DEF Wants
<1>3. CASE w.hi \notin BCond /\ w.hi \notin CBZ \cup TBZ
  BY <1>3 DEF Wants
<1>. QED  BY <1>1, <1>2, <1>3

(* u goes on from x16, m has branched.                                     *)
LEMMA Departs ==
  ASSUME Chosen, ~OutOfReach, NEW t, NEW u, NEW i, Ready(t, u, i),
         Stolen[i + 1].hi \in Branches, NEW a, NEW b, Agree(a, b),
         a.end = "", a.pc = Target(Stolen[i + 1], t.pc), a.steps = t.steps, b.steps = u.steps
  PROVE  Away(a, b) /\ b.steps \in 1 .. 15 /\ b.steps \in 1 .. 16
<1>1. /\ i \in 0 .. StolenLen - 1 /\ t.pc = Pc(i) /\ t.steps \in 1 .. 4 /\ u.steps \in 1 .. 12
  BY ReadyFacts, Zenon
<1>2. Free(a.pc)
  BY <1>1, NamesFree
<1>3. a.steps \in 1 .. 4 /\ b.steps \in 1 .. 12
  BY <1>1
<1>4. b.steps \in 1 .. 15 /\ b.steps \in 1 .. 16
  BY <1>3, StepBounds, Zenon
<1>. QED  BY <1>2, <1>3, <1>4 DEF Away

(* A jump through x16 in the moved word, from its n-th cell.               *)
LEMMA JumpsFrom ==
  ASSUME Chosen, NEW t, NEW u, NEW i, Ready(t, u, i), NEW d \in {2, 4}, 2 + d <= Len(Moved[i + 1]),
         Moved[i + 1][2] = Insn(LdrX16(d)), Moved[i + 1][3] = Insn(BrX16),
         NEW a, NEW b, Away(a, b), b.steps \in 1 .. 15, b.pc = Place(Start(i) + 2),
         Moved[i + 1][2 + d] = Data(AddrV(a.pc), 0)
  PROVE  Jumping(a, b)
<1>1. \A n \in 1 .. 7 : n <= Len(Moved[i + 1]) =>
        Start(i) + n \in DOMAIN Code /\ Code[Start(i) + n] = Moved[i + 1][n]
  <2>1. CellsHeld(i)
    BY MovedCell, Zenon
  <2>. QED  BY <2>1, Zenon DEF CellsHeld
<1>0. Len(Moved[i + 1]) \in Int
  <2>1. i \in 0 .. StolenLen - 1 /\ window \in [1 .. 4 -> Words]
    BY ReadyFacts, ChosenWindow, Zenon
  <2>2. i + 1 \in 1 .. StolenLen
    BY <2>1, StolenWord
  <2>. QED  BY <2>1, <2>2, Starts
<1>2. 2 \in 1 .. 7 /\ 3 \in 1 .. 7 /\ 2 + d \in 1 .. 7
  OBVIOUS
<1>3. 2 <= Len(Moved[i + 1]) /\ 3 <= Len(Moved[i + 1])
  BY <1>0, SMT
<1>4. /\ Start(i) + 2 \in DOMAIN Code /\ Code[Start(i) + 2] = Insn(LdrX16(d))
      /\ Start(i) + 3 \in DOMAIN Code /\ Code[Start(i) + 3] = Insn(BrX16)
      /\ Start(i) + (2 + d) \in DOMAIN Code /\ Code[Start(i) + (2 + d)] = Data(AddrV(a.pc), 0)
  BY <1>1, <1>2, <1>3, Zenon
<1>. DEFINE k == Start(i) + 2
<1>5. k + 1 = Start(i) + 3 /\ k + d = Start(i) + (2 + d)
  <2>1. Start(i) \in 0 .. 21
    BY ReadyFacts, MovedAt
  <2>. DEFINE s == Start(i)
  <2>2. s \in Int
    BY <2>1
  <2>. HIDE DEF s
  <2>3. (s + 2) + 1 = s + 3 /\ (s + 2) + d = s + (2 + d)
    BY <2>2
  <2>. QED  BY <2>3 DEF s
<1>6. /\ k \in DOMAIN Code /\ Code[k] = Insn(LdrX16(d)) /\ b.pc = Place(k)
      /\ {k + 1, k + d} \subseteq DOMAIN Code /\ Code[k + 1] = Insn(BrX16)
      /\ Code[k + d] = Data(AddrV(a.pc), 0)
  BY <1>4, <1>5
<1>. HIDE DEF k
<1>. QED  BY <1>6, Zenon DEF Jumping

LEMMA FiveCells ==
  ASSUME NEW s, NEW v, NEW a,
         s = <<Insn(v), Insn(LdrX16(2)), Insn(BrX16), Data(AddrV(a), 0), Data(AddrV(a), 1)>>
  PROVE  /\ Len(s) = 5 /\ s[1] = Insn(v) /\ s[2] = Insn(LdrX16(2)) /\ s[3] = Insn(BrX16)
         /\ s[4] = Data(AddrV(a), 0)
  OBVIOUS

(* A test and its opposite agree, and both ways of it lead on.             *)
LEMMA TestMoves ==
  ASSUME Chosen, ~OutOfReach, NEW t, NEW u, NEW i, Ready(t, u, i), NEW w, w = Stolen[i + 1],
         w.hi \in Tests
  PROVE  \E v : /\ Moved[i + 1][1] = Insn(v)
                /\ LET a == Execute(t, w, {Untouched}, yes)
                       b == Execute(u, v, Hooked, yes)
                   IN  AtStart(a, b, i + 1) \/ Jumping(a, b)
<1>. DEFINE v == Opposite(w)
            p == Target(w, Pc(i))
            a == Execute(t, w, {Untouched}, yes)
            b == Execute(u, v, Hooked, yes)
<1>1. /\ i \in 0 .. StolenLen - 1 /\ t.pc = Pc(i) /\ Agree(t, u) /\ Carries(t, u)
      /\ IsCore(t) /\ IsCore(u) /\ t.end = ""
  BY ReadyFacts, Zenon
<1>2. w \in Words /\ Moved[i + 1] = Relocate(builder, w, Pc(i)) /\ w \in Range(Stolen)
  BY <1>1, StolenWord
<1>3. IsTest(w)
  <2>1. w.hi \in BCond => ~(Cond(w) >= 14)
    BY <1>2, Zenon DEF OutOfReach, NoOpposite
  <2>2. Cond(w) \in Int
    BY <1>2, WordFields DEF Cond
  <2>. QED  BY <2>1, <2>2, SMT DEF IsTest
<1>4. /\ Len(Moved[i + 1]) = 5 /\ Moved[i + 1][1] = Insn(v)
      /\ Moved[i + 1][2] = Insn(LdrX16(2)) /\ Moved[i + 1][3] = Insn(BrX16)
      /\ Moved[i + 1][4] = Data(AddrV(p), 0)
  <2>1. Relocate(builder, w, Pc(i)) = Around(v, p)
    <3>1. w.hi \in BCond \/ w.hi \in CBZ \cup CBNZ \/ w.hi \in TBZ \cup TBNZ
      BY DEF Tests
    <3>. QED  BY <1>2, <3>1, CondCase, ZeroCase, BitCase, Zenon
  <2>. HIDE DEF v, p
  <2>2. Moved[i + 1] = Around(v, p)
    BY <1>2, <2>1
  <2>3. Moved[i + 1] = <<Insn(v), Insn(LdrX16(2)), Insn(BrX16), Data(AddrV(p), 0), Data(AddrV(p), 1)>>
    BY <2>2, AroundCells, Zenon
  <2>. QED  BY <2>3, FiveCells
<1>5. Reads(u, w) = Reads(t, w)
  <2>1. CASE w.hi \in BCond
    BY <2>1 DEF Reads
  <2>2. CASE w.hi \notin BCond
    <3>1. Asks(w, Rd(w))
      BY <2>2 DEF Asks, Tests
    <3>2. X(u, Rd(w)) = X(t, Rd(w))
      BY <3>1, Known
    <3>. QED  BY <2>2, <3>2 DEF Reads
  <2>. QED  BY <2>1, <2>2
<1>. DEFINE ta == IF yes = Wants(w) THEN p ELSE Plus(t.pc, 4)
            tb == IF yes = Wants(w) THEN Plus(u.pc, 4) ELSE Plus(u.pc, 20)
            e == [what |-> What(w), v |-> Reads(t, w), n |-> Which(w)]
<1>6. Logged(Go(t, ta), a, e) /\ Logged(Go(u, tb), b, e)
  <2>1. a = See(Go(t, ta), What(w), Reads(t, w), Which(w))
    <3>1. a = Test(t, w, What(w), Reads(t, w), Which(w), Wants(w), yes)
      BY <1>2, <1>3, ExecuteTest
    <3>. QED  BY <1>1, <3>1 DEF Test
  <2>2. b = See(Go(u, tb), What(w), Reads(t, w), Which(w))
    <3>1. /\ v \in Words /\ IsTest(v) /\ What(v) = What(w) /\ Reads(u, v) = Reads(t, w)
          /\ Which(v) = Which(w) /\ Wants(v) = ~Wants(w) /\ Target(v, u.pc) = Plus(u.pc, 20)
      BY <1>2, <1>3, <1>5, OppositeTests
    <3>2. b = Test(u, v, What(v), Reads(u, v), Which(v), Wants(v), yes)
      BY <3>1, ExecuteTest
    <3>3. (IF yes = Wants(v) THEN Target(v, u.pc) ELSE Plus(u.pc, 4)) = tb
      <4>1. yes \in BOOLEAN /\ Wants(w) \in BOOLEAN
        BY WantsOne, Zenon DEF Chosen
      <4>. HIDE DEF v
      <4>2. (yes = Wants(v)) <=> ~(yes = Wants(w))
        BY <3>1, <4>1, Zenon
      <4>. QED  BY <3>1, <4>2, Zenon
    <3>. HIDE DEF v, tb
    <3>. QED  BY <3>1, <3>2, <3>3, Zenon DEF Test
  <2>. HIDE DEF a, b, ta, tb
  <2>3. IsCore(Go(t, ta)) /\ IsCore(Go(u, tb))
    BY <1>1, GoElsewhere DEF Alike
  <2>. QED  BY <2>1, <2>2, <2>3, SeeLogged
<1>. HIDE DEF a, b, e
<1>7. /\ Agree(a, b) /\ Carries(a, b) /\ a.end = "" /\ a.x = t.x
      /\ a.pc = ta /\ b.pc = tb /\ a.steps = t.steps /\ b.steps = u.steps
  <2>. HIDE DEF ta, tb
  <2>1. /\ Alike(t, Go(t, ta)) /\ Go(t, ta).pc = ta /\ Go(t, ta).steps = t.steps
        /\ Alike(u, Go(u, tb)) /\ Go(u, tb).pc = tb /\ Go(u, tb).steps = u.steps
    BY <1>1, GoElsewhere
  <2>2. Agree(Go(t, ta), Go(u, tb)) /\ Carries(Go(t, ta), Go(u, tb))
    BY <1>1, <2>1, AgreeAlike, Zenon
  <2>3. Agree(a, b) /\ Carries(a, b)
    BY <1>6, <2>2, AgreeLogged, Zenon
  <2>4. Go(t, ta).x = t.x /\ Go(t, ta).end = t.end
    BY <2>1 DEF Alike
  <2>. QED  BY <1>1, <1>6, <2>1, <2>3, <2>4, Zenon DEF Logged
<1>8. CASE yes = Wants(w)
  <2>1. a.pc = p /\ b.pc = Place(Start(i) + 2)
    BY <1>7, <1>8, NextPlaces
  <2>2. Away(a, b) /\ b.steps \in 1 .. 15
    <3>1. w.hi \in Branches
      BY DEF Branches, Tests
    <3>. QED  BY <1>1, <1>7, <2>1, <3>1, Departs
  <2>3. 2 \in {2, 4} /\ 2 + 2 = 4 /\ 4 <= 5
    OBVIOUS
  <2>. HIDE DEF p
  <2>4. Jumping(a, b)
    BY <1>4, <2>1, <2>2, <2>3, JumpsFrom
  <2>. QED  BY <1>4, <2>4 DEF a, b
<1>9. CASE yes # Wants(w)
  <2>1. a.pc = Plus(t.pc, 4) /\ b.pc = Place(Start(i) + 6)
    BY <1>7, <1>9, NextPlaces
  <2>2. OnLine(a, b, i + 1)
    <3>1. w.hi \in PcRelative
      BY DEF PcRelative, Branches, Tests
    <3>2. w # Ret
      BY <3>1, NotRet
    <3>3. \A r : ~Writes(w, r)
      BY DEF Writes, Tests, BCond, CBZ, CBNZ, TBZ, TBNZ, ADR, ADRP
    <3>. QED  BY <1>7, <2>1, <3>2, <3>3, Onward
  <2>3. 5 \in 1 .. 5 /\ 5 + 1 = 6
    OBVIOUS
  <2>4. AtStart(a, b, i + 1)
    BY <1>4, <1>7, <2>1, <2>2, <2>3, Arrive
  <2>. QED  BY <1>4, <2>4 DEF a, b
<1>. QED  BY <1>8, <1>9

-----------------------------------------------------------------------------
(* Jumps and calls.                                                        *)

LEMMA LastCount ==
  ASSUME NEW n \in {1, 4}, NEW i \in 0 .. n - 1, i + 1 \notin 1 .. n - 1
  PROVE  i + 1 = n /\ i \in Int
  OBVIOUS

LEMMA ReturnFree ==
  ASSUME Chosen
  PROVE  Free(Pc(StolenLen)) /\ Pc(StolenLen) \in Addresses
<1>. DEFINE n == StolenLen
<1>1. n \in {1, 4} /\ F \in Addresses
  BY ChosenWindow
<1>2. Pc(n) \in Addresses
  <2>1. n \in Int
    BY <1>1
  <2>. QED  BY <2>1, PcOf
<1>3. Pc(n) \in Room(F, 5)
  <2>. HIDE DEF n
  <2>1. n \in 0 .. 5 - 1
    BY <1>1
  <2>. QED  BY <2>1 DEF Pc, Room
<1>4. Pc(n) \notin Fresh
  BY <1>3, LayoutAssumption
<1>5. ~Inside(Pc(n))
  <2>. SUFFICES ASSUME NEW k \in 1 .. n - 1, Plus(F, 4 * n) = Plus(F, 4 * k) PROVE FALSE
    BY DEF Inside, Pc
  <2>. HIDE DEF n
  <2>1. 4 * n \in Int /\ 4 * k \in Int /\ 4 * n # 4 * k
    BY <1>1
  <2>. QED  BY <1>1, <2>1, PlusInjective
<1>. QED  BY <1>2, <1>4, <1>5 DEF Free

(* u takes the address of m's branch from x16.                             *)
LEMMA JumpMoves ==
  ASSUME Chosen, ~OutOfReach, NEW t, NEW u, NEW i, Ready(t, u, i), NEW w, w = Stolen[i + 1],
         w.hi \in B
  PROVE  \E v : /\ Moved[i + 1][1] = Insn(v)
                /\ Branching(Execute(t, w, {Untouched}, yes), Execute(u, v, Hooked, yes))
<1>. DEFINE v == LdrX16(2)
            p == Target(w, Pc(i))
            a == Execute(t, w, {Untouched}, yes)
            b == Execute(u, v, Hooked, yes)
<1>1. /\ i \in 0 .. StolenLen - 1 /\ t.pc = Pc(i) /\ Agree(t, u)
      /\ IsCore(t) /\ IsCore(u) /\ t.end = ""
  BY ReadyFacts, Zenon
<1>2. w \in Words /\ Moved[i + 1] = Relocate(builder, w, Pc(i))
  BY <1>1, StolenWord
<1>3. Moved[i + 1] = <<Insn(v), Insn(BrX16), Data(AddrV(p), 0), Data(AddrV(p), 1)>>
  <2>1. \A o, pc : Relocate(o, w, pc) = JumpTo16(AddrV(Target(w, pc)))
    <3>1. w \in Words /\ w.hi \in B \cup BL
      BY <1>2
    <3>. QED  BY <3>1, JumpCase, Zenon
  <2>. HIDE DEF v, p
  <2>2. JumpVia(v, BrX16, AddrV(p)) = <<Insn(v), Insn(BrX16), Data(AddrV(p), 0), Data(AddrV(p), 1)>>
    BY LoadCells
  <2>3. Moved[i + 1] = JumpTo16(AddrV(p))
    BY <1>2, <2>1, Zenon DEF p
  <2>. QED  BY <2>2, <2>3 DEF JumpTo16, v
<1>4. a = Go(t, p)
  BY <1>1, ExecJump
<1>. HIDE DEF p
<1>5. /\ Moved[i + 1][1] = Insn(v)
      /\ Start(i) + 2 \in DOMAIN Code /\ Code[Start(i) + 2] = Insn(BrX16)
      /\ Covered(Hooked, Plus(u.pc, 8)) /\ Cell(Hooked, Plus(u.pc, 8)) = Data(AddrV(p), 0)
  <2>. HIDE DEF v
  <2>. QED  BY <1>3, FourCells
<1>6. b = Put(Next4(u), 16, AddrV(p))
  <2>1. v = Word(88, 32 * 2 + 16) /\ 4 * 2 = 8 /\ 2 \in 2 .. 4 /\ 16 \in 0 .. 31
    BY DEF LdrX16
  <2>. HIDE DEF v
  <2>2. b = Put(Next4(u), 16, AddrV(p))
    BY <1>5, <2>1, LoadsAddress
  <2>. QED  BY <2>2
<1>. HIDE DEF a, b
<1>7. /\ Alike(t, a) /\ a.pc = p /\ a.steps = t.steps
      /\ Alike(u, Next4(u)) /\ Next4(u).pc = Plus(u.pc, 4) /\ Next4(u).steps = u.steps
  BY <1>1, <1>4, GoElsewhere, NextRuns
<1>8. Agree(a, Next4(u)) /\ IsCore(Next4(u)) /\ a.end = ""
  BY <1>1, <1>7, AgreeAlike, AlikeCore
<1>9. Wrote(Next4(u), b, 16, AddrV(p))
  BY <1>6, <1>8, PutWrote
<1>10. Agree(a, b)
  <2>1. 16 \in Linker
    BY DEF Linker
  <2>. QED  BY <1>8, <1>9, <2>1, AgreeScratch, Zenon
<1>11. b.pc = Place(Start(i) + 2) /\ b.steps = u.steps /\ 16 \in DOMAIN b.x /\ b.x[16] = AddrV(p)
  <2>1. Plus(u.pc, 4) = Place(Start(i) + 2)
    BY NextPlaces
  <2>2. 16 \in DOMAIN b.x
    BY <1>9 DEF Wrote
  <2>. QED  BY <1>7, <1>9, <2>1, <2>2 DEF Wrote
<1>12. Away(a, b) /\ b.steps \in 1 .. 16
  <2>1. w.hi \in Branches
    BY DEF Branches
  <2>2. a.pc = Target(Stolen[i + 1], t.pc)
    BY <1>1, <1>7 DEF p
  <2>. QED  BY <1>7, <1>8, <1>10, <1>11, <2>1, <2>2, Departs
<1>13. Branching(a, b)
  <2>. DEFINE k == Start(i) + 2
  <2>1. k \in DOMAIN Code /\ b.pc = Place(k) /\ Code[k] = Insn(BrX16) /\ b.x[16] = AddrV(a.pc)
    BY <1>5, <1>7, <1>11
  <2>. HIDE DEF k
  <2>. QED  BY <1>11, <1>12, <2>1, Zenon DEF Branching
<1>. QED  BY <1>5, <1>13 DEF a, b

LEMMA SevenCells ==
  ASSUME NEW s, NEW a, NEW b, NEW c, NEW v, NEW x,
         s = <<Insn(a), Insn(b), Insn(c), Data(v, 0), Data(v, 1), Data(x, 0), Data(x, 1)>>
  PROVE  /\ Len(s) = 7 /\ s[1] = Insn(a) /\ s[2] = Insn(b) /\ s[3] = Insn(c)
         /\ s[4] = Data(v, 0) /\ s[6] = Data(x, 0)
  OBVIOUS

(* A call, the last of the stolen words, returns behind them.              *)
LEMMA CallMoves ==
  ASSUME Chosen, ~OutOfReach, NEW t, NEW u, NEW i, Ready(t, u, i), NEW w, w = Stolen[i + 1],
         w.hi \in BL
  PROVE  \E v : /\ Moved[i + 1][1] = Insn(v)
                /\ Jumping(Execute(t, w, {Untouched}, yes), Execute(u, v, Hooked, yes))
<1>. DEFINE v == LdrX30(3)
            p == Target(w, Pc(i))
            back == AddrV(Plus(Pc(i), 4))
            a == Execute(t, w, {Untouched}, yes)
            b == Execute(u, v, Hooked, yes)
<1>1. /\ i \in 0 .. StolenLen - 1 /\ t.pc = Pc(i) /\ Agree(t, u)
      /\ IsCore(t) /\ IsCore(u) /\ t.end = ""
  BY ReadyFacts, Zenon
<1>2. w \in Words /\ Moved[i + 1] = Relocate(builder, w, Pc(i))
  BY <1>1, StolenWord
<1>3. Free(Plus(Pc(i), 4))
  <2>1. i + 1 \notin 1 .. StolenLen - 1
    BY Zenon DEF OutOfReach, LinksInside
  <2>. DEFINE n == StolenLen
  <2>2. n \in {1, 4} /\ i \in 0 .. n - 1 /\ i + 1 \notin 1 .. n - 1
    BY <1>1, <2>1, ChosenWindow
  <2>. HIDE DEF n
  <2>3. i + 1 = n /\ i \in Int
    BY <2>2, LastCount, Zenon
  <2>4. Plus(Pc(i), 4) = Pc(i + 1)
    BY <2>3, PcOf
  <2>. QED  BY <2>3, <2>4, ReturnFree DEF n
<1>4. /\ Len(Moved[i + 1]) = 7 /\ Moved[i + 1][1] = Insn(v)
      /\ Moved[i + 1][2] = Insn(LdrX16(4)) /\ Moved[i + 1][3] = Insn(BrX16)
      /\ Moved[i + 1][4] = Data(back, 0) /\ Moved[i + 1][6] = Data(AddrV(p), 0)
  <2>1. \A o, pc : Relocate(o, w, pc) =
          Instructions(<<v, LdrX16(4), BrX16>>)
            \o Dword(AddrV(Plus(pc, 4))) \o Dword(AddrV(Target(w, pc)))
    <3>1. w \in Words /\ w.hi \in B \cup BL
      BY <1>2
    <3>. QED  BY <3>1, JumpCase, Zenon
  <2>. HIDE DEF v, p, back
  <2>2. Instructions(<<v, LdrX16(4), BrX16>>) \o Dword(back) \o Dword(AddrV(p)) =
          <<Insn(v), Insn(LdrX16(4)), Insn(BrX16), Data(back, 0), Data(back, 1),
            Data(AddrV(p), 0), Data(AddrV(p), 1)>>
    <3>1. CallLaid(v, LdrX16(4), BrX16, back, AddrV(p))
      BY CallCells, Zenon
    <3>. QED  BY <3>1, Zenon DEF CallLaid
  <2>3. Moved[i + 1] =
          <<Insn(v), Insn(LdrX16(4)), Insn(BrX16), Data(back, 0), Data(back, 1),
            Data(AddrV(p), 0), Data(AddrV(p), 1)>>
    <3>1. Relocate(builder, w, Pc(i)) =
            Instructions(<<v, LdrX16(4), BrX16>>) \o Dword(back) \o Dword(AddrV(p))
      BY <2>1, Zenon DEF p, back
    <3>. QED  BY <1>2, <2>2, <3>1, Zenon
  <2>. QED  BY <2>3, SevenCells
<1>5. a = Link(Go(t, p), back)
  BY <1>1, ExecJump
<1>6. b = Put(Next4(u), 30, back)
  <2>1. Covered(Hooked, Place(Start(i) + 4)) /\ Cell(Hooked, Place(Start(i) + 4)) = Moved[i + 1][4]
    <3>1. 4 \in 1 .. 7 /\ 4 <= Len(Moved[i + 1])
      BY <1>4
    <3>2. \A n \in 1 .. 7 : n <= Len(Moved[i + 1]) =>
            /\ Covered(Hooked, Place(Start(i) + n))
            /\ Cell(Hooked, Place(Start(i) + n)) = Moved[i + 1][n]
      BY HeldCell, Zenon
    <3>. HIDE DEF v, p, back
    <3>. QED  BY <3>1, <3>2, Zenon
  <2>2. Plus(u.pc, 12) = Place(Start(i) + 4)
    BY NextPlaces
  <2>3. Covered(Hooked, Plus(u.pc, 12)) /\ Cell(Hooked, Plus(u.pc, 12)) = Data(back, 0)
    BY <1>4, <2>1, <2>2
  <2>4. v = Word(88, 32 * 3 + 30) /\ 4 * 3 = 12 /\ 3 \in 2 .. 4 /\ 30 \in 0 .. 31
    BY DEF LdrX30
  <2>. HIDE DEF v
  <2>. QED  BY <2>3, <2>4, LoadsAddress
<1>. DEFINE q == Go(t, p)
<1>7. /\ Alike(t, q) /\ q.pc = p /\ q.steps = t.steps
      /\ Alike(u, Next4(u)) /\ Next4(u).pc = Plus(u.pc, 4) /\ Next4(u).steps = u.steps
  BY <1>1, GoElsewhere, NextRuns
<1>. HIDE DEF p, q
<1>8. Agree(q, Next4(u)) /\ IsCore(Next4(u)) /\ IsCore(q) /\ q.end = ""
  BY <1>1, <1>7, AgreeAlike, AlikeCore
<1>. HIDE DEF a, b
<1>9. Wrote(q, a, 30, back) /\ Wrote(Next4(u), b, 30, back)
  <2>. HIDE DEF back
  <2>. QED  BY <1>5, <1>6, <1>8, PutWrote, LinkWrote DEF q
<1>10. Agree(a, b)
  <2>1. back.k = "addr" => Free(back.a)
    BY <1>3 DEF AddrV
  <2>. HIDE DEF back
  <2>. QED  BY <1>8, <1>9, <2>1, AgreeWrote, Zenon
<1>11. /\ a.pc = q.pc /\ a.end = q.end /\ a.steps = q.steps
       /\ b.pc = Place(Start(i) + 2) /\ b.steps = u.steps
  <2>1. Plus(u.pc, 4) = Place(Start(i) + 2)
    BY NextPlaces
  <2>. HIDE DEF back
  <2>. QED  BY <1>7, <1>9, <2>1 DEF Wrote
<1>12. Away(a, b) /\ b.steps \in 1 .. 15
  <2>1. w.hi \in Branches
    BY DEF Branches
  <2>2. a.pc = Target(Stolen[i + 1], t.pc)
    BY <1>1, <1>7, <1>11 DEF p
  <2>. QED  BY <1>7, <1>8, <1>10, <1>11, <2>1, <2>2, Departs
<1>13. Jumping(a, b)
  <2>1. 4 \in {2, 4} /\ 2 + 4 = 6 /\ 6 <= 7
    OBVIOUS
  <2>2. a.pc = p
    BY <1>7, <1>11
  <2>. HIDE DEF back
  <2>. QED  BY <1>4, <1>11, <1>12, <2>1, <2>2, JumpsFrom
<1>. QED  BY <1>4, <1>13 DEF a, b

-----------------------------------------------------------------------------
(* Any stolen word, and what became of it.                                 *)

Onto(a, b, i) ==
  AtStart(a, b, i) \/ Skipping(a, b, i) \/ Jumping(a, b) \/ Branching(a, b) \/ Out(a, b)

(* The first instruction of what replaced a stolen word does what the word *)
(* did, or starts it: both cores go on to the next word, or the hooked one *)
(* has a jump over a literal or to a target left to make.                  *)
LEMMA WordMoves ==
  ASSUME Chosen, ~OutOfReach, NEW t, NEW u, NEW i, Ready(t, u, i)
  PROVE  \E v : /\ Moved[i + 1][1] = Insn(v)
                /\ Onto(Execute(t, Stolen[i + 1], {Untouched}, yes), Execute(u, v, Hooked, yes), i + 1)
<1>. DEFINE w == Stolen[i + 1]
<1>0. i \in 0 .. StolenLen - 1
  BY ReadyFacts, Zenon
<1>1. w \in Words /\ Moved[i + 1] = Relocate(builder, w, Pc(i))
  BY <1>0, StolenWord
<1>2. CASE w.hi \in B
  <2>1. \E v : /\ Moved[i + 1][1] = Insn(v)
               /\ Branching(Execute(t, w, {Untouched}, yes), Execute(u, v, Hooked, yes))
    BY <1>2, JumpMoves, Zenon
  <2>. QED  BY <2>1, Zenon DEF Onto
<1>3. CASE w.hi \in BL
  <2>1. \E v : /\ Moved[i + 1][1] = Insn(v)
               /\ Jumping(Execute(t, w, {Untouched}, yes), Execute(u, v, Hooked, yes))
    BY <1>3, CallMoves, Zenon
  <2>. QED  BY <2>1, Zenon DEF Onto
<1>4. CASE w.hi \in Tests
  <2>1. \E v : /\ Moved[i + 1][1] = Insn(v)
               /\ LET a == Execute(t, w, {Untouched}, yes)
                      b == Execute(u, v, Hooked, yes)
                  IN  AtStart(a, b, i + 1) \/ Jumping(a, b)
    BY <1>4, TestMoves, Zenon
  <2>. QED  BY <2>1, Zenon DEF Onto
<1>5. CASE w.hi \in ADR \cup ADRP
  <2>1. \E v : /\ Moved[i + 1][1] = Insn(v)
               /\ Skipping(Execute(t, w, {Untouched}, yes), Execute(u, v, Hooked, yes), i + 1)
    BY <1>5, AdrMoves, Zenon
  <2>. QED  BY <2>1, Zenon DEF Onto
<1>6. CASE w.hi \in Literal
  <2>1. \E v : /\ Moved[i + 1][1] = Insn(v)
               /\ LET a == Execute(t, w, {Untouched}, yes)
                      b == Execute(u, v, Hooked, yes)
                  IN  Skipping(a, b, i + 1) \/ Out(a, b)
    BY <1>6, LiteralMoves, Zenon
  <2>. QED  BY <2>1, Zenon DEF Onto
<1>7. CASE w.hi \notin PcRelative
  <2>1. Moved[i + 1] = <<Insn(w)>>
    BY <1>1, <1>7, MovedLength
  <2>2. Len(Moved[i + 1]) = 1 /\ Moved[i + 1][1] = Insn(w)
    <3>. HIDE DEF w
    <3>. QED  BY <2>1, OneCell
  <2>3. CASE IsBr(w) \/ IsRet(w)
    <3>1. Out(Execute(t, w, {Untouched}, yes), Execute(u, w, Hooked, yes))
      BY <2>3, Leaves, Zenon
    <3>. QED  BY <2>2, <3>1, Zenon DEF Onto
  <2>4. CASE ~IsBr(w) /\ ~IsRet(w)
    <3>1. AtStart(Execute(t, w, {Untouched}, yes), Execute(u, w, Hooked, yes), i + 1)
      BY <1>7, <2>2, <2>4, OpMoves, Zenon
    <3>. QED  BY <2>2, <3>1, Zenon DEF Onto
  <2>. QED  BY <2>3, <2>4, Zenon
<1>. QED  BY <1>2, <1>3, <1>4, <1>5, <1>6, <1>7, Zenon DEF PcRelative, Branches, Tests

(* Both cores at a word: each makes a step.                                *)
LEMMA StartStep ==
  ASSUME Chosen, ~OutOfReach, NEW m, NEW n, NEW i \in 0 .. StolenLen - 1, AtStart(m, n, i)
  PROVE  Follows(OldStep(m), NewStep(n)) /\ m.end = ""
<1>. DEFINE w == Stolen[i + 1]
<1>1. Ready(Tick(m), Tick(n), i)
  BY BeginReady, Zenon
<1>2. PICK v : /\ Moved[i + 1][1] = Insn(v)
               /\ Onto(Execute(Tick(m), w, {Untouched}, yes), Execute(Tick(n), v, Hooked, yes), i + 1)
  BY <1>1, WordMoves, Zenon
<1>3. /\ OldStep(m) = Execute(Tick(m), w, {Untouched}, yes)
      /\ NewStep(n) = Execute(Tick(n), v, Hooked, yes)
  <2>1. \A c : Moved[i + 1][1] = Insn(c) =>
          /\ OldStep(m) = Execute(Tick(m), Stolen[i + 1], {Untouched}, yes)
          /\ NewStep(n) = Execute(Tick(n), c, Hooked, yes)
    BY Begin, Zenon
  <2>. QED  BY <1>2, <2>1, Zenon
<1>4. Onto(OldStep(m), NewStep(n), i + 1)
  BY <1>2, <1>3
<1>5. i + 1 \in 0 .. StolenLen
  BY <1>1, ReadyFacts, Zenon
<1>6. m.end = ""
  BY DEF AtStart, OnLine
<1>. QED  BY <1>4, <1>5, <1>6, Zenon DEF Onto, Follows

-----------------------------------------------------------------------------
(* What a step of the hooked run does where the other run has nothing to   *)
(* do.                                                                     *)

Loaded(m, n, b, r, a) ==
  /\ Agree(m, b) /\ b.pc = Plus(n.pc, 4) /\ b.steps = n.steps + 1
  /\ r \in DOMAIN b.x /\ b.x[r] = AddrV(a)

LEMMA Loading ==
  ASSUME NEW m, NEW n, Agree(m, n), NEW r \in Linker, NEW a
  PROVE  Loaded(m, n, Put(Next4(Tick(n)), r, AddrV(a)), r, a)
<1>. DEFINE t == Tick(n)
            p == Next4(t)
            b == Put(p, r, AddrV(a))
<1>1. IsCore(n) /\ IsCore(m)
  BY DEF Agree
<1>2. Alike(n, t) /\ t.pc = n.pc /\ t.steps = n.steps + 1
  BY <1>1, TickLater
<1>. HIDE DEF t
<1>3. Alike(t, p) /\ p.pc = Plus(n.pc, 4) /\ p.steps = n.steps + 1
  BY <1>2, NextRuns DEF Alike
<1>4. Wrote(p, b, r, AddrV(a))
  BY <1>3, PutWrote DEF Alike, t
<1>. HIDE DEF b
<1>. HIDE DEF p
<1>5. Alike(n, p) /\ Alike(m, m)
  BY <1>1, <1>2, <1>3, AlikeTwice DEF Alike
<1>6. Agree(m, p)
  BY <1>5, AgreeAlike, Zenon
<1>7. Agree(m, b)
  BY <1>4, <1>6, AgreeScratch, Zenon
<1>8. r # 31
  BY DEF Linker
<1>9. b.pc = p.pc /\ b.steps = p.steps /\ r \in DOMAIN b.x /\ b.x[r] = AddrV(a)
  BY <1>4, <1>8 DEF Wrote
<1>. QED  BY <1>3, <1>7, <1>9 DEF Loaded, b, p, t

Gone(m, n, b, a) ==
  /\ Agree(m, b) /\ (Carries(m, n) => Carries(m, b))
  /\ b.pc = a /\ b.steps = n.steps + 1 /\ b.x = n.x

LEMMA Going ==
  ASSUME NEW m, NEW n, Agree(m, n), NEW a
  PROVE  Gone(m, n, Go(Tick(n), a), a)
<1>. DEFINE t == Tick(n)
            b == Go(t, a)
<1>1. IsCore(n) /\ IsCore(m)
  BY DEF Agree
<1>2. Alike(n, t) /\ t.pc = n.pc /\ t.steps = n.steps + 1 /\ IsCore(t)
  BY <1>1, TickLater DEF Alike
<1>. HIDE DEF t
<1>3. Alike(t, b) /\ b.pc = a /\ b.steps = t.steps
  BY <1>2, GoElsewhere
<1>. HIDE DEF b
<1>4. Alike(n, b) /\ Alike(m, m)
  BY <1>1, <1>2, <1>3, AlikeTwice DEF Alike
<1>5. Agree(m, b) /\ (Carries(m, n) => Carries(m, b))
  BY <1>4, AgreeAlike, Zenon
<1>. QED  BY <1>2, <1>3, <1>4, <1>5 DEF Alike, Gone, b, t

LEMMA StepRange ==
  ASSUME NEW s
  PROVE  /\ s \in 1 .. 15 => s \in 0 .. 20 /\ s + 1 \in 1 .. 16
         /\ s \in 1 .. 16 => s \in 0 .. 20 /\ s + 1 \in 1 .. 21 /\ s + 1 <= 20
         /\ s \in 1 .. 4 => s \in 1 .. 5 /\ s <= 4
  OBVIOUS

BrTo(r) == Word(214, 2031616 + 32 * r)

LEMMA Br16 == BrX16 = BrTo(16) /\ BrX17 = BrTo(17)
<1>1. 2031616 + 512 = 2031616 + 32 * 16 /\ 2031616 + 544 = 2031616 + 32 * 17
  BY SMT
<1>. QED  BY <1>1, SMT DEF BrX16, BrX17, BrTo

LEMMA Through ==
  ASSUME NEW n, IsCore(n), NEW r \in 0 .. 31, NEW a, r \in DOMAIN n.x, n.x[r] = AddrV(a),
         NEW ss, NEW b
  PROVE  Execute(Tick(n), BrTo(r), ss, b) = Go(Tick(n), a)
<1>. DEFINE t == Tick(n)
<1>1. t.x = n.x
  BY TickLater DEF Alike
<1>. HIDE DEF t
<1>2. X(t, r) = AddrV(a)
  BY <1>1 DEF X
<1>3. AddrV(a).k = "addr" /\ AddrV(a).a = a
  BY DEF AddrV
<1>4. Execute(t, BrTo(r), ss, b) = JumpTo(t, X(t, r))
  BY ExecBr, SMT DEF BrTo
<1>5. JumpTo(t, AddrV(a)) = Go(t, a)
  BY <1>3 DEF JumpTo
<1>. QED  BY <1>2, <1>4, <1>5 DEF t

LEMMA RunsAt ==
  ASSUME Chosen, NEW n, n.steps \in 0 .. 20, n.pc # Thunk, n.pc # F \/ n.steps = 0,
         Covered(Hooked, n.pc), NEW w, Cell(Hooked, n.pc) = Insn(w)
  PROVE  NewStep(n) = Execute(Tick(n), w, Hooked, yes)
<1>2. n.steps # MaxSteps /\ ~(n.pc = F /\ n.steps > 0)
  BY StepsAssumption
<1>3. Insn(w).k # "data" /\ Insn(w).w = w
  BY DEF Insn
<1>4. Step(n, Hooked, F, MaxSteps, yes) = Execute(Tick(n), Cell(Hooked, n.pc).w, Hooked, yes)
  BY <1>2, <1>3, StepFetch
<1>. QED  BY <1>3, <1>4 DEF NewStep

LEMMA PlaceInt ==
  ASSUME Chosen, NEW k \in DOMAIN Code
  PROVE  k \in Int /\ k \in 1 .. 32 /\ Plus(Place(k), 4) = Place(k + 1)
<1>1. DOMAIN Code = 1 .. Len(Code) /\ Len(Code) \in 0 .. 32
  BY CodeLength
<1>. DEFINE n == Len(Code)
<1>. HIDE DEF n
<1>2. k \in 1 .. n /\ n \in 0 .. 32
  BY <1>1 DEF n
<1>3. k \in Int /\ k \in 1 .. 32 /\ 4 * 1 = 4
  BY <1>2
<1>. QED  BY <1>3, PlaceOf

(* ldr x16; br x16                                                         *)
LEMMA JumpingStep ==
  ASSUME Chosen, NEW m, NEW n, Jumping(m, n)
  PROVE  Branching(m, NewStep(n)) /\ n.end = ""
<1>1. PICK k \in DOMAIN Code, d \in {2, 4} :
        /\ n.pc = Place(k) /\ k + 1 \in DOMAIN Code /\ k + d \in DOMAIN Code
        /\ Code[k] = Insn(LdrX16(d)) /\ Code[k + 1] = Insn(BrX16)
        /\ Code[k + d] = Data(AddrV(m.pc), 0)
  BY DEF Jumping
<1>2. Away(m, n) /\ Agree(m, n) /\ n.steps \in 1 .. 15 /\ m.end = "" /\ n.end = m.end
  BY DEF Jumping, Away, Agree
<1>3. k \in Int /\ Plus(Place(k), 4) = Place(k + 1) /\ Plus(Place(k), 4 * d) = Place(k + d)
  <2>1. k \in Int /\ Plus(Place(k), 4) = Place(k + 1)
    BY PlaceInt
  <2>2. d \in Int
    OBVIOUS
  <2>. QED  BY <2>1, <2>2, PlaceOf
<1>4. n.steps \in 0 .. 20 /\ n.steps + 1 \in 1 .. 16
  BY <1>2, StepRange, Zenon
<1>. DEFINE b == NewStep(n)
<1>5. b = Execute(Tick(n), LdrX16(d), Hooked, yes)
  BY <1>1, <1>4, RunsNew
<1>6. b = Put(Next4(Tick(n)), 16, AddrV(m.pc))
  <2>. DEFINE v == LdrX16(d)
  <2>1. v = Word(88, 32 * d + 16)
    BY DEF LdrX16
  <2>. HIDE DEF v, b
  <2>2. d \in 2 .. 4 /\ 16 \in 0 .. 31
    OBVIOUS
  <2>3. Tick(n).pc = n.pc
    BY <1>2, TickLater DEF Agree
  <2>4. Covered(Hooked, Place(k + d)) /\ Cell(Hooked, Place(k + d)) = Code[k + d]
    BY <1>1, InCode
  <2>5. /\ Covered(Hooked, Plus(Tick(n).pc, 4 * d))
        /\ Cell(Hooked, Plus(Tick(n).pc, 4 * d)) = Data(AddrV(m.pc), 0)
    BY <1>1, <1>3, <2>3, <2>4
  <2>6. Execute(Tick(n), v, Hooked, yes) = Put(Next4(Tick(n)), 16, AddrV(m.pc))
    BY <2>1, <2>2, <2>5, LoadsAddress
  <2>. QED  BY <1>5, <2>6 DEF v
<1>. HIDE DEF b
<1>7. /\ Agree(m, b) /\ b.pc = Plus(n.pc, 4) /\ b.steps = n.steps + 1
      /\ 16 \in DOMAIN b.x /\ b.x[16] = AddrV(m.pc)
  <2>1. 16 \in Linker
    BY DEF Linker
  <2>2. Loaded(m, n, Put(Next4(Tick(n)), 16, AddrV(m.pc)), 16, m.pc)
    BY <1>2, <2>1, Loading, Zenon
  <2>3. Loaded(m, n, b, 16, m.pc)
    BY <1>6, <2>2
  <2>. QED  BY <2>3, Zenon DEF Loaded
<1>8. Away(m, b) /\ b.steps \in 1 .. 16
  BY <1>2, <1>4, <1>7 DEF Away
<1>9. b.pc = Place(k + 1)
  BY <1>1, <1>3, <1>7
<1>10. Branching(m, b)
  <2>. DEFINE j == k + 1
  <2>1. j \in DOMAIN Code /\ b.pc = Place(j) /\ Code[j] = Insn(BrX16)
    BY <1>1, <1>9
  <2>. HIDE DEF j
  <2>. QED  BY <1>7, <1>8, <2>1, Zenon DEF Branching
<1>. QED  BY <1>2, <1>10 DEF b

(* The last word of a jump that the trampoline makes.                      *)
LEMMA BranchingStep ==
  ASSUME Chosen, NEW m, NEW n, Branching(m, n)
  PROVE  Out(m, NewStep(n)) /\ n.end = ""
<1>1. PICK k \in DOMAIN Code :
        n.pc = Place(k) /\ Code[k] = Insn(BrX16) /\ 16 \in DOMAIN n.x /\ n.x[16] = AddrV(m.pc)
  BY Zenon DEF Branching
<1>2. /\ Agree(m, n) /\ n.steps \in 1 .. 16 /\ m.end = "" /\ n.end = m.end
      /\ Free(m.pc) /\ m.steps \in 1 .. 4 /\ IsCore(n)
  BY DEF Branching, Away, Agree
<1>3. n.steps \in 0 .. 20 /\ n.steps + 1 \in 1 .. 21 /\ n.steps + 1 <= 20
  BY <1>2, StepRange, Zenon
<1>. DEFINE b == NewStep(n)
<1>4. b = Execute(Tick(n), BrX16, Hooked, yes)
  BY <1>1, <1>3, RunsNew
<1>5. b = Go(Tick(n), m.pc)
  <2>. DEFINE v == BrX16
  <2>1. v = BrTo(16) /\ 16 \in 0 .. 31
    BY Br16
  <2>. HIDE DEF v, b
  <2>2. Execute(Tick(n), v, Hooked, yes) = Go(Tick(n), m.pc)
    <3>1. Execute(Tick(n), BrTo(16), Hooked, yes) = Go(Tick(n), m.pc)
      <4>1. \A r \in 0 .. 31 : \A a : r \in DOMAIN n.x /\ n.x[r] = AddrV(a) =>
              Execute(Tick(n), BrTo(r), Hooked, yes) = Go(Tick(n), a)
        BY <1>2, Through, Zenon
      <4>2. 16 \in 0 .. 31 /\ 16 \in DOMAIN n.x /\ n.x[16] = AddrV(m.pc)
        BY <1>1, <2>1
      <4>. QED  BY <4>1, <4>2, Zenon
    <3>. QED  BY <2>1, <3>1
  <2>. QED  BY <1>4, <2>2 DEF v
<1>. HIDE DEF b
<1>6. Agree(m, b) /\ b.pc = m.pc /\ b.steps = n.steps + 1
  <2>1. Gone(m, n, Go(Tick(n), m.pc), m.pc)
    BY <1>2, Going, Zenon
  <2>2. Gone(m, n, b, m.pc)
    BY <1>5, <2>1
  <2>. QED  BY <2>2, Zenon DEF Gone
<1>7. m.steps \in 1 .. 5 /\ m.steps <= 4
  BY <1>2, StepRange, Zenon
<1>8. Out(m, b)
  BY <1>2, <1>3, <1>6, <1>7 DEF Out
<1>. QED  BY <1>2, <1>8 DEF b

-----------------------------------------------------------------------------
(* Past a literal, and at the end of the trampoline.                       *)

LEMMA LineRange ==
  ASSUME NEW n \in {1, 4}, NEW i \in 0 .. n, NEW s
  PROVE  /\ s \in 0 .. 4 + 2 * i => s \in 0 .. 20 /\ s + 1 \in 0 .. 5 + 2 * i
         /\ s \in 0 .. 5 + 2 * i => s \in 0 .. 20 /\ s + 1 \in 1 .. 16
         /\ n \in 1 .. 4
  OBVIOUS

LEMMA StartInt ==
  ASSUME Chosen, NEW i \in 0 .. StolenLen
  PROVE  Start(i) \in Int
<1>0. window \in [1 .. 4 -> Words]
  BY ChosenWindow
<1>1. CASE i = 0
  BY <1>0, <1>1, Starts
<1>2. CASE i # 0
  <2>. DEFINE n == StolenLen
  <2>1. n \in {1, 4} /\ i \in 0 .. n
    BY ChosenWindow
  <2>. HIDE DEF n
  <2>2. i \in 1 .. n
    BY <1>2, <2>1
  <2>3. Start(i) \in 1 .. 7 * i
    BY <1>0, <2>2, Starts DEF n
  <2>. QED  BY <2>3
<1>. QED  BY <1>1, <1>2

(* The jump over a literal.                                                *)
LEMMA SkippingStep ==
  ASSUME Chosen, NEW m, NEW n, NEW i, Skipping(m, n, i)
  PROVE  AtStart(m, NewStep(n), i) /\ n.end = ""
<1>1. /\ OnLine(m, n, i) /\ n.steps \in 0 .. 4 + 2 * i
      /\ Start(i) - 2 \in DOMAIN Code /\ n.pc = Place(Start(i) - 2)
      /\ Code[Start(i) - 2] = Insn(SkipDword)
  BY DEF Skipping
<1>2. i \in 0 .. StolenLen /\ Agree(m, n) /\ m.end = "" /\ n.end = m.end /\ Carries(m, n)
  BY <1>1 DEF OnLine, Agree
<1>3. n.steps \in 0 .. 20 /\ n.steps + 1 \in 0 .. 5 + 2 * i
  BY <1>1, <1>2, LineRange, ChosenWindow, Zenon
<1>. DEFINE k == Start(i) - 2
            b == NewStep(n)
<1>4. k \in Int /\ Plus(Place(k), 12) = Place(Start(i) + 1)
  <2>. DEFINE j == k
  <2>. HIDE DEF j
  <2>1. j \in Int /\ j \in DOMAIN Code
    BY <1>1, PlaceInt DEF j
  <2>2. 3 \in Int /\ 4 * 3 = 12
    OBVIOUS
  <2>3. Plus(Place(j), 12) = Place(j + 3)
    BY <2>1, <2>2, PlaceOf
  <2>4. Start(i) \in Int
    BY <1>2, StartInt
  <2>5. j + 3 = Start(i) + 1
    <3>. DEFINE s == Start(i)
    <3>1. j = s - 2 /\ s \in Int
      BY <2>4 DEF j
    <3>. HIDE DEF s
    <3>2. j + 3 = s + 1
      BY <3>1
    <3>. QED  BY <3>2 DEF s
  <2>. QED  BY <2>1, <2>3, <2>5 DEF j
<1>5. b = Execute(Tick(n), SkipDword, Hooked, yes)
  <2>. HIDE DEF k, b
  <2>1. k \in DOMAIN Code /\ n.pc = Place(k) /\ Code[k] = Insn(SkipDword)
    BY <1>1 DEF k
  <2>2. NewStep(n) = Execute(Tick(n), SkipDword, Hooked, yes)
    BY <1>3, <2>1, RunsNew
  <2>. QED  BY <2>2 DEF b
<1>6. b = Go(Tick(n), Place(Start(i) + 1))
  <2>. HIDE DEF b
  <2>1. Tick(n).pc = n.pc
    BY <1>2, TickLater DEF Agree
  <2>2. Execute(Tick(n), SkipDword, Hooked, yes) = Go(Tick(n), Plus(Tick(n).pc, 12))
    BY ExecSkip, Zenon
  <2>. QED  BY <1>1, <1>4, <1>5, <2>1, <2>2
<1>. HIDE DEF k, b
<1>7. Agree(m, b) /\ Carries(m, b) /\ b.pc = Place(Start(i) + 1) /\ b.steps = n.steps + 1
  <2>1. Gone(m, n, Go(Tick(n), Place(Start(i) + 1)), Place(Start(i) + 1))
    BY <1>2, Going, Zenon
  <2>2. Gone(m, n, b, Place(Start(i) + 1))
    BY <1>6, <2>1
  <2>. QED  BY <1>2, <2>2, Zenon DEF Gone
<1>8. OnLine(m, b, i)
  BY <1>1, <1>7 DEF OnLine
<1>9. AtStart(m, b, i)
  BY <1>3, <1>7, <1>8 DEF AtStart
<1>. QED  BY <1>2, <1>9 DEF b

(* Behind the last of the words, the jump back.                            *)
LEMMA BackCells ==
  ASSUME Chosen, NEW m, NEW i, i = StolenLen, Past(m, i)
  PROVE  LET s == Start(i) IN
         /\ s + 1 \in DOMAIN Code /\ Code[s + 1] = Insn(LdrX16(2))
         /\ s + 2 \in DOMAIN Code /\ Code[s + 2] = Insn(BrX16)
         /\ s + 3 \in DOMAIN Code /\ Code[s + 3] = Data(AddrV(Pc(i)), 0)
         /\ s \in Int
<1>0. window \in [1 .. 4 -> Words]
  BY ChosenWindow
<1>1. Ret \notin Range(Stolen)
  <2>1. DOMAIN Stolen = 1 .. StolenLen
    BY <1>0, StolenWords
  <2>. QED  BY <2>1 DEF Past, Range
<1>2. BranchBack = <<Insn(LdrX16(2)), Insn(BrX16), Data(AddrV(Pc(i)), 0), Data(AddrV(Pc(i)), 1)>>
  <2>1. BranchBack = JumpVia(LdrX16(2), BrX16, AddrV(Plus(F, 4 * StolenLen)))
    BY <1>1 DEF BranchBack, JumpTo16
  <2>2. JumpVia(LdrX16(2), BrX16, AddrV(Pc(i))) =
          <<Insn(LdrX16(2)), Insn(BrX16), Data(AddrV(Pc(i)), 0), Data(AddrV(Pc(i)), 1)>>
    BY LoadCells
  <2>. QED  BY <2>1, <2>2 DEF Pc
<1>3. /\ Len(BranchBack) = 4 /\ BranchBack[1] = Insn(LdrX16(2)) /\ BranchBack[2] = Insn(BrX16)
      /\ BranchBack[3] = Data(AddrV(Pc(i)), 0)
  BY <1>2
<1>. DEFINE s == Start(i)
            n == Len(Code)
            back == Len(BranchBack)
<1>4. DOMAIN Code = 1 .. n /\ n = s + back /\ \A k \in 1 .. back : Code[s + k] = BranchBack[k]
  BY <1>0, CodeCells
<1>5. s \in Nat
  <2>1. s \in 1 .. 7 * i /\ i \in {1, 4}
    <3>1. StolenLen \in 1 .. StolenLen
      BY ChosenWindow
    <3>2. Start(StolenLen) \in 1 .. 7 * StolenLen
      BY <1>0, <3>1, Starts
    <3>. QED  BY <3>2, ChosenWindow
  <2>. HIDE DEF s
  <2>. QED  BY <2>1
<1>6. back = 4
  BY <1>3
<1>. HIDE DEF s, n, back
<1>7. 1 \in 1 .. back /\ 2 \in 1 .. back /\ 3 \in 1 .. back
  BY <1>6
<1>8. /\ Code[s + 1] = Insn(LdrX16(2)) /\ Code[s + 2] = Insn(BrX16)
      /\ Code[s + 3] = Data(AddrV(Pc(i)), 0)
  BY <1>3, <1>4, <1>7
<1>9. s + 1 \in 1 .. n /\ s + 2 \in 1 .. n /\ s + 3 \in 1 .. n
  BY <1>4, <1>5, <1>6
<1>. QED  BY <1>4, <1>5, <1>8, <1>9 DEF s

(* The end of the trampoline: only the hooked core makes a step.           *)
LEMMA EndStep ==
  ASSUME Chosen, NEW m, NEW n, NEW i, i = StolenLen, AtStart(m, n, i)
  PROVE  Branching(m, NewStep(n)) /\ n.end = ""
<1>1. /\ Agree(m, n) /\ m.end = "" /\ n.end = m.end /\ m.pc = Pc(i) /\ m.steps = i /\ Past(m, i)
      /\ n.pc = Place(Start(i) + 1) /\ n.steps \in 0 .. 5 + 2 * i
      /\ i \in 0 .. StolenLen
  BY DEF AtStart, OnLine, Agree, Pc
<1>2. n.steps \in 0 .. 20 /\ n.steps + 1 \in 1 .. 16 /\ i \in 1 .. 4
  BY <1>1, LineRange, ChosenWindow, Zenon
<1>. DEFINE b == NewStep(n)
            s == Start(i)
<1>3. /\ s + 1 \in DOMAIN Code /\ Code[s + 1] = Insn(LdrX16(2))
      /\ s + 2 \in DOMAIN Code /\ Code[s + 2] = Insn(BrX16)
      /\ s + 3 \in DOMAIN Code /\ Code[s + 3] = Data(AddrV(m.pc), 0)
      /\ s \in Int
  BY <1>1, BackCells
<1>. HIDE DEF s
<1>4. Plus(Place(s + 1), 4) = Place(s + 2) /\ Plus(Place(s + 1), 8) = Place(s + 3)
  <2>1. s + 1 \in Int /\ 1 \in Int /\ 2 \in Int /\ 4 * 1 = 4 /\ 4 * 2 = 8
        /\ (s + 1) + 1 = s + 2 /\ (s + 1) + 2 = s + 3
    BY <1>3
  <2>2. /\ Plus(Place(s + 1), 4 * 1) = Place((s + 1) + 1)
        /\ Plus(Place(s + 1), 4 * 2) = Place((s + 1) + 2)
    BY <2>1, PlaceOf
  <2>. QED  BY <2>1, <2>2
<1>5. n.pc = Place(s + 1)
  BY <1>1 DEF s
<1>6. b = Execute(Tick(n), LdrX16(2), Hooked, yes)
  BY <1>2, <1>3, <1>5, RunsNew
<1>. HIDE DEF b
<1>7. b = Put(Next4(Tick(n)), 16, AddrV(m.pc))
  <2>. DEFINE v == LdrX16(2)
  <2>1. v = Word(88, 32 * 2 + 16) /\ 4 * 2 = 8
    BY DEF LdrX16
  <2>. HIDE DEF v
  <2>2. 2 \in 2 .. 4 /\ 16 \in 0 .. 31
    OBVIOUS
  <2>3. Tick(n).pc = n.pc
    BY <1>1, TickLater DEF Agree
  <2>4. Covered(Hooked, Place(s + 3)) /\ Cell(Hooked, Place(s + 3)) = Code[s + 3]
    BY <1>3, InCode
  <2>5. /\ Covered(Hooked, Plus(Tick(n).pc, 4 * 2))
        /\ Cell(Hooked, Plus(Tick(n).pc, 4 * 2)) = Data(AddrV(m.pc), 0)
    BY <1>3, <1>4, <1>5, <2>1, <2>3, <2>4
  <2>6. Execute(Tick(n), v, Hooked, yes) = Put(Next4(Tick(n)), 16, AddrV(m.pc))
    BY <2>1, <2>2, <2>5, LoadsAddress
  <2>. QED  BY <1>6, <2>6 DEF v
<1>8. /\ Agree(m, b) /\ b.pc = Plus(n.pc, 4) /\ b.steps = n.steps + 1
      /\ 16 \in DOMAIN b.x /\ b.x[16] = AddrV(m.pc)
  <2>1. 16 \in Linker
    BY DEF Linker
  <2>2. Loaded(m, n, Put(Next4(Tick(n)), 16, AddrV(m.pc)), 16, m.pc)
    BY <1>1, <2>1, Loading, Zenon
  <2>3. Loaded(m, n, b, 16, m.pc)
    BY <1>7, <2>2
  <2>. QED  BY <2>3, Zenon DEF Loaded
<1>9. Away(m, b) /\ b.steps \in 1 .. 16
  <2>1. Free(m.pc)
    BY <1>1, ReturnFree
  <2>. QED  BY <1>1, <1>2, <1>8, <2>1 DEF Away
<1>10. Branching(m, b)
  <2>. DEFINE k == s + 2
  <2>1. k \in DOMAIN Code /\ b.pc = Place(k) /\ Code[k] = Insn(BrX16)
    BY <1>3, <1>4, <1>5, <1>8
  <2>. HIDE DEF k
  <2>. QED  BY <1>8, <1>9, <2>1, Zenon DEF Branching
<1>. QED  BY <1>1, <1>10 DEF b

-----------------------------------------------------------------------------
(* Both have left: the rest of the program is the same.                    *)

LEMMA OutRange ==
  ASSUME NEW s
  PROVE  /\ s \in 1 .. 5 => s > 0 /\ s # MaxSteps
         /\ s \in 1 .. 21 => s > 0 /\ s # MaxSteps
         /\ s \in 1 .. 5 /\ s <= 4 => s + 1 \in 1 .. 5
         /\ s \in 1 .. 21 /\ s <= 20 => s + 1 \in 1 .. 21
BY StepsAssumption

(* The call that x30 was set for.                                          *)
Called(m) == See([m EXCEPT !.linked = FALSE], "call", AddrV(m.pc), 0)

Relinked(m, n, b) ==
  /\ IsCore(n) /\ n.x = m.x /\ n.pc = m.pc /\ n.steps = m.steps /\ n.end = m.end
  /\ n.log = m.log /\ n.linked = b

LEMMA Relinks ==
  ASSUME NEW m, IsCore(m), NEW b
  PROVE  Relinked(m, [m EXCEPT !.linked = b], b)
BY DEF IsCore, Relinked

LEMMA CalledHas ==
  ASSUME NEW m, IsCore(m)
  PROVE  LET n == Called(m) IN
         /\ IsCore(n) /\ n.x = m.x /\ n.pc = m.pc /\ n.steps = m.steps /\ n.end = m.end
         /\ n.linked = FALSE
         /\ n.log = Append(m.log, [what |-> "call", v |-> AddrV(m.pc), n |-> 0])
<1>. DEFINE p == [m EXCEPT !.linked = FALSE]
            n == Called(m)
<1>1. /\ IsCore(p) /\ p.x = m.x /\ p.pc = m.pc /\ p.steps = m.steps /\ p.end = m.end
      /\ p.log = m.log /\ p.linked = FALSE
  <2>1. Relinked(m, p, FALSE)
    BY Relinks, Zenon
  <2>. HIDE DEF p
  <2>. QED  BY <2>1, Zenon DEF Relinked
<1>2. n = See(p, "call", AddrV(m.pc), 0)
  BY DEF Called
<1>. HIDE DEF p, n
<1>3. Logged(p, n, [what |-> "call", v |-> AddrV(m.pc), n |-> 0])
  BY <1>1, <1>2, SeeLogged
<1>4. /\ IsCore(n) /\ n.x = m.x /\ n.pc = m.pc /\ n.steps = m.steps /\ n.end = m.end
      /\ n.linked = FALSE
      /\ n.log = Append(m.log, [what |-> "call", v |-> AddrV(m.pc), n |-> 0])
  BY <1>1, <1>3 DEF Logged
<1>. QED  BY <1>4 DEF n

LEMMA AgreeCalled ==
  ASSUME NEW m, NEW n, Agree(m, n), m.pc = n.pc
  PROVE  Agree(Called(m), Called(n))
<1>. DEFINE a == Called(m)
            b == Called(n)
<1>1. IsCore(m) /\ IsCore(n)
  BY DEF Agree
<1>2. /\ IsCore(a) /\ a.x = m.x /\ a.end = m.end /\ a.linked = FALSE
      /\ a.log = Append(m.log, [what |-> "call", v |-> AddrV(m.pc), n |-> 0])
  BY <1>1, CalledHas
<1>3. /\ IsCore(b) /\ b.x = n.x /\ b.end = n.end /\ b.linked = FALSE
      /\ b.log = Append(n.log, [what |-> "call", v |-> AddrV(n.pc), n |-> 0])
  BY <1>1, CalledHas
<1>. HIDE DEF a, b
<1>4. b.log = a.log /\ b.linked = a.linked /\ b.end = a.end
  BY <1>2, <1>3 DEF Agree
<1>5. Agree(a, b)
  BY <1>2, <1>3, <1>4 DEF Agree
<1>. QED  BY <1>5 DEF a, b

LEMMA NotScratch == 30 \notin Linker
BY DEF Linker

(* Code that is not of the hook, nor of the prologue.                      *)
LEMMA ElsewhereOut ==
  ASSUME NEW t, NEW u, Agree(t, u), t.end = "", u.pc = t.pc,
         t.linked => t.steps \in 1 .. 5 /\ u.steps \in 1 .. 21
  PROVE  Out(Elsewhere(t), Elsewhere(u))
<1>0. IsCore(t) /\ IsCore(u) /\ u.linked = t.linked
  BY DEF Agree
<1>1. CASE t.linked
  <2>. DEFINE p == Called(t)
              q == Called(u)
              a == JumpTo(p, X(p, 30))
              b == JumpTo(q, X(q, 30))
  <2>1. /\ Agree(p, q) /\ p.end = "" /\ p.linked = FALSE /\ p.x = t.x /\ q.x = u.x
        /\ p.steps = t.steps /\ q.steps = u.steps
    BY <1>0, AgreeCalled, CalledHas
  <2>. HIDE DEF p, q
  <2>2. X(p, 30) = X(t, 30) /\ X(q, 30) = X(u, 30)
    BY <2>1 DEF X
  <2>3. X(q, 30) = X(p, 30)
    <3>1. Agree(p, q)
      BY <2>1
    <3>. QED  BY <3>1, NotScratch, SameRegister, Zenon
  <2>4. /\ Agree(a, b) /\ b.pc = a.pc /\ a.steps = p.steps /\ b.steps = q.steps
        /\ a.linked = p.linked /\ (a.end = "" => Free(a.pc))
    BY <2>1, <2>3, JumpsAgree
  <2>5. Elsewhere(t) = a /\ Elsewhere(u) = b
    BY <1>0, <1>1, <2>2 DEF Elsewhere, p, q, Called
  <2>. HIDE DEF a, b
  <2>6. Out(a, b)
    BY <1>1, <2>1, <2>4 DEF Out
  <2>. QED  BY <2>5, <2>6
<1>2. CASE ~t.linked
  <2>. DEFINE a == End(t, "left")
              b == End(u, "left")
  <2>1. Elsewhere(t) = a /\ Elsewhere(u) = b
    BY <1>0, <1>2 DEF Elsewhere
  <2>2. Ended(t, a, "left") /\ Ended(u, b, "left")
    BY <1>0, EndEnded
  <2>. HIDE DEF a, b
  <2>3. Agree(a, b)
    BY <2>2, AgreeEnded
  <2>4. Out(a, b)
    BY <2>2, <2>3 DEF Out, Ended
  <2>. QED  BY <2>1, <2>4
<1>. QED  BY <1>1, <1>2

LEMMA StepElsewhere ==
  ASSUME NEW m, NEW ss, NEW entry, NEW limit, NEW b,
         m.steps # limit, m.pc # entry, ~Covered(ss, m.pc)
  PROVE  Step(m, ss, entry, limit, b) = Elsewhere(Tick(m))
BY DEF Step, Tick

LEMMA StepAgain ==
  ASSUME NEW m, NEW ss, NEW entry, NEW limit, NEW b,
         m.steps # limit, m.pc = entry, m.steps > 0
  PROVE  Step(m, ss, entry, limit, b) = End(m, "again")
BY DEF Step

(* Both cores out of the prologue: each makes the same step.               *)
LEMMA OutStep ==
  ASSUME Chosen, NEW m, NEW n, Out(m, n), n.end = ""
  PROVE  Out(OldStep(m), NewStep(n)) /\ m.end = ""
<1>1. Agree(m, n) /\ IsCore(m) /\ IsCore(n) /\ m.end = "" /\ n.pc = m.pc
  BY DEF Out, Agree
<1>2. /\ Free(m.pc) /\ m.steps \in 1 .. 5 /\ n.steps \in 1 .. 21
      /\ m.linked => m.steps <= 4 /\ n.steps <= 20
  BY <1>1 DEF Out
<1>3. m.steps > 0 /\ m.steps # MaxSteps /\ n.steps > 0 /\ n.steps # MaxSteps
  BY <1>2, OutRange, Zenon
<1>4. CASE m.pc = F
  <2>1. F # Thunk
    BY RoomsApart
  <2>. DEFINE a == End(m, "again")
              b == End(n, "again")
  <2>2. OldStep(m) = a
    BY <1>3, <1>4, StepAgain DEF OldStep
  <2>3. NewStep(n) = b
    <3>1. Step(n, Hooked, F, MaxSteps, yes) = b
      BY <1>1, <1>3, <1>4, StepAgain
    <3>. QED  BY <1>1, <1>4, <2>1, <3>1 DEF NewStep
  <2>4. Ended(m, a, "again") /\ Ended(n, b, "again")
    BY <1>1, EndEnded
  <2>. HIDE DEF a, b
  <2>5. Agree(a, b)
    BY <1>1, <2>4, AgreeEnded
  <2>6. Out(a, b)
    BY <1>1, <2>4, <2>5 DEF Out, Ended
  <2>. QED  BY <1>1, <2>2, <2>3, <2>6
<1>5. CASE m.pc # F
  <2>1. ~Covered(Hooked, m.pc) /\ ~Covered({Untouched}, m.pc) /\ m.pc # Thunk
    BY <1>2, <1>5, OutOfBoth
  <2>2. OldStep(m) = Elsewhere(Tick(m))
    BY <1>3, <1>5, <2>1, StepElsewhere DEF OldStep
  <2>3. NewStep(n) = Elsewhere(Tick(n))
    <3>1. Step(n, Hooked, F, MaxSteps, yes) = Elsewhere(Tick(n))
      BY <1>1, <1>3, <1>5, <2>1, StepElsewhere
    <3>. QED  BY <1>1, <2>1, <3>1 DEF NewStep
  <2>. DEFINE t == Tick(m)
              u == Tick(n)
  <2>4. /\ Alike(m, t) /\ t.pc = m.pc /\ t.steps = m.steps + 1
        /\ Alike(n, u) /\ u.pc = n.pc /\ u.steps = n.steps + 1
    BY <1>1, TickLater
  <2>. HIDE DEF t, u
  <2>5. Agree(t, u)
    BY <1>1, <2>4, AgreeAlike, Zenon
  <2>6. t.end = "" /\ u.pc = t.pc /\ t.linked = m.linked
    BY <1>1, <2>4 DEF Alike
  <2>7. t.linked => t.steps \in 1 .. 5 /\ u.steps \in 1 .. 21
    <3>1. ASSUME m.linked PROVE m.steps + 1 \in 1 .. 5 /\ n.steps + 1 \in 1 .. 21
      <4>1. m.steps \in 1 .. 5 /\ n.steps \in 1 .. 21 /\ m.steps <= 4 /\ n.steps <= 20
        BY <1>2, <3>1
      <4>. QED  BY <4>1, OutRange, Zenon
    <3>. QED  BY <2>4, <2>6, <3>1
  <2>8. Out(Elsewhere(t), Elsewhere(u))
    BY <2>5, <2>6, <2>7, ElsewhereOut, Zenon
  <2>. QED  BY <1>1, <2>2, <2>3, <2>8 DEF t, u
<1>. QED  BY <1>4, <1>5

-----------------------------------------------------------------------------
(* From the jump over the stub and the thunk into the trampoline.          *)

LEMMA WayRange ==
  ASSUME NEW s
  PROVE  /\ s = 0 => s \in 0 .. 20 /\ s + 1 = 1 /\ s + 1 \in 1 .. 2
         /\ s = 1 => s \in 0 .. 20 /\ s + 1 \in 1 .. 2
         /\ s \in 1 .. 2 => s \in 0 .. 20 /\ s + 1 \in 1 .. 3
         /\ s \in 1 .. 3 => s \in 0 .. 20 /\ s + 1 \in 1 .. 4
         /\ s \in 1 .. 4 => s \in 0 .. 20 /\ s + 1 \in 1 .. 5
         /\ s \in 1 .. 5 => s \in 0 .. 5
  OBVIOUS

(* A load of an address into a register on the way.                        *)
LEMMA WayLoads ==
  ASSUME Chosen, NEW m, NEW n, Agree(m, n), n.steps \in 0 .. 20, n.pc # Thunk,
         n.pc # F \/ n.steps = 0, Covered(Hooked, n.pc),
         NEW d \in 2 .. 4, NEW r \in Linker, Cell(Hooked, n.pc) = Insn(Word(88, 32 * d + r)),
         NEW a, Covered(Hooked, Plus(n.pc, 4 * d)),
         Cell(Hooked, Plus(n.pc, 4 * d)) = Data(AddrV(a), 0)
  PROVE  Loaded(m, n, NewStep(n), r, a)
<1>. DEFINE v == Word(88, 32 * d + r)
            t == Tick(n)
<1>1. r \in 0 .. 31
  BY DEF Linker
<1>2. IsCore(n)
  BY DEF Agree
<1>3. t.pc = n.pc
  BY <1>2, TickLater
<1>4. NewStep(n) = Execute(t, v, Hooked, yes)
  <2>. HIDE DEF v
  <2>1. Cell(Hooked, n.pc) = Insn(v)
    BY DEF v
  <2>. QED  BY <2>1, RunsAt
<1>. HIDE DEF t
<1>5. Execute(t, v, Hooked, yes) = Put(Next4(t), r, AddrV(a))
  <2>1. Covered(Hooked, Plus(t.pc, 4 * d)) /\ Cell(Hooked, Plus(t.pc, 4 * d)) = Data(AddrV(a), 0)
    BY <1>3
  <2>2. v = Word(88, 32 * d + r)
    OBVIOUS
  <2>. HIDE DEF v
  <2>. QED  BY <1>1, <2>1, <2>2, LoadsAddress
<1>6. Loaded(m, n, Put(Next4(t), r, AddrV(a)), r, a)
  BY Loading, Zenon DEF t
<1>. HIDE DEF v
<1>. QED  BY <1>4, <1>5, <1>6

(* A branch through that register.                                         *)
LEMMA WayBranches ==
  ASSUME Chosen, NEW m, NEW n, Agree(m, n), n.steps \in 0 .. 20, n.pc # Thunk,
         n.pc # F \/ n.steps = 0, Covered(Hooked, n.pc),
         NEW r \in Linker, Cell(Hooked, n.pc) = Insn(BrTo(r)),
         NEW a, r \in DOMAIN n.x, n.x[r] = AddrV(a)
  PROVE  Gone(m, n, NewStep(n), a)
<1>1. r \in 0 .. 31
  BY DEF Linker
<1>2. IsCore(n)
  BY DEF Agree
<1>. DEFINE v == BrTo(r)
<1>3. v = BrTo(r)
  OBVIOUS
<1>. HIDE DEF v
<1>4. NewStep(n) = Execute(Tick(n), v, Hooked, yes)
  BY <1>3, RunsAt
<1>5. Execute(Tick(n), BrTo(r), Hooked, yes) = Go(Tick(n), a)
  BY <1>1, <1>2, Through, Zenon
<1>6. Gone(m, n, Go(Tick(n), a), a)
  BY Going, Zenon
<1>. QED  BY <1>3, <1>4, <1>5, <1>6

LEMMA StubPlaces ==
  ASSUME Chosen
  PROVE  /\ stub \in Addresses /\ Plus(stub, 0) = stub
         /\ \A a \in {stub, Plus(stub, 4), Plus(stub, 8)} : a # F /\ a # Thunk /\ Covered(Hooked, a)
         /\ Cell(Hooked, stub) = Insn(LdrX16(3)) /\ Cell(Hooked, Plus(stub, 4)) = Insn(LdrX17(4))
         /\ Cell(Hooked, Plus(stub, 8)) = Insn(BrX17)
         /\ Covered(Hooked, Plus(stub, 12)) /\ Cell(Hooked, Plus(stub, 12)) = Data(AddrV(Trampoline), 0)
         /\ Covered(Hooked, Plus(stub, 20)) /\ Cell(Hooked, Plus(stub, 20)) = Data(AddrV(Thunk), 0)
<1>1. stub \in Addresses
  BY ChosenWindow
<1>2. Plus(stub, 0) = stub
  BY <1>1, PlusZero
<1>3. /\ 4 * (1 - 1) = 0 /\ 4 * (2 - 1) = 4 /\ 4 * (3 - 1) = 8 /\ 4 * (4 - 1) = 12 /\ 4 * (6 - 1) = 20
      /\ 1 \in 1 .. 7 /\ 2 \in 1 .. 7 /\ 3 \in 1 .. 7 /\ 4 \in 1 .. 7 /\ 6 \in 1 .. 7
  OBVIOUS
<1>4. \A k \in 1 .. 7 :
        /\ Covered(Hooked, Plus(stub, 4 * (k - 1)))
        /\ Cell(Hooked, Plus(stub, 4 * (k - 1))) = BuildStub.cells[k]
        /\ Plus(stub, 4 * (k - 1)) # F /\ Plus(stub, 4 * (k - 1)) # Thunk
  BY InStub
<1>. DEFINE c == BuildStub.cells
<1>5. /\ c[1] = Insn(LdrX16(3)) /\ c[2] = Insn(LdrX17(4)) /\ c[3] = Insn(BrX17)
      /\ c[4] = Data(AddrV(Trampoline), 0) /\ c[6] = Data(AddrV(Thunk), 0)
  BY StubCells
<1>. HIDE DEF c
<1>6. \A k \in 1 .. 7 : Cell(Hooked, Plus(stub, 4 * (k - 1))) = c[k]
  BY <1>4 DEF c
<1>7. /\ Covered(Hooked, Plus(stub, 0)) /\ Plus(stub, 0) # F /\ Plus(stub, 0) # Thunk
      /\ Covered(Hooked, Plus(stub, 4)) /\ Plus(stub, 4) # F /\ Plus(stub, 4) # Thunk
      /\ Covered(Hooked, Plus(stub, 8)) /\ Plus(stub, 8) # F /\ Plus(stub, 8) # Thunk
      /\ Covered(Hooked, Plus(stub, 12)) /\ Covered(Hooked, Plus(stub, 20))
  BY <1>3, <1>4
<1>8. /\ Cell(Hooked, Plus(stub, 0)) = c[1] /\ Cell(Hooked, Plus(stub, 4)) = c[2]
      /\ Cell(Hooked, Plus(stub, 8)) = c[3] /\ Cell(Hooked, Plus(stub, 12)) = c[4]
      /\ Cell(Hooked, Plus(stub, 20)) = c[6]
  BY <1>3, <1>6
<1>. QED  BY <1>1, <1>2, <1>5, <1>7, <1>8

LEMMA StubOffsets ==
  ASSUME Chosen
  PROVE  /\ Plus(Plus(stub, 4), 4) = Plus(stub, 8) /\ Plus(Plus(stub, 4), 16) = Plus(stub, 20)
<1>1. stub \in Addresses /\ 4 \in Int /\ 16 \in Int /\ 4 + 4 = 8 /\ 4 + 16 = 20
  BY ChosenWindow
<1>. QED  BY <1>1, PlusPlus

LEMMA AtStub ==
  ASSUME Chosen, NEW m, m = Core(F), NEW n, Agree(m, n), n.pc = stub, n.steps \in 1 .. 2
  PROVE  Entering(m, NewStep(n))
<1>. DEFINE b == NewStep(n)
            v == LdrX16(3)
<1>1. n.steps \in 0 .. 20 /\ n.steps + 1 \in 1 .. 3
  BY WayRange, Zenon
<1>2. v = Word(88, 32 * 3 + 16) /\ 16 \in Linker /\ 3 \in 2 .. 4 /\ 4 * 3 = 12
  BY DEF LdrX16, Linker
<1>. HIDE DEF b, v
<1>3. /\ n.pc # F /\ n.pc # Thunk /\ Covered(Hooked, n.pc) /\ Cell(Hooked, n.pc) = Insn(v)
      /\ Covered(Hooked, Plus(n.pc, 12)) /\ Cell(Hooked, Plus(n.pc, 12)) = Data(AddrV(Trampoline), 0)
  BY StubPlaces DEF v
<1>4. /\ Cell(Hooked, n.pc) = Insn(Word(88, 32 * 3 + 16)) /\ Covered(Hooked, Plus(n.pc, 4 * 3))
      /\ Cell(Hooked, Plus(n.pc, 4 * 3)) = Data(AddrV(Trampoline), 0)
  BY <1>2, <1>3
<1>5. Loaded(m, n, b, 16, Trampoline)
  BY <1>1, <1>2, <1>3, <1>4, WayLoads DEF b
<1>6. Agree(m, b) /\ b.pc = Plus(stub, 4) /\ b.steps \in 1 .. 3
  BY <1>1, <1>5 DEF Loaded
<1>. QED  BY <1>6 DEF Entering, b

LEMMA AtStub4 ==
  ASSUME Chosen, NEW m, m = Core(F), NEW n, Agree(m, n), n.pc = Plus(stub, 4), n.steps \in 1 .. 3
  PROVE  Entering(m, NewStep(n))
<1>. DEFINE b == NewStep(n)
            v == LdrX17(4)
<1>1. n.steps \in 0 .. 20 /\ n.steps + 1 \in 1 .. 4
  BY WayRange, Zenon
<1>2. v = Word(88, 32 * 4 + 17) /\ 17 \in Linker /\ 4 \in 2 .. 4 /\ 4 * 4 = 16
  BY DEF LdrX17, Linker
<1>. HIDE DEF b, v
<1>3. /\ n.pc # F /\ n.pc # Thunk /\ Covered(Hooked, n.pc) /\ Cell(Hooked, n.pc) = Insn(v)
      /\ Covered(Hooked, Plus(n.pc, 16)) /\ Cell(Hooked, Plus(n.pc, 16)) = Data(AddrV(Thunk), 0)
  BY StubPlaces, StubOffsets DEF v
<1>4. /\ Cell(Hooked, n.pc) = Insn(Word(88, 32 * 4 + 17)) /\ Covered(Hooked, Plus(n.pc, 4 * 4))
      /\ Cell(Hooked, Plus(n.pc, 4 * 4)) = Data(AddrV(Thunk), 0)
  BY <1>2, <1>3
<1>5. Loaded(m, n, b, 17, Thunk)
  BY <1>1, <1>2, <1>3, <1>4, WayLoads DEF b
<1>6. /\ Agree(m, b) /\ b.pc = Plus(stub, 8) /\ b.steps \in 1 .. 4
      /\ 17 \in DOMAIN b.x /\ b.x[17] = AddrV(Thunk)
  BY <1>1, <1>5, StubOffsets DEF Loaded
<1>. QED  BY <1>6 DEF Entering, b

LEMMA AtStub8 ==
  ASSUME Chosen, NEW m, m = Core(F), NEW n, Agree(m, n), n.pc = Plus(stub, 8), n.steps \in 1 .. 4,
         17 \in DOMAIN n.x, n.x[17] = AddrV(Thunk)
  PROVE  Entering(m, NewStep(n))
<1>. DEFINE b == NewStep(n)
<1>1. n.steps \in 0 .. 20 /\ n.steps + 1 \in 1 .. 5
  BY WayRange, Zenon
<1>. HIDE DEF b
<1>2. n.pc # F /\ n.pc # Thunk /\ Covered(Hooked, n.pc) /\ Cell(Hooked, n.pc) = Insn(BrX17)
  BY StubPlaces
<1>3. 17 \in Linker /\ Cell(Hooked, n.pc) = Insn(BrTo(17))
  BY <1>2, Br16 DEF Linker
<1>4. Gone(m, n, b, Thunk)
  BY <1>1, <1>2, <1>3, WayBranches DEF b
<1>5. Agree(m, b) /\ b.pc = Thunk /\ b.steps \in 1 .. 5
  BY <1>1, <1>4 DEF Gone
<1>. QED  BY <1>5 DEF Entering, b

-----------------------------------------------------------------------------
(* From the entry: the jump or the branch, the stub, the thunk.            *)

Scratch == IF builder = "engine" THEN 16 ELSE 17

LEMMA ScratchLinker == Scratch \in Linker
BY DEF Scratch, Linker

LEMMA JumpPlaces ==
  ASSUME Chosen
  PROVE  /\ F # Thunk /\ Covered(Hooked, F)
         /\ StolenLen = 1 => /\ Cell(Hooked, F) = Insn(MakeBranch26(F, stub))
                             /\ CanBranch26(F, stub)
         /\ StolenLen = 4 =>
              /\ Plus(F, 4) # F /\ Plus(F, 4) # Thunk /\ Covered(Hooked, Plus(F, 4))
              /\ Cell(Hooked, F) = Insn(Word(88, 64 + Scratch))
              /\ Cell(Hooked, Plus(F, 4)) = Insn(BrTo(Scratch))
              /\ Covered(Hooked, Plus(F, 8)) /\ Cell(Hooked, Plus(F, 8)) = Data(AddrV(stub), 0)
<1>1. F \in Addresses /\ StolenLen \in {1, 4}
  BY ChosenWindow
<1>2. Plus(F, 0) = F
  BY <1>1, PlusZero
<1>3. 4 * (1 - 1) = 0 /\ 4 * (2 - 1) = 4 /\ 4 * (3 - 1) = 8
  OBVIOUS
<1>4. \A k \in 1 .. StolenLen :
        /\ Covered(Hooked, Plus(F, 4 * (k - 1)))
        /\ Cell(Hooked, Plus(F, 4 * (k - 1))) = OverwriteWithJump.cells[k]
        /\ Plus(F, 4 * (k - 1)) # Thunk
  BY InJump
<1>. DEFINE c == OverwriteWithJump.cells
<1>5. /\ StolenLen = 1 => CanBranch26(F, stub) /\ c[1] = Insn(MakeBranch26(F, stub))
      /\ StolenLen = 4 =>
           /\ c[1] = Insn(Word(88, 64 + Scratch)) /\ c[2] = Insn(Word(214, 2031616 + 32 * Scratch))
           /\ c[3] = Data(AddrV(stub), 0)
  BY JumpCells DEF Scratch
<1>. HIDE DEF c
<1>6. \A k \in 1 .. StolenLen : Cell(Hooked, Plus(F, 4 * (k - 1))) = c[k]
  BY <1>4 DEF c
<1>7. F # Thunk /\ Covered(Hooked, F) /\ Cell(Hooked, F) = c[1]
  <2>1. 1 \in 1 .. StolenLen
    BY <1>1
  <2>. QED  BY <1>2, <1>3, <1>4, <1>6, <2>1
<1>8. ASSUME StolenLen = 4
      PROVE  /\ Plus(F, 4) # F /\ Plus(F, 4) # Thunk /\ Covered(Hooked, Plus(F, 4))
             /\ Cell(Hooked, Plus(F, 4)) = c[2]
             /\ Covered(Hooked, Plus(F, 8)) /\ Cell(Hooked, Plus(F, 8)) = c[3]
  <2>1. 2 \in 1 .. StolenLen /\ 3 \in 1 .. StolenLen
    BY <1>8
  <2>2. Plus(F, 4) # F
    <3>1. 0 \in Int /\ 4 \in Int /\ 0 # 4
      OBVIOUS
    <3>. QED  BY <1>1, <1>2, <3>1, PlusInjective
  <2>. QED  BY <1>3, <1>4, <1>6, <2>1, <2>2
<1>9. c[2] = Insn(Word(214, 2031616 + 32 * Scratch)) => c[2] = Insn(BrTo(Scratch))
  BY SMT DEF BrTo
<1>. QED  BY <1>5, <1>7, <1>8, <1>9

(* The jump: one word, or a load and a branch.                             *)
LEMMA AtJump ==
  ASSUME Chosen, NEW m, m = Core(F), NEW n, Agree(m, n), n.pc = F, n.steps = 0
  PROVE  Entering(m, NewStep(n))
<1>. DEFINE b == NewStep(n)
<1>0. StolenLen \in {1, 4} /\ F \in Addresses /\ stub \in Addresses /\ F.off % 4 = 0 /\ stub.off % 4 = 0
  BY ChosenWindow
<1>1. n.steps \in 0 .. 20 /\ n.steps + 1 = 1 /\ n.steps + 1 \in 1 .. 2
  BY WayRange, Zenon
<1>. HIDE DEF b
<1>2. n.pc # Thunk /\ Covered(Hooked, n.pc)
  BY JumpPlaces
<1>3. CASE StolenLen = 1
  <2>. DEFINE v == MakeBranch26(F, stub)
  <2>1. Cell(Hooked, F) = Insn(v) /\ CanBranch26(F, stub)
    BY <1>3, JumpPlaces
  <2>2. v.hi \in B /\ Target(v, F) = stub
    BY <1>0, <2>1, NearJumpLands
  <2>. HIDE DEF v
  <2>3. Tick(n).pc = F
    BY TickLater DEF Agree
  <2>4. b = Execute(Tick(n), v, Hooked, yes)
    BY <1>1, <1>2, <2>1, RunsAt DEF b
  <2>5. Execute(Tick(n), v, Hooked, yes) = Go(Tick(n), Target(v, Tick(n).pc))
    BY <2>2, ExecJump
  <2>6. b = Go(Tick(n), stub)
    BY <2>2, <2>3, <2>4, <2>5
  <2>7. Gone(m, n, b, stub)
    <3>1. Gone(m, n, Go(Tick(n), stub), stub)
      BY Going, Zenon
    <3>. QED  BY <2>6, <3>1
  <2>8. Agree(m, b) /\ b.pc = stub /\ b.steps \in 1 .. 2
    BY <1>1, <2>7 DEF Gone
  <2>. QED  BY <2>8 DEF Entering, b
<1>4. CASE StolenLen = 4
  <2>. DEFINE r == Scratch
  <2>1. r \in Linker
    BY ScratchLinker
  <2>. HIDE DEF r
  <2>2. 2 \in 2 .. 4 /\ 4 * 2 = 8 /\ 32 * 2 + r = 64 + r
    BY <2>1 DEF Linker
  <2>3. /\ Cell(Hooked, n.pc) = Insn(Word(88, 64 + r))
        /\ Covered(Hooked, Plus(n.pc, 8)) /\ Cell(Hooked, Plus(n.pc, 8)) = Data(AddrV(stub), 0)
    BY <1>4, JumpPlaces DEF r
  <2>4. /\ Cell(Hooked, n.pc) = Insn(Word(88, 32 * 2 + r))
        /\ Covered(Hooked, Plus(n.pc, 4 * 2)) /\ Cell(Hooked, Plus(n.pc, 4 * 2)) = Data(AddrV(stub), 0)
    BY <2>2, <2>3
  <2>5. Loaded(m, n, b, r, stub)
    BY <1>1, <1>2, <2>1, <2>2, <2>4, WayLoads DEF b
  <2>6. Agree(m, b) /\ b.pc = Plus(F, 4) /\ b.steps = 1 /\ r \in DOMAIN b.x /\ b.x[r] = AddrV(stub)
    BY <1>1, <2>5 DEF Loaded
  <2>. QED  BY <1>4, <2>6 DEF Entering, b, r, Scratch
<1>. QED  BY <1>0, <1>3, <1>4

LEMMA AtJump4 ==
  ASSUME Chosen, NEW m, m = Core(F), NEW n, Agree(m, n), n.pc = Plus(F, 4), n.steps = 1,
         StolenLen = 4, Scratch \in DOMAIN n.x, n.x[Scratch] = AddrV(stub)
  PROVE  Entering(m, NewStep(n))
<1>. DEFINE b == NewStep(n)
            r == Scratch
<1>1. n.steps \in 0 .. 20 /\ n.steps + 1 \in 1 .. 2
  BY WayRange, Zenon
<1>2. /\ n.pc # F /\ n.pc # Thunk /\ Covered(Hooked, n.pc) /\ Cell(Hooked, n.pc) = Insn(BrTo(r))
      /\ r \in Linker
  BY JumpPlaces, ScratchLinker
<1>. HIDE DEF b, r
<1>3. r \in DOMAIN n.x /\ n.x[r] = AddrV(stub)
  BY DEF r
<1>4. Gone(m, n, b, stub)
  BY <1>1, <1>2, <1>3, WayBranches DEF b
<1>5. Agree(m, b) /\ b.pc = stub /\ b.steps \in 1 .. 2
  BY <1>1, <1>4 DEF Gone
<1>. QED  BY <1>5 DEF Entering, b

LEMMA CoreHas ==
  ASSUME NEW pc
  PROVE  LET m == Core(pc) IN
         /\ IsCore(m) /\ m.pc = pc /\ m.steps = 0 /\ m.end = "" /\ DOMAIN m.x = {}
BY DEF Core, IsCore

(* The thunk puts the trampoline in x16 and goes there.                    *)
LEMMA AtThunk ==
  ASSUME Chosen, NEW m, m = Core(F), NEW n, Agree(m, n), n.pc = Thunk, n.steps \in 1 .. 5
  PROVE  AtStart(m, NewStep(n), 0)
<1>. DEFINE b == NewStep(n)
            p == Set(n, 16, AddrV(Trampoline))
<1>1. b = Go(p, Trampoline)
  BY DEF NewStep
<1>2. IsCore(n)
  BY DEF Agree
<1>3. Wrote(n, p, 16, AddrV(Trampoline))
  BY <1>2, SetWrote
<1>. HIDE DEF b, p
<1>4. Agree(m, p) /\ p.steps = n.steps
  <2>1. 16 \in Linker
    BY DEF Linker
  <2>2. Agree(m, p)
    BY <1>3, <2>1, AgreeScratch, Zenon
  <2>. QED  BY <1>3, <2>2 DEF Wrote
<1>5. Alike(p, b) /\ b.pc = Trampoline /\ b.steps = p.steps
  <2>1. IsCore(p)
    BY <1>3 DEF Wrote
  <2>. QED  BY <1>1, <2>1, GoElsewhere
<1>6. IsCore(m) /\ m.pc = F /\ m.steps = 0 /\ m.end = "" /\ DOMAIN m.x = {}
  BY CoreHas
<1>7. Agree(m, b)
  <2>1. Alike(m, m)
    BY <1>6 DEF Alike
  <2>. QED  BY <1>4, <1>5, <2>1, AgreeAlike, Zenon
<1>8. Carries(m, b)
  BY <1>6 DEF Carries
<1>9. Past(m, 0)
  BY DEF Past
<1>10. Plus(F, 4 * 0) = F /\ Place(Start(0) + 1) = Trampoline /\ 0 \in 0 .. StolenLen
  <2>1. F \in Addresses /\ Trampoline \in Addresses /\ window \in [1 .. 4 -> Words] /\ StolenLen \in {1, 4}
    BY ChosenWindow
  <2>2. Start(0) = 0 /\ 4 * 0 = 0 /\ 4 * ((0 + 1) - 1) = 0
    BY <2>1, Starts
  <2>3. Plus(F, 0) = F /\ Plus(Trampoline, 0) = Trampoline
    BY <2>1, PlusZero
  <2>4. 0 \in 0 .. StolenLen
    BY <2>1
  <2>. QED  BY <2>2, <2>3, <2>4 DEF Place
<1>11. OnLine(m, b, 0)
  BY <1>6, <1>7, <1>8, <1>9, <1>10 DEF OnLine
<1>12. b.steps \in 0 .. 5 + 2 * 0
  <2>1. b.steps \in 0 .. 5
    BY <1>4, <1>5, WayRange, Zenon
  <2>2. 5 + 2 * 0 = 5
    OBVIOUS
  <2>. QED  BY <2>1, <2>2
<1>13. AtStart(m, b, 0)
  BY <1>5, <1>10, <1>11, <1>12 DEF AtStart
<1>. QED  BY <1>13 DEF b

(* On the way from the jump to the trampoline the other core waits.        *)
LEMMA EnteringStep ==
  ASSUME Chosen, NEW m, NEW n, Entering(m, n)
  PROVE  (Entering(m, NewStep(n)) \/ AtStart(m, NewStep(n), 0)) /\ n.end = ""
<1>1. m = Core(F) /\ Agree(m, n)
  BY DEF Entering
<1>2. n.end = ""
  BY <1>1, CoreHas DEF Agree
<1>3. CASE n.pc = F /\ n.steps = 0
  BY <1>1, <1>2, <1>3, AtJump, Zenon
<1>4. CASE /\ n.pc = Plus(F, 4) /\ StolenLen = 4 /\ n.steps = 1
           /\ LET r == IF builder = "engine" THEN 16 ELSE 17
              IN  r \in DOMAIN n.x /\ n.x[r] = AddrV(stub)
  <2>1. Scratch \in DOMAIN n.x /\ n.x[Scratch] = AddrV(stub)
    BY <1>4 DEF Scratch
  <2>. QED  BY <1>1, <1>2, <1>4, <2>1, AtJump4, Zenon
<1>5. CASE n.pc = stub /\ n.steps \in 1 .. 2
  BY <1>1, <1>2, <1>5, AtStub, Zenon
<1>6. CASE n.pc = Plus(stub, 4) /\ n.steps \in 1 .. 3
  BY <1>1, <1>2, <1>6, AtStub4, Zenon
<1>7. CASE n.pc = Plus(stub, 8) /\ n.steps \in 1 .. 4 /\ 17 \in DOMAIN n.x /\ n.x[17] = AddrV(Thunk)
  BY <1>1, <1>2, <1>7, AtStub8, Zenon
<1>8. CASE n.pc = Thunk /\ n.steps \in 1 .. 5
  BY <1>1, <1>2, <1>8, AtThunk, Zenon
<1>. QED  BY <1>3, <1>4, <1>5, <1>6, <1>7, <1>8, Zenon DEF Entering

LEMMA EndsOf ==
  ASSUME NEW n \in {1, 4}
  PROVE  0 \in 0 .. n /\ \A i \in 0 .. n : i # n => i \in 0 .. n - 1
  OBVIOUS

(* One step of the hooked run is none or one of the other.                 *)
LEMMA FollowStep ==
  ASSUME Chosen, ~OutOfReach, NEW m, NEW n, Follows(m, n), n.end = ""
  PROVE  \/ Follows(m, NewStep(n))
         \/ m.end = "" /\ Follows(OldStep(m), NewStep(n))
<1>0. 0 \in 0 .. StolenLen
  BY ChosenWindow, EndsOf, Zenon
<1>1. CASE Entering(m, n)
  BY <1>0, <1>1, EnteringStep, Zenon DEF Follows
<1>2. CASE Jumping(m, n)
  BY <1>2, JumpingStep, Zenon DEF Follows
<1>3. CASE Branching(m, n)
  BY <1>3, BranchingStep, Zenon DEF Follows
<1>4. CASE Out(m, n)
  BY <1>4, OutStep, Zenon DEF Follows
<1>5. ASSUME NEW i \in 0 .. StolenLen, Skipping(m, n, i)
      PROVE  Follows(m, NewStep(n))
  BY <1>5, SkippingStep, Zenon DEF Follows
<1>6. ASSUME NEW i \in 0 .. StolenLen, AtStart(m, n, i)
      PROVE  \/ Follows(m, NewStep(n))
             \/ m.end = "" /\ Follows(OldStep(m), NewStep(n))
  <2>1. CASE i = StolenLen
    BY <1>6, <2>1, EndStep, Zenon DEF Follows
  <2>2. CASE i # StolenLen
    <3>1. i \in 0 .. StolenLen - 1
      BY <2>2, ChosenWindow, EndsOf, Zenon
    <3>. QED  BY <1>6, <3>1, StartStep, Zenon
  <2>. QED  BY <2>1, <2>2
<1>. QED  BY <1>1, <1>2, <1>3, <1>4, <1>5, <1>6, Zenon DEF Follows

-----------------------------------------------------------------------------
(* The choices of a behaviour stay, and with them all that is made of them. *)

LEMMA KeptWords ==
  ASSUME UNCHANGED chosen
  PROVE  /\ builder' = builder /\ window' = window /\ stub' = stub /\ yes' = yes
         /\ StolenLen' = StolenLen /\ Stolen' = Stolen /\ Moved' = Moved
<1>1. builder' = builder /\ window' = window /\ stub' = stub /\ yes' = yes
  BY DEF chosen
<1>2. StolenLen' = StolenLen
  BY <1>1 DEF StolenLen
<1>3. Stolen' = Stolen
  BY <1>1, <1>2 DEF Stolen
<1>4. Moved' = Moved
  BY <1>1, <1>3 DEF Moved
<1>. QED  BY <1>1, <1>2, <1>3, <1>4

LEMMA KeptCode ==
  ASSUME UNCHANGED chosen
  PROVE  /\ Untouched' = Untouched /\ Hooked' = Hooked /\ Code' = Code
         /\ (OutOfReach' <=> OutOfReach) /\ (Chosen' <=> Chosen)
<1>1. /\ builder' = builder /\ window' = window /\ stub' = stub /\ yes' = yes
      /\ StolenLen' = StolenLen /\ Stolen' = Stolen /\ Moved' = Moved
  BY KeptWords
<1>2. Untouched' = Untouched
  BY <1>1 DEF Untouched
<1>3. BranchBack' = BranchBack
  BY <1>1 DEF BranchBack
<1>4. BuildTrampoline' = BuildTrampoline
  BY <1>1, <1>3 DEF BuildTrampoline
<1>5. BuildStub' = BuildStub
  BY <1>1 DEF BuildStub
<1>6. OverwriteWithJump' = OverwriteWithJump
  BY <1>1 DEF OverwriteWithJump
<1>7. Hooked' = Hooked
  BY <1>4, <1>5, <1>6 DEF Hooked
<1>8. Code' = Code
  BY <1>4 DEF Code
<1>9. ASSUME NEW a PROVE Inside(a)' <=> Inside(a)
  BY <1>1 DEF Inside
<1>10. BranchesInside' <=> BranchesInside
  BY <1>1, <1>9, Zenon DEF BranchesInside
<1>11. PointsInside' <=> PointsInside
  BY <1>1, <1>9, Zenon DEF PointsInside
<1>12. (LinksInside' <=> LinksInside) /\ (NoOpposite' <=> NoOpposite) /\ (WideLiteral' <=> WideLiteral)
  BY <1>1, Zenon DEF LinksInside, NoOpposite, WideLiteral
<1>13. ReadsScratch' <=> ReadsScratch
  BY <1>1, Zenon DEF ReadsScratch
<1>14. OutOfReach' <=> OutOfReach
  BY <1>10, <1>11, <1>12, <1>13, Zenon DEF OutOfReach
<1>15. Chosen' <=> Chosen
  BY <1>1 DEF Chosen
<1>. QED  BY <1>2, <1>7, <1>8, <1>14, <1>15

LEMMA KeptFree ==
  ASSUME UNCHANGED chosen, NEW a
  PROVE  Free(a)' <=> Free(a)
<1>1. StolenLen' = StolenLen
  BY KeptWords
<1>2. Inside(a)' <=> Inside(a)
  BY <1>1 DEF Inside
<1>. QED  BY <1>2 DEF Free

LEMMA KeptStart ==
  ASSUME UNCHANGED chosen, NEW i
  PROVE  Start(i)' = Start(i)
<1>1. Moved' = Moved
  BY KeptWords
<1>. QED  BY <1>1 DEF Start

LEMMA KeptAgree ==
  ASSUME UNCHANGED chosen, NEW m, NEW n
  PROVE  Agree(m, n)' <=> Agree(m, n)
<1>1. \A a : Free(a)' <=> Free(a)
  BY KeptFree
<1>. QED  BY <1>1, Zenon DEF Agree

LEMMA KeptPast ==
  ASSUME UNCHANGED chosen, NEW m, NEW i
  PROVE  Past(m, i)' <=> Past(m, i)
<1>1. Stolen' = Stolen
  BY KeptWords
<1>. QED  BY <1>1, Zenon DEF Past

LEMMA KeptLine ==
  ASSUME UNCHANGED chosen, NEW m, NEW n, NEW i
  PROVE  /\ OnLine(m, n, i)' <=> OnLine(m, n, i)
         /\ AtStart(m, n, i)' <=> AtStart(m, n, i)
         /\ Skipping(m, n, i)' <=> Skipping(m, n, i)
<1>1. StolenLen' = StolenLen /\ Code' = Code
  BY KeptWords, KeptCode
<1>2. (Agree(m, n)' <=> Agree(m, n)) /\ (Past(m, i)' <=> Past(m, i)) /\ Start(i)' = Start(i)
  BY KeptAgree, KeptPast, KeptStart
<1>3. OnLine(m, n, i)' <=> OnLine(m, n, i)
  BY <1>1, <1>2 DEF OnLine
<1>4. AtStart(m, n, i)' <=> AtStart(m, n, i)
  BY <1>2, <1>3 DEF AtStart
<1>5. Skipping(m, n, i)' <=> Skipping(m, n, i)
  BY <1>1, <1>2, <1>3 DEF Skipping
<1>. QED  BY <1>3, <1>4, <1>5

LEMMA KeptAway ==
  ASSUME UNCHANGED chosen, NEW m, NEW n
  PROVE  /\ Jumping(m, n)' <=> Jumping(m, n)
         /\ Branching(m, n)' <=> Branching(m, n)
         /\ Out(m, n)' <=> Out(m, n)
         /\ Entering(m, n)' <=> Entering(m, n)
<1>1. /\ Code' = Code /\ StolenLen' = StolenLen /\ builder' = builder /\ stub' = stub
  BY KeptWords, KeptCode
<1>2. (Agree(m, n)' <=> Agree(m, n)) /\ (Free(m.pc)' <=> Free(m.pc))
  BY KeptAgree, KeptFree
<1>3. Away(m, n)' <=> Away(m, n)
  BY <1>2 DEF Away
<1>4. Jumping(m, n)' <=> Jumping(m, n)
  BY <1>1, <1>3, Zenon DEF Jumping
<1>5. Branching(m, n)' <=> Branching(m, n)
  BY <1>1, <1>3, Zenon DEF Branching
<1>6. Out(m, n)' <=> Out(m, n)
  BY <1>2 DEF Out
<1>7. Entering(m, n)' <=> Entering(m, n)
  BY <1>1, <1>2, Zenon DEF Entering
<1>. QED  BY <1>4, <1>5, <1>6, <1>7

LEMMA KeptFollows ==
  ASSUME UNCHANGED chosen, NEW m, NEW n
  PROVE  Follows(m, n)' <=> Follows(m, n)
<1>1. StolenLen' = StolenLen
  BY KeptWords
<1>2. \A i : (AtStart(m, n, i)' <=> AtStart(m, n, i)) /\ (Skipping(m, n, i)' <=> Skipping(m, n, i))
  BY KeptLine
<1>3. /\ Jumping(m, n)' <=> Jumping(m, n)
      /\ Branching(m, n)' <=> Branching(m, n)
      /\ Out(m, n)' <=> Out(m, n)
      /\ Entering(m, n)' <=> Entering(m, n)
  BY KeptAway
<1>. QED  BY <1>1, <1>2, <1>3, Zenon DEF Follows

-----------------------------------------------------------------------------
(* The run of the prologue as it was, as a way to its end.                 *)

LEMMA LeadsHere ==
  ASSUME NEW own, NEW b, NEW m
  PROVE  Leads(own, b, m, m)
BY DEF Leads

LEMMA LeadsFurther ==
  ASSUME NEW own, NEW b, NEW m, NEW n, Leads(own, b, m, n), n.end = ""
  PROVE  Leads(own, b, m, Step(n, {own}, F, MaxSteps, b))
BY DEF Leads, Closed

LEMMA LeadsNext ==
  ASSUME NEW own, NEW b, NEW m, NEW n, Leads(own, b, m, n), m.end = "", n.end # ""
  PROVE  Leads(own, b, Step(m, {own}, F, MaxSteps, b), n)
<1>. DEFINE o == Step(m, {own}, F, MaxSteps, b)
<1>. SUFFICES ASSUME NEW cores, o \in cores, Closed(own, b, cores) PROVE n \in cores
  BY DEF Leads
<1>1. Closed(own, b, cores \cup {m})
  BY DEF Closed
<1>2. n \in cores \cup {m}
  BY <1>1 DEF Leads
<1>3. n # m
  OBVIOUS
<1>. QED  BY <1>2, <1>3

LEMMA LeadsEnd ==
  ASSUME NEW own, NEW b, NEW m, NEW n, Leads(own, b, m, n), m.end # ""
  PROVE  n = m
<1>1. Closed(own, b, {m})
  BY DEF Closed
<1>2. n \in {m}
  BY <1>1 DEF Leads
<1>. QED  BY <1>2

-----------------------------------------------------------------------------
(* The hooked run is where the other was, or ahead of it within what       *)
(* became of one word; at its end, both are.                               *)
SameInv ==
  /\ RelocatorInv /\ Chosen
  /\ phase \in {"original", "install"} => Leads(Untouched, yes, Core(F), org) /\ new = Core(F)
  /\ (phase = "original") <=> (org.end = "")
  /\ phase \in {"hooked", "done"} => mem = Hooked
  /\ phase = "hooked" => new.end = ""
  /\ phase = "done" => new.end # ""
  /\ phase \in {"hooked", "done"} /\ ~OutOfReach =>
       \E m : Leads(Untouched, yes, m, org) /\ Follows(m, new)

LEMMA InitSame == Init => SameInv
<1>. SUFFICES ASSUME Init PROVE SameInv
  OBVIOUS
<1>1. RelocatorInv
  BY InitInv
<1>2. Chosen
  <2>1. Stubs # {}
    BY LayoutAssumption
  <2>2. (CHOOSE s \in Stubs : TRUE) \in Stubs
    BY <2>1
  <2>. QED  BY <2>2 DEF Init, Chosen
<1>3. phase = "original" /\ org = Core(F) /\ new = Core(F) /\ org.end = ""
  BY CoreHas DEF Init
<1>4. Leads(Untouched, yes, Core(F), org)
  BY <1>3, LeadsHere
<1>. QED  BY <1>1, <1>2, <1>3, <1>4 DEF SameInv

LEMMA Enters ==
  ASSUME Chosen
  PROVE  Follows(Core(F), Core(F))
<1>. DEFINE m == Core(F)
<1>1. IsCore(m) /\ m.pc = F /\ m.steps = 0 /\ DOMAIN m.x = {}
  BY CoreHas
<1>. HIDE DEF m
<1>2. Agree(m, m)
  BY <1>1 DEF Agree
<1>3. m = Core(F)
  BY DEF m
<1>4. Entering(m, m)
  BY <1>1, <1>2, <1>3 DEF Entering
<1>5. Follows(m, m)
  BY <1>4 DEF Follows
<1>. QED  BY <1>5 DEF m

-----------------------------------------------------------------------------
(* Every action preserves SameInv.                                         *)

LEMMA OriginalSame ==
  ASSUME SameInv, RelocatorInv', RunOriginal
  PROVE  SameInv'
<1>1. phase = "original" /\ UNCHANGED chosen /\ new' = new
  BY DEF RunOriginal
<1>2. org' = Step(org, {Untouched}, F, MaxSteps, yes)
  BY DEF RunOriginal
<1>3. phase' = IF org'.end = "" THEN "original" ELSE "install"
  BY DEF RunOriginal
<1>4. Untouched' = Untouched /\ yes' = yes /\ Chosen'
  BY <1>1, KeptWords, KeptCode DEF SameInv
<1>5. Leads(Untouched, yes, Core(F), org) /\ org.end = "" /\ new = Core(F)
  BY <1>1 DEF SameInv
<1>6. Leads(Untouched, yes, Core(F), org')
  BY <1>2, <1>5, LeadsFurther
<1>7. Leads(Untouched, yes, Core(F), org)' /\ new' = Core(F)
  BY <1>1, <1>4, <1>5, <1>6
<1>. QED  BY <1>3, <1>4, <1>7 DEF SameInv

LEMMA InstallSame ==
  ASSUME SameInv, RelocatorInv', Install
  PROVE  SameInv'
<1>1. phase = "install" /\ UNCHANGED chosen /\ new' = new /\ org' = org
  BY DEF Install
<1>2. phase' = "hooked" /\ mem' = Hooked
  BY DEF Install, RelocatorInv, Hooked
<1>3. /\ Untouched' = Untouched /\ yes' = yes /\ Chosen' /\ Hooked' = Hooked
      /\ (OutOfReach' <=> OutOfReach)
  BY <1>1, KeptWords, KeptCode DEF SameInv
<1>4. Leads(Untouched, yes, Core(F), org) /\ org.end # "" /\ new = Core(F) /\ Chosen
  BY <1>1 DEF SameInv
<1>5. new.end = ""
  BY <1>4, CoreHas
<1>6. Follows(Core(F), Core(F))
  BY <1>4, Enters
<1>. DEFINE P(m, o, n) == Leads(Untouched, yes, m, o) /\ Follows(m, n)
<1>7. \A m, o, n : P(m, o, n)' <=> P(m, o, n)
  BY <1>1, <1>3, KeptFollows
<1>8. P(Core(F), org, new)
  BY <1>4, <1>6
<1>9. \E m : P(m, org, new)'
  BY <1>1, <1>7, <1>8
<1>. QED  BY <1>1, <1>2, <1>3, <1>4, <1>5, <1>9 DEF SameInv

-----------------------------------------------------------------------------
LEMMA HookedSame ==
  ASSUME SameInv, RelocatorInv', RunHooked
  PROVE  SameInv'
<1>1. phase = "hooked" /\ UNCHANGED chosen /\ org' = org /\ mem' = mem
  BY DEF RunHooked
<1>2. phase' = IF new'.end = "" THEN "hooked" ELSE "done"
  BY DEF RunHooked
<1>3. /\ Untouched' = Untouched /\ yes' = yes /\ Chosen' /\ Hooked' = Hooked
      /\ (OutOfReach' <=> OutOfReach)
  BY <1>1, KeptWords, KeptCode DEF SameInv
<1>4. mem = Hooked /\ org.end # "" /\ new.end = "" /\ Chosen
  BY <1>1 DEF SameInv
<1>5. new' = NewStep(new)
  BY <1>4 DEF RunHooked, RunThunk, NewStep
<1>. DEFINE P(m, o, n) == Leads(Untouched, yes, m, o) /\ Follows(m, n)
<1>6. \A m, o, n : P(m, o, n)' <=> P(m, o, n)
  BY <1>1, <1>3, KeptFollows
<1>7. ASSUME ~OutOfReach PROVE \E m : P(m, org, new')
  <2>1. PICK m : Leads(Untouched, yes, m, org) /\ Follows(m, new)
    BY <1>1, <1>7 DEF SameInv
  <2>2. CASE Follows(m, new')
    BY <2>1, <2>2
  <2>3. CASE m.end = "" /\ Follows(OldStep(m), new')
    <3>1. Leads(Untouched, yes, OldStep(m), org)
      BY <1>4, <2>1, <2>3, LeadsNext, Zenon DEF OldStep
    <3>. QED  BY <2>3, <3>1
  <2>. QED  BY <1>4, <1>5, <1>7, <2>1, <2>2, <2>3, FollowStep, Zenon
<1>8. ASSUME ~OutOfReach PROVE \E m : P(m, org, new)'
  BY <1>1, <1>6, <1>7, <1>8
<1>. QED  BY <1>1, <1>2, <1>3, <1>4, <1>8 DEF SameInv

LEMMA NextSame == SameInv /\ [Next]_vars => SameInv'
<1>. SUFFICES ASSUME SameInv, [Next]_vars PROVE SameInv'
  OBVIOUS
<1>1. RelocatorInv'
  BY NextInv DEF SameInv
<1>2. CASE RunOriginal
  BY <1>1, <1>2, OriginalSame
<1>3. CASE Install
  BY <1>1, <1>3, InstallSame
<1>4. CASE RunHooked
  BY <1>1, <1>4, HookedSame
<1>5. CASE UNCHANGED vars
  <2>1. UNCHANGED chosen /\ org' = org /\ new' = new /\ phase' = phase /\ mem' = mem
    BY <1>5 DEF vars
  <2>2. /\ Untouched' = Untouched /\ yes' = yes /\ Hooked' = Hooked
        /\ (OutOfReach' <=> OutOfReach) /\ (Chosen' <=> Chosen)
    BY <2>1, KeptWords, KeptCode
  <2>. DEFINE P(m, o, n) == Leads(Untouched, yes, m, o) /\ Follows(m, n)
              Q(o) == Leads(Untouched, yes, Core(F), o)
  <2>3. \A m, o, n : P(m, o, n)' <=> P(m, o, n)
    BY <2>1, <2>2, KeptFollows
  <2>4. \A o : Q(o)' <=> Q(o)
    BY <2>2
  <2>5. ASSUME phase \in {"hooked", "done"}, ~OutOfReach PROVE \E m : P(m, org, new)'
    BY <2>1, <2>3, <2>5 DEF SameInv
  <2>6. ASSUME phase \in {"original", "install"} PROVE Q(org)' /\ new = Core(F)
    BY <2>1, <2>4, <2>6 DEF SameInv
  <2>. QED  BY <1>1, <2>1, <2>2, <2>5, <2>6 DEF SameInv
<1>. QED  BY <1>2, <1>3, <1>4, <1>5 DEF Next, Finished

(* At the end of the hooked run both are out, in the same state.           *)
LEMMA SameEnds == SameInv => SameEffect
<1>. SUFFICES ASSUME SameInv, phase = "done", ~OutOfReach PROVE Effect(new) = Effect(org)
  BY DEF SameEffect
<1>1. PICK m : Leads(Untouched, yes, m, org) /\ Follows(m, new)
  BY DEF SameInv
<1>2. new.end # ""
  BY DEF SameInv
<1>3. Out(m, new)
  <2>1. ~Entering(m, new)
    BY <1>2, CoreHas DEF Entering, Agree
  <2>2. \A i : ~OnLine(m, new, i)
    BY <1>2 DEF OnLine, Agree
  <2>3. ~Away(m, new)
    BY <1>2 DEF Away, Agree
  <2>. QED  BY <1>1, <2>1, <2>2, <2>3, Zenon DEF Follows, AtStart, Skipping, Jumping, Branching
<1>4. Agree(m, new) /\ new.pc = m.pc /\ m.end # ""
  BY <1>2, <1>3 DEF Out, Agree
<1>5. org = m
  BY <1>1, <1>4, LeadsEnd
<1>6. \A r \in DOMAIN m.x \ {16, 17} : new.x[r] = m.x[r]
  BY <1>4 DEF Agree, Linker
<1>7. DOMAIN new.x \ {16, 17} = DOMAIN m.x \ {16, 17}
  BY <1>4 DEF Agree, Linker
<1>8. [r \in DOMAIN new.x \ {16, 17} |-> new.x[r]] = [r \in DOMAIN m.x \ {16, 17} |-> m.x[r]]
  BY <1>6, <1>7
<1>. QED  BY <1>4, <1>5, <1>8 DEF Effect, Agree

(* A hooked function does what it did: whatever the four words are, but    *)
(* for the six kinds of OutOfReach, the run through jump, stub, thunk and  *)
(* trampoline (builder.rs, manager.rs:40-66, relocator.rs, and the copies  *)
(* in compiler.rs:351-523) ends where and as the untouched one does, with  *)
(* the same log and the same registers.                                    *)
THEOREM HookedDoesTheSame == Spec => []SameEffect
<1>. QED  BY InitSame, NextSame, SameEnds, PTL DEF Spec
=============================================================================
