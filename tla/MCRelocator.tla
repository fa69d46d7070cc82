----------------------------- MODULE MCRelocator -----------------------------
(***************************************************************************)
(* Prologues for Relocator: every top byte, every class of instruction at  *)
(* both ends of its offset and in each of the four places, alone and next  *)
(* to another one that has to be moved.                                    *)
(***************************************************************************)
EXTENDS Relocator

At19(hi, imm, low) == Word(hi, (imm % 2^19) * 32 + low)

FarImm19 == {-2^18, -40, 40, 2^18 - 1}

Calls == {Word(h + ((imm % 2^26) \div 2^24), imm % 2^24) :
            h \in {20, 148}, imm \in {-2^25, -7, 40, 2^25 - 1}}

Conds == {At19(84, imm, c) : imm \in {-2^18, 2^18 - 1}, c \in {0, 1, 11, 14}}

Zeros == {At19(hi, imm, 3) : hi \in {52, 53, 180, 181}, imm \in FarImm19}

Bits == {Word(hi, b * 2^19 + (imm % 2^14) * 32 + 4) :
           hi \in {54, 55, 182, 183}, b \in {0, 31}, imm \in {-2^13, 2^13 - 1}}

Pages4K == {Word(hi + 32 * (imm % 4), ((imm % 2^21) \div 4) * 32 + 9) :
              hi \in {16, 144}, imm \in {-2^20, -1, 6, 2^20 - 1}}

Literals == {At19(hi, imm, 5) : hi \in {24, 28, 88, 92, 152, 156, 216},
                                imm \in {-2^18, 2^18 - 1}}

Others == {Ret, Word(214, 2031616 + 160), Word(169, 12345)}

(* The link register and the linker's registers as operands, and addresses *)
(* among the stolen words: what to load, to test, to take and to jump to.  *)
Adr(imm, r) == Word(16 + 32 * (imm % 4), ((imm % 2^21) \div 4) * 32 + r)
BrX(r) == Word(214, 2031616 + 32 * r)
Corners == {At19(88, 40, 30), At19(88, 1, 5), At19(24, -1, 16), At19(180, 40, 16),
            At19(180, 1, 3), At19(180, -1, 3), At19(180, 0, 3),
            Adr(400, 30), Adr(4, 11), Adr(-8, 16), BrX(16)}

Focus == Calls \cup Conds \cup Zeros \cup Bits \cup Pages4K \cup Literals \cup Others
           \cup Corners

Filler(i) == Word(145, i)

Alone == {[i \in 1 .. 4 |-> IF i = p THEN w ELSE Filler(i)] :
            w \in Focus, p \in 1 .. 4}

Second == {At19(52, 40, 7), Word(48, 2016 + 11), Ret, BrX(11), BrX(16)}

Pairs == {[i \in 1 .. 4 |-> IF i = p[1] THEN w ELSE IF i = p[2] THEN v ELSE Filler(i)] :
            w \in Focus, v \in Second, p \in {<<1, 3>>, <<4, 1>>}}

EveryByte == {[i \in 1 .. 4 |-> IF i = 1 THEN Word(hi, 74565) ELSE Filler(i)] :
                hi \in 0 .. 255}

AllWindows == Alone \cup Pairs \cup EveryByte

(* One call among the first four instructions.                             *)
CallWindows == {[i \in 1 .. 4 |-> IF i = p THEN w ELSE Filler(i)] :
                  w \in {c \in Calls : c.hi \in BL}, p \in 1 .. 4}

(* A function 32 bytes into its page; what the first try, a late one and   *)
(* the one that takes any address return, on both sides of the branch's    *)
(* reach.                                                                  *)
Function == Address(2097152, 32)
StubPages == {2097152 + 16, 2097152 - 4096, 2097152 + 32768, 2097152 - 32768}
StubPlaces == {Address(p, 0) : p \in StubPages}
HookPlace  == Address(3000000, 64)
ThunkPlace == Address(1000, 256)
=============================================================================
