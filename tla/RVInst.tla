------------------------------- MODULE RVInst -------------------------------
(***************************************************************************)
(* What one RV64 integer, multiplication or compressed instruction does to *)
(* a hart (src/cpu/riscv/inst/base.cpp, mul.cpp, compressed.cpp).          *)
(* A hart is a record s of its registers, its pc, the pc that follows, the *)
(* store it made and whether the instruction was invalid; a decoded        *)
(* instruction is a record i of the fields of DecodeInfo.  Byte is the     *)
(* number of bits of a byte, so that the widths of the code, all multiples *)
(* of it, can be small: word_t is 8 bytes, int32_t is 4.                   *)
(* Loads and stores succeed here; their faults are Translation's subject.  *)
(***************************************************************************)
EXTENDS Integers

CONSTANTS Byte,         (* 8 in the code                                    *)
          LoadByte(_)   (* the byte a load finds at an address              *)

XLEN == 8 * Byte
HALF == 4 * Byte
Words == 0 .. 2 ^ XLEN - 1

(* What the provers do not know of powers of two is stated.                 *)
ASSUME ByteAssumption ==
  /\ Byte \in Nat \ {0}
  /\ 2 ^ 0 = 1 /\ \A n \in 0 .. XLEN + 1 : 2 ^ n \in Nat /\ 2 ^ (n + 1) = 2 * 2 ^ n
  /\ \A addr \in Words : LoadByte(addr) \in 0 .. 2 ^ Byte - 1

Word(v) == v % 2 ^ XLEN

(* The value of the low n bits as a signed number, and SEXT64 and the like. *)
SignedLow(v, n) ==
  LET low == v % 2 ^ n IN IF low >= 2 ^ (n - 1) THEN low - 2 ^ n ELSE low

Sext(v, n) == Word(SignedLow(v, n))

SignedWord(v) == SignedLow(v, XLEN)

Low32(v) == v % 2 ^ HALF

Flag(b) == IF b THEN 1 ELSE 0

(* The first n terms, counted from 0, together.                             *)
Sum(term, n) ==
  LET upTo[k \in 0 .. n] == IF k = 0 THEN 0 ELSE upTo[k - 1] + term[k - 1] IN upTo[n]

Bit(v, k) == (v \div 2 ^ k) % 2
Together(bit) == Sum([k \in 0 .. XLEN - 1 |-> bit[k] * 2 ^ k], XLEN)

And(v, w) == Together([k \in 0 .. XLEN - 1 |-> Bit(v, k) * Bit(w, k)])
Or(v, w) == Together([k \in 0 .. XLEN - 1 |-> Flag(Bit(v, k) + Bit(w, k) # 0)])
Xor(v, w) == Together([k \in 0 .. XLEN - 1 |-> (Bit(v, k) + Bit(w, k)) % 2])

(* gpr[0] is x0; x0 as a destination is gpr[32], which nothing reads.       *)
SRC1(s, i) == s.gpr[i.rs1]
SRC2(s, i) == s.gpr[i.rs2]
DEST(s, i, v) == [s EXCEPT !.gpr[i.rd] = Word(v)]

(* Mutant: x0 is its own destination.                                       *)
set_frd(rd) == rd

set_rd(rd) == IF rd = 0 THEN 32 ELSE rd

(* memory_load, little endian, and memory_store of the low len bytes.       *)
memory_load(addr, len) ==
  Sum([k \in 0 .. len - 1 |-> LoadByte(Word(addr + k)) * 2 ^ (k * Byte)], len)

memory_store(s, addr, v, len) ==
  [s EXCEPT !.store = <<Word(addr), v % 2 ^ (len * Byte), len>>]

do_invalid_inst(s) == [s EXCEPT !.invalid = TRUE]

-----------------------------------------------------------------------------
(* base.cpp: register-register.                                             *)

Shamt(v) == v % XLEN
ShamtW(v) == v % HALF
ShiftLeft(v, n) == v * 2 ^ n
ShiftRight(v, n) == v \div 2 ^ n

do_add(s, i) == DEST(s, i, SRC1(s, i) + SRC2(s, i))
do_sub(s, i) == DEST(s, i, SRC1(s, i) - SRC2(s, i))
do_and(s, i) == DEST(s, i, And(SRC1(s, i), SRC2(s, i)))
do_or(s, i) == DEST(s, i, Or(SRC1(s, i), SRC2(s, i)))
do_xor(s, i) == DEST(s, i, Xor(SRC1(s, i), SRC2(s, i)))
do_sll(s, i) == DEST(s, i, ShiftLeft(SRC1(s, i), Shamt(SRC2(s, i))))
do_srl(s, i) == DEST(s, i, ShiftRight(SRC1(s, i), Shamt(SRC2(s, i))))
do_sra(s, i) == DEST(s, i, ShiftRight(SignedWord(SRC1(s, i)), Shamt(SRC2(s, i))))
do_slt(s, i) == DEST(s, i, Flag(SignedWord(SRC1(s, i)) < SignedWord(SRC2(s, i))))
do_sltu(s, i) == DEST(s, i, Flag(SRC1(s, i) < SRC2(s, i)))
do_addw(s, i) == DEST(s, i, Sext(SRC1(s, i) + SRC2(s, i), HALF))
do_subw(s, i) == DEST(s, i, Sext(SRC1(s, i) - SRC2(s, i), HALF))

(* The sign is extended before the shift.                                   *)
do_sllw(s, i) == DEST(s, i, ShiftLeft(Sext(SRC1(s, i), HALF), ShamtW(SRC2(s, i))))
do_srlw(s, i) == DEST(s, i, Sext(ShiftRight(Low32(SRC1(s, i)), ShamtW(SRC2(s, i))), HALF))
do_sraw(s, i) == DEST(s, i, ShiftRight(SignedLow(SRC1(s, i), HALF), ShamtW(SRC2(s, i))))

(* Register-immediate.                                                      *)
do_addi(s, i) == DEST(s, i, SRC1(s, i) + i.imm)
do_andi(s, i) == DEST(s, i, And(SRC1(s, i), i.imm))
do_ori(s, i) == DEST(s, i, Or(SRC1(s, i), i.imm))
do_xori(s, i) == DEST(s, i, Xor(SRC1(s, i), i.imm))
do_slli(s, i) == DEST(s, i, ShiftLeft(SRC1(s, i), i.imm))
do_srli(s, i) == DEST(s, i, ShiftRight(SRC1(s, i), i.imm))
do_srai(s, i) == DEST(s, i, ShiftRight(SignedWord(SRC1(s, i)), i.imm))
do_slti(s, i) == DEST(s, i, Flag(SignedWord(SRC1(s, i)) < SignedWord(i.imm)))
do_sltiu(s, i) == DEST(s, i, Flag(SRC1(s, i) < i.imm))
do_addiw(s, i) == DEST(s, i, Sext(SRC1(s, i) + i.imm, HALF))
do_slliw(s, i) == DEST(s, i, Sext(ShiftLeft(Low32(SRC1(s, i)), i.imm), HALF))
do_srliw(s, i) == DEST(s, i, Sext(ShiftRight(Low32(SRC1(s, i)), i.imm), HALF))
do_sraiw(s, i) == DEST(s, i, ShiftRight(SignedLow(SRC1(s, i), HALF), i.imm))

(* Loads and stores.                                                        *)
ADDR(s, i) == SRC1(s, i) + i.imm
do_lb(s, i) == DEST(s, i, Sext(memory_load(ADDR(s, i), 1), Byte))
do_lbu(s, i) == DEST(s, i, memory_load(ADDR(s, i), 1))
do_lh(s, i) == DEST(s, i, Sext(memory_load(ADDR(s, i), 2), 2 * Byte))
do_lhu(s, i) == DEST(s, i, memory_load(ADDR(s, i), 2))
do_lw(s, i) == DEST(s, i, Sext(memory_load(ADDR(s, i), 4), HALF))
do_lwu(s, i) == DEST(s, i, memory_load(ADDR(s, i), 4))
do_ld(s, i) == DEST(s, i, memory_load(ADDR(s, i), 8))
do_sb(s, i) == memory_store(s, ADDR(s, i), SRC2(s, i), 1)
do_sh(s, i) == memory_store(s, ADDR(s, i), SRC2(s, i), 2)
do_sw(s, i) == memory_store(s, ADDR(s, i), SRC2(s, i), 4)
do_sd(s, i) == memory_store(s, ADDR(s, i), SRC2(s, i), 8)

(* Branches go to the npc the decoder computed.                             *)
GoIf(s, i, taken) == IF taken THEN [s EXCEPT !.npc = i.npc] ELSE s

do_beq(s, i) == GoIf(s, i, SRC1(s, i) = SRC2(s, i))
do_bne(s, i) == GoIf(s, i, SRC1(s, i) # SRC2(s, i))
do_bge(s, i) == GoIf(s, i, SignedWord(SRC1(s, i)) >= SignedWord(SRC2(s, i)))
do_bgeu(s, i) == GoIf(s, i, SRC1(s, i) >= SRC2(s, i))
do_blt(s, i) == GoIf(s, i, SignedWord(SRC1(s, i)) < SignedWord(SRC2(s, i)))
do_bltu(s, i) == GoIf(s, i, SRC1(s, i) < SRC2(s, i))

do_jal(s, i) ==
  [DEST(s, i, s.pc + 4) EXCEPT !.npc = Word(s.pc + i.imm)]

(* Bit 0 of the target is not cleared.                                      *)
do_jalr(s, i) ==
  [DEST(s, i, s.pc + 4) EXCEPT !.npc = Word(ADDR(s, i))]

(* The decoder has added the pc to the immediate of auipc.                  *)
do_lui(s, i) == DEST(s, i, i.imm)
do_auipc(s, i) == DEST(s, i, i.imm)

-----------------------------------------------------------------------------
(* mul.cpp.  C++ divides toward zero.                                       *)

Magnitude(v) == IF v < 0 THEN -v ELSE v

(* Mutant: the quotient is rounded down.                                    *)
FloorQuotient(a, b) == IF b < 0 THEN (-a) \div (-b) ELSE a \div b

Quotient(a, b) ==
  LET q == Magnitude(a) \div Magnitude(b)
  IN  IF (a < 0) = (b < 0) THEN q ELSE -q

Remainder(a, b) == a - b * Quotient(a, b)

HighHalf(v) == v \div 2 ^ XLEN

do_mul(s, i) == DEST(s, i, SRC1(s, i) * SRC2(s, i))
do_mulh(s, i) == DEST(s, i, HighHalf(SignedWord(SRC1(s, i)) * SignedWord(SRC2(s, i))))

(* (sdword_t) of an unsigned word is that word: both are unsigned.          *)
do_mulhsu(s, i) == DEST(s, i, HighHalf(SRC1(s, i) * SRC2(s, i)))
do_mulhu(s, i) == DEST(s, i, HighHalf(SRC1(s, i) * SRC2(s, i)))

(* Every division tests all of SRC2, also those of the low 32 bits: not     *)
(* zero there and zero in the low half is a division by zero of the host.   *)
Unless0(s, i, zero, value) == DEST(s, i, IF SRC2(s, i) = 0 THEN zero ELSE value)

do_div(s, i) ==
  Unless0(s, i, -1, Quotient(SignedWord(SRC1(s, i)), SignedWord(SRC2(s, i))))
do_divu(s, i) == Unless0(s, i, -1, SRC1(s, i) \div SRC2(s, i))
do_rem(s, i) ==
  Unless0(s, i, SRC1(s, i), Remainder(SignedWord(SRC1(s, i)), SignedWord(SRC2(s, i))))
do_remu(s, i) == Unless0(s, i, SRC1(s, i), SRC1(s, i) % SRC2(s, i))
do_mulw(s, i) == DEST(s, i, Sext(SignedLow(SRC1(s, i), HALF) * SignedLow(SRC2(s, i), HALF), HALF))
do_divw(s, i) ==
  Unless0(s, i, -1, Sext(Quotient(SignedLow(SRC1(s, i), HALF), SignedLow(SRC2(s, i), HALF)), HALF))

(* The quotient is not sign-extended.                                       *)
do_divuw(s, i) == Unless0(s, i, -1, Low32(SRC1(s, i)) \div Low32(SRC2(s, i)))
do_remw(s, i) ==
  Unless0(s, i, SRC1(s, i), Remainder(SignedLow(SRC1(s, i), HALF), SignedLow(SRC2(s, i), HALF)))
do_remuw(s, i) ==
  Unless0(s, i, SRC1(s, i), Sext(Low32(SRC1(s, i)) % Low32(SRC2(s, i)), HALF))

(* The operands for which the host's division is defined: no zero in the   *)
(* width it uses, and not the most negative number by -1 (a SIGFPE on x86). *)
Overflows(a, b, n) == SignedLow(a, n) = -2 ^ (n - 1) /\ SignedLow(b, n) = -1

HostDivides(a, b) ==
  b = 0 \/ (Low32(b) # 0 /\ ~Overflows(a, b, XLEN) /\ ~Overflows(a, b, HALF))
=============================================================================
