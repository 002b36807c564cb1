--------------------------- MODULE DecodeFormats ---------------------------
(***************************************************************************)
(* The fields that each instruction format takes out of an instruction:    *)
(* src/cpu/riscv/inst/decode.cpp and the macros of                         *)
(* src/cpu/loongarch/inst/base.cpp, for RV64.  A number is the set of the  *)
(* positions of its ones; a format is a record of the fields it sets.  For *)
(* branches npc is the offset to the pc, as it is for imm of auipc.        *)
(***************************************************************************)
EXTENDS Integers, FiniteSets

(* Bits hi to lo of the instruction moved to position k and up.             *)
Bits(inst, hi, lo, k) == {b - lo + k : b \in inst \cap (lo .. hi)}

BITS(inst, hi, lo) == Bits(inst, hi, lo, 0)

SEXT(bits, from) == bits \cup (IF from - 1 \in bits THEN from .. 63 ELSE {})

(* x0 as a destination is register 32; three-bit registers start at x8.     *)
Rd(bits) == IF bits = {} THEN {5} ELSE bits
Prime(bits) == bits \cup {3}

rd(i) == Rd(BITS(i, 11, 7))
frd(i) == BITS(i, 11, 7)
rs1(i) == BITS(i, 19, 15)
rs2(i) == BITS(i, 24, 20)
rm(i) == BITS(i, 14, 12)
rd_2(i) == Prime(BITS(i, 4, 2))
rs1_7(i) == Prime(BITS(i, 9, 7))
rs2_2(i) == BITS(i, 6, 2)

-----------------------------------------------------------------------------
Imm12(i) == SEXT(BITS(i, 31, 20), 12)

(* Mutant: bit 20 lands on the place of bit 30.                             *)
JumpOffsetOverlaps(i) ==
  SEXT(Bits(i, 31, 31, 20) \cup Bits(i, 30, 21, 1) \cup Bits(i, 20, 20, 10) \cup Bits(i, 19, 12, 12), 21)

JumpOffset(i) ==
  SEXT(Bits(i, 31, 31, 20) \cup Bits(i, 30, 21, 1) \cup Bits(i, 20, 20, 11) \cup Bits(i, 19, 12, 12), 21)

BranchOffset(i) ==
  SEXT(Bits(i, 31, 31, 12) \cup Bits(i, 30, 25, 5) \cup Bits(i, 11, 8, 1) \cup Bits(i, 7, 7, 11), 13)

UpperImm(i) == SEXT(Bits(i, 31, 12, 12), 32)

insttype_r(i) == [rd |-> rd(i), rs1 |-> rs1(i), rs2 |-> rs2(i)]
insttype_i(i) == [rd |-> rd(i), rs1 |-> rs1(i), imm |-> Imm12(i)]
insttype_shifti(i) == [rd |-> rd(i), rs1 |-> rs1(i), imm |-> BITS(i, 25, 20)]
insttype_shiftiw(i) == [rd |-> rd(i), rs1 |-> rs1(i), imm |-> BITS(i, 24, 20)]
insttype_s(i) ==
  [rs1 |-> rs1(i), rs2 |-> rs2(i), imm |-> SEXT(Bits(i, 31, 25, 5) \cup BITS(i, 11, 7), 12)]
insttype_b(i) == [rs1 |-> rs1(i), rs2 |-> rs2(i), npc |-> BranchOffset(i)]
insttype_j(i) == [rd |-> rd(i), imm |-> JumpOffset(i)]
insttype_auipc(i) == [rd |-> rd(i), imm |-> UpperImm(i)]
insttype_lui(i) == [rd |-> rd(i), imm |-> UpperImm(i)]
insttype_i_f(i) == [rd |-> frd(i), rs1 |-> rs1(i), imm |-> Imm12(i)]
insttype_r_f(i) == [rd |-> frd(i), rs1 |-> rs1(i), rs2 |-> rs2(i)]
insttype_r_frm(i) == [rd |-> frd(i), rs1 |-> rs1(i), rs2 |-> rs2(i), flag |-> rm(i)]
insttype_r4_frm(i) ==
  [rd |-> frd(i), rs1 |-> rs1(i), rs2 |-> rs2(i), rs3 |-> BITS(i, 31, 27), flag |-> rm(i)]
insttype_csrr(i) == [rd |-> rd(i), rs1 |-> rs1(i), csr |-> BITS(i, 31, 20)]
insttype_csri(i) == [rd |-> rd(i), csr |-> BITS(i, 31, 20), imm |-> BITS(i, 19, 15)]

-----------------------------------------------------------------------------
Imm6(i) == SEXT(Bits(i, 12, 12, 5) \cup BITS(i, 6, 2), 6)
Shamt6(i) == Bits(i, 12, 12, 5) \cup BITS(i, 6, 2)
WordOffset(i) == Bits(i, 5, 5, 6) \cup Bits(i, 12, 10, 3) \cup Bits(i, 6, 6, 2)
DoubleOffset(i) == Bits(i, 6, 5, 6) \cup Bits(i, 12, 10, 3)

CJumpOffset(i) ==
  SEXT(Bits(i, 12, 12, 11) \cup Bits(i, 8, 8, 10) \cup Bits(i, 10, 9, 8) \cup Bits(i, 7, 7, 6)
         \cup Bits(i, 6, 6, 7) \cup Bits(i, 2, 2, 5) \cup Bits(i, 11, 11, 4) \cup Bits(i, 5, 3, 1), 12)

CBranchOffset(i) ==
  SEXT(Bits(i, 12, 12, 8) \cup Bits(i, 6, 5, 6) \cup Bits(i, 2, 2, 5)
         \cup Bits(i, 11, 10, 3) \cup Bits(i, 4, 3, 1), 9)

SpOffset(i) ==
  SEXT(Bits(i, 12, 12, 9) \cup Bits(i, 4, 3, 7) \cup Bits(i, 5, 5, 6)
         \cup Bits(i, 2, 2, 5) \cup Bits(i, 6, 6, 4), 10)

insttype_c_lwsp(i) ==
  [rd |-> rd(i), imm |-> Bits(i, 12, 12, 5) \cup Bits(i, 3, 2, 6) \cup Bits(i, 6, 4, 2)]
insttype_c_swsp(i) == [rs2 |-> rs2_2(i), imm |-> Bits(i, 8, 7, 6) \cup Bits(i, 12, 9, 2)]
insttype_c_lwsw(i) == [rd |-> rd_2(i), rs1 |-> rs1_7(i), rs2 |-> rd_2(i), imm |-> WordOffset(i)]
insttype_c_j(i) == [rs1 |-> BITS(i, 11, 7), npc |-> CJumpOffset(i)]
insttype_c_jalr(i) == [rs1 |-> BITS(i, 11, 7), npc |-> {1}]
insttype_c_b(i) == [rs1 |-> rs1_7(i), npc |-> CBranchOffset(i)]
insttype_c_li(i) == [rd |-> rd(i), imm |-> Imm6(i)]
insttype_c_lui(i) ==
  [rd |-> rd(i), imm |-> SEXT(Bits(i, 12, 12, 17) \cup Bits(i, 6, 2, 12), 18)]
insttype_c_addi(i) == [rd |-> rd(i), imm |-> Imm6(i)]
insttype_c_addi16sp(i) == [imm |-> SpOffset(i)]
insttype_c_addi4spn(i) ==
  [rd |-> rd_2(i), imm |-> Bits(i, 10, 7, 6) \cup Bits(i, 12, 11, 4) \cup Bits(i, 5, 5, 3) \cup Bits(i, 6, 6, 2)]
insttype_c_slli(i) == [rd |-> rd(i), imm |-> Shamt6(i)]
insttype_c_i(i) == [rd |-> rs1_7(i), imm |-> Imm6(i)]
insttype_c_shifti(i) == [rd |-> rs1_7(i), imm |-> Shamt6(i)]
insttype_c_mvadd(i) == [rd |-> rd(i), rs2 |-> rs2_2(i)]
insttype_c_r(i) == [rd |-> rs1_7(i), rs2 |-> rd_2(i)]
insttype_c_ldsp(i) ==
  [rd |-> rd(i), imm |-> Bits(i, 12, 12, 5) \cup Bits(i, 4, 2, 6) \cup Bits(i, 6, 5, 3)]
insttype_c_sdsp(i) == [rs2 |-> rs2_2(i), imm |-> Bits(i, 9, 7, 6) \cup Bits(i, 12, 10, 3)]
insttype_c_ldsd(i) == [rd |-> rd_2(i), rs1 |-> rs1_7(i), rs2 |-> rd_2(i), imm |-> DoubleOffset(i)]

-----------------------------------------------------------------------------
(* LoongArch: the macros of the operands.                                   *)

RDJK(i) == [rd |-> BITS(i, 4, 0), rj |-> BITS(i, 9, 5), rk |-> BITS(i, 14, 10)]
IMM_UI5(i) == [rd |-> BITS(i, 4, 0), rj |-> BITS(i, 9, 5), imm |-> BITS(i, 14, 10)]
IMM_SI12(i) == [rd |-> BITS(i, 4, 0), rj |-> BITS(i, 9, 5), imm |-> SEXT(BITS(i, 21, 10), 12)]
IMM_UI12(i) == [rd |-> BITS(i, 4, 0), rj |-> BITS(i, 9, 5), imm |-> BITS(i, 21, 10)]
IMM_SI20(i) == [rd |-> BITS(i, 4, 0), imm |-> SEXT(Bits(i, 24, 5, 12), 32)]
Times4(bits) == {b + 2 : b \in bits} \ (64 .. 65)
IMM_OFFS16(i) ==
  [rd |-> BITS(i, 4, 0), rj |-> BITS(i, 9, 5), imm |-> Times4(SEXT(BITS(i, 25, 10), 16))]
IMM_OFFS21(i) == [imm |-> Times4(SEXT(BITS(i, 25, 10) \cup Bits(i, 9, 0, 16), 26))]

-----------------------------------------------------------------------------
(* Lines of base.instpat and compressed.instpat, and the LoongArch shapes: *)
(* the positions the pattern leaves free, the format and the fields that   *)
(* the instruction then reads (c.jr and c.j share a format, as do a load   *)
(* and a store).                                                           *)

Funct3 == 12 .. 14
AllButFunct3 == (15 .. 31) \cup (7 .. 11)
RegisterFields == (15 .. 24) \cup (7 .. 11)

(* What the format makes of no bit and of every single bit.                 *)
Line(free, fields, insttype(_)) ==
  [free |-> free, fields |-> fields,
   of |-> [i \in {{}} \cup {{b} : b \in 0 .. 31} |-> insttype(i)]]

InstructionLines ==
  <<Line(RegisterFields, {"rd", "rs1", "rs2"}, insttype_r),
    Line(AllButFunct3, {"rd", "rs1", "imm"}, insttype_i),
    Line(AllButFunct3 \ (26 .. 31), {"rd", "rs1", "imm"}, insttype_shifti),
    Line(AllButFunct3 \ (25 .. 31), {"rd", "rs1", "imm"}, insttype_shiftiw),
    Line(AllButFunct3, {"rs1", "rs2", "imm"}, insttype_s),
    Line(AllButFunct3, {"rs1", "rs2", "npc"}, insttype_b),
    Line(7 .. 31, {"rd", "imm"}, insttype_j),
    Line(7 .. 31, {"rd", "imm"}, insttype_auipc),
    Line(7 .. 31, {"rd", "imm"}, insttype_lui),
    Line(AllButFunct3, {"rd", "rs1", "imm"}, insttype_i_f),
    Line(RegisterFields, {"rd", "rs1", "rs2"}, insttype_r_f),
    Line(RegisterFields \cup Funct3, {"rd", "rs1", "rs2", "flag"}, insttype_r_frm),
    Line((7 .. 31) \ (25 .. 26), {"rd", "rs1", "rs2", "rs3", "flag"}, insttype_r4_frm),
    Line(AllButFunct3, {"rd", "rs1", "csr"}, insttype_csrr),
    Line(AllButFunct3, {"rd", "csr", "imm"}, insttype_csri),
    Line(2 .. 12, {"rd", "imm"}, insttype_c_lwsp),
    Line(2 .. 12, {"rs2", "imm"}, insttype_c_swsp),
    Line(2 .. 12, {"rd", "rs1", "imm"}, insttype_c_lwsw),
    Line(2 .. 12, {"rs1", "rs2", "imm"}, insttype_c_lwsw),
    Line(2 .. 12, {"npc"}, insttype_c_j),
    Line(7 .. 11, {"rs1"}, insttype_c_j),
    Line(7 .. 11, {"rs1"}, insttype_c_jalr),
    Line(2 .. 12, {"rs1", "npc"}, insttype_c_b),
    Line(2 .. 12, {"rd", "imm"}, insttype_c_li),
    Line(2 .. 12, {"rd", "imm"}, insttype_c_lui),
    Line(2 .. 12, {"rd", "imm"}, insttype_c_addi),
    Line((2 .. 6) \cup {12}, {"imm"}, insttype_c_addi16sp),
    Line(2 .. 12, {"rd", "imm"}, insttype_c_addi4spn),
    Line(2 .. 12, {"rd", "imm"}, insttype_c_slli),
    Line((2 .. 9) \cup {12}, {"rd", "imm"}, insttype_c_i),
    Line((2 .. 9) \cup {12}, {"rd", "imm"}, insttype_c_shifti),
    Line(2 .. 11, {"rd", "rs2"}, insttype_c_mvadd),
    Line((2 .. 4) \cup (7 .. 9), {"rd", "rs2"}, insttype_c_r),
    Line(2 .. 12, {"rd", "imm"}, insttype_c_ldsp),
    Line(2 .. 12, {"rs2", "imm"}, insttype_c_sdsp),
    Line(2 .. 12, {"rd", "rs1", "imm"}, insttype_c_ldsd),
    Line(2 .. 12, {"rs1", "rs2", "imm"}, insttype_c_ldsd),
    Line(0 .. 14, {"rd", "rj", "rk"}, RDJK),
    Line(0 .. 14, {"rd", "rj", "imm"}, IMM_UI5),
    Line(0 .. 21, {"rd", "rj", "imm"}, IMM_SI12),
    Line(0 .. 21, {"rd", "rj", "imm"}, IMM_UI12),
    Line(0 .. 24, {"rd", "imm"}, IMM_SI20),
    Line(0 .. 25, {"rd", "rj", "imm"}, IMM_OFFS16),
    Line(0 .. 25, {"imm"}, IMM_OFFS21)>>
=============================================================================
