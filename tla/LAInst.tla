------------------------------- MODULE LAInst -------------------------------
(***************************************************************************)
(* What the LoongArch instructions of src/cpu/loongarch/inst/base.cpp do,  *)
(* in the widths and with the helpers of RVInst.  A core is the record a   *)
(* hart is there; i holds the fields the macros RD, RJ, RK and IMM_* take  *)
(* from the instruction, the shifts of IMM_* made.                         *)
(***************************************************************************)
EXTENDS RVInst

RJ(c, i) == c.gpr[i.rj]
RK(c, i) == c.gpr[i.rk]
RD(c, i) == c.gpr[i.rd]

(* Mutant: x0 keeps what is written to it.                                  *)
set_gpr_only(c, r, v) == [c EXCEPT !.gpr[r] = Word(v)]

set_gpr(c, r, v) == [c EXCEPT !.gpr = [@ EXCEPT ![r] = Word(v), ![0] = 0]]

Set(c, i, v) == set_gpr(c, i.rd, v)

Complement(v) == 2 ^ XLEN - 1 - v

la_add_w(c, i) == Set(c, i, Sext(RJ(c, i) + RK(c, i), HALF))
la_sub_w(c, i) == Set(c, i, Sext(RJ(c, i) - RK(c, i), HALF))
la_slt(c, i) == Set(c, i, Flag(SignedWord(RJ(c, i)) < SignedWord(RK(c, i))))
la_sltu(c, i) == Set(c, i, Flag(RJ(c, i) < RK(c, i)))

(* The masks write the number of rj, not its value.                         *)
la_maskeqz(c, i) == Set(c, i, IF RK(c, i) = 0 THEN 0 ELSE i.rj)
la_masknez(c, i) == Set(c, i, IF RK(c, i) # 0 THEN 0 ELSE i.rj)
la_nor(c, i) == Set(c, i, Complement(Or(RJ(c, i), RK(c, i))))
la_and(c, i) == Set(c, i, And(RJ(c, i), RK(c, i)))
la_or(c, i) == Set(c, i, Or(RJ(c, i), RK(c, i)))
la_xor(c, i) == Set(c, i, Xor(RJ(c, i), RK(c, i)))
la_orn(c, i) == Set(c, i, Complement(Or(RJ(c, i), Complement(RK(c, i)))))
la_andn(c, i) == Set(c, i, And(RJ(c, i), Complement(RK(c, i))))
la_sll_w(c, i) == Set(c, i, Sext(ShiftLeft(RJ(c, i), ShamtW(RK(c, i))), HALF))
la_srl_w(c, i) == Set(c, i, Sext(ShiftRight(Low32(RJ(c, i)), ShamtW(RK(c, i))), HALF))
la_sra_w(c, i) == Set(c, i, ShiftRight(SignedLow(RJ(c, i), HALF), ShamtW(RK(c, i))))
la_add_d(c, i) == Set(c, i, RJ(c, i) + RK(c, i))
la_sub_d(c, i) == Set(c, i, RJ(c, i) - RK(c, i))

la_addi_w(c, i) == Set(c, i, Sext(RJ(c, i) + i.imm, HALF))
la_slti(c, i) == Set(c, i, Flag(SignedWord(RJ(c, i)) < SignedWord(i.imm)))
la_sltiu(c, i) == Set(c, i, Flag(RJ(c, i) < i.imm))
la_ori(c, i) == Set(c, i, Or(RJ(c, i), i.imm))
la_xori(c, i) == Set(c, i, Xor(RJ(c, i), i.imm))
la_andi(c, i) == Set(c, i, And(RJ(c, i), i.imm))
la_slli_w(c, i) == Set(c, i, Sext(ShiftLeft(Low32(RJ(c, i)), i.imm), HALF))
la_srli_w(c, i) == Set(c, i, Sext(ShiftRight(Low32(RJ(c, i)), i.imm), HALF))
la_srai_w(c, i) == Set(c, i, ShiftRight(SignedLow(RJ(c, i), HALF), i.imm))
la_lu12i_w(c, i) == Set(c, i, i.imm)
la_pcaddu12i(c, i) == Set(c, i, c.pc + i.imm)

Jump(c, i) == [c EXCEPT !.npc = Word(c.pc + i.imm)]
JumpIf(c, i, taken) == IF taken THEN Jump(c, i) ELSE c

la_beq(c, i) == JumpIf(c, i, RD(c, i) = RJ(c, i))
la_bne(c, i) == JumpIf(c, i, RD(c, i) # RJ(c, i))
la_blt(c, i) == JumpIf(c, i, SignedWord(RJ(c, i)) < SignedWord(RD(c, i)))
la_bltu(c, i) == JumpIf(c, i, RJ(c, i) < RD(c, i))
la_bge(c, i) == JumpIf(c, i, SignedWord(RJ(c, i)) >= SignedWord(RD(c, i)))
la_bgeu(c, i) == JumpIf(c, i, RJ(c, i) >= RD(c, i))
la_b(c, i) == Jump(c, i)
la_bl(c, i) == Jump([c EXCEPT !.gpr[1] = Word(c.pc + 4)], i)

(* The link is written before rj is read.                                   *)
la_jirl(c, i) ==
  LET linked == Set(c, i, c.pc + 4)
  IN  [linked EXCEPT !.npc = Word(RJ(linked, i) + i.imm)]

Product(c, i) == SignedLow(RJ(c, i), HALF) * SignedLow(RK(c, i), HALF)

(* The low half of the product is not sign-extended.                        *)
la_mul_w(c, i) == Set(c, i, Low32(Product(c, i)))
la_mulh_w(c, i) == Set(c, i, Product(c, i) \div 2 ^ HALF)
la_mulh_wu(c, i) == Set(c, i, SignedWord(RJ(c, i) * RK(c, i)) \div 2 ^ HALF)

UnlessRk0(c, i, zero, value) == Set(c, i, IF RK(c, i) = 0 THEN zero ELSE value)

la_div_w(c, i) ==
  UnlessRk0(c, i, -1, Sext(Quotient(SignedLow(RJ(c, i), HALF), SignedLow(RK(c, i), HALF)), HALF))
la_div_wu(c, i) == UnlessRk0(c, i, -1, Sext(RJ(c, i) \div RK(c, i), HALF))
la_mod_w(c, i) ==
  UnlessRk0(c, i, RJ(c, i), Remainder(SignedLow(RJ(c, i), HALF), SignedLow(RK(c, i), HALF)))
la_mod_wu(c, i) == UnlessRk0(c, i, RJ(c, i), Sext(RJ(c, i) % RK(c, i), HALF))

Address(c, i) == RJ(c, i) + i.imm

(* A load that fails writes nothing and raises nothing.                     *)
Load(c, i, success, v) == IF success THEN Set(c, i, v) ELSE c

la_ld_b(c, i, ok) == Load(c, i, ok, Sext(memory_load(Address(c, i), 1), Byte))
la_ld_h(c, i, ok) == Load(c, i, ok, Sext(memory_load(Address(c, i), 2), 2 * Byte))
la_ld_w(c, i, ok) == Load(c, i, ok, Sext(memory_load(Address(c, i), 4), HALF))
la_ld_bu(c, i, ok) == Load(c, i, ok, memory_load(Address(c, i), 1))
la_ld_hu(c, i, ok) == Load(c, i, ok, memory_load(Address(c, i), 2))
la_st_b(c, i) == memory_store(c, Address(c, i), RD(c, i), 1)
la_st_h(c, i) == memory_store(c, Address(c, i), RD(c, i), 2)
la_st_w(c, i) == memory_store(c, Address(c, i), RD(c, i), 4)

-----------------------------------------------------------------------------
(* The instructions both cores have, each as the LoongArch and the RISC-V  *)
(* code do it; i has the fields of both.  A jirl with rd = rj has no twin:  *)
(* it jumps to its own link, where jalr jumps to what rs1 held.            *)

(* The decoder of RISC-V has added pc and offset for a branch, and a store  *)
(* or branch of LoongArch has rd where that of RISC-V has rs2.               *)
Same(i) == [i EXCEPT !.rd = set_rd(@), !.rs1 = i.rj, !.rs2 = i.rk]
Branch(s, i) == [i EXCEPT !.rs1 = i.rj, !.rs2 = i.rd, !.npc = Word(s.pc + i.imm)]

SharedResults(s, i) ==
  LET r == Same(i) b == Branch(s, i)
  IN  {<<la_add_w(s, i), do_addw(s, r)>>, <<la_sub_w(s, i), do_subw(s, r)>>,
       <<la_slt(s, i), do_slt(s, r)>>, <<la_sltu(s, i), do_sltu(s, r)>>,
       <<la_and(s, i), do_and(s, r)>>, <<la_or(s, i), do_or(s, r)>>,
       <<la_xor(s, i), do_xor(s, r)>>, <<la_srl_w(s, i), do_srlw(s, r)>>,
       <<la_sra_w(s, i), do_sraw(s, r)>>, <<la_add_d(s, i), do_add(s, r)>>,
       <<la_sub_d(s, i), do_sub(s, r)>>, <<la_addi_w(s, i), do_addiw(s, r)>>,
       <<la_slti(s, i), do_slti(s, r)>>, <<la_sltiu(s, i), do_sltiu(s, r)>>,
       <<la_ori(s, i), do_ori(s, r)>>, <<la_xori(s, i), do_xori(s, r)>>,
       <<la_andi(s, i), do_andi(s, r)>>, <<la_lu12i_w(s, i), do_lui(s, r)>>,
       <<la_pcaddu12i(s, i), do_auipc(s, [r EXCEPT !.imm = s.pc + @])>>,
       <<la_b(s, i), do_jal(s, [r EXCEPT !.rd = 32])>>, <<la_bl(s, i), do_jal(s, [r EXCEPT !.rd = 1])>>,
       <<la_beq(s, i), do_beq(s, b)>>, <<la_bne(s, i), do_bne(s, b)>>,
       <<la_blt(s, i), do_blt(s, b)>>, <<la_bltu(s, i), do_bltu(s, b)>>,
       <<la_bge(s, i), do_bge(s, b)>>, <<la_bgeu(s, i), do_bgeu(s, b)>>,
       <<la_ld_b(s, i, TRUE), do_lb(s, r)>>, <<la_ld_h(s, i, TRUE), do_lh(s, r)>>,
       <<la_ld_w(s, i, TRUE), do_lw(s, r)>>, <<la_ld_bu(s, i, TRUE), do_lbu(s, r)>>,
       <<la_ld_hu(s, i, TRUE), do_lhu(s, r)>>, <<la_st_b(s, i), do_sb(s, b)>>,
       <<la_st_h(s, i), do_sh(s, b)>>, <<la_st_w(s, i), do_sw(s, b)>>}
      \cup (IF i.rd = i.rj THEN {} ELSE {<<la_jirl(s, i), do_jalr(s, r)>>})

(* The logical instructions LoongArch has alone.                            *)
OwnResults(s, i) ==
  {la_maskeqz(s, i), la_masknez(s, i), la_nor(s, i), la_andn(s, i), la_orn(s, i), la_sll_w(s, i)}

SharedShifts(s, i) ==
  LET r == Same(i)
  IN  {<<la_slli_w(s, i), do_slliw(s, r)>>, <<la_srli_w(s, i), do_srliw(s, r)>>,
       <<la_srai_w(s, i), do_sraiw(s, r)>>}
=============================================================================
