---------------------------- MODULE RVCompressed ----------------------------
(***************************************************************************)
(* The compressed instructions of RV64 (src/cpu/riscv/inst/compressed.cpp) *)
(* and, for each, the base instruction it abbreviates.  The code writes    *)
(* both out in full; that they do the same is what is checked.  c.jal is   *)
(* RV32.  Floating-point loads and stores are in RVFloat.                  *)
(***************************************************************************)
EXTENDS RVInst

SP == 2
RA == 1

rd_is_x0(i) == i.rd = 32

(* REQUIRE: the instruction is invalid unless the condition holds.          *)
Require(s, cond, effect) == IF cond THEN effect ELSE do_invalid_inst(s)

RequireRd(s, i, effect) == Require(s, ~rd_is_x0(i), effect)

AddToSp(s, i) == s.gpr[SP] + i.imm

do_c_lwsp(s, i) == RequireRd(s, i, DEST(s, i, Sext(memory_load(AddToSp(s, i), 4), HALF)))
do_c_swsp(s, i) == memory_store(s, AddToSp(s, i), SRC2(s, i), 4)
do_c_ldsp(s, i) == RequireRd(s, i, DEST(s, i, memory_load(AddToSp(s, i), 8)))
do_c_sdsp(s, i) == memory_store(s, AddToSp(s, i), SRC2(s, i), 8)
do_c_lw(s, i) == DEST(s, i, Sext(memory_load(SRC1(s, i) + i.imm, 4), HALF))
do_c_sw(s, i) == memory_store(s, SRC1(s, i) + i.imm, SRC2(s, i), 4)
do_c_ld(s, i) == DEST(s, i, memory_load(SRC1(s, i) + i.imm, 8))
do_c_sd(s, i) == memory_store(s, SRC1(s, i) + i.imm, SRC2(s, i), 8)

do_c_j(s, i) == [s EXCEPT !.npc = i.npc]
do_c_jal(s, i) == [s EXCEPT !.gpr[RA] = Word(s.pc + 2), !.npc = i.npc]
do_c_jr(s, i) == Require(s, i.rs1 # 0, [s EXCEPT !.npc = SRC1(s, i)])

(* The decoder gives c.jalr the return address as npc.                      *)
do_c_jalr(s, i) == [s EXCEPT !.npc = SRC1(s, i), !.gpr[RA] = i.npc]
do_c_beqz(s, i) == GoIf(s, i, SRC1(s, i) = 0)
do_c_bnez(s, i) == GoIf(s, i, SRC1(s, i) # 0)

do_c_li(s, i) == RequireRd(s, i, DEST(s, i, i.imm))
do_c_lui(s, i) == Require(s, ~rd_is_x0(i) /\ i.imm # 0, DEST(s, i, i.imm))
do_c_addi(s, i) == DEST(s, i, s.gpr[i.rd] + i.imm)
do_c_addi16sp(s, i) ==
  Require(s, i.imm # 0, [s EXCEPT !.gpr[SP] = Word(AddToSp(s, i))])
do_c_addi4spn(s, i) == Require(s, i.imm # 0, DEST(s, i, AddToSp(s, i)))
do_c_slli(s, i) == RequireRd(s, i, DEST(s, i, ShiftLeft(s.gpr[i.rd], i.imm)))
do_c_srli(s, i) == DEST(s, i, ShiftRight(s.gpr[i.rd], i.imm))
do_c_srai(s, i) == DEST(s, i, ShiftRight(SignedWord(s.gpr[i.rd]), i.imm))
do_c_andi(s, i) == DEST(s, i, And(s.gpr[i.rd], i.imm))
do_c_addiw(s, i) == RequireRd(s, i, DEST(s, i, Sext(s.gpr[i.rd] + i.imm, HALF)))

do_c_mv(s, i) == RequireRd(s, i, DEST(s, i, SRC2(s, i)))
do_c_add(s, i) == RequireRd(s, i, DEST(s, i, s.gpr[i.rd] + SRC2(s, i)))
do_c_sub(s, i) == DEST(s, i, s.gpr[i.rd] - SRC2(s, i))
do_c_xor(s, i) == DEST(s, i, Xor(s.gpr[i.rd], SRC2(s, i)))
do_c_or(s, i) == DEST(s, i, Or(s.gpr[i.rd], SRC2(s, i)))
do_c_and(s, i) == DEST(s, i, And(s.gpr[i.rd], SRC2(s, i)))
do_c_addw(s, i) == DEST(s, i, Sext(s.gpr[i.rd] + SRC2(s, i), HALF))
do_c_subw(s, i) == DEST(s, i, Sext(s.gpr[i.rd] - SRC2(s, i), HALF))
do_c_nop(s, i) == s

-----------------------------------------------------------------------------
(* Every compressed instruction beside its expansion: the one i stands for *)
(* when rd also is the first source, when sp or x0 is a source, and so on. *)

TwoAddress(i) == [i EXCEPT !.rs1 = i.rd]
SpBased(i) == [i EXCEPT !.rs1 = SP]
SpToSp(i) == [i EXCEPT !.rs1 = SP, !.rd = SP]
FromZero(i) == [i EXCEPT !.rs1 = 0]
AgainstZero(i) == [i EXCEPT !.rs2 = 0]
JumpsTo(i, link) == [i EXCEPT !.rd = link, !.imm = 0]

(* The link of c.jal and c.jalr is two bytes on, that of jalr four.         *)
LinkAfter2(s, expanded) == [expanded EXCEPT !.gpr[RA] = Word(s.pc + 2)]

Expansions(s, i) ==
  {<<do_c_lwsp(s, i), do_lw(s, SpBased(i))>>, <<do_c_ldsp(s, i), do_ld(s, SpBased(i))>>,
   <<do_c_swsp(s, i), do_sw(s, SpBased(i))>>, <<do_c_sdsp(s, i), do_sd(s, SpBased(i))>>,
   <<do_c_lw(s, i), do_lw(s, i)>>, <<do_c_ld(s, i), do_ld(s, i)>>,
   <<do_c_sw(s, i), do_sw(s, i)>>, <<do_c_sd(s, i), do_sd(s, i)>>,
   <<do_c_beqz(s, i), do_beq(s, AgainstZero(i))>>, <<do_c_bnez(s, i), do_bne(s, AgainstZero(i))>>,
   <<do_c_li(s, i), do_addi(s, FromZero(i))>>, <<do_c_lui(s, i), do_lui(s, i)>>,
   <<do_c_addi(s, i), do_addi(s, TwoAddress(i))>>, <<do_c_addiw(s, i), do_addiw(s, TwoAddress(i))>>,
   <<do_c_addi16sp(s, i), do_addi(s, SpToSp(i))>>, <<do_c_addi4spn(s, i), do_addi(s, SpBased(i))>>,
   <<do_c_andi(s, i), do_andi(s, TwoAddress(i))>>, <<do_c_and(s, i), do_and(s, TwoAddress(i))>>,
   <<do_c_or(s, i), do_or(s, TwoAddress(i))>>, <<do_c_xor(s, i), do_xor(s, TwoAddress(i))>>,
   <<do_c_mv(s, i), do_add(s, FromZero(i))>>, <<do_c_add(s, i), do_add(s, TwoAddress(i))>>,
   <<do_c_sub(s, i), do_sub(s, TwoAddress(i))>>, <<do_c_addw(s, i), do_addw(s, TwoAddress(i))>>,
   <<do_c_subw(s, i), do_subw(s, TwoAddress(i))>>, <<do_c_nop(s, i), do_addi(s, [i EXCEPT !.rd = 32])>>,
   <<do_c_jr(s, i), do_jalr(s, JumpsTo(i, 32))>>,
   <<do_c_jal(s, i), LinkAfter2(s, [s EXCEPT !.npc = i.npc])>>,
   <<do_c_jalr(s, [i EXCEPT !.npc = Word(s.pc + 2)]), LinkAfter2(s, do_jalr(s, JumpsTo(i, RA)))>>}

ShiftExpansions(s, i) ==
  {<<do_c_slli(s, i), do_slli(s, TwoAddress(i))>>, <<do_c_srli(s, i), do_srli(s, TwoAddress(i))>>,
   <<do_c_srai(s, i), do_srai(s, TwoAddress(i))>>}
=============================================================================
