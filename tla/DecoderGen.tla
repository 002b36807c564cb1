----------------------------- MODULE DecoderGen -----------------------------
(***************************************************************************)
(* How an instruction finds its line: scripts/riscv-decoder-gen, which     *)
(* turns a file of patterns into one switch per mask and group, and the    *)
(* linear search of utils/decoder.hpp, on the compressed instructions of   *)
(* instpat/compressed.instpat.                                             *)
(*                                                                         *)
(* A word is the set of its one bits.  A line has its fixed bits as fields *)
(* <<lowest bit, width, value>>.                                           *)
(***************************************************************************)
EXTENDS Integers, SequencesExt

Field(at, width) == at .. at + width - 1
Ones(at, width, value) == {b \in Field(at, width) : (value \div 2 ^ (b - at)) % 2 = 1}

mask(line) == UNION {Field(f[1], f[2]) : f \in line.fixed}
key(line) == UNION {Ones(f[1], f[2], f[3]) : f \in line.fixed}

-----------------------------------------------------------------------------
(* gen.py.                                                                  *)

Separator == [inst |-> "---"]

(* Mutant: separators are skipped like blank lines.                         *)
read_file_flat(file) == <<SelectSeq(file, LAMBDA line : line # Separator)>>

(* The lines between separators.                                            *)
read_file(file) ==
  LET ends == SelectSeq([k \in DOMAIN file |-> k], LAMBDA k : file[k] = Separator) \o <<Len(file) + 1>>
  IN  [g \in DOMAIN ends |-> SubSeq(file, IF g = 1 THEN 1 ELSE ends[g - 1] + 1, ends[g] - 1)]

(* The switches of a group, one per mask, the first line of each in order.  *)
Switches(group) ==
  LET New(n) == \A k \in 1 .. n - 1 : mask(group[k]) # mask(group[n])
      firsts == SelectSeq([n \in DOMAIN group |-> n], New)
  IN  [n \in DOMAIN firsts |-> SelectSeq(group, LAMBDA line : mask(line) = mask(group[firsts[n]]))]

build_decode_table(groups) ==
  FlattenSeq([g \in DOMAIN groups |-> Switches(groups[g])])

(* __INST32 and __INST64.                                                   *)
Compiled(line, isa) == line.isa \in {"both", isa}

(* The generated code: the case that an instruction reaches, or nullptr.    *)
Reaches(switch, isa, inst) ==
  SelectSeq(switch, LAMBDA line : Compiled(line, isa) /\ inst \cap mask(line) = key(line))

decode(table, isa, inst) ==
  LET taken == SelectInSeq(table, LAMBDA switch : Reaches(switch, isa, inst) # <<>>)
  IN  IF taken = 0 THEN <<>> ELSE SubSeq(Reaches(table[taken], isa, inst), 1, 1)

(* A switch with the same case twice does not compile.                      *)
Compiles(table, isa) ==
  \A n \in DOMAIN table : \A j, k \in DOMAIN table[n] :
    j # k /\ Compiled(table[n][j], isa) /\ Compiled(table[n][k], isa) => key(table[n][j]) # key(table[n][k])

-----------------------------------------------------------------------------
(* decoder.hpp: the first pattern that matches.                             *)

match(line, inst) == inst \cap mask(line) = key(line)

decode_and_exec(patterns, inst) ==
  LET found == SelectInSeq(patterns, LAMBDA line : match(line, inst))
  IN  IF found = 0 THEN <<>> ELSE <<patterns[found]>>

-----------------------------------------------------------------------------
(* compressed.instpat: funct3, opcode and what else is fixed.               *)

INSTPAT(inst, funct3, op, rest, isa) ==
  [inst |-> inst, fixed |-> {<<13, 3, funct3>>, <<0, 2, op>>} \cup rest, isa |-> isa]

Both(inst, funct3, op, rest) == INSTPAT(inst, funct3, op, rest, "both")
Only32(inst, funct3, op, rest) == INSTPAT(inst, funct3, op, rest, "32")
Only64(inst, funct3, op, rest) == INSTPAT(inst, funct3, op, rest, "64")

Bit12(v) == <<12, 1, v>>
Funct2(v) == <<10, 2, v>>
Low5(v) == <<2, 5, v>>
Rd(v) == <<7, 5, v>>
Alu(bit12, funct2) == {Bit12(bit12), Funct2(3), <<5, 2, funct2>>}

CompressedFile ==
  <<Both("invalid_inst", 0, 0, {<<2, 11, 0>>}), Both("ebreak", 4, 2, {<<2, 11, 1024>>}),
    Both("c_nop", 0, 1, {<<2, 11, 0>>}),
    Both("c_lwsp", 2, 2, {}), Both("c_swsp", 6, 2, {}),
    Only64("c_ldsp", 3, 2, {}), Only64("c_sdsp", 7, 2, {}),
    Only32("c_flwsp", 3, 2, {}), Only32("c_fswsp", 7, 2, {}),
    Only64("c_fldsp", 1, 2, {}), Only64("c_fsdsp", 5, 2, {}),
    Both("c_lw", 2, 0, {}), Both("c_sw", 6, 0, {}),
    Only64("c_ld", 3, 0, {}), Only64("c_sd", 7, 0, {}),
    Only32("c_flw", 3, 0, {}), Only32("c_fsw", 7, 0, {}),
    Only64("c_fld", 1, 0, {}), Only64("c_fsd", 5, 0, {}),
    Separator,
    Both("c_j", 5, 1, {}),
    Both("c_jr", 4, 2, {Bit12(0), Low5(0)}), Both("c_jalr", 4, 2, {Bit12(1), Low5(0)}),
    Both("c_beqz", 6, 1, {}), Both("c_bnez", 7, 1, {}), Both("c_addi", 0, 1, {}),
    Both("c_addi16sp", 3, 1, {Rd(2)}), Both("c_addi4spn", 0, 0, {}),
    Separator,
    Both("c_li", 2, 1, {}), Both("c_lui", 3, 1, {}),
    Only64("c_slli", 0, 2, {}), Only64("c_srli", 4, 1, {Funct2(0)}), Only64("c_srai", 4, 1, {Funct2(1)}),
    Only32("c_slli", 0, 2, {Bit12(0)}), Only32("c_srli", 4, 1, {Bit12(0), Funct2(0)}),
    Only32("c_srai", 4, 1, {Bit12(0), Funct2(1)}), Both("c_andi", 4, 1, {Funct2(2)}),
    Both("c_mv", 4, 2, {Bit12(0)}), Both("c_add", 4, 2, {Bit12(1)}),
    Both("c_sub", 4, 1, Alu(0, 0)), Both("c_xor", 4, 1, Alu(0, 1)), Both("c_or", 4, 1, Alu(0, 2)),
    Both("c_and", 4, 1, Alu(0, 3)), Only64("c_addw", 4, 1, Alu(1, 1)), Only64("c_subw", 4, 1, Alu(1, 0)),
    Only64("c_addiw", 1, 1, {}), Only32("c_jal", 1, 1, {})>>

CompressedGroups == read_file(CompressedFile)
CompressedTable == build_decode_table(CompressedGroups)
=============================================================================
