------------------------------ MODULE RVFloat ------------------------------
(***************************************************************************)
(* The floating-point instructions (src/cpu/riscv/inst/float.cpp, and the  *)
(* loads and stores of compressed.cpp).  A hart has besides what it has in *)
(* RVInst the registers fpr, the host's rounding mode round and the field  *)
(* frm.  A register holds a datum v; boxed tells that the half called high *)
(* is all ones.  A datum is a kind, a sign and twice its magnitude, so     *)
(* that halves are whole.  What the host's arithmetic makes of its         *)
(* operands is left open: Host names the operation, the operands and the   *)
(* rounding mode it ran with.  The bits of one format read as the other    *)
(* are not modelled.                                                       *)
(***************************************************************************)
EXTENDS RVInst

RNE == 0
RTZ == 1
RDN == 2
RUP == 3
RMM == 4
DYN == 7

IsNan(x) == x.kind \in {"quiet", "signaling"}
Twice(x) == IF x.neg THEN -x.mag ELSE x.mag
WithSign(x, neg) == [x EXCEPT !.neg = neg]

Host(op, args, round) == [kind |-> "host", of |-> <<op, args, round>>]

(* x times 1 or -1: a NaN comes out quiet and with its own sign.            *)
Times(x, negative) ==
  IF IsNan(x) THEN [x EXCEPT !.kind = "quiet"] ELSE WithSign(x, x.neg # negative)

Abs(x) == WithSign(x, FALSE)

F1(s, i) == s.fpr[i.rs1].v
F2(s, i) == s.fpr[i.rs2].v
F3(s, i) == s.fpr[i.rs3].v

FDESTS(s, i, x) == [s EXCEPT !.fpr[i.rd] = [boxed |-> TRUE, v |-> x]]
FDESTD(s, i, x) == [s EXCEPT !.fpr[i.rd] = [boxed |-> FALSE, v |-> x]]

-----------------------------------------------------------------------------
(* fesetround of the mode; 5, 6 and DYN leave the host's as it is.          *)
set_fpu_rounding_mode(rm, round) ==
  IF rm = RMM THEN RNE ELSE IF rm \in {RNE, RTZ, RDN, RUP} THEN rm ELSE round

(* Mutant: the host keeps the mode of the instruction.                      *)
KEEP_FPU(s, old) == s

RESTORE_FPU(s, old) == [s EXCEPT !.round = old]

(* The mode is frm of the hart and, where that is DYN, the instruction's rm. *)
SET_FPU(s, i) ==
  [s EXCEPT !.round = set_fpu_rounding_mode(IF s.frm = DYN THEN i.flag ELSE s.frm, @)]

NoMode(s, i) == s.frm = DYN /\ i.flag \in {5, 6}

RoundedS(s, i, op, args) ==
  LET t == SET_FPU(s, i)
  IN  IF NoMode(s, i) THEN do_invalid_inst(s)
      ELSE RESTORE_FPU(FDESTS(t, i, Host(op, args, t.round)), s.round)

RoundedD(s, i, op, args) ==
  LET t == SET_FPU(s, i)
  IN  IF NoMode(s, i) THEN do_invalid_inst(s)
      ELSE RESTORE_FPU(FDESTD(t, i, Host(op, args, t.round)), s.round)

Two(s, i) == <<F1(s, i), F2(s, i)>>
Three(s, i) == <<F1(s, i), F2(s, i), F3(s, i)>>

do_fmadd_s(s, i) == RoundedS(s, i, "a*b+c", Three(s, i))
do_fmsub_s(s, i) == RoundedS(s, i, "a*b-c", Three(s, i))
do_fnmsub_s(s, i) == RoundedS(s, i, "-a*b+c", Three(s, i))
do_fnmadd_s(s, i) == RoundedS(s, i, "-a*b-c", Three(s, i))
do_fadd_s(s, i) == RoundedS(s, i, "+", Two(s, i))
do_fsub_s(s, i) == RoundedS(s, i, "-", Two(s, i))
do_fmul_s(s, i) == RoundedS(s, i, "*", Two(s, i))
do_fdiv_s(s, i) == RoundedS(s, i, "/", Two(s, i))
do_fsqrt_s(s, i) == RoundedS(s, i, "sqrt", <<F1(s, i)>>)
do_fmadd_d(s, i) == RoundedD(s, i, "a*b+c", Three(s, i))
do_fmsub_d(s, i) == RoundedD(s, i, "a*b-c", Three(s, i))
do_fnmsub_d(s, i) == RoundedD(s, i, "-a*b+c", Three(s, i))
do_fnmadd_d(s, i) == RoundedD(s, i, "-a*b-c", Three(s, i))
do_fadd_d(s, i) == RoundedD(s, i, "+", Two(s, i))
do_fsub_d(s, i) == RoundedD(s, i, "-", Two(s, i))
do_fmul_d(s, i) == RoundedD(s, i, "*", Two(s, i))
do_fdiv_d(s, i) == RoundedD(s, i, "/", Two(s, i))
do_fsqrt_d(s, i) == RoundedD(s, i, "sqrt", <<F1(s, i)>>)

(* All 64 bits of the register are converted, also by the w forms.          *)
do_fcvt_s_w(s, i) == RoundedS(s, i, "int", <<SignedWord(SRC1(s, i))>>)
do_fcvt_s_wu(s, i) == RoundedS(s, i, "int", <<SRC1(s, i)>>)
do_fcvt_s_l(s, i) == RoundedS(s, i, "int", <<SignedWord(SRC1(s, i))>>)
do_fcvt_s_lu(s, i) == RoundedS(s, i, "int", <<SRC1(s, i)>>)
do_fcvt_d_w(s, i) == RoundedD(s, i, "int", <<SignedWord(SRC1(s, i))>>)
do_fcvt_d_wu(s, i) == RoundedD(s, i, "int", <<SRC1(s, i)>>)
do_fcvt_d_l(s, i) == RoundedD(s, i, "int", <<SignedWord(SRC1(s, i))>>)
do_fcvt_d_lu(s, i) == RoundedD(s, i, "int", <<SRC1(s, i)>>)
do_fcvt_s_d(s, i) == RoundedS(s, i, "narrow", <<F1(s, i)>>)
do_fcvt_d_s(s, i) == RoundedD(s, i, "widen", <<F1(s, i)>>)

-----------------------------------------------------------------------------
(* Sign injection, minimum and maximum.  fsgnjx negates for a positive      *)
(* second operand.                                                          *)
fsgnj(s, i) == Times(Abs(F1(s, i)), F2(s, i).neg)
fsgnjn(s, i) == Times(Abs(F1(s, i)), ~F2(s, i).neg)
fsgnjx(s, i) == Times(F1(s, i), ~F2(s, i).neg)

do_fsgnj_s(s, i) == FDESTS(s, i, fsgnj(s, i))
do_fsgnjn_s(s, i) == FDESTS(s, i, fsgnjn(s, i))
do_fsgnjx_s(s, i) == FDESTS(s, i, fsgnjx(s, i))
do_fsgnj_d(s, i) == FDESTD(s, i, fsgnj(s, i))
do_fsgnjn_d(s, i) == FDESTD(s, i, fsgnjn(s, i))
do_fsgnjx_d(s, i) == FDESTD(s, i, fsgnjx(s, i))

(* Comparisons of the host: false for a NaN.                                *)
Less(x, y) == ~IsNan(x) /\ ~IsNan(y) /\ Twice(x) < Twice(y)
Equal(x, y) == ~IsNan(x) /\ ~IsNan(y) /\ Twice(x) = Twice(y)

(* std::min and std::max give the first operand unless the other is less    *)
(* (greater): a NaN there stays, a NaN second is dropped.                   *)
std_min(x, y) == IF Less(y, x) THEN y ELSE x
std_max(x, y) == IF Less(x, y) THEN y ELSE x

do_fmin_s(s, i) == FDESTS(s, i, std_min(F1(s, i), F2(s, i)))
do_fmax_s(s, i) == FDESTS(s, i, std_max(F1(s, i), F2(s, i)))
do_fmin_d(s, i) == FDESTD(s, i, std_min(F1(s, i), F2(s, i)))
do_fmax_d(s, i) == FDESTD(s, i, std_max(F1(s, i), F2(s, i)))

do_feq_s(s, i) == DEST(s, i, Flag(Equal(F1(s, i), F2(s, i))))
do_flt_s(s, i) == DEST(s, i, Flag(Less(F1(s, i), F2(s, i))))
do_fle_s(s, i) == DEST(s, i, Flag(Less(F1(s, i), F2(s, i)) \/ Equal(F1(s, i), F2(s, i))))
do_feq_d(s, i) == DEST(s, i, Flag(Equal(F1(s, i), F2(s, i))))
do_flt_d(s, i) == DEST(s, i, Flag(Less(F1(s, i), F2(s, i))))
do_fle_d(s, i) == DEST(s, i, Flag(Less(F1(s, i), F2(s, i)) \/ Equal(F1(s, i), F2(s, i))))

(* The number of the class, where the ISA has a bit for each.               *)
is_quiet_nan(x) == x.kind = "quiet"
is_signaling_nan(x) == x.kind = "signaling"

fclass(x) ==
  CASE x.kind = "infinite" -> IF x.neg THEN 0 ELSE 7
    [] x.kind = "normal" -> IF x.neg THEN 1 ELSE 6
    [] x.kind = "subnormal" -> IF x.neg THEN 2 ELSE 5
    [] x.kind = "zero" -> IF x.neg THEN 3 ELSE 4
    [] is_quiet_nan(x) -> 8
    [] is_signaling_nan(x) -> 9

do_fclass_s(s, i) == DEST(s, i, fclass(F1(s, i)))
do_fclass_d(s, i) == DEST(s, i, fclass(F1(s, i)))

-----------------------------------------------------------------------------
(* To integers.  A limit that the format cannot hold is rounded up to the   *)
(* next power of two, which the test then lets through: its conversion is   *)
(* undefined in C++, and i.undefined is what the host makes of it.          *)

INT32_MAX == 2 ^ (HALF - 1) - 1
INT32_MIN == -2 ^ (HALF - 1)
UINT32_MAX == 2 ^ HALF - 1
INT64_MAX == 2 ^ (XLEN - 1) - 1
INT64_MIN == -2 ^ (XLEN - 1)
UINT64_MAX == 2 ^ XLEN - 1

Truncate(x) == IF x.neg THEN -(x.mag \div 2) ELSE x.mag \div 2

(* llrint, in the rounding mode of the host.                                *)
llrint(x, round) ==
  LET floor == Twice(x) \div 2
      half == Twice(x) % 2
  IN  CASE half = 0 -> floor
        [] half # 0 /\ round = RTZ -> Truncate(x)
        [] half # 0 /\ round = RDN -> floor
        [] half # 0 /\ round = RUP -> floor + 1
        [] half # 0 /\ round = RNE -> floor + (floor % 2)

(* Mutant: values below the range reach the conversion.                     *)
SaturateAbove(x, min, max, limit, value, undefined) ==
  IF IsNan(x) \/ Twice(x) > 2 * limit THEN max
  ELSE IF value \in min .. max THEN value ELSE undefined

Saturate(x, min, max, limit, value, undefined) ==
  IF IsNan(x) \/ Twice(x) > 2 * limit THEN max
  ELSE IF Twice(x) < 2 * min THEN min
  ELSE IF value \in min .. max THEN value ELSE undefined

ToInt(s, i, min, max, limit) ==
  Saturate(F1(s, i), min, max, limit, Truncate(F1(s, i)), i.undefined)

Converted(s, i, value) ==
  IF NoMode(s, i) THEN do_invalid_inst(s)
  ELSE RESTORE_FPU(DEST(SET_FPU(s, i), i, value), s.round)

(* uint32_t i widened to sword_t: the upper half is zero, also of negatives. *)
do_fcvt_w_s(s, i) ==
  Converted(s, i, Low32(ToInt(s, i, INT32_MIN, INT32_MAX, INT32_MAX + 1)))

do_fcvt_wu_s(s, i) ==
  Converted(s, i, Low32(ToInt(s, i, 0, UINT32_MAX, UINT32_MAX + 1)))

do_fcvt_l_s(s, i) ==
  Converted(s, i, ToInt(s, i, INT64_MIN, INT64_MAX, INT64_MAX + 1))

do_fcvt_lu_s(s, i) ==
  Converted(s, i, ToInt(s, i, 0, UINT64_MAX, UINT64_MAX + 1))

do_fcvt_w_d(s, i) ==
  Converted(s, i, Low32(ToInt(s, i, INT32_MIN, INT32_MAX, INT32_MAX)))

do_fcvt_wu_d(s, i) ==
  Converted(s, i, Low32(ToInt(s, i, 0, UINT32_MAX, UINT32_MAX)))

(* The only one that rounds.                                                *)
do_fcvt_l_d(s, i) ==
  Converted(s, i, Saturate(F1(s, i), INT64_MIN, INT64_MAX, INT64_MAX + 1,
                           llrint(F1(s, i), SET_FPU(s, i).round), i.undefined))

do_fcvt_lu_d(s, i) ==
  Converted(s, i, ToInt(s, i, 0, UINT64_MAX, UINT64_MAX + 1))

-----------------------------------------------------------------------------
(* Bits that move unchanged: a datum in memory or in an integer register is *)
(* the datum.                                                               *)

do_flw(s, i, loaded) == FDESTS(s, i, loaded)
do_fld(s, i, loaded) == FDESTD(s, i, loaded)
do_fsw(s, i) == [s EXCEPT !.store = <<Word(ADDR(s, i)), F2(s, i), 4>>]
do_fsd(s, i) == [s EXCEPT !.store = <<Word(ADDR(s, i)), F2(s, i), 8>>]

(* A set sign makes the upper half all ones: the sign extension of a single, *)
(* but for a double, whose sign is in that half, the loss of half of it.    *)
fmv_x(s, i) ==
  [s EXCEPT !.gpr[i.rd] = [bits |-> F1(s, i), upperOnes |-> F1(s, i).neg]]

do_fmv_x_w(s, i) == fmv_x(s, i)
do_fmv_x_d(s, i) == fmv_x(s, i)
do_fmv_w_x(s, i, bits) == FDESTS(s, i, bits)
do_fmv_d_x(s, i, bits) == FDESTD(s, i, bits)

FromSp(i) == [i EXCEPT !.rs1 = 2]
do_c_fldsp(s, i, loaded) == do_fld(s, FromSp(i), loaded)
do_c_fsdsp(s, i) == do_fsd(s, FromSp(i))
do_c_fld(s, i, loaded) == do_fld(s, i, loaded)
do_c_fsd(s, i) == do_fsd(s, i)
=============================================================================
