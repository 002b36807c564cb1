----------------------------- MODULE HartUnits -----------------------------
(***************************************************************************)
(* What a hart does by itself, each unit on inputs of its own: arithmetic, *)
(* compressed, LoongArch and floating-point instructions, and the CSRs.  A *)
(* step picks a unit and an input, and the properties compare what the     *)
(* unit does to it with another account of the same.                       *)
(***************************************************************************)
EXTENDS RVCompressed, LAInst, RVFloat

CONSTANTS RegisterValues,  (* register values of one instruction             *)
          Immediates,
          CsrSteps         (* steps of one hart with its CSRs                *)

ASSUME InputAssumption ==
  RegisterValues \subseteq Words /\ Immediates \subseteq Words /\ CsrSteps \in Nat

VARIABLES unit, input,
          hart          (* the hart whose CSRs are accessed, step by step    *)

hartVars == <<unit, input, hart>>

Csr == INSTANCE CSRFile

Pick(u, inputs) == unit = "none" /\ unit' = u /\ input' \in inputs /\ UNCHANGED hart

-----------------------------------------------------------------------------
(* Two operands, any two words.                                             *)
Calculate == Pick("arithmetic", Words \X Words)

(* One instruction on a hart with operands in x1 and x2.                    *)
Instructions ==
  [a : RegisterValues, b : RegisterValues, rd : {0, 1}, r1 : {0, 1, 2}, r2 : {1, 2},
   imm : Immediates]

ExecuteCompressed == Pick("compressed", Instructions)
ExecuteLoongArch == Pick("loongarch", Instructions)

Hart(a, b) ==
  [gpr |-> [r \in {0, 1, 2, 32} |-> IF r = 1 THEN a ELSE IF r = 2 THEN b ELSE 0], pc |-> 64, npc |-> 66,
   store |-> <<>>, invalid |-> FALSE]

DecodeInfo(n) == [rd |-> set_rd(n.rd), rs1 |-> n.r1, rs2 |-> n.r2, imm |-> n.imm, npc |-> 80]

LAFields(n) ==
  [rd |-> n.rd, rj |-> n.r1, rk |-> n.r2, rs1 |-> n.r1, rs2 |-> n.r2, imm |-> n.imm, npc |-> 80]

(* One floating-point instruction on f1 = x and f2 = y.                     *)
Datum(kind, neg, mag) == [kind |-> kind, neg |-> neg, mag |-> mag]

(* Zero, a half, the limits of both integer widths and what is next to      *)
(* them, infinity and the NaNs.                                             *)
Magnitudes ==
  {3, 2 ^ HALF - 2, 2 ^ HALF - 1, 2 ^ HALF, 2 ^ (HALF + 1), 2 ^ XLEN, 2 ^ XLEN + 1}

Data ==
  {Datum(k[1], neg, k[2]) : k \in {<<"zero", 0>>, <<"subnormal", 1>>, <<"infinite", 2 ^ (XLEN + 2)>>,
                                   <<"quiet", 0>>, <<"signaling", 0>>}, neg \in BOOLEAN}
  \cup {Datum("normal", neg, m) : m \in Magnitudes, neg \in BOOLEAN}

CalculateFloat ==
  Pick("float", [x : Data, y : Data, rd : {1, 3}, frm : {RTZ, RUP, DYN}, rm : {RNE, RDN, 5}])

FloatHart(n) ==
  [gpr |-> [r \in {0, 1, 2, 3, 32} |-> 0],
   fpr |-> [r \in 1 .. 3 |-> [boxed |-> FALSE, v |-> IF r = 2 THEN n.y ELSE n.x]],
   round |-> RNE, frm |-> n.frm, store |-> <<>>, invalid |-> FALSE]

FloatInfo(n) ==
  [rd |-> n.rd, rs1 |-> 1, rs2 |-> 2, rs3 |-> 3, flag |-> n.rm, imm |-> 0, undefined |-> 0]

(* A few steps of one hart with CSRs that belong together.                  *)
Focuses ==
  {[csrs |-> {"mstatus", "sstatus"}, values |-> {{1, 3}, {1, 5, 11}, {3, 18}}],
   [csrs |-> {"mip", "sip", "mie", "sie"}, values |-> {{0, 5}, {0, 3, 9, 12}}],
   [csrs |-> {"satp", "mhartid", "instret"}, values |-> {{2, 63}, {3, 62, 63}, {1, 45, 60, 63}}],
   [csrs |-> {"fcsr", "fflags", "frm"}, values |-> {{0, 1}, {0, 5, 6}, {2, 7}}],
   [csrs |-> {"time", "mcounteren", "scounteren", "menvcfg", "stimecmp"}, values |-> {{1}, {63}}],
   [csrs |-> {"pmpcfg0", "pmpaddr0", "pmpaddr1"}, values |-> {{0, 3}, {0, 3, 11}, {3, 4, 12}, {1, 54}}]}

Copies == {[mie |-> b, sie |-> b, sum |-> ~b] : b \in BOOLEAN}

BootHart ==
  /\ unit = "none" /\ unit' = "csr"
  /\ \E focus \in Focuses, copy \in Copies :
       /\ input' = [focus |-> focus, left |-> CsrSteps, last |-> [op |-> "boot"]]
       /\ hart' = Csr!Booted(copy)

Zicsr == {"csrrw", "csrrs", "csrrc", "csrrwi", "csrrsi", "csrrci"}

CsrInstructions(focus) ==
  [op : {"csrrw", "csrrs", "csrrc"}, csr : focus.csrs, src : focus.values, noWrite : {FALSE}, toX0 : BOOLEAN]
  \cup [op : {"csrrwi", "csrrsi", "csrrci"}, csr : focus.csrs,
        src : {v \in focus.values : v \subseteq 0 .. 4}, noWrite : {FALSE}, toX0 : {FALSE}]
  \cup [op : Zicsr, csr : focus.csrs, src : {{}}, noWrite : {TRUE}, toX0 : {FALSE}]

HartStep(last, after) ==
  /\ unit = "csr" /\ input.left > 0
  /\ input' = [input EXCEPT !.left = @ - 1, !.last = last]
  /\ hart' = after /\ UNCHANGED unit

Valid == [hart EXCEPT !.invalid = FALSE]

ExecuteCsr == unit = "csr" /\ \E i \in CsrInstructions(input.focus) : HartStep(i, Csr!ExecuteZicsr(Valid, i))
EnterMode == \E mode \in {0, 1, 3} : HartStep([op |-> "mode"], Csr!set_priv_mode(Valid, mode))
ResetHart == HartStep([op |-> "reset"], Csr!reset(Valid))
Debug ==
  unit = "csr" /\ \E a \in input.focus.csrs, v \in input.focus.values :
    HartStep([op |-> "debugger"], Csr!set_register(Valid, a, IF a = "satp" THEN Csr!Satp(v) ELSE v))
Raise == HartStep([op |-> "interrupt"], Csr!set_interrupt(Valid, 11))
Lower == HartStep([op |-> "interrupt"], Csr!clear_interrupt(Valid, 11))

(* A step of a unit that is no part of a hart.                              *)
HartUnitNames == {"arithmetic", "compressed", "loongarch", "float", "csr"}
Elsewhere == unit \notin HartUnitNames /\ unit' \notin HartUnitNames /\ UNCHANGED hart

-----------------------------------------------------------------------------
HartInit == unit = "none" /\ input = <<>> /\ hart = <<>>

HartNext ==
  \/ Calculate \/ ExecuteCompressed \/ ExecuteLoongArch \/ CalculateFloat
  \/ BootHart \/ ExecuteCsr \/ EnterMode \/ ResetHart \/ Debug \/ Raise \/ Lower

HartSpec == HartInit /\ [][HartNext \/ Elsewhere]_hartVars

-----------------------------------------------------------------------------
Is(u) == unit = u

(* Quotient q and remainder r of a by b: less than b, of a's sign.          *)
Divides(a, b, q, r) ==
  /\ a = b * q + r
  /\ Magnitude(r) < Magnitude(b)
  /\ r = 0 \/ (r < 0) = (a < 0)

(* A product read off its two halves is the product, and quotient and       *)
(* remainder put together again are the dividend, with the remainder that   *)
(* the RISC-V manual prescribes: for mul, mulh, mulhu, mulw, the divisions  *)
(* of mul.cpp and those of the LoongArch core.  Left out are divisors that  *)
(* are zero, or zero in their low half, and the quotient that does not fit, *)
(* for which the host's division is undefined; the upper half that divuw    *)
(* writes; and mulhsu, which the code computes as mulhu.                    *)
PartsMakeTheWhole ==
  Is("arithmetic") =>
    LET a == input[1]
        b == input[2]
        s == Hart(a, b)
        i == [rd |-> 32, rs1 |-> 1, rs2 |-> 2, rj |-> 1, rk |-> 2]
        Of(t) == t.gpr[32]
        Signed(t) == SignedWord(Of(t))
        SignedHalf(t) == SignedLow(Of(t), HALF)
    IN  /\ Signed(do_mulh(s, i)) * 2 ^ XLEN + Of(do_mul(s, i)) = SignedWord(a) * SignedWord(b)
        /\ Of(do_mulhu(s, i)) * 2 ^ XLEN + Of(do_mul(s, i)) = a * b
        /\ Low32(Of(do_mulw(s, i))) = Low32(Of(do_mul(s, i)))
        /\ Signed(la_mulh_w(s, i)) * 2 ^ HALF + Of(la_mul_w(s, i))
             = SignedLow(a, HALF) * SignedLow(b, HALF)
        /\ b # 0 /\ HostDivides(a, b) =>
             /\ Divides(SignedWord(a), SignedWord(b), Signed(do_div(s, i)), Signed(do_rem(s, i)))
             /\ Divides(a, b, Of(do_divu(s, i)), Of(do_remu(s, i)))
             /\ Divides(SignedLow(a, HALF), SignedLow(b, HALF),
                        Signed(do_divw(s, i)), Signed(do_remw(s, i)))
             /\ Divides(Low32(a), Low32(b), Low32(Of(do_divuw(s, i))), Low32(Of(do_remuw(s, i))))
             /\ Of(la_div_w(s, i)) = Of(do_divw(s, i))
             /\ Of(la_mod_w(s, i)) = Of(do_remw(s, i))
             /\ Low32(Of(la_div_wu(s, i)) * b + Of(la_mod_wu(s, i))) = Low32(a)
        /\ b = 0 =>
             /\ {Of(do_div(s, i)), Of(do_divu(s, i)), Of(do_divw(s, i)), Of(do_divuw(s, i))} = {2 ^ XLEN - 1}
             /\ {Of(do_rem(s, i)), Of(do_remu(s, i)), Of(do_remw(s, i)), Of(do_remuw(s, i))} = {a}

(* The registers a program can read: gpr[32] is not one.                    *)
Visible(s) == [s EXCEPT !.gpr = [r \in {0, 1, 2} |-> s.gpr[r]]]

(* x0 is zero, and registers hold words.                                    *)
WellFormed(s) == s.gpr[0] = 0 /\ \A r \in {1, 2} : s.gpr[r] \in Words

(* A compressed instruction is invalid or does what the instruction it      *)
(* abbreviates does, x0 as destination included: compressed.cpp writes out  *)
(* every effect again that base.cpp has.                                    *)
CompressedAsExpanded ==
  Is("compressed") =>
    LET s == Hart(input.a, input.b)
        i == DecodeInfo(input)
    IN  \A p \in Expansions(s, i) \cup (IF input.imm < XLEN THEN ShiftExpansions(s, i) ELSE {}) :
          /\ WellFormed(p[1]) /\ WellFormed(p[2])
          /\ p[1].invalid \/ Visible(p[1]) = Visible(p[2])

(* What both cores can do they do alike: 39 instructions of the LoongArch   *)
(* core give the registers, the jump and the store of their RISC-V twins,   *)
(* and x0 stays zero.  sll_w is compared in its low half only, for sllw     *)
(* does not sign-extend what it writes; left out are loads that fail and    *)
(* jirl with rd = rj, which reads rj after it wrote the link there.         *)
(* Of the logical instructions LoongArch has alone: x0 stays zero, nor is   *)
(* the complement of or, andn leaves what and takes, and a mask is zero     *)
(* when rk says so.  What else a mask is (the code writes the number of rj) *)
(* and what orn is (the code writes ~(rj | ~rk)) is not claimed.            *)
TwoCoresAgree ==
  Is("loongarch") =>
    LET s == Hart(input.a, input.b)
        i == LAFields(input)
        Result(t) == t.gpr[i.rd]
    IN  /\ \A p \in SharedResults(s, i) \cup (IF input.imm < HALF THEN SharedShifts(s, i) ELSE {}) :
             WellFormed(p[1]) /\ Visible(p[1]) = Visible(p[2])
        /\ \A t \in OwnResults(s, i) : WellFormed(t)
        /\ i.rd # 0 =>
             /\ Result(IF RK(s, i) = 0 THEN la_maskeqz(s, i) ELSE la_masknez(s, i)) = 0
             /\ Result(la_nor(s, i)) = Complement(Result(la_or(s, i)))
             /\ Result(la_andn(s, i)) + Result(la_and(s, i)) = RJ(s, i)
             /\ Low32(Result(la_sll_w(s, i))) = Low32(Result(do_sllw(s, Same(i))))

SinglesAfter(s, i) ==
  {do_fmadd_s(s, i), do_fmsub_s(s, i), do_fnmsub_s(s, i), do_fnmadd_s(s, i), do_fadd_s(s, i),
   do_fsub_s(s, i), do_fmul_s(s, i), do_fdiv_s(s, i), do_fsqrt_s(s, i), do_fcvt_s_w(s, i),
   do_fcvt_s_wu(s, i), do_fcvt_s_l(s, i), do_fcvt_s_lu(s, i), do_fcvt_s_d(s, i),
   do_fsgnj_s(s, i), do_fsgnjn_s(s, i), do_fsgnjx_s(s, i), do_fmin_s(s, i), do_fmax_s(s, i),
   do_flw(s, i, F2(s, i)), do_fmv_w_x(s, i, F2(s, i))}

DoublesAfter(s, i) ==
  {do_fmadd_d(s, i), do_fmsub_d(s, i), do_fnmsub_d(s, i), do_fnmadd_d(s, i), do_fadd_d(s, i),
   do_fsub_d(s, i), do_fmul_d(s, i), do_fdiv_d(s, i), do_fsqrt_d(s, i), do_fcvt_d_w(s, i),
   do_fcvt_d_wu(s, i), do_fcvt_d_l(s, i), do_fcvt_d_lu(s, i), do_fcvt_d_s(s, i),
   do_fsgnj_d(s, i), do_fsgnjn_d(s, i), do_fsgnjx_d(s, i), do_fmin_d(s, i), do_fmax_d(s, i),
   do_fld(s, i, F2(s, i)), do_fmv_d_x(s, i, F2(s, i)), do_c_fldsp(s, i, F2(s, i)),
   do_c_fld(s, i, F2(s, i))}

IntegersAfter(s, i) ==
  {do_fcvt_w_s(s, i), do_fcvt_wu_s(s, i), do_fcvt_l_s(s, i), do_fcvt_lu_s(s, i),
   do_fcvt_w_d(s, i), do_fcvt_wu_d(s, i), do_fcvt_l_d(s, i), do_fcvt_lu_d(s, i),
   do_feq_s(s, i), do_flt_s(s, i), do_fle_s(s, i), do_feq_d(s, i), do_flt_d(s, i), do_fle_d(s, i),
   do_fclass_s(s, i), do_fclass_d(s, i)}

(* Every floating-point instruction ends with the host in the rounding mode *)
(* it began in, whichever way it ends; one that is invalid changes nothing  *)
(* else, and the others write one register: a single with its other half    *)
(* filled with ones, a double whole, or an integer register.  The integer   *)
(* register is never x0 here: these functions would write it.               *)
FloatsLeaveTheHostAlone ==
  Is("float") =>
    LET s == FloatHart(input)
        i == FloatInfo(input)
        Others(f) == [r \in DOMAIN f \ {i.rd} |-> f[r]]
        Sound(t, file) ==
          /\ t.round = s.round
          /\ t.invalid => t = do_invalid_inst(s)
          /\ file # "gpr" => t.gpr = s.gpr
          /\ file # "fpr" => t.fpr = s.fpr
          /\ Others(t.gpr) = Others(s.gpr) /\ Others(t.fpr) = Others(s.fpr)
    IN  /\ \A t \in SinglesAfter(s, i) : Sound(t, "fpr") /\ (t.invalid \/ t.fpr[i.rd].boxed)
        /\ \A t \in DoublesAfter(s, i) : Sound(t, "fpr") /\ ~t.fpr[i.rd].boxed
        /\ \A t \in IntegersAfter(s, i) : Sound(t, "gpr")
        /\ \A t \in {do_fmv_x_w(s, i), do_fmv_x_d(s, i)} :
              Sound(t, "gpr") /\ t.gpr[i.rd].bits = input.x
        /\ \A t \in {do_fsw(s, i), do_fsd(s, i), do_c_fsdsp(s, i), do_c_fsd(s, i)} :
              Sound(t, "none") /\ t.store[2] = input.y

(* Conversion to an integer keeps the order of its operands and is never    *)
(* off by one or more inside the range of the integer; outside it gives the *)
(* nearest end, and for a NaN the greatest.  It holds where C++ defines the *)
(* conversion: not at the power of two beside a limit the format cannot     *)
(* hold.  A conversion to 32 bits is read in its low half: fcvt.w does not  *)
(* sign-extend what it writes, and nothing is claimed of the upper half.    *)
(* The six comparisons are those of the values, false for every NaN; class, *)
(* minimum and maximum follow the order; fsgnj and fsgnjn give the first    *)
(* number with the sign, or the other sign, of the second datum.  Nothing   *)
(* is claimed of fsgnjx, which negates for a positive second operand, nor   *)
(* of sign injection into a NaN.                                            *)
ConversionsKeepOrder ==
  Is("float") /\ ~(input.frm = DYN /\ input.rm = 5) =>
    LET x == input.x
        y == input.y
        i == FloatInfo(input)
        Of(v, Do(_, _)) == Do(FloatHart([input EXCEPT !.x = v]), i).gpr[i.rd]
        Nearest(v, min, max) ==
          IF IsNan(v) \/ Twice(v) > 2 * max THEN {max}
          ELSE IF Twice(v) < 2 * min THEN {min}
          ELSE {n \in min .. max : 2 * n - 2 < Twice(v) /\ Twice(v) < 2 * n + 2}
        Faithful(Do(_, _), min, max, bits) ==
          LET R(v) == IF min < 0 THEN SignedLow(Of(v, Do), bits) ELSE Of(v, Do) % 2 ^ bits
          IN  Twice(x) # 2 * (max + 1) =>
                /\ R(x) \in Nearest(x, min, max)
                /\ Less(x, y) /\ Twice(y) # 2 * (max + 1) => R(x) <= R(y)
        Number(v) == ~IsNan(v)
        known == Number(x) /\ Number(y)
        Compares(feq(_, _), flt(_, _), fle(_, _)) ==
          /\ Of(x, feq) = Flag(known /\ Twice(x) = Twice(y))
          /\ Of(x, flt) = Flag(known /\ Twice(x) < Twice(y))
          /\ Of(x, fle) = Flag(known /\ Twice(x) <= Twice(y))
        Injects(Do(_, _), neg) ==
          Number(x) => Do(FloatHart(input), i).fpr[i.rd].v = WithSign(x, neg)
    IN  /\ Faithful(do_fcvt_w_s, INT32_MIN, INT32_MAX, HALF)
        /\ Faithful(do_fcvt_w_d, INT32_MIN, INT32_MAX, HALF)
        /\ Faithful(do_fcvt_wu_s, 0, UINT32_MAX, HALF)
        /\ Faithful(do_fcvt_wu_d, 0, UINT32_MAX, HALF)
        /\ Faithful(do_fcvt_l_s, INT64_MIN, INT64_MAX, XLEN)
        /\ Faithful(do_fcvt_l_d, INT64_MIN, INT64_MAX, XLEN)
        /\ Faithful(do_fcvt_lu_s, 0, UINT64_MAX, XLEN)
        /\ Faithful(do_fcvt_lu_d, 0, UINT64_MAX, XLEN)
        /\ Compares(do_feq_s, do_flt_s, do_fle_s) /\ Compares(do_feq_d, do_flt_d, do_fle_d)
        /\ Injects(do_fsgnj_s, y.neg) /\ Injects(do_fsgnj_d, y.neg)
        /\ Injects(do_fsgnjn_s, ~y.neg) /\ Injects(do_fsgnjn_d, ~y.neg)
        /\ known =>
             /\ Less(x, y) => Of(x, do_fclass_s) <= Of(y, do_fclass_s)
             /\ ~Equal(x, y) => {std_min(x, y), std_max(x, y)} = {x, y}
             /\ ~Less(std_max(x, y), std_min(x, y))

(* What two registers show of the same bits: the bits of b that a write of  *)
(* a may change.  A write of sie clears what mie holds at positions that no *)
(* interrupt has, which a write of mie puts there unmasked.                 *)
Shared(a, b) ==
  CASE a = b -> 0 .. 63
    [] {a, b} = {"mstatus", "sstatus"} -> Csr!SSTATUS_MASK
    [] <<a, b>> = <<"sip", "mip">> -> {Csr!SOFTWARE_S}
    [] <<a, b>> = <<"sie", "mie">> -> Csr!INTER_MASK_S \cup ((0 .. 63) \ Csr!MIE_INTER_MASK)
    [] <<a, b>> = <<"stimecmp", "mip">> -> {Csr!TIMER_S}
    [] <<a, b>> \in {<<"fflags", "fcsr">>, <<"fcsr", "fflags">>} -> 0 .. 4
    [] <<a, b>> = <<"frm", "fcsr">> -> 5 .. 7
    [] <<a, b>> = <<"fcsr", "frm">> -> 0 .. 2
    [] OTHER -> {}

(* The bits that an instruction can set, and those that it leaves.          *)
Writable(a) ==
  CASE a = "mip" -> {Csr!TIMER_S, Csr!SOFTWARE_S}
    [] a = "sstatus" -> Csr!SSTATUS_MASK
    [] a \in {"pmpaddr0", "pmpaddr1"} -> 0 .. 53
    [] a = "fflags" -> 0 .. 4
    [] a = "frm" -> 0 .. 2
    [] OTHER -> 0 .. 63

Wanted(i, old) ==
  CASE i.op \in {"csrrw", "csrrwi"} -> i.src
    [] i.op \in {"csrrs", "csrrsi"} -> old \cup i.src
    [] i.op \in {"csrrc", "csrrci"} -> old \ i.src

Differ(v, w) == (v \ w) \cup (w \ v)

(* A CSR instruction that is invalid changes nothing; any other gives rd    *)
(* what the register read, and what it wrote is what the next read finds    *)
(* in the writable bits.  No other register reads differently but in the    *)
(* bits the two share, so that S-mode's registers reach no bit of M-mode;   *)
(* and what the hart derives from registers stays derived from them, unless *)
(* a reset or the debugger had stored past the callbacks before.  Excepted  *)
(* are the reads of sip and sie, which read a slot nothing writes.          *)
CsrsKeepApart ==
  [][unit = "csr" /\ input'.last.op \in Zicsr =>
       LET i == input'.last
           Read(f, a) == Csr!read_csr(f, a)
           Only(s) == CHOOSE v \in s : TRUE
       IN  /\ hart'.invalid => hart' = [hart EXCEPT !.invalid = TRUE]
           /\ ~hart'.invalid /\ ~i.toX0 => Read(hart, i.csr) = {hart'.rd}
           /\ i.toX0 => hart'.rd = hart.rd
           /\ ~hart'.invalid /\ i.csr \notin {"sip", "sie", "satp"} =>
                 LET old == Only(Read(hart, i.csr))
                 IN  Read(hart', i.csr) = {Csr!Merge(old, Wanted(i, old), Writable(i.csr))}
           /\ \A b \in Csr!Registers :
                 Read(hart, b) # {} /\ Read(hart', b) # {} =>
                   Differ(Only(Read(hart, b)), Only(Read(hart', b))) \subseteq Shared(i.csr, b)
           /\ hart.copy = Csr!Copy(hart) => hart'.copy = Csr!Copy(hart')
           /\ hart.translate = Csr!Translation(hart) => hart'.translate = Csr!Translation(hart')
           /\ hart'.pmp = Csr!PmpList(hart')
           /\ hart.timer = hart.csr["stimecmp"] => hart'.timer = hart'.csr["stimecmp"]]_hartVars
=============================================================================
