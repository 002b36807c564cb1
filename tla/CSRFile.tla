------------------------------ MODULE CSRFile ------------------------------
(***************************************************************************)
(* The control and status registers of an RV64 hart                        *)
(* (src/cpu/riscv/csr/csr.cpp, csr-rw.cpp, csr-field.hpp, inst/zicsr.cpp)  *)
(* and what the hart derives from them: its copy of mstatus, the           *)
(* translation it uses, the PMP list and the timer it registered.          *)
(* A register holds the set of the positions of its ones.  A hart is a     *)
(* record f; an optional result is a set of at most one element.           *)
(***************************************************************************)
EXTENDS Integers, Sequences, FiniteSetsExt

USER == 0
SUPERVISOR == 1
MACHINE == 3

(* Interrupt codes, as the code numbers them.                               *)
SOFTWARE_S == 0
TIMER_S == 5
EXTERNAL_S == 9

(* The registers that have behaviour, the plain ones they stand beside, and *)
(* two addresses that no register has.                                      *)
PmpCfgs == {"pmpcfg0"}
PmpAddrs == <<"pmpaddr0", "pmpaddr1">>
Registers ==
  {"mstatus", "sstatus", "mip", "sip", "mie", "sie", "satp", "stimecmp", "mcounteren",
   "scounteren", "menvcfg", "time", "mhartid", "fcsr", "fflags", "frm"} \cup PmpCfgs \cup {"pmpaddr0", "pmpaddr1"}

csr_read_only(a) == a \in {"time", "mhartid", "instret"}

ResetValue(a) == IF a = "mstatus" THEN {11, 12} ELSE {}

get_csr_value(f, a) == f.csr[a]
set_csr_value(f, a, v) == [f EXCEPT !.csr[a] = v]

(* What bits the value v gets from w where the mask is set.                 *)
Merge(v, w, mask) == (v \ mask) \cup (w \cap mask)
Shift(v, n) == {b + n : b \in v}

-----------------------------------------------------------------------------
(* csr-field.hpp                                                            *)

SSTATUS_MASK == {1, 5, 8, 13, 14, 15, 16, 18, 19, 23, 24, 32, 33, 63}
MIP_RW_MASK == {TIMER_S, SOFTWARE_S}
INTER_MASK_S == {SOFTWARE_S, TIMER_S, EXTERNAL_S}
MIE_INTER_MASK == {0, 3, 5, 7, 9, 11, 13}
FFLAGS == 0 .. 4
FRM == 5 .. 7

(* Modes 0, 8, 9 and 10 of satp: bare, Sv39, Sv48 and Sv57.                 *)
Mode(v) == v \cap (60 .. 63)
ValidModes == {{}, {63}, {63, 60}, {63, 61}}
Ppn(v) == v \cap (0 .. 43)
Asid == 44 .. 52
Satp(v) == IF Mode(v) \in ValidModes THEN v ELSE v \ (60 .. 63)

-----------------------------------------------------------------------------
(* What is derived.                                                         *)

Copy(f) ==
  LET v == get_csr_value(f, "mstatus") IN [mie |-> 3 \in v, sie |-> 1 \in v, sum |-> 18 \in v]

update_mstatus(f) == [f EXCEPT !.copy = Copy(f)]

Translation(f) ==
  LET v == get_csr_value(f, "satp")
  IN  [base |-> Ppn(v), mode |-> IF f.privMode = MACHINE THEN {} ELSE Mode(v)]

update_vm_translate(f) == [f EXCEPT !.translate = Translation(f)]

set_priv_mode(f, mode) == update_vm_translate([f EXCEPT !.privMode = mode])

(* register_stimer, and STIP off until the timer is due.                    *)
update_stimecmp(f) ==
  [f EXCEPT !.timer = get_csr_value(f, "stimecmp"), !.csr["mip"] = @ \ {TIMER_S}]

Number(v) == MapThenSumSet(LAMBDA b : 2 ^ b, v)

(* Entry k of the PMP as its byte of pmpcfg and its pmpaddr give it: none   *)
(* when it is off or its range is upside down.  The start of a NAPOT range  *)
(* is not shifted.                                                          *)
PmpEntry(cfgs, addrs, k) ==
  LET cfg == {b \in 0 .. 7 : 8 * (k - 1) + b \in cfgs}
      addr == addrs[k]
      Covers(start, end) == <<[start |-> start, end |-> end, perm |-> cfg \cap (0 .. 2)]>>
      top == Number(Shift(addr, 2))
      below == IF k = 1 THEN 0 ELSE Number(Shift(addrs[k - 1], 2))
      lowestZero == CHOOSE b \in 0 .. 54 : b \notin addr /\ 0 .. b - 1 \subseteq addr
      napot == Number(addr \ (0 .. lowestZero - 1))
  IN  CASE cfg \cap {3, 4} = {} -> <<>>
        [] cfg \cap {3, 4} = {3} -> IF below <= top THEN Covers(below, top) ELSE <<>>
        [] cfg \cap {3, 4} = {4} -> Covers(top, top + 4)
        [] cfg \cap {3, 4} = {3, 4} -> Covers(napot, napot + 8 * 2 ^ lowestZero)

PmpEntries(cfgs, addrs) ==
  LET upTo[k \in 0 .. Len(PmpAddrs)] ==
        IF k = 0 THEN <<>> ELSE upTo[k - 1] \o PmpEntry(cfgs, addrs, k)
  IN  upTo[Len(PmpAddrs)]

PmpList(f) ==
  PmpEntries(get_csr_value(f, "pmpcfg0"),
             [k \in 1 .. Len(PmpAddrs) |-> get_csr_value(f, PmpAddrs[k])])

reload_pmpcfg(f) == [f EXCEPT !.pmp = PmpList(f)]

-----------------------------------------------------------------------------
(* read_csr and write_csr with the functions of csr-rw.cpp.  sie and sip    *)
(* have no read function: they read what is stored at their own address.    *)

time_readable(f) ==
  \/ f.privMode = MACHINE
  \/ f.privMode = SUPERVISOR /\ 1 \in get_csr_value(f, "mcounteren") /\ 63 \in get_csr_value(f, "menvcfg")
  \/ f.privMode = USER /\ 1 \in get_csr_value(f, "mcounteren") /\ 1 \in get_csr_value(f, "scounteren")

read_csr(f, a) ==
  CASE a \notin Registers -> {}
    [] a = "sstatus" -> {get_csr_value(f, "mstatus") \cap SSTATUS_MASK}
    [] a = "fflags" -> {get_csr_value(f, "fcsr") \cap FFLAGS}
    [] a = "frm" -> {Shift(get_csr_value(f, "fcsr") \cap FRM, -5)}
    [] a = "time" -> IF time_readable(f) THEN {{}} ELSE {}
    [] OTHER -> {get_csr_value(f, a)}

Into(f, a, v, mask) == set_csr_value(f, a, Merge(get_csr_value(f, a), v, mask))

(* Mutant: the rounding mode replaces all of fcsr.                          *)
write_frm_whole(f, v) == set_csr_value(f, "fcsr", Shift(v, 5) \cap FRM)

write_frm(f, v) == Into(f, "fcsr", Shift(v, 5), FRM)

Stored(f, a, v) ==
  CASE a = "mip" -> Into(f, "mip", v, MIP_RW_MASK)
    [] a = "sip" -> Into(f, "mip", v, {SOFTWARE_S})
    [] a = "sie" -> set_csr_value(f, "mie", Merge(get_csr_value(f, "mie") \cap MIE_INTER_MASK, v, INTER_MASK_S))
    [] a = "sstatus" -> Into(f, "mstatus", v, SSTATUS_MASK)
    [] a \in PmpCfgs -> reload_pmpcfg(set_csr_value(f, a, v))
    [] a \in {"pmpaddr0", "pmpaddr1"} -> reload_pmpcfg(set_csr_value(f, a, v \cap (0 .. 53)))
    [] a = "satp" -> set_csr_value(f, a, Satp(v) \ Asid)
    [] a = "fflags" -> Into(f, "fcsr", v, FFLAGS)
    [] a = "frm" -> write_frm(f, v)
    [] OTHER -> set_csr_value(f, a, v)

WriteCallback(f, a) ==
  CASE a = "stimecmp" -> update_stimecmp(f)
    [] a = "satp" -> update_vm_translate(f)
    [] a \in {"mstatus", "sstatus"} -> update_mstatus(f)
    [] OTHER -> f

write_csr(f, a, v) == IF a \in Registers THEN {WriteCallback(Stored(f, a, v), a)} ELSE {}

-----------------------------------------------------------------------------
(* inst/zicsr.cpp.  src is the value of rs1 or the immediate; noWrite tells *)
(* that rs1 is x0 or the immediate 0, toX0 that rd is x0.                   *)

DEST(f, i, v) == IF i.toX0 THEN f ELSE [f EXCEPT !.rd = v]
do_invalid_inst(f) == [f EXCEPT !.invalid = TRUE]

(* CHECK_SUCCESS on a result that may be missing.                           *)
CheckSuccess(f, outcomes) ==
  IF outcomes = {} THEN do_invalid_inst(f) ELSE CHOOSE g \in outcomes : TRUE

do_csrrw(f, i) ==
  LET old == IF i.toX0 THEN {{}} ELSE read_csr(f, i.csr)
  IN  IF csr_read_only(i.csr) THEN do_invalid_inst(f)
      ELSE CheckSuccess(f, {DEST(g, i, v) : v \in old, g \in write_csr(f, i.csr, i.src)})

(* The destination is written before the register.                          *)
do_csrrwi(f, i) ==
  LET begun == IF i.toX0 THEN {f} ELSE {DEST(f, i, v) : v \in read_csr(f, i.csr)}
  IN  IF csr_read_only(i.csr) THEN do_invalid_inst(f)
      ELSE IF begun = {} THEN do_invalid_inst(f)
      ELSE LET g == CHOOSE g \in begun : TRUE IN CheckSuccess(g, write_csr(g, i.csr, i.src))

(* Both forms of csrrs and of csrrc: read, change, write back.              *)
ReadModifyWrite(f, i, sets) ==
  LET old == read_csr(f, i.csr)
  IN  IF old = {} \/ (~i.noWrite /\ csr_read_only(i.csr)) THEN do_invalid_inst(f)
      ELSE IF i.noWrite THEN CheckSuccess(f, {DEST(f, i, v) : v \in old})
      ELSE CheckSuccess(f, UNION {{DEST(g, i, v) : g \in
                         write_csr(f, i.csr, IF sets THEN v \cup i.src ELSE v \ i.src)} : v \in old})

do_csrrs(f, i) == ReadModifyWrite(f, i, TRUE)
do_csrrc(f, i) == ReadModifyWrite(f, i, FALSE)
do_csrrsi(f, i) == do_csrrs(f, i)
do_csrrci(f, i) == do_csrrc(f, i)

ExecuteZicsr(f, i) ==
  CASE i.op = "csrrw" -> do_csrrw(f, i)
    [] i.op = "csrrwi" -> do_csrrwi(f, i)
    [] i.op = "csrrs" -> do_csrrs(f, i)
    [] i.op = "csrrsi" -> do_csrrsi(f, i)
    [] i.op = "csrrc" -> do_csrrc(f, i)
    [] i.op = "csrrci" -> do_csrrci(f, i)

-----------------------------------------------------------------------------
(* The rest of the program: reset, the debugger and the devices store       *)
(* without the functions and the callbacks, and reset leaves the copy of    *)
(* mstatus, the translation and the timer as they were.                     *)

reset(f) ==
  [f EXCEPT !.csr = [a \in Registers |-> ResetValue(a)], !.pmp = <<>>, !.privMode = MACHINE]

Settable ==
  {"mstatus", "mie", "mip", "mcounteren", "sstatus", "sie", "scounteren", "sip", "stimecmp", "satp"}

set_register(f, a, v) == IF a \in Settable THEN set_csr_value(f, a, v) ELSE f

set_interrupt(f, code) == [f EXCEPT !.csr["mip"] = @ \cup {code}]
clear_interrupt(f, code) == [f EXCEPT !.csr["mip"] = @ \ {code}]

(* A hart after its first reset; its copy of mstatus is not initialised.    *)
Booted(copy) ==
  reset([csr |-> [a \in Registers |-> {}], privMode |-> MACHINE, copy |-> copy,
         translate |-> [base |-> {}, mode |-> {}], pmp |-> <<>>, timer |-> {},
         rd |-> {}, invalid |-> FALSE])
=============================================================================
