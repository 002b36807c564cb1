------------------------------- MODULE RVTrap -------------------------------
(***************************************************************************)
(* One kxemu::cpu::RVCore: its run loop and KDB's step (execute.cpp), the  *)
(* scan for interrupts (privileged/interrupt.cpp), trap entry              *)
(* (privileged/trap.cpp), MRET, SRET, WFI (inst/privileged.cpp) and the    *)
(* guest's writes of the CSRs these read.                                  *)
(*                                                                         *)
(* The guest is a program with one M-level and one S-level trap handler.   *)
(* A pc is an instruction of the program, or one of the handlers, inside   *)
(* which the hart may execute any number of instructions.  A handler       *)
(* raises no exception, leaves xstatus and xepc alone and ends in xRET.    *)
(* Of the CSRs, the fields no step here reads (MPRV, SUM, xcause, xtval,   *)
(* the vector tables) are left out.  A device is one that sets and clears  *)
(* bits of mip; its races for mip are the subject of AClint.               *)
(***************************************************************************)
EXTENDS Integers, FiniteSets

CONSTANTS Main,           (* addresses of the program's instructions        *)
          Entry,          (* where a reset starts; xepc is reset to 0       *)
          MHandler,       (* pcs of the handlers mtvec and stvec point at   *)
          SHandler,
          Breakpoints,    (* KDB's breakpoints                              *)
          Causes,         (* exceptions the program raises                  *)
          HaltingCauses,  (* those on which the build halts the core        *)
          Lines,          (* interrupt bits the devices drive               *)
          MieValues, MidelegValues, MedelegValues,  (* what the guest writes *)
          InterruptFreq,  (* 0x1000 in the code                             *)
          SafeGuest,      (* the guest keeps the rules stated below         *)
          StepsIntoInterrupts  (* KDB steps while an interrupt is due       *)

USER == 0
SUPERVISOR == 1
MACHINE == 3
PrivModes == {USER, SUPERVISOR, MACHINE}

Interrupts == {"EXTERNAL_M", "SOFTWARE_M", "TIMER_M",
               "EXTERNAL_S", "SOFTWARE_S", "TIMER_S"}
INTER_BITS_S == {"EXTERNAL_S", "SOFTWARE_S", "TIMER_S"}

Pcs == Main \cup {MHandler, SHandler}

MStatus == [mie : BOOLEAN, mpie : BOOLEAN, mpp : PrivModes,
            sie : BOOLEAN, spie : BOOLEAN, spp : BOOLEAN]

ASSUME MainAssumption ==
  /\ Entry \in Main /\ 0 \in Main /\ Breakpoints \subseteq Main
  /\ MHandler \notin Main /\ SHandler \notin Main /\ MHandler # SHandler
ASSUME CausesAssumption == HaltingCauses \subseteq Causes
ASSUME LinesAssumption == Lines \subseteq Interrupts
ASSUME CsrAssumption ==
  /\ MieValues \subseteq SUBSET Interrupts
  /\ MidelegValues \subseteq SUBSET Interrupts
  /\ MedelegValues \subseteq SUBSET Causes
ASSUME FreqAssumption == InterruptFreq \in Nat \ {0}
ASSUME SwitchAssumption == SafeGuest \in BOOLEAN /\ StepsIntoInterrupts \in BOOLEAN

VARIABLES
  pc, npc,
  privMode,
  state,         (* RUNNING, HALT or BREAKPOINT                            *)
  stage,         (* where the thread that drives the core is               *)
  counter,       (* instructions since the last scan for interrupts        *)
  mstatus,       (* the CSR                                                *)
  cached,        (* RVCore::mstatus, the copy scan_interrupt reads         *)
  mepc, sepc,
  mip, mie, mideleg, medeleg,
  resume,        (* history: instruction the program has to execute next   *)
  level,         (* history: privilege mode the program runs in            *)
  sieByCsr       (* history: the guest has set SIE by a CSR write          *)

trapVars == <<privMode, mstatus, cached, mepc, sepc>>
delegVars == <<mie, mideleg, medeleg>>
programVars == <<resume, level, sieByCsr>>
vars == <<pc, npc, privMode, state, stage, counter, mstatus, cached, mepc,
          sepc, mip, mie, mideleg, medeleg, resume, level, sieByCsr>>

(* "poll" is run_step after execute; step scans first and then executes.    *)
Stages == {"idle", "execute", "wfi", "poll", "stepExecute", "stepWfi"}

ResetStatus == [mie |-> FALSE, mpie |-> FALSE, mpp |-> MACHINE,
                sie |-> FALSE, spie |-> FALSE, spp |-> FALSE]

Init ==
  /\ pc = Entry /\ npc = Entry
  /\ privMode = MACHINE
  /\ state = "RUNNING"
  /\ stage = "idle"
  /\ counter = 0
  /\ mstatus = ResetStatus
  /\ cached = [mie |-> FALSE, sie |-> FALSE]
  /\ mepc = 0 /\ sepc = 0
  /\ mip = {} /\ mie = {} /\ mideleg = {} /\ medeleg = {}
  /\ resume = Entry /\ level = MACHINE
  /\ sieByCsr = FALSE

InMain == pc \in Main

Executing == stage \in {"execute", "stepExecute"}

(* What follows the instruction: run_step looks for interrupts, step is     *)
(* done.                                                                    *)
AfterInstruction ==
  IF stage = "execute"
  THEN stage' = "poll" /\ UNCHANGED pc
  ELSE stage' = "idle" /\ pc' = npc'

-----------------------------------------------------------------------------
(* Interrupts.                                                              *)

(* The callback of a write of mstatus or sstatus.                           *)
update_mstatus(status) == cached' = [mie |-> status.mie, sie |-> status.sie]

MachineStatus(y) == [mstatus EXCEPT !.mpp = y, !.mpie = mstatus.mie,
                                    !.mie = FALSE]

SupervisorStatus(y) == [mstatus EXCEPT !.spp = (y # USER),
                                       !.spie = mstatus.sie, !.sie = FALSE]

(* Mutant: mepc gets the instruction just executed.                         *)
interrupt_m_repeats ==
  /\ mepc' = pc
  /\ mstatus' = MachineStatus(privMode)
  /\ privMode' = MACHINE
  /\ npc' = MHandler
  /\ UNCHANGED <<cached, sepc>>

(* Writes mstatus past its callback.                                        *)
interrupt_m ==
  /\ mepc' = npc
  /\ mstatus' = MachineStatus(privMode)
  /\ privMode' = MACHINE
  /\ npc' = MHandler
  /\ UNCHANGED <<cached, sepc>>

(* Mutant: mstatus is written past its callback, as interrupt_m does.       *)
interrupt_s_past_callback ==
  /\ sepc' = npc
  /\ mstatus' = SupervisorStatus(privMode)
  /\ privMode' = SUPERVISOR
  /\ npc' = SHandler
  /\ UNCHANGED <<mepc, cached>>

(* Writes mstatus with its callback.                                        *)
interrupt_s ==
  /\ sepc' = npc
  /\ mstatus' = SupervisorStatus(privMode)
  /\ update_mstatus(mstatus')
  /\ privMode' = SUPERVISOR
  /\ npc' = SHandler
  /\ UNCHANGED mepc

(* Mutant: MIE masks M-level interrupts in every mode.                      *)
TrapsToMIfEnabled == cached.mie /\ (mip \cap mie) \ mideleg # {}

TrapsToM == /\ privMode < MACHINE \/ cached.mie
            /\ (mip \cap mie) \ mideleg # {}

TrapsToS == /\ privMode < SUPERVISOR \/ (privMode = SUPERVISOR /\ cached.sie)
            /\ mip \cap mie \cap mideleg \cap INTER_BITS_S # {}

scan_interrupt ==
  \/ TrapsToM /\ interrupt_m
  \/ ~TrapsToM /\ TrapsToS /\ interrupt_s
  \/ ~TrapsToM /\ ~TrapsToS /\ UNCHANGED <<trapVars, npc>>

-----------------------------------------------------------------------------
(* The thread that drives the core: RVCore::run and RVCore::step.           *)

Run ==
  /\ stage = "idle"
  /\ stage' = "execute" /\ state' = "RUNNING" /\ counter' = 0
  /\ UNCHANGED <<pc, npc, trapVars, mip, delegVars, programVars>>

(* Mutant: off by one at the counter's limit.                               *)
PollDueLate == counter > InterruptFreq

PollDue == counter = InterruptFreq

StopsAt(next) == state # "RUNNING" \/ next \in Breakpoints

Poll ==
  /\ stage = "poll"
  /\ IF PollDue THEN scan_interrupt ELSE UNCHANGED <<trapVars, npc>>
  /\ counter' = IF PollDue THEN 1 ELSE counter + 1
  /\ pc' = npc'
  /\ stage' = IF StopsAt(pc') THEN "idle" ELSE "execute"
  /\ state' = IF state = "RUNNING" /\ StopsAt(pc') THEN "BREAKPOINT" ELSE state
  /\ UNCHANGED <<mip, delegVars, programVars>>

StepBegin ==
  /\ stage = "idle" /\ state # "HALT"
  /\ StepsIntoInterrupts \/ ~(TrapsToM \/ TrapsToS)
  /\ stage' = "stepExecute" /\ state' = "RUNNING"
  /\ scan_interrupt
  /\ UNCHANGED <<pc, counter, mip, delegVars, programVars>>

(* RVCPU::reset; the copy of mstatus keeps its value.                       *)
reset ==
  /\ stage = "idle"
  /\ pc' = Entry
  /\ state' = "RUNNING"
  /\ privMode' = MACHINE
  /\ mstatus' = ResetStatus
  /\ mepc' = 0 /\ sepc' = 0
  /\ mip' = {} /\ mie' = {} /\ mideleg' = {} /\ medeleg' = {}
  /\ resume' = Entry /\ level' = MACHINE
  /\ UNCHANGED <<npc, stage, counter, cached, sieByCsr>>

(* A device's thread, or AClint::update and the PLIC on this one.           *)
set_interrupt(code) ==
  /\ mip' = mip \cup {code}
  /\ UNCHANGED <<pc, npc, state, stage, counter, trapVars, delegVars,
                 programVars>>

clear_interrupt(code) ==
  /\ code \in mip
  /\ mip' = mip \ {code}
  /\ UNCHANGED <<pc, npc, state, stage, counter, trapVars, delegVars,
                 programVars>>

-----------------------------------------------------------------------------
(* Instructions.  Where a guest rule bounds what the program does, the      *)
(* conjunct that says so starts with SafeGuest or is one of these two.      *)

ProgramIn(mode) == InMain /\ privMode = mode

HandlerOf(mode) == pc = IF mode = MACHINE THEN MHandler ELSE SHandler

(* The program may go on at any of its instructions; a handler stays in     *)
(* itself until it returns.                                                 *)
Following ==
  \/ InMain /\ npc' \in Main /\ resume' = npc'
  \/ ~InMain /\ npc' = pc /\ resume' = resume

GoesOn ==
  /\ Executing
  /\ Following
  /\ AfterInstruction
  /\ UNCHANGED <<state, counter, level>>

Plain == GoesOn /\ UNCHANGED <<trapVars, mip, delegVars, sieByCsr>>

(* `while (!*mip)`: entered with mip empty it ends when a device sets a bit *)
do_wfi ==
  /\ Executing
  /\ Following
  /\ stage' = IF stage = "execute" THEN "wfi" ELSE "stepWfi"
  /\ UNCHANGED <<pc, state, counter, trapVars, mip, delegVars, level, sieByCsr>>

WfiEnds ==
  /\ mip # {}
  /\ \/ stage = "wfi" /\ stage' = "poll" /\ UNCHANGED pc
     \/ stage = "stepWfi" /\ stage' = "idle" /\ pc' = npc
  /\ UNCHANGED <<npc, state, counter, trapVars, mip, delegVars, programVars>>

enter_trap(cause) ==
  /\ IF cause \in medeleg
     THEN /\ mstatus' = SupervisorStatus(privMode)
          /\ privMode' = SUPERVISOR
          /\ sepc' = pc
          /\ npc' = SHandler
          /\ UNCHANGED <<mepc, cached>>
     ELSE /\ mstatus' = MachineStatus(privMode)
          /\ privMode' = MACHINE
          /\ mepc' = pc
          /\ npc' = MHandler
          /\ UNCHANGED <<sepc, cached>>

(* A safe guest raises no delegated exception in M-mode.                    *)
Exception(cause) ==
  /\ Executing /\ InMain
  /\ SafeGuest => ~(privMode = MACHINE /\ cause \in medeleg)
  /\ enter_trap(cause)
  /\ state' = IF cause \in HaltingCauses THEN "HALT" ELSE state
  /\ AfterInstruction
  /\ UNCHANGED <<counter, mip, delegVars, programVars>>

MretStatus == [mstatus EXCEPT !.mie = mstatus.mpie, !.mpie = TRUE, !.mpp = USER]

SretStatus == [mstatus EXCEPT !.sie = mstatus.spie, !.spie = TRUE, !.spp = FALSE]

SretMode == IF mstatus.spp THEN SUPERVISOR ELSE USER

(* The handler returns, or M-mode firmware drops to the address it wrote to *)
(* mepc.  A safe guest never lets MIE become 1.                             *)
do_mret ==
  /\ Executing
  /\ privMode' = mstatus.mpp
  /\ mstatus' = MretStatus
  /\ npc' = mepc
  /\ \/ HandlerOf(MACHINE) /\ UNCHANGED <<resume, level>>
     \/ /\ ProgramIn(MACHINE)
        /\ SafeGuest => mstatus.mpp # MACHINE /\ ~mstatus.mpie
        /\ resume' = mepc /\ level' = mstatus.mpp
  /\ AfterInstruction
  /\ UNCHANGED <<state, counter, cached, mepc, sepc, mip, delegVars, sieByCsr>>

do_sret ==
  /\ Executing
  /\ privMode' = SretMode
  /\ mstatus' = SretStatus
  /\ npc' = sepc
  /\ \/ HandlerOf(SUPERVISOR) /\ UNCHANGED <<resume, level>>
     \/ /\ ProgramIn(SUPERVISOR)
        /\ resume' = sepc /\ level' = SretMode
  /\ AfterInstruction
  /\ UNCHANGED <<state, counter, cached, mepc, sepc, mip, delegVars, sieByCsr>>

-----------------------------------------------------------------------------
(* CSR writes.                                                              *)

(* A safe guest sets neither MIE nor MPIE, and sets SIE only if it never    *)
(* delegates an exception to S-mode.                                        *)
write_mstatus(status) ==
  /\ GoesOn
  /\ mstatus' = status
  /\ update_mstatus(status)
  /\ sieByCsr' = (sieByCsr \/ status.sie)
  /\ SafeGuest => (status.sie => medeleg = {})
  /\ UNCHANGED <<privMode, mepc, sepc, mip, delegVars>>

WriteMstatus ==
  /\ ProgramIn(MACHINE)
  /\ \E status \in MStatus :
       /\ SafeGuest => ~status.mie /\ ~status.mpie
       /\ write_mstatus(status)

(* write_sstatus keeps the M fields.                                        *)
WriteSstatus ==
  /\ ProgramIn(SUPERVISOR)
  /\ \E sie, spie, spp \in BOOLEAN :
       write_mstatus([mstatus EXCEPT !.sie = sie, !.spie = spie, !.spp = spp])

WriteMepc ==
  /\ ProgramIn(MACHINE)
  /\ GoesOn
  /\ mepc' \in Main
  /\ UNCHANGED <<privMode, mstatus, cached, sepc, mip, delegVars, sieByCsr>>

WriteSepc ==
  /\ ProgramIn(SUPERVISOR)
  /\ GoesOn
  /\ sepc' \in Main
  /\ UNCHANGED <<privMode, mstatus, cached, mepc, mip, delegVars, sieByCsr>>

WriteMie ==
  /\ privMode = MACHINE
  /\ GoesOn
  /\ mie' \in MieValues
  /\ UNCHANGED <<trapVars, mip, mideleg, medeleg, sieByCsr>>

(* The S bits are replaced.                                                 *)
write_sie ==
  /\ privMode = SUPERVISOR
  /\ GoesOn
  /\ \E value \in MieValues :
       mie' = (mie \ INTER_BITS_S) \cup (value \cap INTER_BITS_S)
  /\ UNCHANGED <<trapVars, mip, mideleg, medeleg, sieByCsr>>

(* Of mip only STIP and SSIP are writable, of sip only SSIP.                *)
write_mip ==
  /\ privMode # USER
  /\ GoesOn
  /\ LET writable == IF privMode = MACHINE THEN {"TIMER_S", "SOFTWARE_S"}
                     ELSE {"SOFTWARE_S"}
     IN \E value \in SUBSET (writable \cap Lines) :
          mip' = (mip \ writable) \cup value
  /\ UNCHANGED <<trapVars, delegVars, sieByCsr>>

WriteMideleg ==
  /\ ProgramIn(MACHINE)
  /\ GoesOn
  /\ mideleg' \in MidelegValues
  /\ UNCHANGED <<trapVars, mip, mie, medeleg, sieByCsr>>

WriteMedeleg ==
  /\ ProgramIn(MACHINE)
  /\ GoesOn
  /\ medeleg' \in MedelegValues
  /\ SafeGuest => (medeleg' # {} => ~sieByCsr)
  /\ UNCHANGED <<trapVars, mip, mie, mideleg, sieByCsr>>

-----------------------------------------------------------------------------

Instruction ==
  \/ Plain \/ do_wfi \/ do_mret \/ do_sret
  \/ \E cause \in Causes : Exception(cause)
  \/ WriteMstatus \/ WriteSstatus \/ WriteMepc \/ WriteSepc
  \/ WriteMie \/ write_sie \/ write_mip \/ WriteMideleg \/ WriteMedeleg

HartThread == Instruction \/ WfiEnds \/ Poll

Devices == \E code \in Lines : set_interrupt(code) \/ clear_interrupt(code)

Next == HartThread \/ Devices \/ Run \/ StepBegin \/ reset

(* The hart's thread runs; devices and the user need not do anything.       *)
Spec == Init /\ [][Next]_vars /\ WF_vars(HartThread)

-----------------------------------------------------------------------------

TrapTypeOK ==
  /\ pc \in Pcs /\ npc \in Pcs
  /\ privMode \in PrivModes
  /\ state \in {"RUNNING", "HALT", "BREAKPOINT"}
  /\ stage \in Stages
  /\ counter \in 0 .. InterruptFreq
  /\ mstatus \in MStatus
  /\ cached \in [mie : BOOLEAN, sie : BOOLEAN]
  /\ mepc \in Pcs /\ sepc \in Pcs
  /\ mip \subseteq Interrupts /\ mie \subseteq Interrupts
  /\ mideleg \subseteq Interrupts /\ medeleg \subseteq Causes
  /\ resume \in Pcs /\ level \in PrivModes /\ sieByCsr \in BOOLEAN

(* However interrupts, exceptions and the handlers' returns nest, the       *)
(* program goes on at the instruction it had to execute next, in the        *)
(* privilege mode it was in: no trap loses, repeats or promotes a part of   *)
(* it.                                                                      *)
ResumesWhereItWas ==
  Executing /\ InMain => pc = resume /\ privMode = level

(* No nesting takes from a handler the way back: sepc and SPP lead to the   *)
(* program, mepc and MPP there or to the S handler that was interrupted.    *)
SretLeadsBack == sepc = resume /\ SretMode = level

HandlersLeadBack ==
  Executing =>
    /\ pc = SHandler => SretLeadsBack
    /\ pc = MHandler =>
         \/ mepc = resume /\ mstatus.mpp = level
         \/ mepc = SHandler /\ mstatus.mpp = SUPERVISOR /\ SretLeadsBack

(* An interrupt the scan takes in the mode it is taken from finds that      *)
(* mode's interrupt-enable bit of mstatus set.                              *)
MaskedInterruptsWait ==
  stage = "poll" /\ PollDue =>
    /\ privMode = MACHINE /\ TrapsToM => mstatus.mie
    /\ privMode = SUPERVISOR /\ ~TrapsToM /\ TrapsToS => mstatus.sie

Target(code) == IF code \in mideleg THEN SUPERVISOR ELSE MACHINE

(* An interrupt that stays pending and enabled for a mode above the current *)
(* one is taken: the instruction counter comes round to the next scan.      *)
InterruptIsTaken ==
  \A code \in Lines :
    (stage # "idle" /\ code \in mip \cap mie /\ privMode < Target(code))
      ~> \/ privMode >= Target(code) \/ stage = "idle"
         \/ code \notin mip \cap mie

=============================================================================
