---------------------------- MODULE RVTrapProofs ----------------------------
(***************************************************************************)
(* Proofs about RVTrap, for any program, devices, delegation and scan      *)
(* frequency, when the guest is a safe one and KDB does not step a core an *)
(* interrupt is due for.                                                   *)
(***************************************************************************)
EXTENDS RVTrap, TLAPS

(* Where the hart goes on once the instruction at hand is finished.         *)
Cur == IF stage \in {"poll", "wfi", "stepWfi"} THEN npc ELSE pc

ProgramInv == Cur \in Main => Cur = resume /\ privMode = level

SHandlerInv == Cur = SHandler => privMode = SUPERVISOR /\ SretLeadsBack /\ ~cached.sie

(* The M handler interrupted the program, or the S handler at work for it.  *)
MHandlerInv ==
  Cur = MHandler =>
    /\ privMode = MACHINE /\ ~mstatus.mpie
    /\ \/ mepc \in Main /\ mepc = resume /\ mstatus.mpp = level
       \/ /\ mepc = SHandler /\ mstatus.mpp = SUPERVISOR
          /\ SretLeadsBack /\ ~cached.sie

(* The stale copy of mstatus never enables more than a safe guest allows.   *)
EnableInv ==
  /\ ~mstatus.mie /\ ~cached.mie
  /\ cached.sie => sieByCsr
  /\ medeleg # {} => ~sieByCsr

EpcInv ==
  /\ resume \in Main /\ sepc \in Main
  /\ level = MACHINE => mepc \in Main

NestInv == ProgramInv /\ SHandlerInv /\ MHandlerInv /\ EnableInv /\ EpcInv

IInv == TrapTypeOK /\ NestInv

-----------------------------------------------------------------------------

(* The fields a trap into M-mode, one into S-mode, MRET and SRET leave.     *)
LEMMA MachineFields ==
  ASSUME TrapTypeOK
  PROVE  /\ MachineStatus(privMode) \in MStatus
         /\ MachineStatus(privMode).mpp = privMode
         /\ MachineStatus(privMode).mpie = mstatus.mie
         /\ MachineStatus(privMode).mie = FALSE
         /\ MachineStatus(privMode).spp = mstatus.spp
  BY DEF TrapTypeOK, MachineStatus, MStatus

LEMMA SupervisorFields ==
  ASSUME TrapTypeOK
  PROVE  /\ SupervisorStatus(privMode) \in MStatus
         /\ SupervisorStatus(privMode).spp = (privMode # USER)
         /\ SupervisorStatus(privMode).sie = FALSE
         /\ SupervisorStatus(privMode).mie = mstatus.mie
         /\ SupervisorStatus(privMode).mpie = mstatus.mpie
         /\ SupervisorStatus(privMode).mpp = mstatus.mpp
<1>1. (privMode # USER) \in BOOLEAN
  OBVIOUS
<1>2. QED
  BY <1>1 DEF TrapTypeOK, SupervisorStatus, MStatus

LEMMA ReturnFields ==
  ASSUME TrapTypeOK
  PROVE  /\ MretStatus \in MStatus
         /\ MretStatus.mie = mstatus.mpie
         /\ MretStatus.spp = mstatus.spp
         /\ SretStatus \in MStatus
         /\ SretStatus.mie = mstatus.mie
         /\ SretStatus.mpie = mstatus.mpie
         /\ SretStatus.mpp = mstatus.mpp
         /\ SretMode \in {USER, SUPERVISOR}
  BY DEF TrapTypeOK, MretStatus, SretStatus, MStatus, SretMode, PrivModes, USER,
         SUPERVISOR, MACHINE

(* An instruction that was executed continues at npc.                       *)
LEMMA CurAfterInstruction ==
  ASSUME Executing, AfterInstruction
  PROVE  Cur = pc /\ Cur' = npc' /\ stage' \in Stages /\ pc' \in {pc, npc'}
  BY DEF Executing, AfterInstruction, Cur, Stages

-----------------------------------------------------------------------------
(* Types.                                                                   *)

LEMMA ScanTypes ==
  ASSUME TrapTypeOK, scan_interrupt
  PROVE  /\ npc' \in Pcs /\ privMode' \in PrivModes /\ mstatus' \in MStatus
         /\ cached' \in [mie : BOOLEAN, sie : BOOLEAN]
         /\ mepc' \in Pcs /\ sepc' \in Pcs
<1>1. CASE interrupt_m
  BY <1>1, MachineFields DEF interrupt_m, TrapTypeOK, Pcs, PrivModes
<1>2. CASE interrupt_s
  <2>1. mstatus' \in MStatus
    BY <1>2, SupervisorFields DEF interrupt_s
  <2>2. cached' \in [mie : BOOLEAN, sie : BOOLEAN]
    BY <1>2, <2>1 DEF interrupt_s, update_mstatus, MStatus
  <2>3. QED
    BY <1>2, <2>1, <2>2 DEF interrupt_s, TrapTypeOK, Pcs, PrivModes
<1>3. CASE UNCHANGED <<trapVars, npc>>
  BY <1>3 DEF trapVars, TrapTypeOK
<1>4. QED
  BY <1>1, <1>2, <1>3 DEF scan_interrupt

LEMMA GoesOnTypes ==
  ASSUME TrapTypeOK, GoesOn
  PROVE  /\ pc' \in Pcs /\ npc' \in Pcs /\ resume' \in Pcs
         /\ stage' \in Stages
         /\ UNCHANGED <<state, counter, level>>
<1>1. npc' \in Pcs /\ resume' \in Pcs
  BY DEF GoesOn, Following, InMain, Pcs, TrapTypeOK
<1>2. QED
  BY <1>1, CurAfterInstruction DEF GoesOn, TrapTypeOK

LEMMA ThreadTypes ==
  ASSUME TrapTypeOK, Run \/ Poll \/ StepBegin \/ reset \/ Devices \/ WfiEnds
  PROVE  TrapTypeOK'
<1>1. CASE Run
  BY <1>1, FreqAssumption
     DEF Run, TrapTypeOK, trapVars, delegVars, programVars, Stages
<1>2. CASE Poll
  <2>1. /\ npc' \in Pcs /\ privMode' \in PrivModes /\ mstatus' \in MStatus
        /\ cached' \in [mie : BOOLEAN, sie : BOOLEAN]
        /\ mepc' \in Pcs /\ sepc' \in Pcs
    BY <1>2, ScanTypes DEF Poll, TrapTypeOK, trapVars
  <2>2. counter' \in 0 .. InterruptFreq
    BY <1>2, FreqAssumption DEF Poll, PollDue, TrapTypeOK
  <2>3. pc' \in Pcs /\ stage' \in Stages
        /\ state' \in {"RUNNING", "HALT", "BREAKPOINT"}
    BY <1>2, <2>1 DEF Poll, Stages, TrapTypeOK
  <2>4. QED
    BY <1>2, <2>1, <2>2, <2>3 DEF Poll, TrapTypeOK, delegVars, programVars
<1>3. CASE StepBegin
  BY <1>3, ScanTypes DEF StepBegin, TrapTypeOK, delegVars, programVars, Stages
<1>4. CASE reset
  <2>1. ResetStatus \in MStatus
    BY DEF ResetStatus, MStatus, PrivModes
  <2>2. QED
    BY <1>4, <2>1, MainAssumption DEF reset, TrapTypeOK, Pcs, PrivModes
<1>5. CASE Devices
  <2>1. PICK code \in Lines : set_interrupt(code) \/ clear_interrupt(code)
    BY <1>5 DEF Devices
  <2>2. mip' \subseteq Interrupts
    BY <2>1, LinesAssumption DEF set_interrupt, clear_interrupt, TrapTypeOK
  <2>3. QED
    BY <2>1, <2>2 DEF set_interrupt, clear_interrupt, TrapTypeOK, trapVars,
                      delegVars, programVars
<1>6. CASE WfiEnds
  BY <1>6 DEF WfiEnds, TrapTypeOK, trapVars, delegVars, programVars, Stages
<1>7. QED
  BY <1>1, <1>2, <1>3, <1>4, <1>5, <1>6

LEMMA ControlTypes ==
  ASSUME TrapTypeOK,
         Plain \/ do_wfi \/ do_mret \/ do_sret
           \/ \E cause \in Causes : Exception(cause)
  PROVE  TrapTypeOK'
<1>1. CASE Plain
  BY <1>1, GoesOnTypes DEF Plain, TrapTypeOK, trapVars, delegVars
<1>2. CASE do_wfi
  <2>1. npc' \in Pcs /\ resume' \in Pcs
    BY <1>2 DEF do_wfi, Following, InMain, Pcs, TrapTypeOK
  <2>2. QED
    BY <1>2, <2>1 DEF do_wfi, TrapTypeOK, trapVars, delegVars, Stages
<1>3. CASE do_mret
  <2>1. /\ Executing /\ AfterInstruction /\ npc' = mepc
        /\ privMode' = mstatus.mpp /\ mstatus' = MretStatus
        /\ (resume' = resume \/ resume' = mepc)
        /\ (level' = level \/ level' = mstatus.mpp)
        /\ UNCHANGED <<state, counter, cached, mepc, sepc, mip, delegVars, sieByCsr>>
    BY <1>3 DEF do_mret
  <2>2. mstatus.mpp \in PrivModes
    BY DEF TrapTypeOK, MStatus
  <2>3. QED
    BY <2>1, <2>2, ReturnFields, CurAfterInstruction DEF TrapTypeOK, delegVars
<1>4. CASE do_sret
  <2>1. /\ Executing /\ AfterInstruction /\ npc' = sepc
        /\ privMode' = SretMode /\ mstatus' = SretStatus
        /\ (resume' = resume \/ resume' = sepc)
        /\ (level' = level \/ level' = SretMode)
        /\ UNCHANGED <<state, counter, cached, mepc, sepc, mip, delegVars, sieByCsr>>
    BY <1>4 DEF do_sret
  <2>2. SretMode \in PrivModes
    BY ReturnFields DEF PrivModes
  <2>3. QED
    BY <2>1, <2>2, ReturnFields, CurAfterInstruction DEF TrapTypeOK, delegVars
<1>5. CASE \E cause \in Causes : Exception(cause)
  <2>1. PICK cause \in Causes : Exception(cause)
    BY <1>5
  <2>2. /\ Executing /\ AfterInstruction /\ enter_trap(cause)
        /\ state' \in {"HALT", state}
        /\ UNCHANGED <<counter, mip, delegVars, programVars>>
    BY <2>1 DEF Exception
  <2>3. /\ mstatus' \in MStatus /\ privMode' \in PrivModes
        /\ npc' \in Pcs /\ mepc' \in Pcs /\ sepc' \in Pcs /\ cached' = cached
    BY <2>2, MachineFields, SupervisorFields
       DEF enter_trap, TrapTypeOK, Pcs, PrivModes
  <2>4. QED
    BY <2>2, <2>3, CurAfterInstruction DEF TrapTypeOK, delegVars, programVars
<1>6. QED
  BY <1>1, <1>2, <1>3, <1>4, <1>5

LEMMA CsrTypes ==
  ASSUME TrapTypeOK,
         \/ WriteMstatus \/ WriteSstatus \/ WriteMepc \/ WriteSepc
         \/ WriteMie \/ write_sie \/ write_mip \/ WriteMideleg \/ WriteMedeleg
  PROVE  TrapTypeOK'
<1>1. ASSUME NEW status \in MStatus, write_mstatus(status)
      PROVE  TrapTypeOK'
  <2>1. /\ GoesOn /\ mstatus' = status
        /\ sieByCsr' \in BOOLEAN
        /\ UNCHANGED <<privMode, mepc, sepc, mip, delegVars>>
    BY <1>1 DEF write_mstatus, TrapTypeOK, MStatus
  <2>2. cached' \in [mie : BOOLEAN, sie : BOOLEAN]
    BY <1>1 DEF write_mstatus, update_mstatus, MStatus
  <2>3. QED
    BY <2>1, <2>2, GoesOnTypes DEF TrapTypeOK, delegVars
<1>2. CASE WriteMstatus
  BY <1>1, <1>2 DEF WriteMstatus
<1>3. CASE WriteSstatus
  <2>1. \A sie, spie, spp \in BOOLEAN :
          [mstatus EXCEPT !.sie = sie, !.spie = spie, !.spp = spp] \in MStatus
    BY DEF TrapTypeOK, MStatus
  <2>2. QED
    BY <1>1, <1>3, <2>1 DEF WriteSstatus
<1>4. CASE WriteMepc
  BY <1>4, GoesOnTypes DEF WriteMepc, TrapTypeOK, delegVars, Pcs
<1>5. CASE WriteSepc
  BY <1>5, GoesOnTypes DEF WriteSepc, TrapTypeOK, delegVars, Pcs
<1>6. CASE WriteMie
  <2>1. mie' \subseteq Interrupts
    BY <1>6, CsrAssumption DEF WriteMie
  <2>2. QED
    BY <1>6, <2>1, GoesOnTypes DEF WriteMie, TrapTypeOK, trapVars
<1>7. CASE write_sie
  <2>1. mie' \subseteq Interrupts
    BY <1>7, CsrAssumption DEF write_sie, TrapTypeOK
  <2>2. QED
    BY <1>7, <2>1, GoesOnTypes DEF write_sie, TrapTypeOK, trapVars
<1>8. CASE write_mip
  <2>1. mip' \subseteq Interrupts
    BY <1>8, LinesAssumption DEF write_mip, TrapTypeOK
  <2>2. QED
    BY <1>8, <2>1, GoesOnTypes DEF write_mip, TrapTypeOK, trapVars, delegVars
<1>9. CASE WriteMideleg
  <2>1. mideleg' \subseteq Interrupts
    BY <1>9, CsrAssumption DEF WriteMideleg
  <2>2. QED
    BY <1>9, <2>1, GoesOnTypes DEF WriteMideleg, TrapTypeOK, trapVars
<1>10. CASE WriteMedeleg
  <2>1. medeleg' \subseteq Causes
    BY <1>10, CsrAssumption DEF WriteMedeleg
  <2>2. QED
    BY <1>10, <2>1, GoesOnTypes DEF WriteMedeleg, TrapTypeOK, trapVars
<1>11. QED
  BY <1>2, <1>3, <1>4, <1>5, <1>6, <1>7, <1>8, <1>9, <1>10

(* Every step keeps the types.                                              *)
LEMMA TypeStep ==
  ASSUME TrapTypeOK, [Next]_vars
  PROVE  TrapTypeOK'
<1>1. CASE UNCHANGED vars
  BY <1>1 DEF vars, TrapTypeOK
<1>2. CASE Instruction
  BY <1>2, ControlTypes, CsrTypes DEF Instruction
<1>3. QED
  BY <1>1, <1>2, ThreadTypes DEF Next, HartThread

-----------------------------------------------------------------------------
(* Nesting.                                                                 *)

Rules == SafeGuest /\ ~StepsIntoInterrupts

(* A trap the scan takes is from a mode below its target.                   *)
LEMMA ScanNests ==
  ASSUME IInv, scan_interrupt, stage = "poll", pc' = npc',
         stage' \in {"idle", "execute"},
         UNCHANGED <<mip, delegVars, programVars>>
  PROVE  NestInv'
<1> USE MainAssumption
<1>1. /\ TrapTypeOK /\ ProgramInv /\ SHandlerInv /\ MHandlerInv
      /\ EnableInv /\ EpcInv
  BY DEF IInv, NestInv
<1>2. Cur = npc /\ Cur' = npc'
  BY DEF Cur
<1>3. privMode \in PrivModes
  BY <1>1 DEF TrapTypeOK
<1>4. CASE TrapsToM /\ interrupt_m
  <2>1. privMode # MACHINE
    BY <1>1, <1>4 DEF TrapsToM, EnableInv, MACHINE
  <2>2. /\ mepc' = npc /\ privMode' = MACHINE /\ npc' = MHandler
        /\ sepc' = sepc /\ cached' = cached /\ mstatus'.mpp = privMode
        /\ mstatus'.mpie = mstatus.mie /\ mstatus'.mie = FALSE
        /\ mstatus'.spp = mstatus.spp
    BY <1>1, <1>4, MachineFields DEF interrupt_m
  <2>3. npc # MHandler
    BY <1>1, <1>2, <2>1 DEF MHandlerInv
  <2>4. npc \in Main \/ npc = SHandler
    BY <1>1, <2>3 DEF TrapTypeOK, Pcs
  <2>5. MHandlerInv'
    <3>1. CASE npc \in Main
      BY <1>1, <1>2, <2>2, <3>1 DEF MHandlerInv, ProgramInv, EnableInv, programVars
    <3>2. CASE npc = SHandler
      BY <1>1, <1>2, <2>2, <3>2
         DEF MHandlerInv, SHandlerInv, EnableInv, SretLeadsBack, SretMode, programVars
    <3>3. QED
      BY <2>4, <3>1, <3>2
  <2>6. ProgramInv' /\ SHandlerInv'
    BY <1>2, <2>2 DEF ProgramInv, SHandlerInv
  <2>7. EnableInv'
    BY <1>1, <2>2 DEF EnableInv, programVars, delegVars
  <2>8. EpcInv'
    <3>1. level = MACHINE => npc \in Main
      BY <1>1, <1>2, <2>1, <2>4
         DEF ProgramInv, SHandlerInv, SretLeadsBack, SretMode, USER, SUPERVISOR, MACHINE
    <3>2. QED
      BY <1>1, <2>2, <3>1 DEF EpcInv, programVars
  <2>9. QED
    BY <2>5, <2>6, <2>7, <2>8 DEF NestInv
<1>5. CASE TrapsToS /\ interrupt_s
  <2>1. privMode = USER \/ (privMode = SUPERVISOR /\ cached.sie)
    BY <1>3, <1>5 DEF TrapsToS, PrivModes, USER, SUPERVISOR, MACHINE
  <2>2. /\ sepc' = npc /\ privMode' = SUPERVISOR /\ npc' = SHandler
        /\ mepc' = mepc /\ mstatus'.spp = (privMode # USER)
        /\ mstatus'.mie = mstatus.mie /\ mstatus'.sie = FALSE
        /\ cached'.mie = mstatus'.mie /\ cached'.sie = mstatus'.sie
    BY <1>1, <1>5, SupervisorFields DEF interrupt_s, update_mstatus
  <2>3. npc \in Main
    BY <1>1, <1>2, <2>1
       DEF TrapTypeOK, Pcs, SHandlerInv, MHandlerInv, USER, SUPERVISOR, MACHINE
  <2>4. npc = resume /\ privMode = level
    BY <1>1, <1>2, <2>3 DEF ProgramInv
  <2>5. SHandlerInv'
    BY <1>2, <2>1, <2>2, <2>4
       DEF SHandlerInv, SretLeadsBack, SretMode, programVars, USER, SUPERVISOR
  <2>6. ProgramInv' /\ MHandlerInv'
    BY <1>2, <2>2 DEF ProgramInv, MHandlerInv
  <2>7. EnableInv'
    BY <1>1, <2>2 DEF EnableInv, programVars, delegVars
  <2>8. EpcInv'
    BY <1>1, <2>2, <2>3 DEF EpcInv, programVars
  <2>9. QED
    BY <2>5, <2>6, <2>7, <2>8 DEF NestInv
<1>6. CASE UNCHANGED <<trapVars, npc>>
  BY <1>1, <1>2, <1>6
     DEF NestInv, ProgramInv, SHandlerInv, MHandlerInv, EnableInv, EpcInv,
         SretLeadsBack, SretMode, trapVars, programVars, delegVars
<1>7. QED
  BY <1>4, <1>5, <1>6 DEF scan_interrupt

(* A step that leaves the trap CSRs and the place of the hart alone.        *)
LEMMA SameNest ==
  ASSUME IInv, Cur' = Cur, UNCHANGED <<trapVars, medeleg, programVars>>
  PROVE  NestInv'
  BY DEF IInv, NestInv, ProgramInv, SHandlerInv, MHandlerInv, EnableInv, EpcInv,
         SretLeadsBack, SretMode, trapVars, programVars

LEMMA ThreadNests ==
  ASSUME IInv, Rules,
         Run \/ Poll \/ StepBegin \/ reset \/ Devices \/ WfiEnds
  PROVE  NestInv'
<1>1. CASE Run
  <2>1. Cur' = Cur
    BY <1>1 DEF Run, Cur
  <2>2. QED
    BY <1>1, <2>1, SameNest DEF Run, delegVars
<1>2. CASE Poll
  <2>1. stage = "poll" /\ pc' = npc' /\ stage' \in {"idle", "execute"}
        /\ UNCHANGED <<mip, delegVars, programVars>>
    BY <1>2 DEF Poll
  <2>2. CASE PollDue
    BY <1>2, <2>1, <2>2, ScanNests DEF Poll
  <2>3. CASE ~PollDue
    <3>1. UNCHANGED <<trapVars, npc>>
      BY <1>2, <2>3 DEF Poll
    <3>2. Cur' = Cur
      BY <2>1, <3>1 DEF Cur
    <3>3. QED
      BY <2>1, <3>1, <3>2, SameNest DEF delegVars
  <2>4. QED
    BY <2>2, <2>3
<1>3. CASE StepBegin
  <2>1. UNCHANGED <<trapVars, npc>>
    BY <1>3 DEF StepBegin, Rules, scan_interrupt
  <2>2. Cur' = Cur
    BY <1>3, <2>1 DEF StepBegin, Cur
  <2>3. QED
    BY <1>3, <2>1, <2>2, SameNest DEF StepBegin, delegVars
<1>4. CASE reset
  <2>1. /\ Cur' = Entry /\ privMode' = MACHINE
        /\ mstatus'.mie = FALSE /\ cached' = cached /\ medeleg' = {}
        /\ mepc' = 0 /\ sepc' = 0 /\ resume' = Entry /\ level' = MACHINE
        /\ sieByCsr' = sieByCsr
    BY <1>4 DEF reset, Cur, ResetStatus
  <2>2. QED
    BY <2>1, MainAssumption
       DEF IInv, NestInv, ProgramInv, SHandlerInv, MHandlerInv, EnableInv, EpcInv
<1>5. CASE Devices
  <2>1. UNCHANGED <<pc, npc, stage, trapVars, delegVars, programVars>>
    BY <1>5 DEF Devices, set_interrupt, clear_interrupt
  <2>2. Cur' = Cur
    BY <2>1 DEF Cur
  <2>3. QED
    BY <2>1, <2>2, SameNest DEF delegVars
<1>6. CASE WfiEnds
  <2>1. Cur' = Cur
    BY <1>6 DEF WfiEnds, Cur
  <2>2. QED
    BY <1>6, <2>1, SameNest DEF WfiEnds, delegVars
<1>7. QED
  BY <1>1, <1>2, <1>3, <1>4, <1>5, <1>6

(* An instruction that goes on in the program, or in a handler.             *)
LEMMA GoesOnPlace ==
  ASSUME IInv, Executing, Following, Cur' = npc'
  PROVE  /\ Cur = pc
         /\ \/ pc \in Main /\ Cur' \in Main /\ resume' = Cur' /\ privMode = level
            \/ pc \notin Main /\ Cur' = Cur /\ resume' = resume
  BY DEF IInv, NestInv, ProgramInv, Executing, Following, InMain, Cur

(* Going on with the trap CSRs as they were.                                *)
LEMMA GoesOnNests ==
  ASSUME IInv, Executing, Following, Cur' = npc',
         UNCHANGED <<trapVars, level, sieByCsr>>,
         medeleg' = {} \/ medeleg' = medeleg \/ ~sieByCsr
  PROVE  NestInv'
<1>1. /\ ProgramInv /\ SHandlerInv /\ MHandlerInv /\ EnableInv /\ EpcInv
      /\ Cur = pc
  BY GoesOnPlace DEF IInv, NestInv
<1>2. CASE pc \in Main /\ Cur' \in Main /\ resume' = Cur' /\ privMode = level
  <2>1. ProgramInv' /\ SHandlerInv' /\ MHandlerInv'
    BY <1>2, MainAssumption DEF ProgramInv, SHandlerInv, MHandlerInv, trapVars
  <2>2. EnableInv' /\ EpcInv'
    BY <1>1, <1>2 DEF EnableInv, EpcInv, trapVars
  <2>3. QED
    BY <2>1, <2>2 DEF NestInv
<1>3. CASE pc \notin Main /\ Cur' = Cur /\ resume' = resume
  BY <1>1, <1>3
     DEF NestInv, ProgramInv, SHandlerInv, MHandlerInv, EnableInv, EpcInv,
         SretLeadsBack, SretMode, trapVars
<1>4. QED
  BY <1>2, <1>3, GoesOnPlace

LEMMA ExceptionNests ==
  ASSUME IInv, Rules, NEW cause \in Causes, Exception(cause)
  PROVE  NestInv'
<1>1. /\ TrapTypeOK /\ ProgramInv /\ SHandlerInv /\ MHandlerInv
      /\ EnableInv /\ EpcInv
  BY DEF IInv, NestInv
<1>2. /\ Executing /\ AfterInstruction /\ pc \in Main /\ enter_trap(cause)
      /\ ~(privMode = MACHINE /\ cause \in medeleg)
      /\ UNCHANGED <<counter, mip, delegVars, programVars>>
  BY DEF Exception, InMain, Rules
<1>3. Cur = pc /\ Cur' = npc'
  BY <1>2, CurAfterInstruction
<1>4. pc = resume /\ privMode = level
  BY <1>1, <1>2, <1>3 DEF ProgramInv
<1>5. CASE cause \in medeleg
  <2>1. /\ privMode \in {USER, SUPERVISOR} /\ ~cached.sie
    BY <1>1, <1>2, <1>5 DEF TrapTypeOK, PrivModes, EnableInv
  <2>2. /\ sepc' = pc /\ privMode' = SUPERVISOR /\ npc' = SHandler
        /\ mepc' = mepc /\ cached' = cached
        /\ mstatus'.spp = (privMode # USER) /\ mstatus'.mie = mstatus.mie
    BY <1>1, <1>2, <1>5, SupervisorFields DEF enter_trap
  <2>3. SHandlerInv'
    BY <1>2, <1>3, <1>4, <2>1, <2>2
       DEF SHandlerInv, SretLeadsBack, SretMode, programVars, USER, SUPERVISOR
  <2>4. ProgramInv' /\ MHandlerInv'
    BY <1>3, <2>2, MainAssumption DEF ProgramInv, MHandlerInv
  <2>5. EnableInv' /\ EpcInv'
    BY <1>1, <1>2, <2>2 DEF EnableInv, EpcInv, programVars, delegVars
  <2>6. QED
    BY <2>3, <2>4, <2>5 DEF NestInv
<1>6. CASE cause \notin medeleg
  <2>1. /\ mepc' = pc /\ privMode' = MACHINE /\ npc' = MHandler
        /\ sepc' = sepc /\ cached' = cached
        /\ mstatus'.mpp = privMode /\ mstatus'.mpie = mstatus.mie
        /\ mstatus'.mie = FALSE
    BY <1>1, <1>2, <1>6, MachineFields DEF enter_trap
  <2>2. MHandlerInv'
    BY <1>1, <1>2, <1>3, <1>4, <2>1 DEF MHandlerInv, EnableInv, programVars
  <2>3. ProgramInv' /\ SHandlerInv'
    BY <1>3, <2>1, MainAssumption DEF ProgramInv, SHandlerInv
  <2>4. EnableInv' /\ EpcInv'
    BY <1>1, <1>2, <2>1 DEF EnableInv, EpcInv, programVars, delegVars
  <2>5. QED
    BY <2>2, <2>3, <2>4 DEF NestInv
<1>7. QED
  BY <1>5, <1>6

LEMMA MretNests ==
  ASSUME IInv, Rules, do_mret
  PROVE  NestInv'
<1>1. /\ TrapTypeOK /\ ProgramInv /\ SHandlerInv /\ MHandlerInv
      /\ EnableInv /\ EpcInv
  BY DEF IInv, NestInv
<1>2. /\ Executing /\ AfterInstruction
      /\ privMode' = mstatus.mpp /\ npc' = mepc
      /\ mstatus'.mie = mstatus.mpie /\ mstatus'.spp = mstatus.spp
      /\ UNCHANGED <<cached, mepc, sepc, medeleg, sieByCsr>>
  BY <1>1, ReturnFields DEF do_mret, delegVars
<1>3. Cur = pc /\ Cur' = mepc
  BY <1>2, CurAfterInstruction
<1>4. CASE HandlerOf(MACHINE) /\ UNCHANGED <<resume, level>>
  <2>1. /\ ~mstatus.mpie
        /\ \/ mepc \in Main /\ mepc = resume /\ mstatus.mpp = level
           \/ /\ mepc = SHandler /\ mstatus.mpp = SUPERVISOR
              /\ SretLeadsBack /\ ~cached.sie
    BY <1>1, <1>3, <1>4 DEF HandlerOf, MHandlerInv
  <2>2. ProgramInv' /\ SHandlerInv' /\ MHandlerInv'
    BY <1>2, <1>3, <1>4, <2>1, MainAssumption
       DEF ProgramInv, SHandlerInv, MHandlerInv, SretLeadsBack, SretMode
  <2>3. EnableInv' /\ EpcInv'
    BY <1>1, <1>2, <1>4, <2>1 DEF EnableInv, EpcInv
  <2>4. QED
    BY <2>2, <2>3 DEF NestInv
<1>5. CASE /\ ProgramIn(MACHINE) /\ mstatus.mpp # MACHINE /\ ~mstatus.mpie
           /\ resume' = mepc /\ level' = mstatus.mpp
  <2>1. mepc \in Main
    BY <1>1, <1>3, <1>5 DEF ProgramIn, InMain, ProgramInv, EpcInv
  <2>2. ProgramInv' /\ SHandlerInv' /\ MHandlerInv'
    BY <1>2, <1>3, <1>5, <2>1, MainAssumption
       DEF ProgramInv, SHandlerInv, MHandlerInv
  <2>3. EnableInv' /\ EpcInv'
    BY <1>1, <1>2, <1>5, <2>1 DEF EnableInv, EpcInv
  <2>4. QED
    BY <2>2, <2>3 DEF NestInv
<1>6. QED
  BY <1>4, <1>5 DEF do_mret, Rules

LEMMA SretNests ==
  ASSUME IInv, do_sret
  PROVE  NestInv'
<1>1. /\ TrapTypeOK /\ ProgramInv /\ SHandlerInv /\ MHandlerInv
      /\ EnableInv /\ EpcInv
  BY DEF IInv, NestInv
<1>2. /\ Executing /\ AfterInstruction
      /\ privMode' = SretMode /\ npc' = sepc
      /\ mstatus'.mie = mstatus.mie
      /\ UNCHANGED <<cached, mepc, sepc, medeleg, sieByCsr>>
  BY <1>1, ReturnFields DEF do_sret, delegVars
<1>3. Cur = pc /\ Cur' = sepc /\ sepc \in Main
  BY <1>1, <1>2, CurAfterInstruction DEF EpcInv
<1>4. resume' = sepc /\ level' = SretMode
  <2>1. CASE HandlerOf(SUPERVISOR) /\ UNCHANGED <<resume, level>>
    BY <1>1, <1>3, <2>1
       DEF HandlerOf, SHandlerInv, SretLeadsBack, SUPERVISOR, MACHINE
  <2>2. QED
    BY <2>1 DEF do_sret
<1>5. ProgramInv' /\ SHandlerInv' /\ MHandlerInv'
  BY <1>2, <1>3, <1>4, MainAssumption DEF ProgramInv, SHandlerInv, MHandlerInv
<1>6. SretMode # MACHINE
  BY <1>1, ReturnFields DEF USER, SUPERVISOR, MACHINE
<1>7. EnableInv' /\ EpcInv'
  BY <1>1, <1>2, <1>3, <1>4, <1>6 DEF EnableInv, EpcInv
<1>8. QED
  BY <1>5, <1>7 DEF NestInv

(* A write of mstatus or sstatus by the program.                            *)
LEMMA StatusNests ==
  ASSUME IInv, Rules, NEW status \in MStatus, write_mstatus(status),
         InMain, ~status.mie
  PROVE  NestInv'
<1>1. /\ EnableInv /\ EpcInv /\ TrapTypeOK
  BY DEF IInv, NestInv
<1>2. /\ Executing /\ Following /\ AfterInstruction /\ level' = level
      /\ mstatus' = status
      /\ cached'.mie = status.mie /\ cached'.sie = status.sie
      /\ sieByCsr' = (sieByCsr \/ status.sie) /\ (status.sie => medeleg = {})
      /\ UNCHANGED <<privMode, mepc, sepc, medeleg>>
  BY DEF write_mstatus, update_mstatus, GoesOn, Rules, delegVars
<1>3. /\ Cur' \in Main /\ resume' = Cur' /\ privMode = level
  BY <1>2, CurAfterInstruction, GoesOnPlace DEF InMain
<1>4. ProgramInv' /\ SHandlerInv' /\ MHandlerInv'
  BY <1>2, <1>3, MainAssumption DEF ProgramInv, SHandlerInv, MHandlerInv
<1>5. EnableInv' /\ EpcInv'
  <2>1. status.sie \in BOOLEAN /\ sieByCsr \in BOOLEAN
    BY <1>1 DEF TrapTypeOK, MStatus
  <2>2. EnableInv'
    BY <1>1, <1>2, <2>1 DEF EnableInv
  <2>3. EpcInv'
    BY <1>1, <1>2, <1>3 DEF EpcInv
  <2>4. QED
    BY <2>2, <2>3
<1>6. QED
  BY <1>4, <1>5 DEF NestInv

LEMMA EpcNests ==
  ASSUME IInv, WriteMepc \/ WriteSepc
  PROVE  NestInv'
<1>1. EnableInv /\ EpcInv
  BY DEF IInv, NestInv
<1>2. /\ Executing /\ Following /\ AfterInstruction /\ level' = level /\ InMain
      /\ UNCHANGED <<privMode, mstatus, cached, medeleg, sieByCsr>>
  BY DEF WriteMepc, WriteSepc, GoesOn, ProgramIn, delegVars
<1>3. mepc' \in {mepc} \cup Main /\ sepc' \in {sepc} \cup Main
  BY DEF WriteMepc, WriteSepc
<1>4. /\ Cur' \in Main /\ resume' = Cur' /\ privMode = level
  BY <1>2, CurAfterInstruction, GoesOnPlace DEF InMain
<1>5. ProgramInv' /\ SHandlerInv' /\ MHandlerInv'
  BY <1>2, <1>4, MainAssumption DEF ProgramInv, SHandlerInv, MHandlerInv
<1>6. EnableInv' /\ EpcInv'
  BY <1>1, <1>2, <1>3, <1>4 DEF EnableInv, EpcInv
<1>7. QED
  BY <1>5, <1>6 DEF NestInv

LEMMA InstructionNests ==
  ASSUME IInv, Rules, Instruction
  PROVE  NestInv'
<1>1. CASE do_wfi
  <2>1. Cur' = npc'
    BY <1>1 DEF do_wfi, Cur
  <2>2. QED
    BY <1>1, <2>1, GoesOnNests DEF do_wfi, delegVars
<1>2. CASE Plain \/ WriteMie \/ write_sie \/ write_mip \/ WriteMideleg
  <2>1. GoesOn /\ UNCHANGED <<trapVars, medeleg, sieByCsr>>
    BY <1>2 DEF Plain, WriteMie, write_sie, write_mip, WriteMideleg, delegVars
  <2>2. QED
    BY <2>1, CurAfterInstruction, GoesOnNests DEF GoesOn
<1>3. CASE WriteMedeleg
  <2>1. GoesOn /\ UNCHANGED <<trapVars, sieByCsr>> /\ (medeleg' # {} => ~sieByCsr)
    BY <1>3 DEF WriteMedeleg, Rules
  <2>2. QED
    BY <2>1, CurAfterInstruction, GoesOnNests DEF GoesOn
<1>4. CASE WriteMstatus
  <2>1. PICK status \in MStatus : ~status.mie /\ write_mstatus(status)
    BY <1>4 DEF WriteMstatus, Rules
  <2>2. QED
    BY <1>4, <2>1, StatusNests DEF WriteMstatus, ProgramIn
<1>5. CASE WriteSstatus
  <2>1. PICK sie \in BOOLEAN, spie \in BOOLEAN, spp \in BOOLEAN :
          write_mstatus([mstatus EXCEPT !.sie = sie, !.spie = spie, !.spp = spp])
    BY <1>5 DEF WriteSstatus
  <2>2. /\ [mstatus EXCEPT !.sie = sie, !.spie = spie, !.spp = spp] \in MStatus
        /\ [mstatus EXCEPT !.sie = sie, !.spie = spie, !.spp = spp].mie = mstatus.mie
    BY DEF IInv, TrapTypeOK, MStatus
  <2>3. ~mstatus.mie
    BY DEF IInv, NestInv, EnableInv
  <2>4. QED
    BY <1>5, <2>1, <2>2, <2>3, StatusNests DEF WriteSstatus, ProgramIn
<1>6. QED
  BY <1>1, <1>2, <1>3, <1>4, <1>5, ExceptionNests, MretNests, SretNests, EpcNests
     DEF Instruction

-----------------------------------------------------------------------------

LEMMA InvInit == Init => IInv
<1> SUFFICES ASSUME Init PROVE IInv
  OBVIOUS
<1>1. ResetStatus \in MStatus /\ ResetStatus.mie = FALSE
  BY DEF ResetStatus, MStatus, PrivModes
<1>2. TrapTypeOK
  <2>1. counter \in 0 .. InterruptFreq
    BY FreqAssumption DEF Init
  <2>2. cached \in [mie : BOOLEAN, sie : BOOLEAN]
    BY DEF Init
  <2>3. QED
    BY <1>1, <2>1, <2>2, MainAssumption
       DEF Init, TrapTypeOK, Pcs, PrivModes, Stages
<1>3. Cur = Entry
  BY DEF Init, Cur
<1>4. NestInv
  BY <1>1, <1>3, MainAssumption
     DEF Init, NestInv, ProgramInv, SHandlerInv, MHandlerInv, EnableInv, EpcInv
<1>5. QED
  BY <1>2, <1>4 DEF IInv

LEMMA InvStep ==
  ASSUME SafeGuest, ~StepsIntoInterrupts
  PROVE  IInv /\ [Next]_vars => IInv'
<1> SUFFICES ASSUME IInv, [Next]_vars PROVE IInv'
  OBVIOUS
<1>1. TrapTypeOK'
  BY TypeStep DEF IInv
<1>2. CASE UNCHANGED vars
  <2>1. Cur' = Cur
    BY <1>2 DEF vars, Cur
  <2>2. QED
    BY <1>1, <1>2, <2>1, SameNest DEF vars, trapVars, programVars, IInv
<1>3. CASE Next
  BY <1>1, <1>3, ThreadNests, InstructionNests DEF Next, HartThread, IInv, Rules
<1>4. QED
  BY <1>2, <1>3

(* The registers keep their types, whatever guest and user do.              *)
THEOREM TrapTypes == Spec => []TrapTypeOK
<1>1. Init => TrapTypeOK
  BY InvInit DEF IInv
<1>2. TrapTypeOK /\ [Next]_vars => TrapTypeOK'
  BY TypeStep
<1>3. QED
  BY <1>1, <1>2, PTL DEF Spec

(* Traps are transparent: whatever interrupts and exceptions nest over it,  *)
(* the program of a safe guest resumes where it was, in the mode it was in. *)
THEOREM TrapsAreTransparent ==
  ASSUME SafeGuest, ~StepsIntoInterrupts
  PROVE  Spec => []ResumesWhereItWas
<1>1. IInv => ResumesWhereItWas
  BY DEF IInv, NestInv, ProgramInv, ResumesWhereItWas, Executing, InMain, Cur
<1>2. IInv /\ [Next]_vars => IInv'
  BY InvStep
<1>3. QED
  BY <1>1, <1>2, InvInit, PTL DEF Spec

(* Each handler can return to what it interrupted: a second trap never      *)
(* overwrites the xepc and xPP of one still at work.                        *)
THEOREM TrapsNest ==
  ASSUME SafeGuest, ~StepsIntoInterrupts
  PROVE  Spec => []HandlersLeadBack
<1>1. IInv => HandlersLeadBack
  BY DEF IInv, NestInv, SHandlerInv, MHandlerInv, HandlersLeadBack, Executing, Cur
<1>2. IInv /\ [Next]_vars => IInv'
  BY InvStep
<1>3. QED
  BY <1>1, <1>2, InvInit, PTL DEF Spec
=============================================================================
