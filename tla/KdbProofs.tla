----------------------------- MODULE KdbProofs -----------------------------
(* Proofs about Kdb, for any number of cores, guest, set of commands and     *)
(* length of a session: the machine is at rest between runs, breakpoints     *)
(* stop every core, and the exit status is no false alarm.                   *)
EXTENDS Kdb, TLAPS

Places == {"none", "created", "first", "loop", "poll", "polling", "ended"}

Types ==
  /\ front \in {"command", "step", "join", "gdb", "done"}
  /\ lastCmd \in Commands \cup {NoCommand}
  /\ gdbCore \in Harts
  /\ programEntry \in Addresses
  /\ thread \in [Harts -> Places]
  /\ deviceMtx \in Harts \cup {NoHart}
  /\ state \in [Harts -> States]
  /\ pc \in [Harts -> Addresses]

(* Which cores executed in this run can be told from where they are: a core  *)
(* that came to the test of breakpoints has executed, and one that did not   *)
(* enter the loop yet has not.                                               *)
WhoExecuted ==
  \A h \in Harts :
    /\ thread[h] \in {"created", "first"} => h \notin executed
    /\ thread[h] \in {"loop", "poll", "polling"} /\ snapshot # {} => h \in executed

KdbInv == Types /\ MachineAtRest /\ WhoExecuted

LEMMA NoHartIsNoHart == NoHart \notin Harts /\ 0 \in Harts
BY CoreAssumption DEF NoHart, Harts

LEMMA TrapVectorIsAddress == TrapVector \in Addresses /\ Entry \in Addresses
BY GuestAssumption

(* What an instruction leaves: the core's pc in the program, and a state     *)
(* that is never BREAKPOINT.                                                 *)
LEMMA ExecuteTypes ==
  ASSUME Types, NEW h \in Harts, Execute(h)
  PROVE  /\ pc' \in [Harts -> Addresses]
         /\ state' \in [Harts -> States]
         /\ state'[h] # "BREAKPOINT"
         /\ \A g \in Harts \ {h} : pc'[g] = pc[g] /\ state'[g] = state[g]
<1>1. NextPc(h) \in Addresses
  BY TrapVectorIsAddress DEF NextPc, Following, Types
<1>2. StateAfter(h) \in States \ {"BREAKPOINT"}
  BY DEF StateAfter, States
<1>3. pc' = [pc EXCEPT ![h] = NextPc(h)] /\ state' = [state EXCEPT ![h] = StateAfter(h)]
  BY DEF Execute
<1> QED
  BY <1>1, <1>2, <1>3 DEF Types

(* A line of the debugger starts a run or leaves the threads alone.          *)
AtPrompt == front # "join" /\ front' # "join" /\ UNCHANGED <<threads, executed>>

LEMMA LinesOnlyRun ==
  ASSUME Types, NEW c \in Commands, ReadLine(c)
  PROVE  \/ front # "join" /\ run_cpu("kdb") /\ UNCHANGED gdbCore
         \/ AtPrompt
<1>1. front = "command"
  BY DEF ReadLine
<1>2. PICK line \in Commands \cup {NoCommand} : (line.name = "" /\ Idle) \/ Command(line)
  <2> DEFINE repeats == c.name = "" /\ ~source /\ lastCmd # NoCommand
             line == IF repeats THEN lastCmd ELSE c
  <2>1. line \in Commands \cup {NoCommand}
    BY DEF Types
  <2>2. (line.name = "" /\ Idle) \/ Command(line)
    BY DEF ReadLine
  <2> QED
    BY <2>1, <2>2
<1>3. UNCHANGED gdbCore
  BY DEF ReadLine
<1>4. CASE Idle
  BY <1>1, <1>4 DEF Idle, AtPrompt, quiet
<1>5. CASE Command(line)
  <2>1. CASE run_cpu("kdb")
    BY <1>1, <1>3, <2>1
  <2>2. CASE ~run_cpu("kdb")
    BY <1>1, <1>5, <2>2 DEF Command, StepCommand, ResetCommand, BreakCommand, LoadCommand, SetPc,
       GdbCommand, Idle, AtPrompt, quiet
  <2> QED
    BY <2>1, <2>2
<1> QED
  BY <1>2, <1>4, <1>5

LEMMA RequestsOnlyRun ==
  ASSUME Types, GdbRequest
  PROVE  \/ front # "join" /\ run_cpu("gdb")
         \/ AtPrompt
<1>1. front = "gdb"
  BY DEF GdbRequest
<1>2. CASE cont
  BY <1>1, <1>2 DEF cont
<1>3. CASE stepi
  <2>1. front' \in {"command", "gdb"} /\ UNCHANGED quiet
    BY <1>3 DEF stepi, check_action
  <2> QED
    BY <1>1, <2>1 DEF AtPrompt, quiet
<1>4. CASE \E a \in Targets : set_bp(a) \/ del_bp(a) \/ write_reg(a)
  BY <1>1, <1>4 DEF set_bp, del_bp, write_reg, BreakCommand, SetPc, AtPrompt, quiet
<1>5. CASE \E h \in Harts : set_cpu(h)
  BY <1>1, <1>5 DEF set_cpu, AtPrompt, quiet
<1> QED
  BY <1>2, <1>3, <1>4, <1>5 DEF GdbRequest

(* The front end starts a run, ends one, or waits at its prompt.             *)
LEMMA FrontEndSteps ==
  ASSUME Types, FrontEnd
  PROVE  \/ front # "join" /\ \E by \in {"kdb", "gdb"} : run_cpu(by)
         \/ join
         \/ AtPrompt
<1>1. ASSUME NEW c \in Commands, ReadLine(c)
      PROVE  (front # "join" /\ run_cpu("kdb")) \/ AtPrompt
  BY <1>1, LinesOnlyRun
<1>2. CASE Step
  BY <1>2 DEF Step, AtPrompt, quiet
<1>3. CASE EndOfSource \/ Exit \/ GdbClose
  BY <1>3 DEF EndOfSource, Exit, GdbClose, AtPrompt, quiet
<1> QED
  BY <1>1, <1>2, <1>3, RequestsOnlyRun DEF FrontEnd

-----------------------------------------------------------------------------
(* Every variable keeps its type.                                            *)
LEMMA KdbTypesInit == Init => Types
BY NoHartIsNoHart, TrapVectorIsAddress DEF Init, Types, Places, States

LEMMA ArgumentsAreAddresses ==
  ASSUME NEW c \in Commands, c.name \in {"break", "load", "set"}
  PROVE  c.arg \in Addresses
BY CommandAssumption

LEMMA ReadLineTypes ==
  ASSUME Types, NEW c \in Commands, ReadLine(c)
  PROVE  Types'
<1> DEFINE repeats == c.name = "" /\ ~source /\ lastCmd # NoCommand
           line == IF repeats THEN lastCmd ELSE c
<1>1. line \in Commands
  BY DEF Types
<1>2. lastCmd' \in Commands \cup {NoCommand} /\ UNCHANGED gdbCore
  BY DEF ReadLine, Types
<1>3. (line.name = "" /\ Idle) \/ Command(line)
  BY DEF ReadLine
<1> HIDE DEF line
<1>4. front = "command"
  BY DEF ReadLine
<1>5. CASE Idle
  BY <1>2, <1>5 DEF Idle, Types, quiet, threads, cores, debug
<1>6. CASE StepCommand(line.arg) \/ GdbCommand
  BY <1>2, <1>6 DEF StepCommand, GdbCommand, Types, quiet, threads, cores, debug
<1>7. CASE run_cpu("kdb")
  BY <1>2, <1>7 DEF run_cpu, StartRun, Types, Places, cores, debug
<1>8. CASE ResetCommand(ResetEntry(line))
  <2>1. ResetEntry(line) \in Addresses
    BY DEF ResetEntry, Types
  <2> QED
    BY <1>2, <1>8, <2>1 DEF ResetCommand, Types, States, quiet, threads
<1>9. CASE line.name = "break" /\ BreakCommand(line.arg)
  BY <1>2, <1>9 DEF BreakCommand, Types, quiet, threads, cores
<1>10. CASE line.name = "load" /\ LoadCommand(line.arg)
  BY <1>1, <1>2, <1>10, ArgumentsAreAddresses DEF LoadCommand, Types, quiet, threads, cores
<1>11. CASE line.name = "set" /\ SetPc(0, line.arg)
  BY <1>1, <1>2, <1>11, ArgumentsAreAddresses DEF SetPc, Types, quiet, threads, debug
<1> QED
  BY <1>3, <1>5, <1>6, <1>7, <1>8, <1>9, <1>10, <1>11 DEF Command

LEMMA StepCoreTypes ==
  ASSUME Types, NEW h \in Harts, step_core(h)
  PROVE  pc' \in [Harts -> Addresses] /\ state' \in [Harts -> States]
<1>1. CASE Execute(h)
  BY <1>1, ExecuteTypes
<1>2. CASE UNCHANGED cores
  BY <1>2 DEF cores, Types
<1> QED
  BY <1>1, <1>2 DEF step_core

LEMMA FrontEndTypes ==
  ASSUME Types, FrontEnd
  PROVE  Types'
<1>1. CASE join
  <2>1. front' \in {"command", "gdb"}
    BY <1>1 DEF join, check_action
  <2>2. thread' \in [Harts -> Places]
    BY <1>1 DEF join, Types, Places
  <2> QED
    BY <1>1, <2>1, <2>2 DEF join, Types, shell, debug, cores
<1>2. CASE Step
  <2>1. front' \in {"command", "step"}
    BY <1>2 DEF Step
  <2>2. pc' \in [Harts -> Addresses] /\ state' \in [Harts -> States]
    <3>1. CASE step_core(0)
      BY <3>1, StepCoreTypes, NoHartIsNoHart
    <3>2. CASE UNCHANGED cores
      BY <3>2 DEF cores, Types
    <3> QED
      BY <1>2, <3>1, <3>2 DEF Step
  <2> QED
    BY <1>2, <2>1, <2>2 DEF Step, Types, shell, quiet, threads
<1>3. CASE \E c \in Commands : ReadLine(c)
  BY <1>3, ReadLineTypes
<1>4. CASE EndOfSource \/ Exit
  BY <1>4 DEF EndOfSource, Exit, Types, quiet, threads, cores, debug
<1>5. CASE GdbClose
  BY <1>5 DEF GdbClose, Types, shell, quiet, threads, cores, debug
<1>6. CASE GdbRequest
  <2>1. UNCHANGED lastCmd
    BY <1>6 DEF GdbRequest
  <2>2. CASE cont
    BY <2>1, <2>2 DEF cont, run_cpu, StartRun, Types, Places, cores, debug
  <2>3. CASE stepi
    <3>1. pc' \in [Harts -> Addresses] /\ state' \in [Harts -> States]
      BY <2>3, StepCoreTypes DEF stepi, Types
    <3>2. front' \in {"command", "gdb"}
      BY <2>3 DEF stepi, check_action
    <3> QED
      BY <2>1, <2>3, <3>1, <3>2 DEF stepi, Types, quiet, threads
  <2>4. ASSUME NEW a \in Targets, set_bp(a) \/ del_bp(a) \/ write_reg(a) PROVE Types'
    <3>1. a \in Addresses
      BY ArgumentsAreAddresses DEF Targets
    <3> QED
      BY <2>1, <2>4, <3>1 DEF set_bp, del_bp, write_reg, BreakCommand, SetPc, Types, quiet, threads, cores, debug
  <2>5. ASSUME NEW h \in Harts, set_cpu(h) PROVE Types'
    BY <2>1, <2>5 DEF set_cpu, Types, quiet, threads, cores, debug
  <2> QED
    BY <1>6, <2>2, <2>3, <2>4, <2>5 DEF GdbRequest
<1> QED
  BY <1>1, <1>2, <1>3, <1>4, <1>5, <1>6 DEF FrontEnd

LEMMA CoreTypes ==
  ASSUME Types, NEW h \in Harts, CoreThread(h)
  PROVE  Types'
<1> USE DEF Move, shell, debug
<1>1. CASE EnterRun(h)
  BY <1>1 DEF EnterRun, Types, Places, States
<1>2. CASE RunStep(h)
  <2>1. pc' \in [Harts -> Addresses] /\ state' \in [Harts -> States]
    BY <1>2, ExecuteTypes DEF RunStep
  <2> QED
    BY <1>2, <2>1 DEF RunStep, Types, Places
<1>3. CASE PollBegin(h)
  BY <1>3 DEF PollBegin, Types, Places, cores
<1>4. CASE PollEnd(h)
  BY <1>4 DEF PollEnd, Types, Places, cores
<1>5. CASE HitBreakpoint(h)
  BY <1>5 DEF HitBreakpoint, Types, Places, States
<1>6. CASE LeaveRun(h)
  BY <1>6 DEF LeaveRun, Types, Places, cores
<1> QED
  BY <1>1, <1>2, <1>3, <1>4, <1>5, <1>6 DEF CoreThread

-----------------------------------------------------------------------------
(* The machine is at rest outside join, and who executed is known.           *)
LEMMA FrontEndRests ==
  ASSUME KdbInv, FrontEnd
  PROVE  (MachineAtRest /\ WhoExecuted)'
<1> USE DEF KdbInv
<1>1. CASE front # "join" /\ \E by \in {"kdb", "gdb"} : run_cpu(by)
  <2>1. /\ front' = "join" /\ timer' = TRUE /\ executed' = {} /\ deviceMtx' = deviceMtx
        /\ thread' = [h \in Harts |-> "created"]
    BY <1>1 DEF run_cpu, StartRun
  <2>2. deviceMtx = NoHart
    BY <1>1 DEF MachineAtRest
  <2> QED
    BY <2>1, <2>2, NoHartIsNoHart DEF MachineAtRest, WhoExecuted
<1>2. CASE join
  <2>1. front = "join" /\ front' # "join" /\ timer' = FALSE /\ deviceMtx' = deviceMtx
    BY <1>2 DEF join, check_action
  <2>2. \A h \in Harts : thread[h] = "ended" /\ thread'[h] = "none"
    BY <1>2 DEF join, AllEnded
  <2>3. deviceMtx = NoHart
    BY <2>2 DEF MachineAtRest, Types
  <2> QED
    BY <2>1, <2>2, <2>3, NoHartIsNoHart DEF MachineAtRest, WhoExecuted
<1>3. CASE AtPrompt
  BY <1>3 DEF AtPrompt, threads, MachineAtRest, WhoExecuted
<1> QED
  BY <1>1, <1>2, <1>3, FrontEndSteps

LEMMA CoreRests ==
  ASSUME KdbInv, NEW h \in Harts, CoreThread(h)
  PROVE  (MachineAtRest /\ WhoExecuted)'
<1> USE DEF KdbInv, Move
<1>1. thread[h] # "none" /\ UNCHANGED <<front, timer, snapshot>>
  BY DEF CoreThread, EnterRun, RunStep, MayExecute, PollBegin, PollEnd, HitBreakpoint, LeaveRun
<1>2. front = "join"
  BY <1>1 DEF MachineAtRest
<1>3. thread \in [Harts -> Places]
  BY DEF Types
<1>4. CASE EnterRun(h)
  BY <1>1, <1>2, <1>3, <1>4 DEF EnterRun, MachineAtRest, WhoExecuted
<1>5. CASE RunStep(h)
  BY <1>1, <1>2, <1>3, <1>5 DEF RunStep, MayExecute, MachineAtRest, WhoExecuted
<1>6. CASE PollBegin(h)
  BY <1>1, <1>2, <1>3, <1>6, NoHartIsNoHart DEF PollBegin, MayPoll, MachineAtRest, WhoExecuted
<1>7. CASE PollEnd(h)
  BY <1>1, <1>2, <1>3, <1>7, NoHartIsNoHart DEF PollEnd, MachineAtRest, WhoExecuted
<1>8. CASE HitBreakpoint(h)
  BY <1>1, <1>2, <1>3, <1>8 DEF HitBreakpoint, MachineAtRest, WhoExecuted
<1>9. CASE LeaveRun(h)
  BY <1>1, <1>2, <1>3, <1>9 DEF LeaveRun, MachineAtRest, WhoExecuted
<1> QED
  BY <1>4, <1>5, <1>6, <1>7, <1>8, <1>9 DEF CoreThread

LEMMA KdbInvHolds == Spec => []KdbInv
<1>1. Init => KdbInv
  BY KdbTypesInit, NoHartIsNoHart DEF Init, KdbInv, MachineAtRest, WhoExecuted
<1>2. KdbInv /\ [Next]_vars => KdbInv'
  <2> SUFFICES ASSUME KdbInv, [Next]_vars PROVE KdbInv'
    OBVIOUS
  <2>1. CASE UNCHANGED vars
    BY <2>1 DEF vars, shell, debug, threads, cores, KdbInv, Types, MachineAtRest, WhoExecuted
  <2>2. CASE FrontEnd
    BY <2>2, FrontEndTypes, FrontEndRests DEF KdbInv
  <2>3. ASSUME NEW h \in Harts, CoreThread(h) PROVE KdbInv'
    BY <2>3, CoreTypes, CoreRests DEF KdbInv
  <2> QED
    BY <2>1, <2>2, <2>3 DEF Next
<1> QED
  BY <1>1, <1>2, PTL DEF Spec

(* Outside RVCPU::join no core thread exists, the timer is stopped and the   *)
(* device mutex is free; inside, one core at most is in the devices.         *)
THEOREM MachineRests == Spec => []MachineAtRest
<1>1. KdbInv => MachineAtRest
  BY DEF KdbInv
<1> QED
  BY <1>1, KdbInvHolds, PTL

(* RVCore::run stops a core at a breakpoint before the instruction there,    *)
(* but for the first one of a run; and no core stops anywhere else.          *)
THEOREM BreakpointsHold == Spec => BreakpointsStop
<1>1. KdbInv /\ [Next]_vars =>
        [\A h \in Harts : front = "join" =>
           /\ pc'[h] # pc[h] /\ pc[h] \in snapshot => h \notin executed
           /\ state'[h] = "BREAKPOINT" /\ state[h] # "BREAKPOINT"
              => h \in executed /\ pc'[h] \in snapshot]_vars
  <2> SUFFICES ASSUME KdbInv, Next, NEW h \in Harts, front = "join"
               PROVE  /\ pc'[h] # pc[h] /\ pc[h] \in snapshot => h \notin executed
                      /\ state'[h] = "BREAKPOINT" /\ state[h] # "BREAKPOINT"
                         => h \in executed /\ pc'[h] \in snapshot
    OBVIOUS
  <2> USE DEF KdbInv
  <2>1. CASE FrontEnd
    <3>1. join
      BY <2>1, FrontEndSteps DEF AtPrompt
    <3> QED
      BY <3>1 DEF join, cores
  <2>2. ASSUME NEW g \in Harts, CoreThread(g)
        PROVE  /\ pc'[h] # pc[h] /\ pc[h] \in snapshot => h \notin executed
               /\ state'[h] = "BREAKPOINT" /\ state[h] # "BREAKPOINT"
                  => h \in executed /\ pc'[h] \in snapshot
    <3>1. CASE EnterRun(g)
      BY <3>1 DEF EnterRun, Types
    <3>2. CASE RunStep(g)
      <4>1. thread[g] = "first" \/ pc[g] \notin snapshot
        BY <3>2 DEF RunStep, MayExecute
      <4>2. Execute(g)
        BY <3>2 DEF RunStep
      <4> QED
        BY <4>1, <4>2, ExecuteTypes DEF WhoExecuted
    <3>3. CASE PollBegin(g) \/ PollEnd(g) \/ LeaveRun(g)
      BY <3>3 DEF PollBegin, PollEnd, LeaveRun, cores
    <3>4. CASE HitBreakpoint(g)
      BY <3>4 DEF HitBreakpoint, WhoExecuted, Types
    <3> QED
      BY <2>2, <3>1, <3>2, <3>3, <3>4 DEF CoreThread
  <2> QED
    BY <2>1, <2>2 DEF Next
<1> QED
  BY <1>1, KdbInvHolds, PTL DEF Spec, BreakpointsStop

-----------------------------------------------------------------------------
(* The exit status is 0 or a failure print_halt reported since the reset.    *)
THEOREM StatusIsHonest == Spec => []StatusWasReported
<1>1. Init => StatusWasReported
  BY DEF Init, StatusWasReported
<1>2. StatusWasReported /\ [Next]_vars => StatusWasReported'
  <2> SUFFICES ASSUME StatusWasReported, [Next]_vars PROVE StatusWasReported'
    OBVIOUS
  <2> USE DEF StatusWasReported
  <2>1. CASE UNCHANGED <<returnCode, failed>>
    BY <2>1
  <2>2. CASE join
    <3>1. failed' = failed \cup Failures
      BY <2>2 DEF join
    <3>2. CASE UNCHANGED returnCode
      BY <3>1, <3>2
    <3>3. ASSUME NEW h \in Harts, state[h] \in {"ERROR", "HALT"}, returnCode' = Status(h)
          PROVE  StatusWasReported'
      BY <3>1, <3>3 DEF Failures
    <3> QED
      BY <2>2, <3>2, <3>3 DEF join, ReportCores
  <2>3. ASSUME NEW h, step_core(h) PROVE StatusWasReported'
    BY <2>3 DEF step_core
  <2>4. ASSUME NEW entry, ResetCommand(entry) PROVE StatusWasReported'
    BY <2>4 DEF ResetCommand, ClearCode
  <2>5. ASSUME NEW c, ReadLine(c) PROVE StatusWasReported'
    <3>1. PICK line : Idle \/ Command(line)
      BY <2>5 DEF ReadLine
    <3>2. CASE \E entry : ResetCommand(entry)
      BY <3>2, <2>4
    <3>3. CASE ~\E entry : ResetCommand(entry)
      BY <2>1, <3>1, <3>3 DEF Command, Idle, StepCommand, run_cpu, BreakCommand, LoadCommand, SetPc, GdbCommand
    <3> QED
      BY <3>2, <3>3
  <2>6. CASE GdbRequest
    <3>1. CASE stepi
      BY <3>1, <2>3 DEF stepi
    <3>2. CASE ~stepi
      BY <2>1, <2>6, <3>2 DEF GdbRequest, cont, run_cpu, set_bp, del_bp, write_reg, set_cpu, BreakCommand, SetPc
    <3> QED
      BY <3>1, <3>2
  <2>7. CASE Step
    <3>1. CASE step_core(0)
      BY <3>1, <2>3
    <3>2. CASE ~step_core(0)
      BY <2>1, <2>7, <3>2 DEF Step
    <3> QED
      BY <3>1, <3>2
  <2>8. CASE EndOfSource \/ Exit \/ GdbClose
    BY <2>1, <2>8 DEF EndOfSource, Exit, GdbClose
  <2>9. ASSUME NEW h \in Harts, CoreThread(h) PROVE StatusWasReported'
    BY <2>1, <2>9 DEF CoreThread, EnterRun, RunStep, PollBegin, PollEnd, HitBreakpoint, LeaveRun
  <2>10. CASE UNCHANGED vars
    BY <2>1, <2>10 DEF vars
  <2> QED
    BY <2>2, <2>5, <2>6, <2>7, <2>8, <2>9, <2>10 DEF Next, FrontEnd
<1> QED
  BY <1>1, <1>2, PTL DEF Spec
=============================================================================
