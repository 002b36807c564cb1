-------------------------------- MODULE Kdb --------------------------------
(***************************************************************************)
(* A session of the debugger: the command line of kdb (src/kdb/cmd), the   *)
(* callbacks it gives the gdb stub (src/kdb/gdb.cpp), RVCPU::run with one  *)
(* thread per core (src/cpu/riscv/cpu.cpp) and the loop of each core       *)
(* (RVCore::run, src/cpu/riscv/execute.cpp).                               *)
(* The front end is one thread: it reads a line, carries the command out   *)
(* and, while the cores run, waits for all of them in join.  The guest is  *)
(* a constant: what each core finds at each address.                       *)
(***************************************************************************)
EXTENDS Naturals

CONSTANTS CoreCount,
          Guest,          (* [Harts -> [Addresses -> Operations]]           *)
          Addresses,      (* 0 .. some n: where the guest's code is         *)
          TrapVector,     (* where every core's trap handler is             *)
          Entry,          (* programEntry after kdb::init                   *)
          Commands,       (* the lines a user or a script may give          *)
          InterruptFreq,  (* 0x1000 in the code                             *)
          MaxLines        (* bound on the lines of a session                *)

Harts == 0 .. CoreCount - 1

(* ebreak halts the core with the code in a0; an invalid instruction puts  *)
(* it in error; "give" and "take" are two cores that wait for each other   *)
(* through a flag in memory.                                               *)
Operations == {"plain", "give", "take", "good", "bad", "invalid"}

States == {"RUNNING", "BREAKPOINT", "HALT", "ERROR"}

(* "" is the empty line that repeats the last command.                      *)
CommandNames ==
  {"step", "run", "break", "reset", "load", "set", "gdb", "source", "quit", ""}

ASSUME CoreAssumption == CoreCount \in Nat \ {0}
ASSUME GuestAssumption ==
  /\ Guest \in [Harts -> [Addresses -> Operations]]
  /\ Addresses \subseteq Nat /\ {TrapVector, Entry} \subseteq Addresses
ASSUME CommandAssumption ==
  /\ Commands \subseteq [name : CommandNames, arg : Nat]
  /\ \A c \in Commands : c.name \in {"break", "load", "set"} => c.arg \in Addresses
ASSUME BoundAssumption == InterruptFreq \in Nat \ {0} /\ MaxLines \in Nat

VARIABLES
  front,         (* what the front end is doing                            *)
  source,        (* whether the lines come from a file                     *)
  cmdRunning,    (* cleared by quit                                        *)
  lastCmd,       (* of the main loop                                       *)
  lines,         (* lines read so far                                      *)
  left,          (* steps the step command has still to make               *)
  caller,        (* who called run_cpu: "kdb" or "gdb"                     *)
  gdbCore,       (* currentCore of gdb.cpp                                 *)
  breakpointSet, brkTriggered, programEntry, returnCode,
  snapshot,      (* the breakpoints given to RVCPU::run                    *)
  timer,         (* whether start_timer was called last                    *)
  thread,        (* where each core's thread is in RVCore::run             *)
  deviceMtx,     (* the core whose thread holds it, or none                *)
  counter,       (* of each core's run                                     *)
  state, pc, haltCode,
  flag,          (* the guest's memory                                     *)
  executed,      (* history: cores that executed in this run               *)
  failed         (* history: the failures reported since the reset         *)

shell == <<source, cmdRunning, lastCmd, lines, gdbCore>>
debug == <<breakpointSet, brkTriggered, programEntry>>
threads == <<thread, deviceMtx, counter, timer, snapshot>>
cores == <<state, pc, haltCode, flag>>
vars == <<front, shell, left, caller, debug, returnCode, threads, cores,
          executed, failed>>

NoHart == CoreCount

NoCommand == [name |-> "", arg |-> 0]

Init ==
  /\ front = "command" /\ source \in BOOLEAN /\ cmdRunning = TRUE
  /\ lastCmd = NoCommand /\ lines = 0 /\ left = 0 /\ caller = "kdb" /\ gdbCore = 0
  /\ breakpointSet = {} /\ brkTriggered = FALSE
  /\ programEntry = Entry /\ returnCode = 0
  /\ snapshot = {} /\ timer = FALSE
  /\ thread = [h \in Harts |-> "none"] /\ deviceMtx = NoHart
  /\ counter = [h \in Harts |-> 0]
  /\ state = [h \in Harts |-> "RUNNING"] /\ pc = [h \in Harts |-> Entry]
  /\ haltCode = [h \in Harts |-> 0]
  /\ flag = FALSE
  /\ executed = {} /\ failed = {}

-----------------------------------------------------------------------------
(* One instruction.                                                         *)

Following(a) == IF a + 1 \in Addresses THEN a + 1 ELSE Entry

Waits(h) == Guest[h][pc[h]] = "take" /\ ~flag

NextPc(h) ==
  IF Guest[h][pc[h]] \in {"good", "bad", "invalid"} THEN TrapVector
  ELSE IF Waits(h) THEN pc[h] ELSE Following(pc[h])

StateAfter(h) ==
  CASE Guest[h][pc[h]] \in {"good", "bad"} -> "HALT"
    [] Guest[h][pc[h]] = "invalid" -> "ERROR"
    [] OTHER -> "RUNNING"

(* ebreak and an invalid instruction stop the core and then trap: its pc   *)
(* is already in the handler.                                              *)
Execute(h) ==
  /\ pc' = [pc EXCEPT ![h] = NextPc(h)]
  /\ state' = [state EXCEPT ![h] = StateAfter(h)]
  /\ haltCode' = CASE Guest[h][pc[h]] = "good" -> [haltCode EXCEPT ![h] = 0]
                   [] Guest[h][pc[h]] = "bad" -> [haltCode EXCEPT ![h] = 2]
                   [] OTHER -> haltCode
  /\ flag' = CASE Guest[h][pc[h]] = "give" -> TRUE
               [] Guest[h][pc[h]] = "take" -> FALSE
               [] OTHER -> flag

-----------------------------------------------------------------------------
(* The loop of a core.                                                      *)

Move(h, to) == thread' = [thread EXCEPT ![h] = to]

PollDue(h) == counter[h] = InterruptFreq

EnterRun(h) ==
  /\ thread[h] = "created"
  /\ state' = [state EXCEPT ![h] = "RUNNING"]
  /\ counter' = [counter EXCEPT ![h] = 0]
  /\ Move(h, IF snapshot = {} THEN "loop" ELSE "first")
  /\ UNCHANGED <<front, shell, left, caller, debug, returnCode, deviceMtx,
                 timer, snapshot, pc, haltCode, flag, executed, failed>>

(* Mutant: the breakpoints are not tested before an instruction.            *)
InLoop(h) == thread[h] \in {"loop", "first"}

MayExecute(h) ==
  \/ thread[h] = "first"
  \/ thread[h] = "loop" /\ pc[h] \notin snapshot

(* run_step: every InterruptFreq-th instruction is followed by a poll.      *)
RunStep(h) ==
  /\ MayExecute(h) /\ state[h] = "RUNNING"
  /\ Execute(h)
  /\ Move(h, IF PollDue(h) THEN "poll" ELSE "loop")
  /\ counter' = [counter EXCEPT ![h] = IF PollDue(h) THEN 1 ELSE @ + 1]
  /\ executed' = executed \cup {h}
  /\ UNCHANGED <<front, shell, left, caller, debug, returnCode, deviceMtx,
                 timer, snapshot, failed>>

MayPoll(h) == deviceMtx = NoHart

(* update_device of several cores: try_lock, and no poll if it fails.       *)
PollBegin(h) ==
  /\ thread[h] = "poll"
  /\ IF MayPoll(h)
     THEN /\ deviceMtx' = h /\ Move(h, "polling")
     ELSE /\ Move(h, "loop") /\ UNCHANGED deviceMtx
  /\ UNCHANGED <<front, shell, left, caller, debug, returnCode, counter,
                 timer, snapshot, cores, executed, failed>>

PollEnd(h) ==
  /\ thread[h] = "polling"
  /\ deviceMtx' = NoHart /\ Move(h, "loop")
  /\ UNCHANGED <<front, shell, left, caller, debug, returnCode, counter,
                 timer, snapshot, cores, executed, failed>>

HitBreakpoint(h) ==
  /\ thread[h] = "loop" /\ state[h] = "RUNNING" /\ pc[h] \in snapshot
  /\ haltCode' = [haltCode EXCEPT ![h] = 0]
  /\ state' = [state EXCEPT ![h] = "BREAKPOINT"]
  /\ Move(h, "ended")
  /\ UNCHANGED <<front, shell, left, caller, debug, returnCode, deviceMtx,
                 counter, timer, snapshot, pc, flag, executed, failed>>

(* Mutant: a core in error stays in the loop.                               *)
Halted(h) == state[h] = "HALT"

Stopped(h) == state[h] # "RUNNING"

LeaveRun(h) ==
  /\ thread[h] = "loop" /\ Stopped(h)
  /\ Move(h, "ended")
  /\ UNCHANGED <<front, shell, left, caller, debug, returnCode, deviceMtx,
                 counter, timer, snapshot, cores, executed, failed>>

CoreThread(h) ==
  \/ EnterRun(h) \/ RunStep(h) \/ PollBegin(h) \/ PollEnd(h)
  \/ HitBreakpoint(h) \/ LeaveRun(h)

-----------------------------------------------------------------------------
(* RVCPU::run, its join, and what run_cpu reports after it.                 *)

(* RVCPU::run: the timer, then a thread per core (a single core runs in    *)
(* the caller's thread, without a mutex).                                  *)
StartRun(breakpoints) ==
  /\ snapshot' = breakpoints
  /\ timer' = TRUE
  /\ thread' = [h \in Harts |-> "created"]
  /\ executed' = {}
  /\ UNCHANGED <<deviceMtx, counter>>

run_cpu(by) ==
  /\ front' = "join" /\ caller' = by
  /\ StartRun(breakpointSet)
  /\ UNCHANGED <<left, debug, returnCode, cores, failed>>

Status(h) == IF state[h] = "ERROR" THEN 1 ELSE haltCode[h]

(* print_halt of every core in order: the last that stopped decides.        *)
ReportCores ==
  LET stopped == {h \in Harts : state[h] \in {"ERROR", "HALT"}}
  IN  \/ stopped = {} /\ UNCHANGED returnCode
      \/ \E h \in stopped :
            (\A g \in stopped : g <= h) /\ returnCode' = Status(h)

Failures ==
  {Status(h) : h \in {g \in Harts : state[g] \in {"ERROR", "HALT"}}} \ {0}

check_action ==
  IF \E h \in Harts : state[h] \in {"HALT", "ERROR"} THEN "command" ELSE "gdb"

(* Mutant: the cores are joined until one has ended.                        *)
SomeEnded == \E h \in Harts : thread[h] = "ended"

AllEnded == \A h \in Harts : thread[h] = "ended"

join ==
  /\ front = "join" /\ AllEnded
  /\ thread' = [h \in Harts |-> IF thread[h] = "ended" THEN "none" ELSE thread[h]]
  /\ timer' = FALSE
  /\ ReportCores
  /\ failed' = failed \cup Failures
  /\ front' = IF caller = "kdb" THEN "command" ELSE check_action
  /\ UNCHANGED <<shell, left, caller, debug, deviceMtx, counter, snapshot,
                 cores, executed>>

(* step_core: a core that is in HALT or ERROR does not execute; only HALT  *)
(* is reported.                                                            *)
step_core(h) ==
  /\ IF state[h] \in {"RUNNING", "BREAKPOINT"} THEN Execute(h)
     ELSE UNCHANGED cores
  /\ returnCode' = IF state'[h] = "HALT" THEN haltCode'[h] ELSE returnCode
  /\ failed' = IF state'[h] = "HALT" /\ haltCode'[h] # 0
               THEN failed \cup {haltCode'[h]} ELSE failed
  /\ brkTriggered' = (brkTriggered \/ pc'[h] \in breakpointSet)

-----------------------------------------------------------------------------
(* The commands.                                                            *)

quiet == <<threads, executed>>

(* cmd::step of core 0, kdb's current core: up to n steps.                  *)
StepCommand(n) ==
  /\ front' = "step" /\ left' = n /\ brkTriggered' = FALSE
  /\ UNCHANGED <<caller, breakpointSet, programEntry, returnCode, quiet, cores,
                 failed>>

Step ==
  /\ front = "step"
  /\ IF left = 0 \/ state[0] = "HALT" \/ brkTriggered
     THEN /\ front' = "command" /\ left' = 0
          /\ UNCHANGED <<brkTriggered, returnCode, cores, failed>>
     ELSE /\ step_core(0)
          /\ left' = left - 1 /\ UNCHANGED front
  /\ UNCHANGED <<shell, caller, breakpointSet, programEntry, quiet>>

(* Mutant: a reset leaves returnCode alone.                                 *)
KeepCode == returnCode

ClearCode == 0

(* reset_cpu: every core, at programEntry; what is in memory stays.         *)
ResetCommand(entry) ==
  /\ pc' = [h \in Harts |-> entry] /\ programEntry' = entry
  /\ state' = [h \in Harts |-> "RUNNING"]
  /\ returnCode' = ClearCode
  /\ failed' = {}
  /\ UNCHANGED <<front, left, caller, breakpointSet, brkTriggered, quiet,
                 haltCode, flag>>

BreakCommand(a) ==
  /\ breakpointSet' = breakpointSet \cup {a}
  /\ UNCHANGED <<front, left, caller, brkTriggered, programEntry, returnCode,
                 quiet, cores, failed>>

LoadCommand(entry) ==
  /\ programEntry' = entry
  /\ UNCHANGED <<front, left, caller, breakpointSet, brkTriggered, returnCode,
                 quiet, cores, failed>>

(* set reg pc, and write_reg of gdb.                                        *)
SetPc(h, a) ==
  /\ pc' = [pc EXCEPT ![h] = a]
  /\ UNCHANGED <<front, left, caller, debug, returnCode, quiet, state,
                 haltCode, flag, failed>>

GdbCommand ==
  /\ front' = "gdb"
  /\ UNCHANGED <<left, caller, debug, returnCode, quiet, cores, failed>>

Idle == UNCHANGED <<front, left, caller, debug, returnCode, quiet, cores, failed>>

(* reset takes an entry or uses the one it knows.                           *)
ResetEntry(c) == IF c.arg \in Addresses THEN c.arg ELSE programEntry

(* find_and_run.  A command without its effect on the shell's own state.    *)
Command(c) ==
  \/ c.name = "step" /\ StepCommand(c.arg)
  \/ c.name = "run" /\ run_cpu("kdb")
  \/ c.name = "reset" /\ ResetCommand(ResetEntry(c))
  \/ c.name = "break" /\ BreakCommand(c.arg)
  \/ c.name = "load" /\ LoadCommand(c.arg)
  \/ c.name = "set" /\ SetPc(0, c.arg)
  \/ c.name = "gdb" /\ GdbCommand
  \/ c.name \in {"quit", "source"} /\ Idle

(* quit ends the main loop, not a source file; source reads until its end.  *)
Quits(line) == line.name = "quit"

Sources(line) == line.name = "source"

(* A line: in the main loop an empty one repeats the last command, in a    *)
(* source file it does nothing.                                            *)
ReadLine(c) ==
  /\ front = "command" /\ lines < MaxLines
  /\ source \/ cmdRunning
  /\ LET repeats == c.name = "" /\ ~source /\ lastCmd # NoCommand
         line == IF repeats THEN lastCmd ELSE c
     IN  /\ \/ line.name = "" /\ Idle
            \/ Command(line)
         /\ source' = (source \/ Sources(line))
         /\ cmdRunning' = (cmdRunning /\ ~Quits(line))
  /\ lastCmd' = IF source \/ c.name = "" THEN lastCmd ELSE c
  /\ lines' = lines + 1
  /\ UNCHANGED gdbCore

EndOfSource ==
  /\ front = "command" /\ source
  /\ source' = FALSE
  /\ UNCHANGED <<front, cmdRunning, lastCmd, lines, gdbCore, left, caller,
                 debug, returnCode, quiet, cores, failed>>

(* After quit or at the end of the input: main returns returnCode.          *)
Exit ==
  /\ front = "command" /\ ~source
  /\ front' = "done"
  /\ UNCHANGED <<source, cmdRunning, lastCmd, lines, gdbCore, left, caller, debug,
                 returnCode, quiet, cores, failed>>

-----------------------------------------------------------------------------
(* What the gdb stub asks for.                                              *)

cont == run_cpu("gdb") /\ UNCHANGED gdbCore

stepi ==
  /\ step_core(gdbCore)
  /\ front' = check_action'
  /\ UNCHANGED <<gdbCore, left, caller, breakpointSet, programEntry, quiet>>

set_bp(a) == BreakCommand(a) /\ UNCHANGED gdbCore

del_bp(a) ==
  /\ breakpointSet' = breakpointSet \ {a}
  /\ UNCHANGED <<front, gdbCore, left, caller, brkTriggered, programEntry,
                 returnCode, quiet, cores, failed>>

set_cpu(h) ==
  /\ gdbCore' = h
  /\ UNCHANGED <<front, left, caller, debug, returnCode, quiet, cores, failed>>

write_reg(a) == SetPc(gdbCore, a) /\ UNCHANGED gdbCore

(* The connection ends.                                                     *)
GdbClose ==
  /\ front = "gdb" /\ front' = "command"
  /\ UNCHANGED <<shell, left, caller, debug, returnCode, quiet, cores, failed>>

Targets == {c.arg : c \in {d \in Commands : d.name = "break"}}

GdbRequest ==
  /\ front = "gdb" /\ lines < MaxLines
  /\ \/ cont \/ stepi
     \/ \E a \in Targets : set_bp(a) \/ del_bp(a) \/ write_reg(a)
     \/ \E h \in Harts : set_cpu(h)
  /\ lines' = lines + 1
  /\ UNCHANGED <<source, cmdRunning, lastCmd>>

-----------------------------------------------------------------------------
FrontEnd ==
  \/ join \/ Step
  \/ \E c \in Commands : ReadLine(c)
  \/ EndOfSource \/ Exit \/ GdbRequest \/ GdbClose

Next == FrontEnd \/ \E h \in Harts : CoreThread(h)

(* The operating system runs every thread; the user owes nothing.           *)
Spec ==
  /\ Init /\ [][Next]_vars
  /\ WF_vars(join) /\ WF_vars(Step)
  /\ \A h \in Harts : WF_vars(CoreThread(h))

-----------------------------------------------------------------------------
(* While the front end reads commands no core moves, the timer is stopped  *)
(* and the mutex of the devices is free: run_cpu comes back only when      *)
(* every core left its loop, so that reset, load and set find the machine  *)
(* at rest; and of the cores that run at most one is inside the devices.   *)
MachineAtRest ==
  /\ timer <=> front = "join"
  /\ front # "join" => deviceMtx = NoHart /\ \A h \in Harts : thread[h] = "none"
  /\ \A h \in Harts : thread[h] = "polling" <=> deviceMtx = h

(* A breakpoint set when the run began stops every core that comes to it,  *)
(* before the instruction is executed; the one instruction a run executes  *)
(* in spite of a breakpoint is a core's first.  So no core executes past a *)
(* breakpoint, and a run that goes on from one always makes progress.      *)
BreakpointsStop ==
  [][\A h \in Harts : front = "join" =>
       /\ pc'[h] # pc[h] /\ pc[h] \in snapshot => h \notin executed
       /\ state'[h] = "BREAKPOINT" /\ state[h] # "BREAKPOINT"
          => h \in executed /\ pc'[h] \in snapshot]_vars

(* The exit status is no false alarm: it is 0, or one of the failures that *)
(* were reported since the last reset.  The converse does not hold: the    *)
(* last core in core order decides, and the others' failures are lost.     *)
StatusWasReported == returnCode = 0 \/ returnCode \in failed

(* What holds a run up: cores that wait for a flag nobody is left to give. *)
Stranded ==
  /\ ~flag /\ \E h \in Harts : thread[h] # "ended"
  /\ \A h \in Harts : thread[h] \in {"loop", "poll", "polling"} => Waits(h)
  /\ \A h \in Harts : thread[h] \notin {"created", "first", "none"}

(* A run comes back to the prompt, whatever breakpoints are set, unless    *)
(* the cores still running wait for one that stopped: a core at a          *)
(* breakpoint does not stop the others, and nothing else ends a run.       *)
RunReturns == front = "join" ~> front # "join" \/ Stranded
=============================================================================
