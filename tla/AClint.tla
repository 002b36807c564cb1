------------------------------- MODULE AClint -------------------------------
(***************************************************************************)
(* kxemu::device::AClint (src/cpu/riscv/aclint.cpp): the timer and         *)
(* software interrupts of the harts, with the threads that meet in it.     *)
(*   - each hart's thread executes the guest's writes of stimecmp,         *)
(*     mtimecmp, MSWI and SSWI and, now and then, AClint::update;          *)
(*   - the timer thread of TaskTimer, which this module extends, runs the  *)
(*     two callbacks that set the stip and mtip flags;                     *)
(*   - RVCPU::run starts the timer before the harts and stops it after.    *)
(* mip is read, modified and written without a lock by whichever thread    *)
(* sets or clears one of its bits: two steps here.  A clock tick is one    *)
(* nanosecond of the code.                                                 *)
(***************************************************************************)
EXTENDS TaskTimer

CONSTANTS CoreCount,
          SCmps,      (* values the guest writes to stimecmp                *)
          MCmps,      (* values the guest writes to mtimecmp                *)
          SwiValues,  (* values the guest writes to MSWI and SSWI           *)
          Scale,      (* realtime units of one mtime unit (100 in the code) *)
          Width,      (* bits of a uint64_t                                 *)
          MaxOps,     (* bound on the guest's writes                        *)
          MaxRuns     (* bound on the calls of RVCPU::run                   *)

Harts == 0 .. CoreCount - 1

(* A callback captures the core object; its code fixes the flag.            *)
Callbacks == Harts \X {"m", "s"}

None == -1

ASSUME CoreAssumption == CoreCount \in Nat \ {0}
ASSUME ClosuresAssumption == Closures = Callbacks
ASSUME OpsAssumption == MaxOps \in Nat /\ MaxOps <= MaxTasks
ASSUME RunsAssumption == MaxRuns \in Nat
ASSUME SwiAssumption == SwiValues \subseteq BOOLEAN
ASSUME WidthAssumption ==
  /\ Width \in Nat \ {0} /\ Scale \in Nat \ {0}
  /\ {2 ^ (Width - 1), 2 ^ Width} \subseteq Nat \ {0}  (* for the provers   *)
  /\ SCmps \cup MCmps \subseteq 0 .. 2 ^ Width - 1

VARIABLES
  mip,           (* pending bits of each hart                              *)
  mtip, stip,    (* CoreObject flags the callbacks set and update consumes *)
  msip, ssip,    (* CoreObject registers of MSWI and SSWI                  *)
  mtimecmp, stimecmp,
  mtimerID, stimerID,
  bootTime,
  hart,          (* what each hart's thread is doing                       *)
  called,        (* the callback whose code the timer thread entered       *)
  ops, runs,     (* guest writes and runs so far                           *)
  deadlines,     (* history: for each hart, when each stimecmp it ever     *)
                 (* wrote came or comes due                                *)
  armed          (* history: harts that wrote stimecmp since the reset     *)

flagVars == <<mtip, stip, msip, ssip>>
timerRegs == <<mtimecmp, stimecmp, mtimerID, stimerID>>
aclintVars == <<mip, flagVars, timerRegs, bootTime, hart, called, ops, runs,
                deadlines, armed>>
vars == <<timerVars, aclintVars>>

Bits == {"MTIP", "STIP", "MSIP", "SSIP"}

(* Mutant: one more than the largest uint64_t.                              *)
PastAllOnes == 2 ^ Width

(* The reset value of mtimecmp.                                             *)
AllOnes == 2 ^ Width - 1

(* A hart between two guest operations.                                     *)
Idle == [pc |-> "run", target |-> 0, bit |-> "STIP", on |-> FALSE,
         seen |-> {}, after |-> "run", id |-> None, at |-> 0]

AClintInit ==
  /\ Init
  /\ mip = [h \in Harts |-> {}]
  /\ mtip = [h \in Harts |-> FALSE] /\ stip = [h \in Harts |-> FALSE]
  /\ msip = [h \in Harts |-> FALSE] /\ ssip = [h \in Harts |-> FALSE]
  /\ mtimecmp = [h \in Harts |-> AllOnes]
  /\ stimecmp = [h \in Harts |-> 0]
  /\ mtimerID = [h \in Harts |-> None] /\ stimerID = [h \in Harts |-> None]
  /\ bootTime = 0
  /\ hart = [h \in Harts |-> Idle]
  /\ called = <<0, "m">>
  /\ ops = 0 /\ runs = 0
  /\ deadlines = [h \in Harts |-> {}]
  /\ armed = {}

-----------------------------------------------------------------------------
(* Time.                                                                    *)

Wrap(n) == n % 2 ^ Width

(* std::chrono::nanoseconds(delay): uint64_t to a signed count.             *)
Signed(n) == IF n < 2 ^ (Width - 1) THEN n ELSE n - 2 ^ Width

mtime_to_realtime(m) == Wrap(m * Scale)

get_uptime == IF running THEN now - bootTime ELSE 0

-----------------------------------------------------------------------------
(* The two halves of set_interrupt and clear_interrupt.                     *)

At(h, pc) == hart[h].pc = pc

Goto(h, pc) == hart' = [hart EXCEPT ![h].pc = pc]

Finish(h) == hart' = [hart EXCEPT ![h] = Idle]

(* h goes on to set or clear bit of t's mip, then continues at after.       *)
Rmw(h, t, bit, on, after) ==
  hart' = [hart EXCEPT ![h] = [@ EXCEPT !.pc = "readMip", !.target = t,
                               !.bit = bit, !.on = on, !.after = after]]

ReadMip(h) ==
  /\ At(h, "readMip")
  /\ hart' = [hart EXCEPT ![h] = [@ EXCEPT !.pc = "writeMip",
                                  !.seen = mip[hart[h].target]]]
  /\ UNCHANGED <<timerVars, mip, flagVars, timerRegs, bootTime, called, ops,
                 runs, deadlines, armed>>

WriteMip(h) ==
  LET me == hart[h] IN
  /\ At(h, "writeMip")
  /\ mip' = [mip EXCEPT ![me.target] = IF me.on THEN me.seen \cup {me.bit}
                                       ELSE me.seen \ {me.bit}]
  /\ IF me.after = "run" THEN Finish(h)
     ELSE hart' = [hart EXCEPT ![h] = [@ EXCEPT !.pc = me.after, !.seen = {}]]
  /\ UNCHANGED <<timerVars, flagVars, timerRegs, bootTime, called, ops, runs,
                 deadlines, armed>>

-----------------------------------------------------------------------------
(* The guest writes stimecmp: RVCore::update_stimecmp, register_stimer.     *)

(* A hart executes instructions in a run and in KDB's step, when the timer  *)
(* is stopped; never while stop_timer is under way.                         *)
GuestMayAct(h) == At(h, "run") /\ stopPC = "idle" /\ ops < MaxOps

(* The timer cannot count to v: scaled it wraps, or what remains to it is   *)
(* negative as a signed count, as it is for -1.  Its timer fires at once.   *)
OutOfReach(v) ==
  mtime_to_realtime(v) # v * Scale \/ v * Scale - get_uptime >= 2 ^ (Width - 1)

(* When the timer of v comes due.                                           *)
Deadline(v) ==
  IF OutOfReach(v) THEN now ELSE (IF running THEN bootTime ELSE now) + v * Scale

WriteStimecmp(h, v) ==
  /\ GuestMayAct(h)
  /\ stimecmp' = [stimecmp EXCEPT ![h] = v]
  /\ deadlines' = [deadlines EXCEPT ![h] = @ \cup {Deadline(v)}]
  /\ armed' = armed \cup {h}
  /\ ops' = ops + 1
  /\ Goto(h, "sRemove")
  /\ UNCHANGED <<timerVars, mip, flagVars, mtimecmp, mtimerID, stimerID,
                 bootTime, called, runs>>

(* remove_task of the timer an earlier write left, when there is one.  The  *)
(* code reads stimerID twice, without the mutex.  Between the two reads     *)
(* only the callback changes it, to none, and remove_task then marks an id  *)
(* that no task has: as if the first read had found none.                   *)
RemoveStimer(h) ==
  /\ At(h, "sRemove")
  /\ IF stimerID[h] = None THEN UNCHANGED timerVars
     ELSE remove_task(stimerID[h])
  /\ Goto(h, "sRegister")
  /\ UNCHANGED <<mip, flagVars, timerRegs, bootTime, called, ops, runs,
                 deadlines, armed>>

(* Mutant: the comparison is the wrong way round.                           *)
StimecmpAhead(h) == mtime_to_realtime(stimecmp[h]) >= get_uptime

StimecmpPassed(h) == mtime_to_realtime(stimecmp[h]) <= get_uptime

RegisterPassed(h) ==
  /\ At(h, "sRegister")
  /\ StimecmpPassed(h)
  /\ stip' = [stip EXCEPT ![h] = TRUE]
  /\ stimerID' = [stimerID EXCEPT ![h] = None]
  /\ Rmw(h, h, "STIP", FALSE, "run")
  /\ UNCHANGED <<timerVars, mip, mtip, msip, ssip, mtimecmp, stimecmp,
                 mtimerID, bootTime, called, ops, runs, deadlines, armed>>

(* The delay and the time point of the task are computed from one reading   *)
(* of the clock.  The code reads it for each, the second later: the task is *)
(* due later by what lies between, never earlier.                           *)
RegisterTask(h) ==
  /\ At(h, "sRegister")
  /\ ~StimecmpPassed(h)
  /\ add_task(Signed(mtime_to_realtime(stimecmp[h]) - get_uptime), <<h, "s">>)
  /\ hart' = [hart EXCEPT ![h] = [@ EXCEPT !.pc = "sAssign", !.id = counter]]
  /\ UNCHANGED <<mip, flagVars, timerRegs, bootTime, called, ops, runs,
                 deadlines, armed>>

AssignStimerID(h) ==
  /\ At(h, "sAssign")
  /\ stimerID' = [stimerID EXCEPT ![h] = hart[h].id]
  /\ Rmw(h, h, "STIP", FALSE, "run")
  /\ UNCHANGED <<timerVars, mip, flagVars, mtimecmp, stimecmp, mtimerID,
                 bootTime, called, ops, runs, deadlines, armed>>

-----------------------------------------------------------------------------
(* The guest writes MTIMECMP of hart t: AClint::write, update_core_mtimecmp *)

WriteMtimecmp(h, t, v) ==
  /\ GuestMayAct(h)
  /\ mtimecmp' = [mtimecmp EXCEPT ![t] = v]
  /\ ops' = ops + 1
  /\ hart' = [hart EXCEPT ![h] = [@ EXCEPT !.pc = "mRemove", !.target = t]]
  /\ UNCHANGED <<timerVars, mip, flagVars, stimecmp, mtimerID, stimerID,
                 bootTime, called, runs, deadlines, armed>>

RemoveMtimer(h) ==
  LET t == hart[h].target IN
  /\ At(h, "mRemove")
  /\ IF mtimerID[t] = None THEN UNCHANGED timerVars
     ELSE remove_task(mtimerID[t])
  /\ Rmw(h, t, "MTIP", FALSE, "mRegister")
  /\ UNCHANGED <<mip, flagVars, timerRegs, bootTime, called, ops, runs,
                 deadlines, armed>>

RegisterMtimer(h) ==
  LET t == hart[h].target
      delay == Wrap(mtime_to_realtime(mtimecmp[t]) - get_uptime)
  IN
  /\ At(h, "mRegister")
  /\ add_task(Signed(delay), <<t, "m">>)
  /\ hart' = [hart EXCEPT ![h] = [@ EXCEPT !.pc = "mAssign", !.id = counter]]
  /\ UNCHANGED <<mip, flagVars, timerRegs, bootTime, called, ops, runs,
                 deadlines, armed>>

AssignMtimerID(h) ==
  /\ At(h, "mAssign")
  /\ mtimerID' = [mtimerID EXCEPT ![hart[h].target] = hart[h].id]
  /\ Finish(h)
  /\ UNCHANGED <<timerVars, mip, flagVars, mtimecmp, stimecmp, stimerID,
                 bootTime, called, ops, runs, deadlines, armed>>

-----------------------------------------------------------------------------
(* The guest writes MSWI or SSWI of hart t.                                 *)

WriteMswi(h, t, value) ==
  /\ GuestMayAct(h)
  /\ msip' = [msip EXCEPT ![t] = value]
  /\ ops' = ops + 1
  /\ Rmw(h, t, "MSIP", value, "run")
  /\ UNCHANGED <<timerVars, mip, mtip, stip, ssip, timerRegs, bootTime,
                 called, runs, deadlines, armed>>

WriteSswi(h, t, value) ==
  /\ GuestMayAct(h)
  /\ ssip' = [ssip EXCEPT ![t] = value]
  /\ ops' = ops + 1
  /\ Rmw(h, t, "SSIP", value, "run")
  /\ UNCHANGED <<timerVars, mip, mtip, stip, msip, timerRegs, bootTime,
                 called, runs, deadlines, armed>>

-----------------------------------------------------------------------------
(* AClint::update, called by a hart that holds the device mutex; it holds   *)
(* AClint::mtx throughout.  It visits the flags mtip, stip of hart 0, then  *)
(* those of hart 1, ...: `at` counts the flags visited.                     *)

Updating(h) == hart[h].pc \in {"update", "delivered"}
               \/ hart[h].after = "delivered"

AClintMtxFree == \A h \in Harts : ~Updating(h)

UpdateBegin(h) ==
  /\ At(h, "run")
  /\ running
  /\ AClintMtxFree
  /\ hart' = [hart EXCEPT ![h] = [@ EXCEPT !.pc = "update", !.at = 0]]
  /\ UNCHANGED <<timerVars, mip, flagVars, timerRegs, bootTime, called, ops,
                 runs, deadlines, armed>>

Visited(h) == hart[h].at \div 2

VisitsMtip(h) == hart[h].at % 2 = 0

Raised(h) == IF VisitsMtip(h) THEN mtip[Visited(h)] ELSE stip[Visited(h)]

UpdateVisit(h) ==
  /\ At(h, "update")
  /\ hart[h].at < 2 * CoreCount
  /\ IF Raised(h)
     THEN Rmw(h, Visited(h), IF VisitsMtip(h) THEN "MTIP" ELSE "STIP", TRUE,
              "delivered")
     ELSE hart' = [hart EXCEPT ![h].at = @ + 1]
  /\ UNCHANGED <<timerVars, mip, flagVars, timerRegs, bootTime, called, ops,
                 runs, deadlines, armed>>

(* Mutant: both flags of the hart are lowered with either.                  *)
UpdateDeliveredBoth(h) ==
  /\ At(h, "delivered")
  /\ mtip' = [mtip EXCEPT ![Visited(h)] = FALSE]
  /\ stip' = [stip EXCEPT ![Visited(h)] = FALSE]
  /\ hart' = [hart EXCEPT ![h] = [Idle EXCEPT !.pc = "update",
                                  !.at = hart[h].at + 1]]
  /\ UNCHANGED <<timerVars, mip, msip, ssip, timerRegs, bootTime, called, ops,
                 runs, deadlines, armed>>

(* The flag is lowered after the bit was set.                               *)
UpdateDelivered(h) ==
  /\ At(h, "delivered")
  /\ IF VisitsMtip(h)
     THEN mtip' = [mtip EXCEPT ![Visited(h)] = FALSE] /\ UNCHANGED stip
     ELSE stip' = [stip EXCEPT ![Visited(h)] = FALSE] /\ UNCHANGED mtip
  /\ hart' = [hart EXCEPT ![h] = [Idle EXCEPT !.pc = "update",
                                  !.at = hart[h].at + 1]]
  /\ UNCHANGED <<timerVars, mip, msip, ssip, timerRegs, bootTime, called, ops,
                 runs, deadlines, armed>>

UpdateEnd(h) ==
  /\ At(h, "update")
  /\ hart[h].at = 2 * CoreCount
  /\ Finish(h)
  /\ UNCHANGED <<timerVars, mip, flagVars, timerRegs, bootTime, called, ops,
                 runs, deadlines, armed>>

update(h) == UpdateBegin(h) \/ UpdateVisit(h) \/ UpdateDelivered(h)
             \/ UpdateEnd(h)

-----------------------------------------------------------------------------
(* The timer thread inside the callbacks of register_stimer and             *)
(* update_core_mtimecmp.  The callback reads its captured core object after *)
(* it locked AClint::mtx, from the closure that then is in slot 0.          *)

CallCallback ==
  /\ CallTask
  /\ called' = top.task
  /\ UNCHANGED <<mip, flagVars, timerRegs, bootTime, hart, ops, runs,
                 deadlines, armed>>

RunCallback ==
  LET t == top.task[1] IN
  /\ ReturnFromTask
  /\ AClintMtxFree
  /\ IF called[2] = "m"
     THEN /\ mtip' = [mtip EXCEPT ![t] = TRUE]
          /\ mtimerID' = [mtimerID EXCEPT ![t] = None]
          /\ UNCHANGED <<stip, stimerID>>
     ELSE /\ stip' = [stip EXCEPT ![t] = TRUE]
          /\ stimerID' = [stimerID EXCEPT ![t] = None]
          /\ UNCHANGED <<mtip, mtimerID>>
  /\ UNCHANGED <<mip, msip, ssip, mtimecmp, stimecmp, bootTime, hart, called,
                 ops, runs, deadlines, armed>>

TimerLoop ==
  /\ \/ CheckRunning \/ WaitForTask \/ DropRemoved \/ ChooseDue
     \/ WaitUntilDue \/ PopTask \/ WakeUp
  /\ UNCHANGED aclintVars

TimerThread == TimerLoop \/ CallCallback \/ RunCallback

-----------------------------------------------------------------------------
(* RVCPU::run and RVCPU::reset.                                             *)

StartRun ==
  /\ runs < MaxRuns
  /\ \A h \in Harts : At(h, "run")
  /\ start_timer
  /\ bootTime' = now
  /\ runs' = runs + 1
  /\ UNCHANGED <<mip, flagVars, timerRegs, hart, called, ops, deadlines, armed>>

(* Every core left its loop and was joined.                                 *)
StopRun ==
  /\ \A h \in Harts : At(h, "run")
  /\ StopBegin
  /\ UNCHANGED aclintVars

FinishStop == (StopNotify \/ StopJoin) /\ UNCHANGED aclintVars

(* AClint::reset, with the timer thread gone: each remove_task only marks.  *)
reset ==
  LET marked == {id \in {mtimerID[h] : h \in Harts}
                        \cup {stimerID[h] : h \in Harts} : id # None}
  IN
  /\ ~running /\ stopPC = "idle"
  /\ ops < MaxOps /\ ops' = ops + 1
  /\ \A h \in Harts : At(h, "run")
  /\ removedTasks' = removedTasks \cup marked
  /\ cancelled' = cancelled \cup (marked \ started)
  /\ mip' = [h \in Harts |-> {}]
  /\ mtip' = [h \in Harts |-> FALSE] /\ stip' = [h \in Harts |-> FALSE]
  /\ msip' = [h \in Harts |-> FALSE] /\ ssip' = [h \in Harts |-> FALSE]
  /\ mtimecmp' = [h \in Harts |-> AllOnes]
  /\ stimecmp' = [h \in Harts |-> 0]
  /\ mtimerID' = [h \in Harts |-> None] /\ stimerID' = [h \in Harts |-> None]
  /\ armed' = {}
  /\ UNCHANGED <<now, tasks, top, counter, running, timerPC, wakeAt, notified,
                 stopPC, started, bootTime, hart, called, runs, deadlines>>

-----------------------------------------------------------------------------

GuestWrite(h) ==
  \/ \E v \in SCmps : WriteStimecmp(h, v)
  \/ \E t \in Harts, v \in MCmps : WriteMtimecmp(h, t, v)
  \/ \E t \in Harts, value \in SwiValues : WriteMswi(h, t, value)
  \/ \E t \in Harts, value \in SwiValues : WriteSswi(h, t, value)

HartStep(h) ==
  \/ RemoveStimer(h) \/ RegisterPassed(h) \/ RegisterTask(h)
  \/ AssignStimerID(h)
  \/ RemoveMtimer(h) \/ RegisterMtimer(h) \/ AssignMtimerID(h)
  \/ ReadMip(h) \/ WriteMip(h) \/ update(h)

AClintNext ==
  \/ \E h \in Harts : GuestWrite(h) \/ HartStep(h)
  \/ TimerThread
  \/ (Tick \/ SpuriousWakeUp) /\ UNCHANGED aclintVars
  \/ StartRun \/ StopRun \/ FinishStop
  \/ reset

(* Every thread runs; a running hart comes back to update every so many     *)
(* instructions.  The guest need not write, nor the run stop or start.      *)
AClintFairness ==
  /\ \A h \in Harts : SF_vars(HartStep(h))
  /\ SF_vars(TimerThread)
  /\ WF_vars(Tick /\ UNCHANGED aclintVars)
  /\ WF_vars(FinishStop)

AClintSpec == AClintInit /\ [][AClintNext]_vars /\ AClintFairness

-----------------------------------------------------------------------------

HartPCs == {"run", "sRemove", "sRegister", "sAssign", "mRemove", "mRegister",
            "mAssign", "readMip", "writeMip", "update", "delivered"}

AClintTypeOK ==
  /\ TypeOK
  /\ mip \in [Harts -> SUBSET Bits]
  /\ mtip \in [Harts -> BOOLEAN] /\ stip \in [Harts -> BOOLEAN]
  /\ msip \in [Harts -> BOOLEAN] /\ ssip \in [Harts -> BOOLEAN]
  /\ mtimecmp \in [Harts -> 0 .. 2 ^ Width - 1]
  /\ stimecmp \in [Harts -> 0 .. 2 ^ Width - 1]
  /\ mtimerID \in [Harts -> Nat \cup {None}]
  /\ stimerID \in [Harts -> Nat \cup {None}]
  /\ bootTime \in Nat
  /\ hart \in [Harts -> [pc : HartPCs, target : Harts, bit : Bits,
                         on : BOOLEAN, seen : SUBSET Bits, after : HartPCs,
                         id : Nat \cup {None}, at : Nat]]
  /\ called \in Callbacks
  /\ ops \in 0 .. MaxOps /\ runs \in 0 .. MaxRuns
  /\ deadlines \in [Harts -> SUBSET Int]
  /\ armed \subseteq Harts

(* A supervisor timer interrupt is never early with respect to every        *)
(* stimecmp the guest ever wrote: some deadline of the hart has come by the *)
(* time STIP is pending, whatever the timer thread does with removed or     *)
(* overtaken tasks and across stops, restarts and resets.  It says nothing  *)
(* for a stimecmp that is OutOfReach, -1 among them: register_stimer has    *)
(* it fire at once, and it counts as due from when it is written.           *)
NeverBeforeEveryDeadline ==
  \A h \in Harts :
    "STIP" \in mip[h] => \E d \in deadlines[h] : d <= now

Writing(h) == hart[h].pc \in {"sRemove", "sRegister", "sAssign"}

(* A stimecmp whose time has come while the cores run leads to STIP, unless *)
(* the guest writes stimecmp again or the run is stopped.                   *)
SupervisorTimerIsServed ==
  \A h \in Harts :
    (At(h, "run") /\ running /\ h \in armed
       /\ bootTime + stimecmp[h] * Scale <= now)
      ~> ("STIP" \in mip[h] \/ Writing(h) \/ ~running)

RewritingMtimecmp(t) ==
  \E h \in Harts :
    /\ hart[h].target = t
    /\ {hart[h].pc, hart[h].after} \cap {"mRemove", "mRegister", "mAssign"} # {}

(* The same for mtimecmp and MTIP.                                          *)
MachineTimerIsServed ==
  \A t \in Harts :
    (~RewritingMtimecmp(t) /\ running /\ mtimecmp[t] # AllOnes
       /\ bootTime + mtimecmp[t] * Scale <= now)
      ~> ("MTIP" \in mip[t] \/ RewritingMtimecmp(t) \/ ~running)

=============================================================================
