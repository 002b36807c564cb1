------------------------------ MODULE TaskTimer ------------------------------
(***************************************************************************)
(* kxemu::utils::TaskTimer (src/utils/task-timer/task-timer.cpp): a        *)
(* priority queue of delayed closures, one thread that runs them, and the  *)
(* calls other threads make on it.  add_task and remove_task hold mtx for  *)
(* their whole body and block nowhere else, so each is one step that needs *)
(* mtx free; timer_thread is cut wherever it gives mtx up or reads         *)
(* `running`, which start_timer and stop_timer write without mtx.          *)
(*                                                                         *)
(* The id counter is 32 bits wide in the code: MaxTasks stays below its    *)
(* wrap.  The vector under the priority queue is taken not to be           *)
(* reallocated while a closure runs.                                       *)
(***************************************************************************)
EXTENDS Integers, FiniteSets

CONSTANTS Closures,  (* what a task may do: the std::function of add_task   *)
          Delays,    (* delays add_task is called with; the cast of the     *)
                     (* uint64_t delay to nanoseconds makes them signed     *)
          MaxTasks,  (* bound on the calls of add_task                      *)
          MaxTime,   (* bound on the clock                                  *)
          NoTask     (* value of `top` when the queue is empty              *)

Task == [id : Nat, timepoint : Int, task : Closures]

ASSUME DelaysAssumption == Delays \subseteq Int
ASSUME BoundsAssumption == MaxTasks \in Nat /\ MaxTime \in Nat
ASSUME NoTaskAssumption == NoTask \notin Task

VARIABLES
  now,           (* std::chrono::high_resolution_clock::now()              *)
  tasks,         (* contents of the priority queue                         *)
  top,           (* slot 0 of its vector: tasks.top(), and what `next`     *)
                 (* refers to                                              *)
  counter,       (* next id                                                *)
  removedTasks,  (* ids marked by remove_task                              *)
  running,
  timerPC,       (* where timer_thread is                                  *)
  wakeAt,        (* the time point wait_until waits for                    *)
  notified,      (* a notify_all has reached the waiting thread            *)
  stopPC,        (* where the thread that calls stop_timer is              *)
  started,       (* history: ids whose closure was called                  *)
  cancelled      (* history: ids removed before timer_thread chose them    *)

timerVars == <<now, tasks, top, counter, removedTasks, running, timerPC,
               wakeAt, notified, stopPC, started, cancelled>>

Ids(S) == {t.id : t \in S}

(* Lines of timer_thread at which a step begins: "none" no thread, "check"  *)
(* line 24 with mtx held, "body" line 25 with mtx held, "wait" and "timed"  *)
(* inside the two waits, "unlocked" between lines 40 and 41, "task" inside  *)
(* next.task(), "pop" line 42, "done" returned and not yet joined.          *)
TimerPCs == {"none", "check", "body", "wait", "timed", "unlocked", "task",
             "pop", "done"}

MtxFree == timerPC \notin {"check", "body"}

Waiting == timerPC \in {"wait", "timed"}

Init ==
  /\ now = 0
  /\ tasks = {}
  /\ top = NoTask
  /\ counter = 0
  /\ removedTasks = {}
  /\ running = FALSE
  /\ timerPC = "none"
  /\ wakeAt = 0
  /\ notified = FALSE
  /\ stopPC = "idle"
  /\ started = {}
  /\ cancelled = {}

-----------------------------------------------------------------------------
(* The priority queue.  Which of several earliest tasks a pop brings to     *)
(* slot 0 depends on the heap's layout and is left open; a push moves the   *)
(* new task to slot 0 only when its time point is strictly earlier.         *)

Earliest(S) == {t \in S : \A u \in S : t.timepoint <= u.timepoint}

(* Mutant: a push overtakes a task of the same time point.                  *)
NotLater(t, u) == t.timepoint <= u.timepoint

Earlier(t, u) == t.timepoint < u.timepoint

Push(t) ==
  /\ tasks' = tasks \cup {t}
  /\ top' = IF top = NoTask THEN t ELSE IF Earlier(t, top) THEN t ELSE top

Pop ==
  /\ tasks' = tasks \ {top}
  /\ \/ tasks' = {} /\ top' = NoTask
     \/ tasks' # {} /\ top' \in Earliest(tasks')

(* Mutant: the notification is forgotten.                                   *)
no_notification == notified' = notified

notify_all == notified' = Waiting

-----------------------------------------------------------------------------
(* Calls of other threads.                                                  *)

(* Mutant: the id is not consumed.                                          *)
add_task_same_id(delay, task) ==
  /\ MtxFree
  /\ counter < MaxTasks
  /\ Push([id |-> counter - 1, timepoint |-> now + delay, task |-> task])
  /\ counter' = counter + 1
  /\ notify_all
  /\ UNCHANGED <<now, removedTasks, running, timerPC, wakeAt, stopPC,
                 started, cancelled>>

add_task(delay, task) ==
  /\ MtxFree
  /\ counter < MaxTasks
  /\ Push([id |-> counter, timepoint |-> now + delay, task |-> task])
  /\ counter' = counter + 1
  /\ notify_all
  /\ UNCHANGED <<now, removedTasks, running, timerPC, wakeAt, stopPC,
                 started, cancelled>>

(* The timer thread has chosen to run the task in slot 0.                   *)
Chosen(id) == timerPC = "unlocked" /\ id = top.id

remove_task(id) ==
  /\ MtxFree
  /\ removedTasks' = removedTasks \cup {id}
  /\ cancelled' = IF id \in started \/ Chosen(id)
                  THEN cancelled
                  ELSE cancelled \cup {id}
  /\ notify_all
  /\ UNCHANGED <<now, tasks, top, counter, running, timerPC, wakeAt, stopPC,
                 started>>

start_timer ==
  /\ stopPC = "idle"
  /\ ~running
  /\ running' = TRUE
  /\ timerPC' = "check"
  /\ UNCHANGED <<now, tasks, top, counter, removedTasks, wakeAt, notified,
                 stopPC, started, cancelled>>

StopBegin ==
  /\ stopPC = "idle"
  /\ running
  /\ running' = FALSE
  /\ stopPC' = "sleep"
  /\ UNCHANGED <<now, tasks, top, counter, removedTasks, timerPC, wakeAt,
                 notified, started, cancelled>>

(* Mutant: no pause between running = false and the notification.           *)
NoSleep == TRUE

(* Ten milliseconds are taken to be long enough for a timer thread that     *)
(* read running = TRUE just before StopBegin to have left the locked lines  *)
(* that follow.                                                             *)
SleepLongEnough == timerPC # "body"

StopNotify ==
  /\ stopPC = "sleep"
  /\ SleepLongEnough
  /\ stopPC' = "join"
  /\ notify_all
  /\ UNCHANGED <<now, tasks, top, counter, removedTasks, running, timerPC,
                 wakeAt, started, cancelled>>

StopJoin ==
  /\ stopPC = "join"
  /\ timerPC = "done"
  /\ stopPC' = "idle"
  /\ timerPC' = "none"
  /\ UNCHANGED <<now, tasks, top, counter, removedTasks, running, wakeAt,
                 notified, started, cancelled>>

-----------------------------------------------------------------------------
(* timer_thread.                                                            *)

CheckRunning ==
  /\ timerPC = "check"
  /\ timerPC' = IF running THEN "body" ELSE "done"
  /\ UNCHANGED <<now, tasks, top, counter, removedTasks, running, wakeAt,
                 notified, stopPC, started, cancelled>>

WaitForTask ==
  /\ timerPC = "body"
  /\ tasks = {}
  /\ timerPC' = "wait"
  /\ notified' = FALSE
  /\ UNCHANGED <<now, tasks, top, counter, removedTasks, running, wakeAt,
                 stopPC, started, cancelled>>

(* Mutant: any mark drops the earliest task.                                *)
DropAnyRemoved ==
  /\ timerPC = "body"
  /\ tasks # {}
  /\ removedTasks # {}
  /\ Pop
  /\ removedTasks' = {}
  /\ timerPC' = "check"
  /\ UNCHANGED <<now, counter, running, wakeAt, notified, stopPC, started,
                 cancelled>>

(* `next` refers to slot 0: after the pop it names the task that moved      *)
(* there, and the dropped one only when the queue is left empty.            *)
ErasedId(dropped) == IF top' = NoTask THEN dropped.id ELSE top'.id

DropRemoved ==
  /\ timerPC = "body"
  /\ tasks # {}
  /\ top.id \in removedTasks
  /\ Pop
  /\ removedTasks' = removedTasks \ {ErasedId(top)}
  /\ timerPC' = "check"
  /\ UNCHANGED <<now, counter, running, wakeAt, notified, stopPC, started,
                 cancelled>>

ChooseDue ==
  /\ timerPC = "body"
  /\ tasks # {}
  /\ top.id \notin removedTasks
  /\ top.timepoint <= now
  /\ timerPC' = "unlocked"
  /\ UNCHANGED <<now, tasks, top, counter, removedTasks, running, wakeAt,
                 notified, stopPC, started, cancelled>>

WaitUntilDue ==
  /\ timerPC = "body"
  /\ tasks # {}
  /\ top.id \notin removedTasks
  /\ now < top.timepoint
  /\ timerPC' = "timed"
  /\ wakeAt' = top.timepoint
  /\ notified' = FALSE
  /\ UNCHANGED <<now, tasks, top, counter, removedTasks, running, stopPC,
                 started, cancelled>>

(* next.task(): the closure called is the one in slot 0 at the call.        *)
CallTask ==
  /\ timerPC = "unlocked"
  /\ started' = started \cup {top.id}
  /\ timerPC' = "task"
  /\ UNCHANGED <<now, tasks, top, counter, removedTasks, running, wakeAt,
                 notified, stopPC, cancelled>>

ReturnFromTask ==
  /\ timerPC = "task"
  /\ timerPC' = "pop"
  /\ UNCHANGED <<now, tasks, top, counter, removedTasks, running, wakeAt,
                 notified, stopPC, started, cancelled>>

(* Mutant: the task called stays in the queue.                              *)
KeepTask ==
  /\ timerPC = "pop"
  /\ timerPC' = "check"
  /\ UNCHANGED <<now, tasks, top, counter, removedTasks, running, wakeAt,
                 notified, stopPC, started, cancelled>>

PopTask ==
  /\ timerPC = "pop"
  /\ Pop
  /\ timerPC' = "check"
  /\ UNCHANGED <<now, counter, removedTasks, running, wakeAt, notified,
                 stopPC, started, cancelled>>

Woken == Waiting /\ (notified \/ (timerPC = "timed" /\ wakeAt <= now))

WakeUp ==
  /\ Woken
  /\ timerPC' = "check"
  /\ notified' = FALSE
  /\ UNCHANGED <<now, tasks, top, counter, removedTasks, running, wakeAt,
                 stopPC, started, cancelled>>

(* A condition variable may wake without a notification.                    *)
SpuriousWakeUp ==
  /\ Waiting
  /\ ~Woken
  /\ timerPC' = "check"
  /\ UNCHANGED <<now, tasks, top, counter, removedTasks, running, wakeAt,
                 notified, stopPC, started, cancelled>>

timer_thread ==
  \/ CheckRunning \/ WaitForTask \/ DropRemoved \/ ChooseDue \/ WaitUntilDue
  \/ CallTask \/ ReturnFromTask \/ PopTask \/ WakeUp

-----------------------------------------------------------------------------

Tick ==
  /\ now < MaxTime
  /\ now' = now + 1
  /\ UNCHANGED <<tasks, top, counter, removedTasks, running, timerPC, wakeAt,
                 notified, stopPC, started, cancelled>>

stop_timer == StopBegin \/ StopNotify \/ StopJoin

(* Tasks due after the last tick would never be served: they are left out.  *)
Client ==
  \/ \E delay \in Delays, task \in Closures :
       now + delay <= MaxTime /\ add_task(delay, task)
  \/ \E id \in 0 .. counter - 1 : id \notin removedTasks /\ remove_task(id)

Next ==
  \/ Client
  \/ start_timer
  \/ stop_timer
  \/ timer_thread
  \/ SpuriousWakeUp
  \/ Tick

(* The timer thread runs whenever it can, the clock advances, and a         *)
(* stop_timer that has begun goes on; nobody has to call anything.          *)
Fairness ==
  /\ WF_timerVars(timer_thread)
  /\ WF_timerVars(StopNotify)
  /\ WF_timerVars(StopJoin)
  /\ WF_timerVars(Tick)

Spec == Init /\ [][Next]_timerVars /\ Fairness

-----------------------------------------------------------------------------

TypeOK ==
  /\ now \in Nat
  /\ tasks \subseteq Task
  /\ top \in Task \cup {NoTask}
  /\ counter \in Nat
  /\ removedTasks \subseteq Nat
  /\ running \in BOOLEAN
  /\ timerPC \in TimerPCs
  /\ wakeAt \in Int
  /\ notified \in BOOLEAN
  /\ stopPC \in {"idle", "sleep", "join"}
  /\ started \subseteq Nat
  /\ cancelled \subseteq Nat

(* Between a call of a task and its pop the mutex is free and tasks are     *)
(* pushed: the one popped at line 43 is still the one that was called.      *)
PopsTheTaskItRan == timerPC \in {"task", "pop"} => top.id \in started

(* No task is called a second time: one chosen at line 39 was not started   *)
(* before, however removals, pushes and restarts of the timer interleave.   *)
NoTaskRunsTwice ==
  timerPC = "unlocked" => top # NoTask /\ top.id \notin started

(* Every task added is still queued, or was called, or was removed: pops,   *)
(* marks left behind and restarts never make one disappear.                 *)
NoTaskIsLost ==
  \A id \in 0 .. counter - 1 : id \in Ids(tasks) \cup started \cup cancelled

(* While the timer runs, a task nobody removes is called once its time has  *)
(* come: no notification is lost between the test of the queue and a wait.  *)
EveryTaskIsServed ==
  \A id \in 0 .. MaxTasks - 1 :
    id \in Ids(tasks) ~> (id \in started \cup cancelled \/ ~running)

(* stop_timer returns: its join finds the timer thread gone.                *)
StopReturns == (stopPC = "sleep") ~> (stopPC = "idle")

=============================================================================
