---------------------------- MODULE TimerProofs ----------------------------
(***************************************************************************)
(* Proofs about TaskTimer and about AClint, which runs on it.              *)
(*                                                                         *)
(* Of TaskTimer, for any clients, clock and number of tasks: the delays    *)
(* are assumed not to reach into the past, since with a past time point    *)
(* add_task can take slot 0 from a running task, and the theorems on what  *)
(* is popped and how often a task runs are false.                          *)
(*                                                                         *)
(* Of AClint: its type invariant for any number of harts, and, for one     *)
(* hart, that a supervisor timer interrupt is never early.  They assume    *)
(* nothing of the values written nor of the delays, which wrap-around      *)
(* makes negative: a task of the past may take slot 0 from the one in      *)
(* hand, but slot 0 stays a due task.                                      *)
(***************************************************************************)
EXTENDS AClint, TLAPS

-----------------------------------------------------------------------------
(* TaskTimer.                                                               *)

InHand == timerPC \in {"unlocked", "task", "pop"}

(* Slot 0 holds an earliest task, and ids tell queued tasks apart.          *)
QueueInv ==
  /\ tasks = {} => top = NoTask
  /\ tasks # {} => top \in tasks
  /\ \A t \in tasks : top.timepoint <= t.timepoint
  /\ \A t \in tasks : t.id < counter
  /\ \A t, u \in tasks : t.id = u.id => t = u

(* From its choice to its pop the task in hand stays in slot 0 and due.     *)
InHandInv == InHand => top \in tasks /\ top.timepoint <= now

(* A queued task was started only if it is the one in hand.                 *)
StartedInv ==
  /\ \A id \in started : id < counter
  /\ \A t \in tasks : t.id \in started => timerPC \in {"task", "pop"} /\ t = top

(* A mark in removedTasks is for a task that was cancelled or that ran.     *)
MarksInv ==
  \A id \in removedTasks : id \in cancelled \cup started \/ Chosen(id)

(* The timer thread exists while running, and is joined when stopped.       *)
ControlInv ==
  /\ running => stopPC = "idle" /\ timerPC \notin {"none", "done"}
  /\ ~running /\ stopPC = "idle" => timerPC = "none"

TaskInv == /\ QueueInv /\ InHandInv /\ StartedInv /\ MarksInv
           /\ PopsTheTaskItRan /\ NoTaskIsLost

IInv == TypeOK /\ ControlInv /\ TaskInv

-----------------------------------------------------------------------------

(* A push keeps the queue typed, and takes slot 0 only from a later task.   *)
LEMMA PushType ==
  ASSUME TypeOK, NEW t \in Task, Push(t)
  PROVE  tasks' \subseteq Task /\ top' \in Task \cup {NoTask}
  BY DEF TypeOK, Push

(* A pop removes exactly the task in slot 0 and types what replaces it.     *)
LEMMA PopType ==
  ASSUME TypeOK, Pop
  PROVE  /\ tasks' \subseteq Task
         /\ top' \in Task \cup {NoTask}
  BY DEF TypeOK, Pop, Earliest

(* What add_task pushes is a task.                                          *)
LEMMA NewTaskType ==
  ASSUME TypeOK, NEW delay \in Int, NEW task \in Closures
  PROVE  [id |-> counter, timepoint |-> now + delay, task |-> task] \in Task
  BY DEF TypeOK, Task

(* notify_all leaves a Boolean.                                             *)
LEMMA NotifyType ==
  ASSUME notify_all
  PROVE  notified' \in BOOLEAN
<1>1. CASE Waiting
  BY <1>1 DEF notify_all, Waiting
<1>2. CASE ~Waiting
  BY <1>2 DEF notify_all, Waiting
<1>3. QED
  BY <1>1, <1>2

(* The members of slot 0's task.                                            *)
LEMMA TopType ==
  ASSUME TypeOK, top \in tasks
  PROVE  top.id \in Nat /\ top.timepoint \in Int /\ top # NoTask
  BY NoTaskAssumption DEF TypeOK, Task

(* Every step keeps the types.                                              *)
LEMMA TypeStep == IInv /\ [Next]_timerVars => TypeOK'
<1> SUFFICES ASSUME IInv, [Next]_timerVars PROVE TypeOK'
  OBVIOUS
<1>0. TypeOK /\ QueueInv /\ InHandInv
  BY DEF IInv, TaskInv
<1> USE DEF TypeOK, TimerPCs
<1>1. CASE Client
  <2>1. ASSUME NEW delay \in Delays, NEW task \in Closures,
               add_task(delay, task)
        PROVE  TypeOK'
    <3>1. delay \in Int
      BY DelaysAssumption
    <3>2. [id |-> counter, timepoint |-> now + delay, task |-> task] \in Task
      BY <1>0, <3>1, NewTaskType
    <3>3. tasks' \subseteq Task /\ top' \in Task \cup {NoTask}
      BY <1>0, <3>2, <2>1, PushType DEF add_task
    <3>4. notified' \in BOOLEAN
      BY <2>1, NotifyType DEF add_task
    <3>5. QED
      BY <1>0, <2>1, <3>3, <3>4 DEF add_task
  <2>2. ASSUME NEW id \in 0 .. counter - 1, remove_task(id)
        PROVE  TypeOK'
    <3>1. notified' \in BOOLEAN
      BY <2>2, NotifyType DEF remove_task
    <3>2. QED
      BY <1>0, <2>2, <3>1 DEF remove_task
  <2>3. QED
    BY <1>1, <2>1, <2>2 DEF Client
<1>2. CASE start_timer
  BY <1>0, <1>2 DEF start_timer
<1>3. CASE stop_timer
  <2>1. CASE StopNotify
    <3>1. notified' \in BOOLEAN
      BY <2>1, NotifyType DEF StopNotify
    <3>2. QED
      BY <1>0, <2>1, <3>1 DEF StopNotify
  <2>2. QED
    BY <1>0, <1>3, <2>1 DEF stop_timer, StopBegin, StopJoin
<1>4. CASE timer_thread
  <2>1. CASE CheckRunning
    BY <1>0, <2>1 DEF CheckRunning
  <2>2. CASE WaitForTask
    BY <1>0, <2>2 DEF WaitForTask
  <2>3. CASE DropRemoved
    BY <1>0, <2>3, PopType DEF DropRemoved
  <2>4. CASE ChooseDue
    BY <1>0, <2>4 DEF ChooseDue
  <2>5. CASE WaitUntilDue
    BY <1>0, <2>5, TopType DEF WaitUntilDue, QueueInv
  <2>6. CASE CallTask
    BY <1>0, <2>6, TopType DEF CallTask, InHandInv, InHand
  <2>7. CASE ReturnFromTask
    BY <1>0, <2>7 DEF ReturnFromTask
  <2>8. CASE PopTask
    BY <1>0, <2>8, PopType DEF PopTask
  <2>9. CASE WakeUp
    BY <1>0, <2>9 DEF WakeUp
  <2>10. QED
    BY <1>4, <2>1, <2>2, <2>3, <2>4, <2>5, <2>6, <2>7, <2>8, <2>9
       DEF timer_thread
<1>5. CASE SpuriousWakeUp
  BY <1>0, <1>5 DEF SpuriousWakeUp
<1>6. CASE Tick
  BY <1>0, <1>6 DEF Tick
<1>7. CASE UNCHANGED timerVars
  BY <1>0, <1>7 DEF timerVars
<1>8. QED
  BY <1>1, <1>2, <1>3, <1>4, <1>5, <1>6, <1>7 DEF Next
-----------------------------------------------------------------------------

(* Popping slot 0 keeps the queue in order and drops no other task.         *)
LEMMA PopStep ==
  ASSUME TypeOK, QueueInv, top \in tasks, Pop, counter' = counter
  PROVE  /\ QueueInv'
         /\ tasks' = tasks \ {top}
         /\ Ids(tasks) = Ids(tasks') \cup {top.id}
<1>1. tasks' = tasks \ {top}
  BY DEF Pop
<1>2. tasks' # {} => top' \in tasks' /\ \A t \in tasks' : top'.timepoint <= t.timepoint
  BY DEF Pop, Earliest
<1>3. tasks' = {} => top' = NoTask
  BY DEF Pop
<1>4. QueueInv'
  BY <1>1, <1>2, <1>3 DEF QueueInv
<1>5. Ids(tasks) = Ids(tasks') \cup {top.id}
  BY <1>1 DEF Ids
<1>6. QED
  BY <1>1, <1>4, <1>5

(* A task not due in the past never takes slot 0 from the one in hand.      *)
LEMMA AddTaskStep ==
  ASSUME IInv, Delays \subseteq Nat, NEW delay \in Delays,
         NEW task \in Closures, add_task(delay, task)
  PROVE  TaskInv'
<1> DEFINE new == [id |-> counter, timepoint |-> now + delay, task |-> task]
<1>1. /\ TypeOK /\ QueueInv /\ InHandInv /\ StartedInv /\ MarksInv
      /\ PopsTheTaskItRan /\ NoTaskIsLost
  BY DEF IInv, TaskInv
<1>2. /\ new \in Task /\ new.id = counter /\ new.timepoint = now + delay
      /\ delay \in Nat /\ counter \in Nat /\ now \in Nat
  BY <1>1, NewTaskType DEF TypeOK
<1>3. /\ tasks' = tasks \cup {new} /\ counter' = counter + 1
      /\ UNCHANGED <<now, timerPC, started, cancelled, removedTasks>>
  BY DEF add_task, Push
<1>4. top' \in {new, top}
  BY DEF add_task, Push
<1>5. tasks = {} => top' = new
  BY <1>1 DEF add_task, Push, QueueInv
<1>6. tasks # {} => top \in tasks /\ top # NoTask /\ top.timepoint \in Int
                    /\ top' = IF new.timepoint < top.timepoint THEN new ELSE top
  BY <1>1, TopType DEF add_task, Push, QueueInv, Earlier
<1>7. \A t \in tasks : t.id \in Nat /\ t.timepoint \in Int
  BY <1>1 DEF TypeOK, Task
<1>8. QueueInv'
  <2>1. top' \in tasks'
    BY <1>3, <1>5, <1>6
  <2>2. \A t \in tasks' : top'.timepoint <= t.timepoint
    BY <1>1, <1>2, <1>3, <1>5, <1>6, <1>7 DEF QueueInv
  <2>3. \A t \in tasks' : t.id < counter'
    BY <1>1, <1>2, <1>3, <1>7 DEF QueueInv
  <2>4. \A t, u \in tasks' : t.id = u.id => t = u
    BY <1>1, <1>2, <1>3, <1>7 DEF QueueInv
  <2>5. QED
    BY <1>3, <2>1, <2>2, <2>3, <2>4 DEF QueueInv
<1>9. InHand => top' = top /\ top \in tasks /\ top.timepoint <= now
  BY <1>1, <1>2, <1>6 DEF InHandInv
<1>10. InHandInv'
  BY <1>3, <1>9 DEF InHandInv, InHand
<1>11. StartedInv'
  <2>1. \A id \in started' : id < counter'
    BY <1>1, <1>2, <1>3 DEF StartedInv, TypeOK
  <2>2. new.id \notin started
    BY <1>1, <1>2 DEF StartedInv
  <2>3. QED
    BY <1>1, <1>3, <1>9, <2>1, <2>2 DEF StartedInv, InHand
<1>12. MarksInv'
  BY <1>1, <1>3, <1>9 DEF MarksInv, Chosen, InHand
<1>13. PopsTheTaskItRan'
  BY <1>1, <1>3, <1>9 DEF PopsTheTaskItRan, InHand
<1>14. NoTaskIsLost'
  <2>1. Ids(tasks') = Ids(tasks) \cup {counter}
    BY <1>2, <1>3 DEF Ids
  <2>2. \A id \in 0 .. counter' - 1 : id = counter \/ id \in 0 .. counter - 1
    BY <1>2, <1>3
  <2>3. QED
    BY <1>1, <1>3, <2>1, <2>2 DEF NoTaskIsLost
<1>15. QED
  BY <1>8, <1>10, <1>11, <1>12, <1>13, <1>14 DEF TaskInv

(* Marking a task.                                                          *)
LEMMA RemoveTaskStep ==
  ASSUME IInv, NEW id \in 0 .. counter - 1, remove_task(id)
  PROVE  TaskInv'
<1>1. /\ TypeOK /\ QueueInv /\ InHandInv /\ StartedInv /\ MarksInv
      /\ PopsTheTaskItRan /\ NoTaskIsLost
  BY DEF IInv, TaskInv
<1>2. /\ UNCHANGED <<now, tasks, top, counter, timerPC, started>>
      /\ removedTasks' = removedTasks \cup {id}
      /\ cancelled \subseteq cancelled'
      /\ id \in started \/ Chosen(id) \/ id \in cancelled'
  BY DEF remove_task
<1>3. QueueInv' /\ InHandInv' /\ StartedInv' /\ PopsTheTaskItRan'
  BY <1>1, <1>2 DEF QueueInv, InHandInv, InHand, StartedInv, PopsTheTaskItRan
<1>4. MarksInv'
  BY <1>1, <1>2 DEF MarksInv, Chosen
<1>5. NoTaskIsLost'
  BY <1>1, <1>2 DEF NoTaskIsLost, Ids
<1>6. QED
  BY <1>3, <1>4, <1>5 DEF TaskInv

(* A step that only moves a thread between lines where no task is in hand.  *)
LEMMA QuietStep ==
  ASSUME IInv, UNCHANGED <<tasks, top, counter, removedTasks, started, cancelled>>,
         now' \in Nat, now <= now',
         timerPC' = timerPC \/ (~InHand /\ ~InHand')
  PROVE  TaskInv'
<1>1. /\ TypeOK /\ QueueInv /\ InHandInv /\ StartedInv /\ MarksInv
      /\ PopsTheTaskItRan /\ NoTaskIsLost
  BY DEF IInv, TaskInv
<1>2. QueueInv' /\ NoTaskIsLost'
  BY <1>1 DEF QueueInv, NoTaskIsLost, Ids
<1>3. InHandInv'
  BY <1>1, TopType DEF InHandInv, InHand, TypeOK
<1>4. StartedInv' /\ MarksInv' /\ PopsTheTaskItRan'
  BY <1>1 DEF StartedInv, MarksInv, Chosen, PopsTheTaskItRan, InHand
<1>5. QED
  BY <1>2, <1>3, <1>4 DEF TaskInv

(* Dropping a removed task loses none that was neither started nor removed. *)
LEMMA DropRemovedStep ==
  ASSUME IInv, DropRemoved
  PROVE  TaskInv'
<1>1. /\ TypeOK /\ QueueInv /\ StartedInv /\ MarksInv /\ NoTaskIsLost
  BY DEF IInv, TaskInv
<1>2. /\ top \in tasks /\ Pop /\ timerPC = "body" /\ timerPC' = "check"
      /\ top.id \in removedTasks /\ removedTasks' \subseteq removedTasks
      /\ UNCHANGED <<now, counter, started, cancelled>>
  BY <1>1 DEF DropRemoved, QueueInv
<1>3. /\ QueueInv' /\ tasks' = tasks \ {top}
      /\ Ids(tasks) = Ids(tasks') \cup {top.id}
  BY <1>1, <1>2, PopStep
<1>4. \A id \in removedTasks : id \in cancelled \cup started
  BY <1>1, <1>2 DEF MarksInv, Chosen
<1>5. StartedInv' /\ MarksInv'
  BY <1>1, <1>2, <1>3, <1>4 DEF StartedInv, MarksInv
<1>6. NoTaskIsLost'
  BY <1>1, <1>2, <1>3, <1>4 DEF NoTaskIsLost
<1>7. InHandInv' /\ PopsTheTaskItRan'
  BY <1>2 DEF InHandInv, InHand, PopsTheTaskItRan
<1>8. QED
  BY <1>3, <1>5, <1>6, <1>7 DEF TaskInv

(* The task chosen is due, and is called while it is still in slot 0.       *)
LEMMA CallSteps ==
  ASSUME IInv, ChooseDue \/ CallTask \/ ReturnFromTask
  PROVE  TaskInv'
<1>1. /\ TypeOK /\ QueueInv /\ InHandInv /\ StartedInv /\ MarksInv
      /\ PopsTheTaskItRan /\ NoTaskIsLost
  BY DEF IInv, TaskInv
<1>2. UNCHANGED <<now, tasks, top, counter, removedTasks, cancelled>>
  BY DEF ChooseDue, CallTask, ReturnFromTask
<1>3. QueueInv'
  BY <1>1, <1>2 DEF QueueInv
<1>4. CASE ChooseDue
  <2>1. /\ timerPC = "body" /\ timerPC' = "unlocked" /\ started' = started
        /\ top \in tasks /\ top.timepoint <= now /\ top.id \notin removedTasks
    BY <1>1, <1>4 DEF ChooseDue, QueueInv
  <2>2. InHandInv'
    BY <1>2, <2>1 DEF InHandInv
  <2>3. StartedInv' /\ MarksInv' /\ PopsTheTaskItRan' /\ NoTaskIsLost'
    BY <1>1, <1>2, <2>1
       DEF StartedInv, MarksInv, Chosen, PopsTheTaskItRan, NoTaskIsLost, Ids
  <2>4. QED
    BY <1>3, <2>2, <2>3 DEF TaskInv
<1>5. CASE CallTask
  <2>1. /\ timerPC = "unlocked" /\ timerPC' = "task"
        /\ started' = started \cup {top.id} /\ top \in tasks /\ top.timepoint <= now
    BY <1>1, <1>5 DEF CallTask, InHandInv, InHand
  <2>2. InHandInv' /\ PopsTheTaskItRan'
    BY <1>2, <2>1 DEF InHandInv, PopsTheTaskItRan
  <2>3. StartedInv'
    BY <1>1, <1>2, <2>1 DEF StartedInv, QueueInv
  <2>4. MarksInv'
    BY <1>1, <1>2, <2>1 DEF MarksInv, Chosen
  <2>5. NoTaskIsLost'
    BY <1>1, <1>2, <2>1 DEF NoTaskIsLost, Ids
  <2>6. QED
    BY <1>3, <2>2, <2>3, <2>4, <2>5 DEF TaskInv
<1>6. CASE ReturnFromTask
  <2>1. timerPC = "task" /\ timerPC' = "pop" /\ started' = started
    BY <1>6 DEF ReturnFromTask
  <2>2. InHandInv' /\ StartedInv' /\ MarksInv' /\ PopsTheTaskItRan' /\ NoTaskIsLost'
    BY <1>1, <1>2, <2>1
       DEF InHandInv, InHand, StartedInv, MarksInv, Chosen, PopsTheTaskItRan,
           NoTaskIsLost, Ids
  <2>3. QED
    BY <1>3, <2>2 DEF TaskInv
<1>7. QED
  BY <1>4, <1>5, <1>6

(* What is popped after a call is the task that was called.                 *)
LEMMA PopTaskStep ==
  ASSUME IInv, PopTask
  PROVE  TaskInv'
<1>1. /\ TypeOK /\ QueueInv /\ InHandInv /\ StartedInv /\ MarksInv
      /\ PopsTheTaskItRan /\ NoTaskIsLost
  BY DEF IInv, TaskInv
<1>2. /\ timerPC = "pop" /\ timerPC' = "check" /\ Pop
      /\ top \in tasks /\ top.id \in started
      /\ UNCHANGED <<now, counter, removedTasks, started, cancelled>>
  BY <1>1 DEF PopTask, InHandInv, InHand, PopsTheTaskItRan
<1>3. /\ QueueInv' /\ tasks' = tasks \ {top}
      /\ Ids(tasks) = Ids(tasks') \cup {top.id}
  BY <1>1, <1>2, PopStep
<1>4. StartedInv' /\ MarksInv'
  BY <1>1, <1>2, <1>3 DEF StartedInv, MarksInv, Chosen
<1>5. NoTaskIsLost' /\ InHandInv' /\ PopsTheTaskItRan'
  BY <1>1, <1>2, <1>3 DEF NoTaskIsLost, InHandInv, InHand, PopsTheTaskItRan
<1>6. QED
  BY <1>3, <1>4, <1>5 DEF TaskInv

(* A thread is started only when the one before it was joined.              *)
LEMMA ControlStep ==
  ASSUME TypeOK, ControlInv, [Next]_timerVars
  PROVE  ControlInv'
<1> USE DEF ControlInv
<1>1. CASE Client
  <2>1. \A delay \in Delays, task \in Closures :
          add_task(delay, task) => UNCHANGED <<running, stopPC, timerPC>>
    BY DEF add_task
  <2>2. \A id \in 0 .. counter - 1 :
          remove_task(id) => UNCHANGED <<running, stopPC, timerPC>>
    BY DEF remove_task
  <2>3. UNCHANGED <<running, stopPC, timerPC>>
    BY <1>1, <2>1, <2>2 DEF Client
  <2>4. QED
    BY <2>3
<1>2. CASE start_timer
  BY <1>2 DEF start_timer
<1>3. CASE stop_timer
  BY <1>3 DEF stop_timer, StopBegin, StopNotify, StopJoin
<1>4. CASE CheckRunning
  BY <1>4 DEF CheckRunning
<1>5. CASE WaitForTask \/ DropRemoved \/ ChooseDue \/ WaitUntilDue
  BY <1>5 DEF WaitForTask, DropRemoved, ChooseDue, WaitUntilDue
<1>6. CASE CallTask \/ ReturnFromTask \/ PopTask
  BY <1>6 DEF CallTask, ReturnFromTask, PopTask
<1>7. CASE WakeUp \/ SpuriousWakeUp
  BY <1>7 DEF WakeUp, Woken, SpuriousWakeUp, Waiting
<1>8. CASE Tick \/ UNCHANGED timerVars
  BY <1>8 DEF Tick, timerVars
<1>9. QED
  BY <1>1, <1>2, <1>3, <1>4, <1>5, <1>6, <1>7, <1>8 DEF Next, timer_thread

-----------------------------------------------------------------------------

(* The invariant is inductive when no delay reaches into the past.          *)
LEMMA InvStep ==
  ASSUME Delays \subseteq Nat
  PROVE  IInv /\ [Next]_timerVars => IInv'
<1> SUFFICES ASSUME IInv, [Next]_timerVars PROVE IInv'
  OBVIOUS
<1>0. TypeOK' /\ ControlInv' /\ now \in Nat
  BY TypeStep, ControlStep DEF IInv, TypeOK
<1>1. CASE Client
  BY <1>1, AddTaskStep, RemoveTaskStep, <1>0 DEF Client, IInv
<1>2. CASE start_timer
  <2>1. ~InHand /\ ~InHand'
    BY <1>2 DEF start_timer, InHand, IInv, ControlInv
  <2>2. QED
    BY <1>0, <1>2, <2>1, QuietStep DEF start_timer, IInv
<1>3. CASE stop_timer
  <2>1. timerPC' = timerPC \/ (~InHand /\ ~InHand')
    BY <1>3 DEF stop_timer, StopBegin, StopNotify, StopJoin, InHand
  <2>2. /\ UNCHANGED <<now, tasks, top, counter, removedTasks>>
        /\ UNCHANGED <<started, cancelled>>
    BY <1>3 DEF stop_timer, StopBegin, StopNotify, StopJoin
  <2>3. QED
    BY <1>0, <2>1, <2>2, QuietStep DEF IInv
<1>4. CASE CheckRunning \/ WaitForTask \/ WaitUntilDue \/ WakeUp \/ SpuriousWakeUp
  <2>1. ~InHand /\ ~InHand'
    BY <1>4 DEF CheckRunning, WaitForTask, WaitUntilDue, WakeUp, Woken,
                SpuriousWakeUp, Waiting, InHand
  <2>2. /\ UNCHANGED <<now, tasks, top, counter, removedTasks>>
        /\ UNCHANGED <<started, cancelled>>
    BY <1>4 DEF CheckRunning, WaitForTask, WaitUntilDue, WakeUp, SpuriousWakeUp
  <2>3. QED
    BY <1>0, <2>1, <2>2, QuietStep DEF IInv
<1>5. CASE DropRemoved
  BY <1>0, <1>5, DropRemovedStep DEF IInv
<1>6. CASE ChooseDue \/ CallTask \/ ReturnFromTask
  BY <1>0, <1>6, CallSteps DEF IInv
<1>7. CASE PopTask
  BY <1>0, <1>7, PopTaskStep DEF IInv
<1>8. CASE Tick
  <2>1. /\ UNCHANGED <<tasks, top, counter, removedTasks, timerPC>>
        /\ UNCHANGED <<started, cancelled>>
        /\ now' \in Nat /\ now <= now'
    BY <1>0, <1>8 DEF Tick
  <2>2. QED
    BY <1>0, <2>1, QuietStep DEF IInv
<1>9. CASE UNCHANGED timerVars
  <2>1. /\ UNCHANGED <<now, tasks, top, counter, removedTasks, timerPC>>
        /\ UNCHANGED <<started, cancelled>>
    BY <1>9 DEF timerVars
  <2>2. now' \in Nat /\ now <= now'
    BY <1>0, <2>1
  <2>3. QED
    BY <1>0, <2>1, <2>2, QuietStep DEF IInv
<1>10. QED
  BY <1>1, <1>2, <1>3, <1>4, <1>5, <1>6, <1>7, <1>8, <1>9 DEF Next, timer_thread

(* The constructor establishes the invariant.                               *)
LEMMA InvInit == Init => IInv
<1> SUFFICES ASSUME Init PROVE IInv
  OBVIOUS
<1>1. TypeOK
  <2>1. tasks \subseteq Task /\ top \in Task \cup {NoTask}
    BY DEF Init
  <2>2. now \in Nat /\ counter \in Nat /\ wakeAt \in Int
    BY DEF Init
  <2>3. removedTasks \subseteq Nat /\ started \subseteq Nat /\ cancelled \subseteq Nat
    BY DEF Init
  <2>4. /\ running \in BOOLEAN /\ notified \in BOOLEAN
        /\ timerPC \in TimerPCs /\ stopPC \in {"idle", "sleep", "join"}
    BY DEF Init, TimerPCs
  <2>5. QED
    BY <2>1, <2>2, <2>3, <2>4 DEF TypeOK
<1>2. QueueInv /\ InHandInv /\ StartedInv /\ MarksInv
  BY DEF Init, QueueInv, InHandInv, InHand, StartedInv, MarksInv
<1>3. ControlInv /\ PopsTheTaskItRan /\ NoTaskIsLost
  BY DEF Init, ControlInv, PopsTheTaskItRan, NoTaskIsLost
<1>4. QED
  BY <1>1, <1>2, <1>3 DEF IInv, TaskInv

(* Everything below follows from the inductive invariant.                   *)
LEMMA Invariance ==
  ASSUME Delays \subseteq Nat
  PROVE  Spec => []IInv
<1>1. IInv /\ [Next]_timerVars => IInv'
  BY InvStep
<1>2. QED
  BY <1>1, InvInit, PTL DEF Spec

(* The state of the timer keeps its types in every behaviour.               *)
THEOREM TypeCorrect ==
  ASSUME Delays \subseteq Nat
  PROVE  Spec => []TypeOK
<1>1. IInv => TypeOK
  BY DEF IInv
<1>2. QED
  BY <1>1, Invariance, PTL

(* The pop at line 43 always removes the task that line 41 called, however  *)
(* many threads add and remove tasks while it runs.                         *)
THEOREM PopsWhatItRan ==
  ASSUME Delays \subseteq Nat
  PROVE  Spec => []PopsTheTaskItRan
<1>1. IInv => PopsTheTaskItRan
  BY DEF IInv, TaskInv
<1>2. QED
  BY <1>1, Invariance, PTL

(* No task is called twice.                                                 *)
THEOREM RunsAtMostOnce ==
  ASSUME Delays \subseteq Nat
  PROVE  Spec => []NoTaskRunsTwice
<1>1. IInv => NoTaskRunsTwice
  BY TopType DEF IInv, TaskInv, InHandInv, InHand, StartedInv, NoTaskRunsTwice
<1>2. QED
  BY <1>1, Invariance, PTL

(* No task disappears from the queue without having been called or removed. *)
THEOREM NothingIsLost ==
  ASSUME Delays \subseteq Nat
  PROVE  Spec => []NoTaskIsLost
<1>1. IInv => NoTaskIsLost
  BY DEF IInv, TaskInv
<1>2. QED
  BY <1>1, Invariance, PTL

-----------------------------------------------------------------------------
(* AClint: slot 0 is a task of the queue, due from its choice to its pop.   *)
SlotInv ==
  /\ tasks = {} => top = NoTask
  /\ tasks # {} => top \in tasks
  /\ InHand => top \in tasks /\ top.timepoint <= now

TimerInv == TypeOK /\ SlotInv

TypesInv == AClintTypeOK /\ SlotInv

-----------------------------------------------------------------------------
(* The timer's own steps.                                                   *)

(* A push of any time point leaves slot 0 with a task, due if it was.       *)
LEMMA AddKeepsSlot ==
  ASSUME TimerInv, NEW delay \in Int, NEW task \in Closures, add_task(delay, task)
  PROVE  TimerInv'
<1> DEFINE new == [id |-> counter, timepoint |-> now + delay, task |-> task]
<1> USE DEF TimerInv
<1>1. new \in Task
  BY NewTaskType
<1>2. tasks' \subseteq Task /\ top' \in Task \cup {NoTask}
  BY <1>1, PushType DEF add_task
<1>3. notified' \in BOOLEAN
  BY NotifyType DEF add_task
<1>4. TypeOK'
  BY <1>2, <1>3 DEF add_task, TypeOK
<1>5. tasks' = tasks \cup {new} /\ now' = now /\ timerPC' = timerPC
  BY DEF add_task, Push
<1>6. CASE tasks = {}
  <2>1. top = NoTask /\ ~InHand
    BY <1>6 DEF SlotInv
  <2>2. top' = new
    BY <2>1 DEF add_task, Push
  <2> QED
    BY <1>4, <1>5, <2>1, <2>2 DEF SlotInv, InHand
<1>7. CASE tasks # {}
  <2>1. top \in tasks /\ top # NoTask /\ top.timepoint \in Int
    BY <1>7, TopType DEF SlotInv
  <2>2. top' = IF new.timepoint < top.timepoint THEN new ELSE top
    BY <2>1 DEF add_task, Push, Earlier
  <2>3. new.timepoint \in Int /\ now \in Int
    BY <1>1 DEF Task, TypeOK
  <2>4. InHand => top'.timepoint <= now
    BY <2>1, <2>2, <2>3 DEF SlotInv
  <2> QED
    BY <1>4, <1>5, <2>1, <2>2, <2>4 DEF SlotInv, InHand
<1> QED
  BY <1>4, <1>6, <1>7

LEMMA RemoveKeepsSlot ==
  ASSUME TimerInv, NEW id \in Nat, remove_task(id)
  PROVE  TimerInv'
<1> USE DEF TimerInv
<1>1. notified' \in BOOLEAN
  BY NotifyType DEF remove_task
<1>2. TypeOK'
  BY <1>1 DEF remove_task, TypeOK
<1>3. SlotInv'
  BY DEF remove_task, SlotInv, InHand
<1> QED
  BY <1>2, <1>3

(* A pop puts a task of the rest into slot 0.                               *)
LEMMA PopKeepsSlot ==
  ASSUME TimerInv, Pop, timerPC' = "check"
  PROVE  SlotInv'
  BY DEF TimerInv, Pop, Earliest, SlotInv, InHand

LEMMA TimerStepKeepsSlot ==
  ASSUME TimerInv,
         \/ CheckRunning \/ WaitForTask \/ DropRemoved \/ ChooseDue \/ WaitUntilDue
         \/ CallTask \/ ReturnFromTask \/ PopTask \/ WakeUp \/ SpuriousWakeUp \/ Tick
         \/ start_timer \/ StopBegin \/ StopNotify \/ StopJoin
  PROVE  TimerInv'
<1> USE DEF TimerInv, TypeOK, TimerPCs, SlotInv, InHand
<1>1. CASE CheckRunning
  BY <1>1 DEF CheckRunning
<1>2. CASE WaitForTask
  BY <1>2 DEF WaitForTask
<1>3. CASE DropRemoved
  <2>1. SlotInv'
    BY <1>3, PopKeepsSlot DEF DropRemoved
  <2>2. TypeOK'
    BY <1>3, PopType DEF DropRemoved
  <2> QED
    BY <2>1, <2>2
<1>4. CASE ChooseDue
  BY <1>4 DEF ChooseDue
<1>5. CASE WaitUntilDue
  BY <1>5, TopType DEF WaitUntilDue
<1>6. CASE CallTask
  BY <1>6, TopType DEF CallTask
<1>7. CASE ReturnFromTask
  BY <1>7 DEF ReturnFromTask
<1>8. CASE PopTask
  <2>1. SlotInv'
    BY <1>8, PopKeepsSlot DEF PopTask
  <2>2. TypeOK'
    BY <1>8, PopType DEF PopTask
  <2> QED
    BY <2>1, <2>2
<1>9. CASE WakeUp \/ SpuriousWakeUp
  BY <1>9 DEF WakeUp, SpuriousWakeUp, Waiting
<1>10. CASE Tick
  <2>1. InHand => top.timepoint <= now + 1
    BY TopType
  <2> QED
    BY <1>10, <2>1 DEF Tick
<1>11. CASE start_timer
  BY <1>11 DEF start_timer
<1>12. CASE StopBegin
  BY <1>12 DEF StopBegin
<1>13. CASE StopNotify
  <2>1. notified' \in BOOLEAN
    BY <1>13, NotifyType DEF StopNotify
  <2> QED
    BY <1>13, <2>1 DEF StopNotify
<1>14. CASE StopJoin
  BY <1>14 DEF StopJoin
<1> QED
  BY <1>1, <1>2, <1>3, <1>4, <1>5, <1>6, <1>7, <1>8, <1>9, <1>10, <1>11, <1>12, <1>13, <1>14

-----------------------------------------------------------------------------
(* Types.                                                                   *)

HartState == [pc : HartPCs, target : Harts, bit : Bits, on : BOOLEAN,
              seen : SUBSET Bits, after : HartPCs, id : Nat \cup {None}, at : Nat]

(* What a hart's thread is doing stays typed.                               *)
LEMMA HartTypes ==
  ASSUME hart \in [Harts -> HartState], mip \in [Harts -> SUBSET Bits], counter \in Nat,
         NEW h \in Harts
  PROVE  /\ Idle \in HartState
         /\ Finish(h) => hart' \in [Harts -> HartState]
         /\ \A pc \in HartPCs : Goto(h, pc) => hart' \in [Harts -> HartState]
         /\ \A t \in Harts, bit \in Bits, on \in BOOLEAN, after \in HartPCs :
              Rmw(h, t, bit, on, after) => hart' \in [Harts -> HartState]
<1> USE DEF HartState, HartPCs
<1>1. Idle \in HartState
  BY CoreAssumption DEF Idle, Harts, Bits
<1>2. Finish(h) => hart' \in [Harts -> HartState]
  BY <1>1 DEF Finish
<1>3. ASSUME NEW pc \in HartPCs, Goto(h, pc) PROVE hart' \in [Harts -> HartState]
  BY <1>3 DEF Goto
<1>4. ASSUME NEW t \in Harts, NEW bit \in Bits, NEW on \in BOOLEAN, NEW after \in HartPCs,
             Rmw(h, t, bit, on, after)
      PROVE  hart' \in [Harts -> HartState]
  <2> DEFINE new == [hart[h] EXCEPT !.pc = "readMip", !.target = t, !.bit = bit, !.on = on,
                                    !.after = after]
  <2>1. hart[h] \in HartState
    OBVIOUS
  <2>2. new \in HartState
    BY <2>1
  <2>3. hart' = [hart EXCEPT ![h] = new]
    BY <1>4 DEF Rmw
  <2> QED
    BY <2>2, <2>3
<1> QED
  BY <1>1, <1>2, <1>3, <1>4

(* The record with some of its fields changed.                              *)
LEMMA HartFields ==
  ASSUME NEW me \in HartState, NEW pc \in HartPCs
  PROVE  /\ \A t \in Harts : [me EXCEPT !.pc = pc, !.target = t] \in HartState
         /\ \A id \in Nat : [me EXCEPT !.pc = pc, !.id = id] \in HartState
         /\ \A seen \in SUBSET Bits : [me EXCEPT !.pc = pc, !.seen = seen] \in HartState
  BY DEF HartState

(* A delay is a signed number.                                              *)
LEMMA DelayType ==
  ASSUME AClintTypeOK
  PROVE  /\ get_uptime \in Int
         /\ \A v \in 0 .. AllOnes : mtime_to_realtime(v) \in Int
         /\ \A n \in Int : Wrap(n) \in Int /\ Signed(n) \in Int
<1>1. 2 ^ Width \in Nat \ {0} /\ Scale \in Nat
  BY WidthAssumption
<1>2. \A n \in Int : Wrap(n) \in Int /\ Signed(n) \in Int
  BY <1>1 DEF Wrap, Signed
<1>3. \A v \in 0 .. AllOnes : mtime_to_realtime(v) \in Int
  BY <1>1, <1>2 DEF mtime_to_realtime, AllOnes
<1>4. get_uptime \in Int
  BY DEF get_uptime, AClintTypeOK, TypeOK
<1> QED
  BY <1>2, <1>3, <1>4

(* A guest's write.                                                         *)
LEMMA GuestWriteTypes ==
  ASSUME TypesInv, NEW h \in Harts, GuestWrite(h)
  PROVE  TypesInv'
<1>0. /\ AClintTypeOK /\ hart \in [Harts -> HartState] /\ hart[h] \in HartState
      /\ counter \in Nat /\ mip \in [Harts -> SUBSET Bits]
  BY DEF TypesInv, AClintTypeOK, HartState, TypeOK
<1>6. UNCHANGED timerVars /\ ops' = ops + 1 /\ ops < MaxOps
  BY DEF GuestWrite, WriteStimecmp, WriteMtimecmp, WriteMswi, WriteSswi, GuestMayAct
<1>7. ops' \in 0 .. MaxOps
  BY <1>0, <1>6, OpsAssumption DEF AClintTypeOK
<1>1. TypeOK' /\ SlotInv'
  BY <1>0, <1>6 DEF TypesInv, AClintTypeOK, TypeOK, SlotInv, InHand, timerVars
<1>2. ASSUME NEW v \in SCmps, WriteStimecmp(h, v) PROVE AClintTypeOK'
  <2>1. v \in 0 .. 2 ^ Width - 1
    BY WidthAssumption
  <2>2. Deadline(v) \in Int
    BY <1>0, <2>1, WidthAssumption DEF Deadline, AClintTypeOK, TypeOK
  <2>3. hart' \in [Harts -> HartState]
    BY <1>0, <1>2, HartTypes DEF WriteStimecmp, HartPCs
  <2> QED
    BY <1>0, <1>7, <1>1, <1>2, <2>1, <2>2, <2>3 DEF WriteStimecmp, AClintTypeOK, HartState, flagVars
<1>3. ASSUME NEW t \in Harts, NEW v \in MCmps, WriteMtimecmp(h, t, v) PROVE AClintTypeOK'
  <2>1. v \in 0 .. 2 ^ Width - 1
    BY WidthAssumption
  <2>2. hart' \in [Harts -> HartState]
    BY <1>0, <1>3, HartFields DEF WriteMtimecmp, HartPCs
  <2> QED
    BY <1>0, <1>7, <1>1, <1>3, <2>1, <2>2 DEF WriteMtimecmp, AClintTypeOK, HartState, flagVars
<1>4. ASSUME NEW t \in Harts, NEW value \in SwiValues, WriteMswi(h, t, value) PROVE AClintTypeOK'
  <2>1. hart' \in [Harts -> HartState] /\ value \in BOOLEAN
    BY <1>0, <1>4, HartTypes, SwiAssumption DEF WriteMswi, HartPCs, Bits
  <2> QED
    BY <1>0, <1>7, <1>1, <1>4, <2>1 DEF WriteMswi, AClintTypeOK, HartState, timerRegs
<1>5. ASSUME NEW t \in Harts, NEW value \in SwiValues, WriteSswi(h, t, value) PROVE AClintTypeOK'
  <2>1. hart' \in [Harts -> HartState] /\ value \in BOOLEAN
    BY <1>0, <1>5, HartTypes, SwiAssumption DEF WriteSswi, HartPCs, Bits
  <2> QED
    BY <1>0, <1>7, <1>1, <1>5, <2>1 DEF WriteSswi, AClintTypeOK, HartState, timerRegs
<1> QED
  BY <1>1, <1>2, <1>3, <1>4, <1>5 DEF GuestWrite, TypesInv

(* A hart's further steps, first those of the registers' writes.            *)
LEMMA RegisterTypes ==
  ASSUME TypesInv, NEW h \in Harts,
         \/ RemoveStimer(h) \/ RegisterPassed(h) \/ RegisterTask(h) \/ AssignStimerID(h)
         \/ RemoveMtimer(h) \/ RegisterMtimer(h) \/ AssignMtimerID(h)
  PROVE  TypesInv'
<1>0. /\ AClintTypeOK /\ hart \in [Harts -> HartState] /\ TimerInv
      /\ mip \in [Harts -> SUBSET Bits] /\ counter \in Nat /\ hart[h].target \in Harts
      /\ hart[h] \in HartState
  BY DEF TypesInv, AClintTypeOK, HartState, TypeOK, TimerInv
<1>1. ASSUME UNCHANGED timerVars PROVE TimerInv'
  BY <1>0, <1>1 DEF TimerInv, TypeOK, SlotInv, InHand, timerVars
<1>2. CASE RemoveStimer(h)
  <2>1. TimerInv'
    <3>1. CASE stimerID[h] = None
      BY <1>1, <1>2, <3>1 DEF RemoveStimer
    <3>2. CASE stimerID[h] # None
      <4>1. stimerID[h] \in Nat
        BY <1>0, <3>2 DEF AClintTypeOK
      <4> QED
        BY <1>0, <1>2, <3>2, <4>1, RemoveKeepsSlot DEF RemoveStimer
    <3> QED
      BY <3>1, <3>2
  <2>2. hart' \in [Harts -> HartState]
    BY <1>0, <1>2, HartTypes DEF RemoveStimer, HartPCs
  <2> QED
    BY <1>0, <1>2, <2>1, <2>2 DEF RemoveStimer, TypesInv, AClintTypeOK, HartState, TimerInv, flagVars, timerRegs
<1>3. CASE RegisterPassed(h)
  <2>1. TimerInv'
    BY <1>1, <1>3 DEF RegisterPassed
  <2>2. hart' \in [Harts -> HartState]
    BY <1>0, <1>3, HartTypes DEF RegisterPassed, HartPCs, Bits
  <2> QED
    BY <1>0, <1>3, <2>1, <2>2 DEF RegisterPassed, TypesInv, AClintTypeOK, HartState, TimerInv
<1>4. CASE RegisterTask(h)
  <2>1. stimecmp[h] \in 0 .. AllOnes /\ <<h, "s">> \in Closures
    BY <1>0, ClosuresAssumption DEF AClintTypeOK, AllOnes, Callbacks
  <2>2. Signed(mtime_to_realtime(stimecmp[h]) - get_uptime) \in Int
    BY <1>0, <2>1, DelayType
  <2>3. TimerInv'
    BY <1>0, <1>4, <2>1, <2>2, AddKeepsSlot DEF RegisterTask
  <2>4. hart' \in [Harts -> HartState]
    BY <1>0, <1>4, HartFields DEF RegisterTask, HartPCs
  <2> QED
    BY <1>0, <1>4, <2>3, <2>4 DEF RegisterTask, TypesInv, AClintTypeOK, HartState, TimerInv, flagVars, timerRegs
<1>5. CASE AssignStimerID(h)
  <2>1. TimerInv'
    BY <1>1, <1>5 DEF AssignStimerID
  <2>2. hart' \in [Harts -> HartState]
    BY <1>0, <1>5, HartTypes DEF AssignStimerID, HartPCs, Bits
  <2> QED
    BY <1>0, <1>5, <2>1, <2>2 DEF AssignStimerID, TypesInv, AClintTypeOK, HartState, TimerInv, flagVars
<1>6. CASE RemoveMtimer(h)
  <2>1. TimerInv'
    <3>1. CASE mtimerID[hart[h].target] = None
      BY <1>1, <1>6, <3>1 DEF RemoveMtimer
    <3>2. CASE mtimerID[hart[h].target] # None
      <4>1. mtimerID[hart[h].target] \in Nat
        BY <1>0, <3>2 DEF AClintTypeOK
      <4> QED
        BY <1>0, <1>6, <3>2, <4>1, RemoveKeepsSlot DEF RemoveMtimer
    <3> QED
      BY <3>1, <3>2
  <2>2. hart' \in [Harts -> HartState]
    BY <1>0, <1>6, HartTypes DEF RemoveMtimer, HartPCs, Bits
  <2> QED
    BY <1>0, <1>6, <2>1, <2>2 DEF RemoveMtimer, TypesInv, AClintTypeOK, HartState, TimerInv, flagVars, timerRegs
<1>7. CASE RegisterMtimer(h)
  <2> DEFINE t == hart[h].target
  <2>1. mtimecmp[t] \in 0 .. AllOnes /\ <<t, "m">> \in Closures
    BY <1>0, ClosuresAssumption DEF AClintTypeOK, AllOnes, Callbacks
  <2>2. Signed(Wrap(mtime_to_realtime(mtimecmp[t]) - get_uptime)) \in Int
    BY <1>0, <2>1, DelayType
  <2>3. TimerInv'
    BY <1>0, <1>7, <2>1, <2>2, AddKeepsSlot DEF RegisterMtimer
  <2>4. hart' \in [Harts -> HartState]
    BY <1>0, <1>7, HartFields DEF RegisterMtimer, HartPCs
  <2> QED
    BY <1>0, <1>7, <2>3, <2>4 DEF RegisterMtimer, TypesInv, AClintTypeOK, HartState, TimerInv, flagVars, timerRegs
<1>8. CASE AssignMtimerID(h)
  <2>1. TimerInv'
    BY <1>1, <1>8 DEF AssignMtimerID
  <2>2. hart' \in [Harts -> HartState]
    BY <1>0, <1>8, HartTypes DEF AssignMtimerID
  <2> QED
    BY <1>0, <1>8, <2>1, <2>2 DEF AssignMtimerID, TypesInv, AClintTypeOK, HartState, TimerInv, flagVars
<1> QED
  BY <1>2, <1>3, <1>4, <1>5, <1>6, <1>7, <1>8

(* The two halves of a change of mip, and update.                           *)
LEMMA MipTypes ==
  ASSUME TypesInv, NEW h \in Harts,
         \/ ReadMip(h) \/ WriteMip(h) \/ UpdateBegin(h) \/ UpdateVisit(h) \/ UpdateDelivered(h)
         \/ UpdateEnd(h)
  PROVE  TypesInv'
<1>0. /\ AClintTypeOK /\ hart \in [Harts -> HartState] /\ hart[h] \in HartState
      /\ mip \in [Harts -> SUBSET Bits] /\ counter \in Nat
  BY DEF TypesInv, AClintTypeOK, HartState, TypeOK
<1>1. UNCHANGED <<timerVars, msip, ssip, timerRegs, bootTime, called, ops, runs, deadlines, armed>>
  BY DEF ReadMip, WriteMip, UpdateBegin, UpdateVisit, UpdateDelivered, UpdateEnd, flagVars
<1>2. TypeOK' /\ SlotInv'
  BY <1>1 DEF TypesInv, AClintTypeOK, TypeOK, SlotInv, InHand, timerVars
<1>3. hart' \in [Harts -> HartState]
  <2>1. CASE ReadMip(h)
    <3>1. mip[hart[h].target] \in SUBSET Bits
      BY <1>0 DEF HartState
    <3> QED
      BY <1>0, <2>1, <3>1, HartFields DEF ReadMip, HartPCs
  <2>2. CASE WriteMip(h)
    <3>1. [hart[h] EXCEPT !.pc = hart[h].after, !.seen = {}] \in HartState
      BY <1>0, HartFields DEF HartState
    <3> QED
      BY <1>0, <2>2, <3>1, HartTypes DEF WriteMip
  <2>3. CASE UpdateBegin(h)
    <3>1. [hart[h] EXCEPT !.pc = "update", !.at = 0] \in HartState
      BY <1>0 DEF HartState, HartPCs
    <3> QED
      BY <1>0, <2>3, <3>1 DEF UpdateBegin
  <2>4. CASE UpdateVisit(h)
    <3>1. hart[h].at \in Nat /\ CoreCount \in Nat /\ hart[h].at < 2 * CoreCount
      BY <1>0, <2>4, CoreAssumption DEF HartState, UpdateVisit
    <3>2. Visited(h) \in Harts
      BY <3>1 DEF Visited, Harts
    <3>3. CASE Raised(h)
      BY <1>0, <2>4, <3>2, <3>3, HartTypes DEF UpdateVisit, Bits, HartPCs
    <3>4. CASE ~Raised(h)
      <4>1. [hart[h] EXCEPT !.at = hart[h].at + 1] \in HartState
        BY <1>0 DEF HartState
      <4> QED
        BY <1>0, <2>4, <3>4, <4>1 DEF UpdateVisit
    <3> QED
      BY <3>3, <3>4
  <2>5. CASE UpdateDelivered(h)
    <3>1. [Idle EXCEPT !.pc = "update", !.at = hart[h].at + 1] \in HartState
      <4>1. Idle \in HartState /\ hart[h].at + 1 \in Nat
        BY <1>0, HartTypes DEF HartState
      <4> QED
        BY <4>1 DEF HartState, HartPCs
    <3> QED
      BY <1>0, <2>5, <3>1 DEF UpdateDelivered
  <2>6. CASE UpdateEnd(h)
    BY <1>0, <2>6, HartTypes DEF UpdateEnd
  <2> QED
    BY <2>1, <2>2, <2>3, <2>4, <2>5, <2>6
<1>4. mip' \in [Harts -> SUBSET Bits]
  <2>1. CASE WriteMip(h)
    <3>1. hart[h].bit \in Bits /\ hart[h].seen \in SUBSET Bits
      BY <1>0 DEF HartState
    <3> QED
      BY <1>0, <2>1, <3>1 DEF WriteMip
  <2>2. CASE ~WriteMip(h)
    BY <1>0, <2>2 DEF ReadMip, UpdateBegin, UpdateVisit, UpdateDelivered, UpdateEnd
  <2> QED
    BY <2>1, <2>2
<1>5. mtip' \in [Harts -> BOOLEAN] /\ stip' \in [Harts -> BOOLEAN]
  <2>1. CASE UpdateDelivered(h)
    BY <1>0, <2>1 DEF UpdateDelivered, AClintTypeOK
  <2>2. CASE ~UpdateDelivered(h)
    BY <1>0, <2>2 DEF ReadMip, WriteMip, UpdateBegin, UpdateVisit, UpdateEnd, AClintTypeOK, flagVars
  <2> QED
    BY <2>1, <2>2
<1> QED
  BY <1>0, <1>1, <1>2, <1>3, <1>4, <1>5 DEF TypesInv, AClintTypeOK, HartState, timerRegs

(* The timer thread and the clock.                                          *)
LEMMA TimerThreadTypes ==
  ASSUME TypesInv, TimerThread \/ ((Tick \/ SpuriousWakeUp) /\ UNCHANGED aclintVars)
  PROVE  TypesInv'
<1>0. AClintTypeOK /\ TimerInv
  BY DEF TypesInv, AClintTypeOK, TimerInv
<1>1. ASSUME UNCHANGED aclintVars, TimerInv' PROVE TypesInv'
  BY <1>0, <1>1 DEF aclintVars, flagVars, timerRegs, TypesInv, AClintTypeOK, TimerInv
<1>2. CASE TimerLoop \/ ((Tick \/ SpuriousWakeUp) /\ UNCHANGED aclintVars)
  BY <1>0, <1>1, <1>2, TimerStepKeepsSlot DEF TimerLoop
<1>3. CASE CallCallback
  <2>1. TimerInv'
    BY <1>0, <1>3, TimerStepKeepsSlot DEF CallCallback
  <2>2. called' \in Callbacks
    <3>1. top \in Task
      BY <1>0, <1>3 DEF CallCallback, CallTask, TimerInv, SlotInv, InHand, TypeOK
    <3> QED
      BY <1>3, <3>1, ClosuresAssumption DEF CallCallback, Task
  <2> QED
    BY <1>0, <1>3, <2>1, <2>2 DEF CallCallback, flagVars, timerRegs, TypesInv, AClintTypeOK, TimerInv
<1>4. CASE RunCallback
  <2>1. TimerInv'
    BY <1>0, <1>4, TimerStepKeepsSlot DEF RunCallback
  <2>2. /\ mtip' \in [Harts -> BOOLEAN] /\ stip' \in [Harts -> BOOLEAN]
        /\ mtimerID' \in [Harts -> Nat \cup {None}] /\ stimerID' \in [Harts -> Nat \cup {None}]
    BY <1>0, <1>4 DEF RunCallback, AClintTypeOK
  <2> QED
    BY <1>0, <1>4, <2>1, <2>2 DEF RunCallback, TypesInv, AClintTypeOK, TimerInv
<1> QED
  BY <1>2, <1>3, <1>4 DEF TimerThread

(* Runs and resets.                                                         *)
LEMMA RunTypes ==
  ASSUME TypesInv, StartRun \/ StopRun \/ FinishStop \/ reset
  PROVE  TypesInv'
<1>0. AClintTypeOK /\ TimerInv
  BY DEF TypesInv, AClintTypeOK, TimerInv
<1>1. CASE StartRun
  <2>1. TimerInv'
    BY <1>0, <1>1, TimerStepKeepsSlot DEF StartRun
  <2>2. bootTime' \in Nat
    BY <1>0, <1>1 DEF StartRun, AClintTypeOK, TypeOK
  <2>3. runs' \in 0 .. MaxRuns
    BY <1>0, <1>1, RunsAssumption DEF StartRun, AClintTypeOK
  <2> QED
    BY <1>0, <1>1, <2>1, <2>2, <2>3 DEF StartRun, flagVars, timerRegs, TypesInv, AClintTypeOK, TimerInv
<1>2. CASE StopRun \/ FinishStop
  <2>1. TimerInv' /\ UNCHANGED aclintVars
    BY <1>0, <1>2, TimerStepKeepsSlot DEF StopRun, FinishStop
  <2> QED
    BY <1>0, <2>1 DEF aclintVars, flagVars, timerRegs, TypesInv, AClintTypeOK, TimerInv
<1>3. CASE reset
  <2> DEFINE marked == {id \in {mtimerID[h] : h \in Harts} \cup {stimerID[h] : h \in Harts} : id # None}
  <2>1. /\ removedTasks' = removedTasks \cup marked
        /\ cancelled' = cancelled \cup (marked \ started)
        /\ UNCHANGED <<now, tasks, top, counter, running, timerPC, wakeAt, notified, stopPC, started>>
    BY <1>3 DEF reset
  <2>2. marked \subseteq Nat
    BY <1>0 DEF AClintTypeOK
  <2>3. TimerInv'
    BY <1>0, <2>1, <2>2 DEF TimerInv, TypeOK, SlotInv, InHand
  <2>4. ops' \in 0 .. MaxOps
    BY <1>0, <1>3, OpsAssumption DEF reset, AClintTypeOK
  <2>5. AllOnes \in 0 .. 2 ^ Width - 1 /\ 0 \in 0 .. 2 ^ Width - 1
    BY WidthAssumption DEF AllOnes
  <2>6. /\ mip' = [h \in Harts |-> {}]
        /\ mtip' = [h \in Harts |-> FALSE] /\ stip' = [h \in Harts |-> FALSE]
        /\ msip' = [h \in Harts |-> FALSE] /\ ssip' = [h \in Harts |-> FALSE]
        /\ mtimecmp' = [h \in Harts |-> AllOnes] /\ stimecmp' = [h \in Harts |-> 0]
        /\ mtimerID' = [h \in Harts |-> None] /\ stimerID' = [h \in Harts |-> None]
        /\ armed' = {}
        /\ UNCHANGED <<bootTime, hart, called, runs, deadlines>>
    BY <1>3 DEF reset
  <2> QED
    BY <1>0, <2>3, <2>4, <2>5, <2>6 DEF TypesInv, AClintTypeOK, TimerInv
<1> QED
  BY <1>1, <1>2, <1>3

LEMMA TypesInit == AClintInit => TypesInv
<1> SUFFICES ASSUME AClintInit PROVE TypesInv
  OBVIOUS
<1>1. TypeOK /\ SlotInv
  <2>1. Init
    BY DEF AClintInit
  <2> QED
    BY <2>1, InvInit DEF IInv, Init, SlotInv, InHand
<1>2. AllOnes \in 0 .. 2 ^ Width - 1 /\ 0 \in 0 .. 2 ^ Width - 1
  BY WidthAssumption DEF AllOnes
<1>3. Idle \in HartState /\ 0 \in Harts
  BY CoreAssumption DEF Idle, HartState, HartPCs, Harts, Bits
<1>4. hart \in [Harts -> HartState] /\ called \in Callbacks
  BY <1>3 DEF AClintInit, Callbacks
<1>5. ops \in 0 .. MaxOps
  BY OpsAssumption DEF AClintInit
<1>6. runs \in 0 .. MaxRuns
  BY RunsAssumption DEF AClintInit
<1> QED
  BY <1>1, <1>2, <1>4, <1>5, <1>6 DEF AClintInit, TypesInv, AClintTypeOK, HartState

LEMMA TypesStep == TypesInv /\ [AClintNext]_vars => TypesInv'
<1> SUFFICES ASSUME TypesInv, [AClintNext]_vars PROVE TypesInv'
  OBVIOUS
<1>1. CASE UNCHANGED vars
  BY <1>1 DEF vars, timerVars, aclintVars, flagVars, timerRegs, TypesInv, AClintTypeOK, TypeOK, SlotInv, InHand
<1>2. ASSUME NEW h \in Harts, GuestWrite(h) PROVE TypesInv'
  BY <1>2, GuestWriteTypes
<1>3. ASSUME NEW h \in Harts, HartStep(h) PROVE TypesInv'
  BY <1>3, RegisterTypes, MipTypes DEF HartStep, update
<1>4. CASE AClintNext
  <2>1. CASE \E h \in Harts : GuestWrite(h) \/ HartStep(h)
    BY <2>1, <1>2, <1>3
  <2>2. CASE TimerThread
    BY <2>2, TimerThreadTypes
  <2>3. CASE (Tick \/ SpuriousWakeUp) /\ UNCHANGED aclintVars
    BY <2>3, TimerThreadTypes
  <2>4. CASE StartRun \/ StopRun \/ FinishStop
    BY <2>4, RunTypes
  <2>5. CASE reset
    BY <2>5, RunTypes
  <2> QED
    BY <1>4, <2>1, <2>2, <2>3, <2>4, <2>5 DEF AClintNext
<1> QED
  BY <1>1, <1>4

(* Every variable keeps its type, for any number of harts and any guest:    *)
(* the words of the timer registers stay within their width, and a callback *)
(* that runs, whatever overtook it, is one of a hart's two.                 *)
THEOREM AClintTypes == AClintSpec => []AClintTypeOK
<1>1. TypesInv => AClintTypeOK
  BY DEF TypesInv
<1> QED
  BY <1>1, TypesInit, TypesStep, PTL DEF AClintSpec

-----------------------------------------------------------------------------
(* One hart: its supervisor timer interrupt is never early.                 *)

OneHart == CoreCount = 1

Due == \E d \in deadlines[0] : d <= now

(* A queued supervisor task comes no earlier than some deadline, or one has *)
(* come already: that of a stimecmp out of the timer's reach.               *)
DueQueue ==
  \A t \in tasks : t.task[2] = "s" => \E d \in deadlines[0] : d <= t.timepoint \/ d <= now

(* Wherever the interrupt is on its way, a deadline has come.               *)
DueFlags ==
  /\ "STIP" \in mip[0] => Due
  /\ stip[0] => Due
  /\ timerPC = "task" /\ called[2] = "s" => Due

DueHart ==
  /\ hart[0].pc \in {"readMip", "writeMip"} /\ hart[0].bit = "STIP" /\ hart[0].on => Due
  /\ hart[0].pc = "writeMip" /\ "STIP" \in hart[0].seen => Due
  /\ hart[0].after \in {"run", "mRegister", "delivered"}

(* A write under way is of a deadline the history holds.                    *)
DueWrite ==
  hart[0].pc \in {"sRemove", "sRegister"} =>
    stimecmp[0] \in SCmps /\ \E d \in deadlines[0] : d <= Deadline(stimecmp[0])

DueInv == bootTime <= now /\ DueQueue /\ DueFlags /\ DueHart /\ DueWrite

DueTypes == OneHart /\ TypesInv /\ DueInv

(* With one hart every index is 0.                                          *)
LEMMA OneHartTypes ==
  ASSUME DueTypes
  PROVE  /\ Harts = {0}
         /\ hart \in [Harts -> HartState] /\ hart[0] \in HartState /\ hart[0].target = 0
         /\ mip \in [Harts -> SUBSET Bits] /\ stip \in [Harts -> BOOLEAN]
         /\ deadlines \in [Harts -> SUBSET Int] /\ stimecmp \in [Harts -> 0 .. 2 ^ Width - 1]
         /\ now \in Nat /\ bootTime \in Nat /\ bootTime <= now /\ running \in BOOLEAN
         /\ tasks \subseteq Task
<1>1. Harts = {0}
  BY DEF DueTypes, OneHart, Harts
<1> QED
  BY <1>1 DEF DueTypes, DueInv, TypesInv, AClintTypeOK, TypeOK, HartState

(* A deadline is an instant; while time passes it does not come nearer.     *)
LEMMA DeadlineLater ==
  ASSUME DueTypes, NEW v \in SCmps, UNCHANGED <<running, bootTime>>, now' \in Nat, now <= now'
  PROVE  Deadline(v) \in Int /\ Deadline(v)' \in Int /\ Deadline(v) <= Deadline(v)'
<1> DEFINE scaled == v * Scale
           half == 2 ^ (Width - 1)
           wraps == mtime_to_realtime(v) # scaled
<1>1. scaled \in Int /\ half \in Int /\ 0 < half
  BY WidthAssumption
<1>2. wraps' <=> wraps
  BY DEF mtime_to_realtime, Wrap
<1>3. now \in Nat /\ bootTime \in Nat /\ bootTime <= now
  BY OneHartTypes
<1>4. CASE wraps
  <2>1. Deadline(v) = now /\ Deadline(v)' = now'
    BY <1>2, <1>4 DEF Deadline, OutOfReach
  <2> QED
    BY <1>3, <2>1
<1> DEFINE due(at, boot) == IF scaled - (at - boot) >= half THEN at ELSE boot + scaled
<1>due. \A m, n, b \in Int : due(n, b) \in Int /\ (m <= n => due(m, b) <= due(n, b))
  <2> HIDE DEF scaled, half
  <2> QED
    BY <1>1
<1>5. CASE ~wraps /\ running
  <2>1. Deadline(v) = due(now, bootTime) /\ Deadline(v)' = due(now', bootTime)
    BY <1>2, <1>5 DEF Deadline, OutOfReach, get_uptime
  <2> HIDE DEF due
  <2> QED
    BY <1>3, <1>due, <2>1
<1>6. CASE ~wraps /\ ~running
  <2> DEFINE idle(at) == IF scaled - 0 >= half THEN at ELSE at + scaled
  <2>1. Deadline(v) = idle(now) /\ Deadline(v)' = idle(now')
    BY <1>2, <1>6 DEF Deadline, OutOfReach, get_uptime
  <2>2. \A m, n \in Int : idle(n) \in Int /\ (m <= n => idle(m) <= idle(n))
    <3> HIDE DEF scaled, half
    <3> QED
      BY <1>1
  <2> HIDE DEF idle
  <2> QED
    BY <1>3, <2>1, <2>2
<1> QED
  BY <1>4, <1>5, <1>6

(* A step that changes neither the hart nor the registers and lets no time  *)
(* go backwards keeps what is due.                                          *)
LEMMA DueFrame ==
  ASSUME DueTypes, now' \in Nat, now <= now', tasks' \subseteq tasks,
         UNCHANGED <<mip, deadlines>>,
         stip'[0] => stip[0] \/ Due,
         timerPC' = "task" /\ called'[2] = "s" => Due
  PROVE  DueQueue' /\ DueFlags' /\ (Due => Due')
<1>0. deadlines[0] \subseteq Int /\ now \in Nat
  BY OneHartTypes
<1>1. Due => Due'
  BY <1>0 DEF Due
<1>2. DueQueue'
  <2> SUFFICES ASSUME NEW t \in tasks', t.task[2] = "s"
               PROVE  \E d \in deadlines[0] : d <= t.timepoint \/ d <= now'
    BY DEF DueQueue
  <2>1. PICK d \in deadlines[0] : d <= t.timepoint \/ d <= now
    BY DEF DueTypes, DueInv, DueQueue
  <2> QED
    BY <1>0, <2>1
<1> QED
  BY <1>1, <1>2 DEF DueTypes, DueInv, DueFlags

(* The hart's part, when the hart stays where it is.                        *)
LEMMA DueHartFrame ==
  ASSUME DueTypes, Due => Due', UNCHANGED <<hart, stimecmp, deadlines>>,
         \/ UNCHANGED <<running, bootTime>> /\ now' \in Nat /\ now <= now'
         \/ hart[0].pc = "run"
  PROVE  DueHart' /\ DueWrite'
<1>1. DueHart'
  BY DEF DueTypes, DueInv, DueHart
<1>2. CASE hart[0].pc = "run"
  BY <1>1, <1>2 DEF DueWrite
<1>3. CASE UNCHANGED <<running, bootTime>> /\ now' \in Nat /\ now <= now'
  <2> SUFFICES ASSUME hart[0].pc \in {"sRemove", "sRegister"}
               PROVE  DueWrite'
    BY <1>1 DEF DueWrite
  <2> DEFINE v == stimecmp[0]
  <2>1. v \in SCmps /\ \E d \in deadlines[0] : d <= Deadline(v)
    BY DEF DueTypes, DueInv, DueWrite
  <2>2. v' = v
    OBVIOUS
  <2>3. Deadline(v) \in Int /\ Deadline(v)' \in Int /\ Deadline(v) <= Deadline(v)'
    <3>1. \A w \in SCmps : Deadline(w) \in Int /\ Deadline(w)' \in Int /\ Deadline(w) <= Deadline(w)'
      BY <1>3, DeadlineLater
    <3> QED
      BY <2>1, <2>2, <3>1 DEF Deadline, OutOfReach
  <2>4. \E d \in deadlines[0] : d <= Deadline(v)'
    BY <2>1, <2>3, OneHartTypes
  <2> QED
    BY <2>1, <2>4 DEF DueWrite
<1> QED
  BY <1>2, <1>3
(* The timer's steps: what slot 0 holds when it is called is due.           *)
LEMMA DueTimer ==
  ASSUME DueTypes, TimerThread \/ ((Tick \/ SpuriousWakeUp) /\ UNCHANGED aclintVars)
  PROVE  DueInv'
<1>0. timerPC = "unlocked" \/ timerPC = "task" => top \in tasks /\ top.timepoint <= now
  BY DEF DueTypes, TypesInv, SlotInv, InHand
<1>1. CASE TimerLoop \/ ((Tick \/ SpuriousWakeUp) /\ UNCHANGED aclintVars)
  <2>1. /\ UNCHANGED <<mip, stip, called, hart, stimecmp, deadlines, bootTime, running>>
        /\ now' \in Nat /\ now <= now' /\ tasks' \subseteq tasks
        /\ timerPC' = "task" => timerPC = "task"
    BY <1>1, OneHartTypes DEF TimerLoop, aclintVars, flagVars, timerRegs, CheckRunning, WaitForTask,
       DropRemoved, ChooseDue, WaitUntilDue, PopTask, Pop, WakeUp, SpuriousWakeUp, Tick
  <2>2. timerPC' = "task" /\ called'[2] = "s" => Due
    BY <2>1 DEF DueTypes, DueInv, DueFlags
  <2>3. DueQueue' /\ DueFlags' /\ (Due => Due')
    BY <2>1, <2>2, DueFrame
  <2>4. DueHart' /\ DueWrite'
    BY <2>1, <2>3, DueHartFrame
  <2> QED
    BY <2>1, <2>3, <2>4, OneHartTypes DEF DueInv
<1>2. CASE CallCallback
  <2>1. UNCHANGED <<mip, stip, hart, stimecmp, deadlines, bootTime, running, now, tasks>>
    BY <1>2 DEF CallCallback, CallTask, flagVars, timerRegs
  <2>2. called' = top.task /\ timerPC = "unlocked"
    BY <1>2 DEF CallCallback, CallTask
  <2>3. called'[2] = "s" => Due
    <3>1. SUFFICES ASSUME top.task[2] = "s" PROVE Due
      BY <2>2
    <3>2. top \in tasks /\ top.timepoint <= now /\ top.timepoint \in Int
      BY <1>0, <2>2, OneHartTypes DEF Task
    <3>3. PICK d \in deadlines[0] : d <= top.timepoint \/ d <= now
      BY <3>1, <3>2 DEF DueTypes, DueInv, DueQueue
    <3>4. d \in Int /\ now \in Int
      BY OneHartTypes
    <3> QED
      BY <3>2, <3>3, <3>4 DEF Due
  <2>4. DueQueue' /\ DueFlags' /\ (Due => Due')
    BY <2>1, <2>3, DueFrame, OneHartTypes
  <2>5. DueHart' /\ DueWrite'
    BY <2>1, <2>4, DueHartFrame, OneHartTypes
  <2> QED
    BY <2>1, <2>4, <2>5, OneHartTypes DEF DueInv
<1>3. CASE RunCallback
  <2>1. UNCHANGED <<mip, hart, stimecmp, deadlines, bootTime, running, now, tasks>>
        /\ timerPC = "task" /\ timerPC' = "pop"
    BY <1>3 DEF RunCallback, ReturnFromTask
  <2>2. top.task \in Callbacks
    BY <1>0, <2>1, OneHartTypes, ClosuresAssumption DEF Task
  <2>3. top.task[1] = 0
    BY <2>2, OneHartTypes DEF Callbacks
  <2>4. stip'[0] => stip[0] \/ Due
    <3>1. CASE called[2] = "s"
      BY <2>1, <3>1 DEF DueTypes, DueInv, DueFlags
    <3>2. CASE called[2] # "s"
      <4>1. called[2] = "m"
        BY <3>2 DEF DueTypes, TypesInv, AClintTypeOK, Callbacks
      <4> QED
        BY <1>3, <4>1 DEF RunCallback
    <3> QED
      BY <3>1, <3>2
  <2>5. DueQueue' /\ DueFlags' /\ (Due => Due')
    BY <2>1, <2>4, DueFrame, OneHartTypes
  <2>6. DueHart' /\ DueWrite'
    BY <2>1, <2>5, DueHartFrame, OneHartTypes
  <2> QED
    BY <2>1, <2>5, <2>6, OneHartTypes DEF DueInv
<1> QED
  BY <1>1, <1>2, <1>3 DEF TimerThread

(* A run starts and stops between two writes; a reset keeps the history.    *)
LEMMA DueRun ==
  ASSUME DueTypes, StartRun \/ StopRun \/ FinishStop \/ reset
  PROVE  DueInv'
<1>1. CASE StartRun \/ StopRun
  <2>1. /\ UNCHANGED <<mip, stip, hart, called, stimecmp, deadlines, now, tasks>>
        /\ hart[0].pc = "run" /\ (bootTime' = bootTime \/ bootTime' = now)
        /\ timerPC' = "check" \/ timerPC' = timerPC
    BY <1>1, OneHartTypes DEF StartRun, StopRun, start_timer, StopBegin, aclintVars, flagVars, timerRegs, At
  <2>2. timerPC' = "task" /\ called'[2] = "s" => Due
    BY <2>1 DEF DueTypes, DueInv, DueFlags
  <2>3. DueQueue' /\ DueFlags' /\ (Due => Due')
    BY <2>1, <2>2, DueFrame, OneHartTypes
  <2>4. DueHart' /\ DueWrite'
    BY <2>1, <2>3, DueHartFrame, OneHartTypes
  <2> QED
    BY <2>1, <2>3, <2>4, OneHartTypes DEF DueInv
<1>2. CASE FinishStop
  <2>1. /\ UNCHANGED <<mip, stip, hart, called, stimecmp, deadlines, now, tasks, bootTime, running>>
        /\ timerPC' = "none" \/ timerPC' = timerPC
    BY <1>2 DEF FinishStop, StopNotify, StopJoin, aclintVars, flagVars, timerRegs
  <2>2. timerPC' = "task" /\ called'[2] = "s" => Due
    BY <2>1 DEF DueTypes, DueInv, DueFlags
  <2>3. DueQueue' /\ DueFlags' /\ (Due => Due')
    BY <2>1, <2>2, DueFrame, OneHartTypes
  <2>4. DueHart' /\ DueWrite'
    BY <2>1, <2>3, DueHartFrame, OneHartTypes
  <2> QED
    BY <2>1, <2>3, <2>4, OneHartTypes DEF DueInv
<1>3. CASE reset
  <2>1. UNCHANGED <<hart, called, deadlines, now, tasks, bootTime, running, timerPC>>
        /\ mip'[0] = {} /\ stip'[0] = FALSE /\ hart[0].pc = "run"
    BY <1>3, OneHartTypes DEF reset, At
  <2> QED
    BY <2>1 DEF DueTypes, DueInv, DueQueue, DueFlags, DueHart, DueWrite, Due
<1> QED
  BY <1>1, <1>2, <1>3
(* A guest's write; one of stimecmp puts its deadline into the history.     *)
LEMMA DueGuestWrite ==
  ASSUME DueTypes, GuestWrite(0)
  PROVE  DueInv'
<1>0. /\ UNCHANGED <<timerVars, mip, stip, called, bootTime>>
      /\ hart[0].pc = "run" /\ hart[0].after \in {"run", "mRegister", "delivered"}
  BY DEF GuestWrite, GuestMayAct, At, WriteStimecmp, WriteMtimecmp, WriteMswi, WriteSswi,
     flagVars, DueTypes, DueInv, DueHart
<1>1. UNCHANGED <<now, tasks, timerPC, running>>
  BY <1>0 DEF timerVars
<1>2. CASE \E v \in SCmps : WriteStimecmp(0, v)
  <2>1. PICK v \in SCmps : WriteStimecmp(0, v)
    BY <1>2
  <2>2. /\ hart'[0].pc = "sRemove" /\ hart'[0].after = hart[0].after
        /\ stimecmp'[0] = v /\ deadlines'[0] = deadlines[0] \cup {Deadline(v)}
    BY <2>1, OneHartTypes DEF WriteStimecmp, Goto, HartState
  <2>3. Deadline(stimecmp[0])' = Deadline(v) /\ Deadline(v) \in Int
    <3>1. Deadline(v) \in Int
      <4>1. v * Scale \in Int
        BY WidthAssumption
      <4> QED
        BY <4>1, OneHartTypes DEF Deadline
    <3> QED
      BY <1>0, <1>1, <2>2, <3>1 DEF Deadline, OutOfReach, get_uptime, mtime_to_realtime, Wrap
  <2>4. DueWrite' /\ DueHart'
    BY <1>0, <2>2, <2>3 DEF DueWrite, DueHart
  <2>5. Due => Due'
    BY <1>1, <2>2 DEF Due
  <2> QED
    BY <1>0, <1>1, <2>2, <2>4, <2>5 DEF DueTypes, DueInv, DueQueue, DueFlags
<1>3. CASE \/ \E t \in Harts, v \in MCmps : WriteMtimecmp(0, t, v)
           \/ \E t \in Harts, value \in SwiValues : WriteMswi(0, t, value)
           \/ \E t \in Harts, value \in SwiValues : WriteSswi(0, t, value)
  <2>1. /\ UNCHANGED deadlines
        /\ \/ hart'[0].pc = "mRemove"
           \/ hart'[0].pc = "readMip" /\ hart'[0].bit # "STIP"
        /\ hart'[0].after \in {"run", "mRegister", "delivered"}
    <3>1. CASE \E t \in Harts, v \in MCmps : WriteMtimecmp(0, t, v)
      BY <1>0, <3>1, OneHartTypes DEF WriteMtimecmp, HartState
    <3>2. CASE \E t \in Harts, value \in SwiValues : WriteMswi(0, t, value)
      BY <1>0, <3>2, OneHartTypes DEF WriteMswi, Rmw, HartState
    <3>3. CASE \E t \in Harts, value \in SwiValues : WriteSswi(0, t, value)
      BY <1>0, <3>3, OneHartTypes DEF WriteSswi, Rmw, HartState
    <3> QED
      BY <1>3, <3>1, <3>2, <3>3
  <2>2. Due => Due'
    BY <1>1, <2>1 DEF Due
  <2> QED
    BY <1>0, <1>1, <2>1, <2>2 DEF DueTypes, DueInv, DueQueue, DueFlags, DueHart, DueWrite
<1> QED
  BY <1>2, <1>3 DEF GuestWrite

(* The delay of a supervisor task is what remains to its deadline, when     *)
(* that is in reach.                                                        *)
LEMMA DueDelay ==
  ASSUME DueTypes, NEW v \in SCmps, ~OutOfReach(v)
  PROVE  now + Signed(mtime_to_realtime(v) - get_uptime) = Deadline(v)
<1>1. v * Scale \in Int /\ get_uptime \in Int /\ 0 <= get_uptime
  BY WidthAssumption, OneHartTypes DEF get_uptime
<1>2. 2 ^ (Width - 1) \in Int
  BY WidthAssumption
<1>3. mtime_to_realtime(v) = v * Scale /\ v * Scale - get_uptime < 2 ^ (Width - 1)
  BY <1>1, <1>2 DEF OutOfReach
<1>4. Signed(mtime_to_realtime(v) - get_uptime) = v * Scale - get_uptime
  BY <1>1, <1>2, <1>3 DEF Signed
<1> QED
  BY <1>1, <1>4, OneHartTypes DEF Deadline, get_uptime

(* A hart's further steps.                                                  *)
LEMMA DueHartStep ==
  ASSUME DueTypes, HartStep(0)
  PROVE  DueInv'
<1>0. /\ hart[0] \in HartState /\ hart[0].target = 0
      /\ UNCHANGED <<deadlines, bootTime, stimecmp, called, now, running, timerPC>>
  BY OneHartTypes DEF HartStep, RemoveStimer, RegisterPassed, RegisterTask, AssignStimerID,
     RemoveMtimer, RegisterMtimer, AssignMtimerID, ReadMip, WriteMip, update, UpdateBegin,
     UpdateVisit, UpdateDelivered, UpdateEnd, timerVars, timerRegs, remove_task, add_task
<1>1. Due' = Due
  BY <1>0 DEF Due
<1>2. CASE RemoveStimer(0)
  <2>1. UNCHANGED <<mip, stip, tasks>>
        /\ hart[0].pc = "sRemove" /\ hart'[0].pc = "sRegister" /\ hart'[0].after = hart[0].after
    BY <1>0, <1>2, OneHartTypes DEF RemoveStimer, remove_task, Goto, At, flagVars, timerVars, HartState
  <2> QED
    BY <1>0, <1>1, <2>1 DEF DueTypes, DueInv, DueQueue, DueFlags, DueHart, DueWrite, Deadline,
       OutOfReach, get_uptime, mtime_to_realtime, Wrap
<1>3. CASE RegisterPassed(0)
  <2>1. /\ UNCHANGED <<mip, tasks>> /\ hart[0].pc = "sRegister"
        /\ hart'[0].pc = "readMip" /\ hart'[0].on = FALSE /\ hart'[0].after = "run"
    BY <1>0, <1>3, OneHartTypes DEF RegisterPassed, Rmw, At, timerVars, HartState
  <2>2. Due
    <3> DEFINE v == stimecmp[0]
    <3>1. v \in SCmps /\ \E d \in deadlines[0] : d <= Deadline(v)
      BY <2>1 DEF DueTypes, DueInv, DueWrite
    <3>2. mtime_to_realtime(v) <= get_uptime
      BY <1>3 DEF RegisterPassed, StimecmpPassed
    <3>3. v * Scale \in Int
      BY <3>1, WidthAssumption
    <3>4. Deadline(v) <= now /\ Deadline(v) \in Int
      <4>1. CASE OutOfReach(v)
        BY <4>1, OneHartTypes DEF Deadline
      <4>2. CASE ~OutOfReach(v)
        <5>1. v * Scale <= get_uptime
          BY <3>2, <4>2 DEF OutOfReach
        <5> QED
          BY <3>3, <4>2, <5>1, OneHartTypes DEF Deadline, get_uptime
      <4> QED
        BY <4>1, <4>2
    <3> QED
      BY <3>1, <3>4, OneHartTypes DEF Due
  <2> QED
    BY <1>0, <1>1, <2>1, <2>2 DEF DueTypes, DueInv, DueQueue, DueFlags, DueHart, DueWrite
<1>4. CASE RegisterTask(0)
  <2> DEFINE v == stimecmp[0]
             new == [id |-> counter, timepoint |-> now + Signed(mtime_to_realtime(v) - get_uptime),
                     task |-> <<0, "s">>]
  <2>1. /\ UNCHANGED <<mip, stip>> /\ tasks' = tasks \cup {new} /\ hart[0].pc = "sRegister"
        /\ hart'[0].pc = "sAssign" /\ hart'[0].after = hart[0].after
    BY <1>0, <1>4, OneHartTypes DEF RegisterTask, add_task, Push, At, flagVars, HartState
  <2>2. v \in SCmps /\ \E d \in deadlines[0] : d <= Deadline(v)
    BY <2>1 DEF DueTypes, DueInv, DueWrite
  <2>3. v * Scale \in Int
    BY <2>2, WidthAssumption
  <2>4. \E d \in deadlines[0] : d <= new.timepoint \/ d <= now
    <3>1. CASE OutOfReach(v)
      BY <2>2, <3>1 DEF Deadline
    <3>2. CASE ~OutOfReach(v)
      <4>1. new.timepoint = Deadline(v)
        BY <2>2, <3>2, DueDelay
      <4> QED
        BY <2>2, <4>1
    <3> QED
      BY <3>1, <3>2
  <2> HIDE DEF new
  <2>6. DueQueue'
    BY <1>0, <2>1, <2>4 DEF DueTypes, DueInv, DueQueue
  <2> QED
    BY <1>0, <1>1, <2>1, <2>6 DEF DueTypes, DueInv, DueFlags, DueHart, DueWrite
<1>5. CASE AssignStimerID(0)
  <2>1. /\ UNCHANGED <<mip, stip, tasks>>
        /\ hart'[0].pc = "readMip" /\ hart'[0].on = FALSE /\ hart'[0].after = "run"
    BY <1>0, <1>5, OneHartTypes DEF AssignStimerID, Rmw, timerVars, flagVars, HartState
  <2> QED
    BY <1>0, <1>1, <2>1 DEF DueTypes, DueInv, DueQueue, DueFlags, DueHart, DueWrite
<1>6. CASE RemoveMtimer(0)
  <2>1. /\ UNCHANGED <<mip, stip, tasks>>
        /\ hart'[0].pc = "readMip" /\ hart'[0].bit = "MTIP" /\ hart'[0].after = "mRegister"
    BY <1>0, <1>6, OneHartTypes DEF RemoveMtimer, remove_task, Rmw, timerVars, flagVars, HartState
  <2> QED
    BY <1>0, <1>1, <2>1 DEF DueTypes, DueInv, DueQueue, DueFlags, DueHart, DueWrite
<1>7. CASE RegisterMtimer(0)
  <2>1. /\ UNCHANGED <<mip, stip>>
        /\ \A t \in tasks' : t \in tasks \/ t.task[2] = "m"
        /\ hart'[0].pc = "mAssign" /\ hart'[0].after = hart[0].after
    BY <1>0, <1>7, OneHartTypes DEF RegisterMtimer, add_task, Push, flagVars, HartState
  <2>2. DueQueue'
    BY <1>0, <2>1 DEF DueTypes, DueInv, DueQueue
  <2> QED
    BY <1>0, <1>1, <2>1, <2>2 DEF DueTypes, DueInv, DueFlags, DueHart, DueWrite
<1>8. CASE AssignMtimerID(0)
  <2>1. UNCHANGED <<mip, stip, tasks>> /\ hart'[0] = Idle
    BY <1>0, <1>8, OneHartTypes DEF AssignMtimerID, Finish, timerVars, flagVars
  <2> QED
    BY <1>0, <1>1, <2>1 DEF DueTypes, DueInv, DueQueue, DueFlags, DueHart, DueWrite, Idle
<1>9. CASE ReadMip(0)
  <2>1. UNCHANGED <<mip, stip, tasks>>
        /\ hart[0].pc = "readMip" /\ hart'[0].pc = "writeMip" /\ hart'[0].seen = mip[0]
        /\ hart'[0].bit = hart[0].bit /\ hart'[0].on = hart[0].on /\ hart'[0].after = hart[0].after
    BY <1>0, <1>9, OneHartTypes DEF ReadMip, At, timerVars, flagVars, HartState
  <2> QED
    BY <1>0, <1>1, <2>1 DEF DueTypes, DueInv, DueQueue, DueFlags, DueHart, DueWrite
<1>10. CASE WriteMip(0)
  <2>1. UNCHANGED <<stip, tasks>> /\ hart[0].pc = "writeMip"
        /\ mip'[0] = IF hart[0].on THEN hart[0].seen \cup {hart[0].bit} ELSE hart[0].seen \ {hart[0].bit}
    BY <1>0, <1>10, OneHartTypes DEF WriteMip, At, timerVars, flagVars
  <2>2. "STIP" \in mip'[0] => Due
    BY <2>1 DEF DueTypes, DueInv, DueHart
  <2>3. hart'[0].pc \in {"run", "mRegister", "delivered"} /\ hart'[0].after \in {"run", "mRegister", "delivered"}
    <3>1. hart[0].after \in {"run", "mRegister", "delivered"}
      BY DEF DueTypes, DueInv, DueHart
    <3>2. CASE hart[0].after = "run"
      BY <1>10, <3>2, OneHartTypes DEF WriteMip, Finish, Idle
    <3>3. CASE hart[0].after # "run"
      <4>1. hart' = [hart EXCEPT ![0] = [@ EXCEPT !.pc = hart[0].after, !.seen = {}]]
        BY <1>10, <3>3 DEF WriteMip
      <4>2. hart'[0].pc = hart[0].after /\ hart'[0].after = hart[0].after
        BY <4>1, OneHartTypes DEF HartState
      <4> QED
        BY <3>1, <4>2
    <3> QED
      BY <3>2, <3>3
  <2> QED
    BY <1>0, <1>1, <2>1, <2>2, <2>3 DEF DueTypes, DueInv, DueQueue, DueFlags, DueHart, DueWrite
<1>11. CASE UpdateVisit(0)
  <2>1. UNCHANGED <<mip, stip, tasks>> /\ hart[0].pc = "update" /\ CoreCount = 1
        /\ hart[0].at \in Nat /\ hart[0].at < 2
    BY <1>0, <1>11 DEF UpdateVisit, At, timerVars, flagVars, HartState, DueTypes, OneHart
  <2>2. Visited(0) = 0
    BY <2>1 DEF Visited
  <2>3. CASE Raised(0)
    <3>1. hart'[0].pc = "readMip" /\ hart'[0].after = "delivered"
          /\ hart'[0].bit = IF VisitsMtip(0) THEN "MTIP" ELSE "STIP"
      <4> DEFINE bit == IF VisitsMtip(0) THEN "MTIP" ELSE "STIP"
      <4>1. hart' = [hart EXCEPT ![0] = [@ EXCEPT !.pc = "readMip", !.target = Visited(0),
                                         !.bit = bit, !.on = TRUE, !.after = "delivered"]]
        BY <1>11, <2>3 DEF UpdateVisit, Rmw
      <4> HIDE DEF bit
      <4>2. hart'[0].pc = "readMip" /\ hart'[0].after = "delivered" /\ hart'[0].bit = bit
        BY <4>1, OneHartTypes DEF HartState
      <4> QED
        BY <4>2 DEF bit
    <3>2. hart'[0].bit = "STIP" => Due
      BY <2>2, <2>3, <3>1 DEF Raised, DueTypes, DueInv, DueFlags
    <3> QED
      BY <1>0, <1>1, <2>1, <3>1, <3>2 DEF DueTypes, DueInv, DueQueue, DueFlags, DueHart, DueWrite
  <2>4. CASE ~Raised(0)
    <3>1. hart'[0].pc = hart[0].pc /\ hart'[0].after = hart[0].after
      BY <1>0, <1>11, <2>4, OneHartTypes DEF UpdateVisit, HartState
    <3> QED
      BY <1>0, <1>1, <2>1, <3>1 DEF DueTypes, DueInv, DueQueue, DueFlags, DueHart, DueWrite
  <2> QED
    BY <2>3, <2>4
<1>12. CASE UpdateBegin(0) \/ UpdateDelivered(0) \/ UpdateEnd(0)
  <2>1. UNCHANGED <<mip, tasks>>
    BY <1>12 DEF UpdateBegin, UpdateDelivered, UpdateEnd, timerVars
  <2>2. stip'[0] => stip[0]
    BY <1>12, OneHartTypes DEF UpdateBegin, UpdateDelivered, UpdateEnd, flagVars
  <2>3. hart'[0].pc \in {"update", "run"} /\ hart'[0].after \in {"run", "mRegister", "delivered"}
    <3>1. hart[0].after \in {"run", "mRegister", "delivered"}
      BY DEF DueTypes, DueInv, DueHart
    <3> QED
      <4>1. CASE UpdateBegin(0)
        BY <3>1, <4>1, OneHartTypes DEF UpdateBegin, HartState
      <4>2. CASE UpdateDelivered(0)
        BY <4>2, OneHartTypes DEF UpdateDelivered, Idle
      <4>3. CASE UpdateEnd(0)
        BY <4>3, OneHartTypes DEF UpdateEnd, Finish, Idle
      <4> QED
        BY <1>12, <4>1, <4>2, <4>3
  <2> QED
    BY <1>0, <1>1, <2>1, <2>2, <2>3 DEF DueTypes, DueInv, DueQueue, DueFlags, DueHart, DueWrite
<1> QED
  BY <1>2, <1>3, <1>4, <1>5, <1>6, <1>7, <1>8, <1>9, <1>10, <1>11, <1>12 DEF HartStep, update

LEMMA DueInit == OneHart /\ AClintInit => DueInv
<1> SUFFICES ASSUME OneHart, AClintInit PROVE DueInv
  OBVIOUS
<1>1. Harts = {0}
  BY DEF OneHart, Harts
<1> QED
  BY <1>1 DEF AClintInit, Init, Idle, DueInv, DueQueue, DueFlags, DueHart, DueWrite

LEMMA DueStep == DueTypes /\ [AClintNext]_vars => DueInv'
<1> SUFFICES ASSUME DueTypes, [AClintNext]_vars PROVE DueInv'
  OBVIOUS
<1>1. CASE UNCHANGED vars
  <2>1. UNCHANGED <<now, tasks, timerPC, running, mip, stip, stimecmp, bootTime, hart, called, deadlines>>
    BY <1>1 DEF vars, timerVars, aclintVars, flagVars, timerRegs
  <2> QED
    BY <2>1 DEF DueTypes, DueInv, DueQueue, DueFlags, DueHart, DueWrite, Due, Deadline,
       OutOfReach, get_uptime, mtime_to_realtime, Wrap
<1>2. CASE AClintNext
  <2>1. CASE \E h \in Harts : GuestWrite(h) \/ HartStep(h)
    <3>1. GuestWrite(0) \/ HartStep(0)
      BY <2>1, OneHartTypes
    <3> QED
      BY <3>1, DueGuestWrite, DueHartStep
  <2>2. CASE TimerThread
    BY <2>2, DueTimer
  <2>3. CASE (Tick \/ SpuriousWakeUp) /\ UNCHANGED aclintVars
    BY <2>3, DueTimer
  <2>4. CASE StartRun \/ StopRun \/ FinishStop
    BY <2>4, DueRun
  <2>5. CASE reset
    BY <2>5, DueRun
  <2> QED
    BY <1>2, <2>1, <2>2, <2>3, <2>4, <2>5 DEF AClintNext
<1> QED
  BY <1>1, <1>2

(* With one hart STIP is never pending before some stimecmp the guest wrote *)
(* came due, or before it wrote one that is OutOfReach and fires at once:   *)
(* across removed and overtaken tasks, the two halves of every change of    *)
(* mip, runs, stops and resets.                                             *)
THEOREM OneHartTimerNeverEarly ==
  ASSUME OneHart
  PROVE  AClintSpec => []NeverBeforeEveryDeadline
<1>1. DueTypes => NeverBeforeEveryDeadline
  BY OneHartTypes DEF NeverBeforeEveryDeadline, DueTypes, DueInv, DueFlags, Due
<1>2. AClintInit => TypesInv /\ DueInv
  BY TypesInit, DueInit
<1>3. TypesInv /\ DueInv /\ [AClintNext]_vars => (TypesInv /\ DueInv)'
  BY TypesStep, DueStep DEF DueTypes
<1>4. TypesInv /\ DueInv => NeverBeforeEveryDeadline
  BY <1>1 DEF DueTypes
<1> QED
  BY <1>2, <1>3, <1>4, PTL DEF AClintSpec
=============================================================================
