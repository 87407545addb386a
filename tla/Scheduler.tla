----------------------------- MODULE Scheduler -----------------------------
(***************************************************************************)
(* The scheduler of src/src/sched/scheduler.rs with the task fields it     *)
(* reads and writes (src/src/sched/task.rs).  Each public method is one    *)
(* action: this module is the contract of the type Scheduler, whose        *)
(* methods take &mut self and so do not overlap.  In the kernel the timer  *)
(* handler reaches the one instance through a static mut and can cut the   *)
(* methods the shell calls; KernelTasks models those step by step.  The    *)
(* handler itself runs behind an interrupt gate, so that tick and          *)
(* preempt_schedule are atomic there as well.                              *)
(*                                                                         *)
(* A task is its id.  The fields of the tasks are functions of the id, and *)
(* ids not handed out yet are in state "Absent".  Names, entry points,     *)
(* exit codes and the statistics counters are left out, and so are         *)
(* blocked_signals, which nothing ever sets, and the save areas of the     *)
(* registers (InterruptFrames models the frame of a first switch).         *)
(***************************************************************************)
EXTENDS Integers, Sequences, FiniteSets

CONSTANTS
  MaxTasks,    \* bound: tasks ever created
  MaxQueue,    \* bound: length of ready_queue
  Quantum,     \* DEFAULT_TIME_SLICE, in ticks
  Priorities,  \* the priorities tasks are created with
  Signals,     \* the signals other tasks send
  Protected    \* 2: the last id terminate_task refuses

Low == 0
Normal == 1

SIGKILL == 9
SIGCONT == 18
SIGTSTP == 20

ASSUME SchedulerConstants ==
  /\ MaxTasks \in Nat
  /\ MaxQueue \in Nat
  /\ Quantum \in Nat \ {0}
  /\ Priorities \subseteq 0 .. 3
  /\ Signals \subseteq 1 .. 31
  /\ Protected \in Nat

TaskId == 1 .. MaxTasks
None == 0        \* no current task
NoSignal == 0

VARIABLES
  next_id,          \* NEXT_TASK_ID
  state,            \* TaskState of each task
  priority,         \* TaskPriority of each task
  foreground,       \* TaskForeground of each task
  pending,          \* pending_signals of each task, as a set
  time_slice,       \* ticks left in each task's quantum
  ready_queue,      \* the queue, a sequence of ids
  current,          \* the task the scheduler takes to be running, or None
  all_tasks,        \* the tasks listed by ps and found by kill, bg and fg
  need_reschedule,
  preempt_enabled

task_vars == <<next_id, priority, foreground, pending, all_tasks>>
vars == <<task_vars, state, time_slice, ready_queue, current, need_reschedule, preempt_enabled>>

-----------------------------------------------------------------------------
(* The queue *)

Push(t) ==
  /\ Len(ready_queue) < MaxQueue
  /\ ready_queue' = Append(ready_queue, t)

RemoveIndex(q, k) == SubSeq(q, 1, k - 1) \o SubSeq(q, k + 1, Len(q))

\* VecDeque::retain: the entries that are not in Gone, in their old order.
\* Position k is the j-th that is kept when j kept positions are at most k.
Retain(q, Gone) ==
  LET kept == {k \in 1 .. Len(q) : q[k] \notin Gone}
      rank(k) == Cardinality({j \in kept : j <= k})
  IN  [j \in 1 .. Cardinality(kept) |-> q[CHOOSE k \in kept : rank(k) = j]]

Queued(q) == {q[k] : k \in 1 .. Len(q)}

\* Fault: entries are considered whatever the state of their task.
AboveLowAnyState(q, st) == {k \in 1 .. Len(q) : priority[q[k]] > Low}

\* The positions of ready tasks above the initial best_priority, Low.
AboveLow(q, st) == {k \in 1 .. Len(q) : st[q[k]] = "Ready" /\ priority[q[k]] > Low}

\* Fault: the first ready task is picked, whatever its priority.
pick_next_taskFirst(q, st) ==
  {k \in 1 .. Len(q) : st[q[k]] = "Ready" /\ \A j \in 1 .. k - 1 : st[q[j]] # "Ready"}

\* pick_next_task: the first entry of the highest priority above Low; when
\* there is none best_idx is still 0, and only the head of the queue is
\* considered.  At most one position, none for the answer None.
pick_next_task(q, st) ==
  IF AboveLow(q, st) # {}
  THEN {k \in AboveLow(q, st) :
          \A j \in AboveLow(q, st) :
            \/ priority[q[j]] < priority[q[k]]
            \/ priority[q[j]] = priority[q[k]] /\ k <= j}
  ELSE {k \in {1} : Len(q) > 0 /\ st[q[k]] = "Ready"}

\* Pick from queue q in task states st and run what was picked; with nothing
\* to pick, current stays and the task states become stay.
Dispatch(q, st, stay) ==
  /\ Len(q) <= MaxQueue
  /\ \/ \E k \in pick_next_task(q, st) :
          /\ ready_queue' = RemoveIndex(q, k)
          /\ state' = [st EXCEPT ![q[k]] = "Running"]
          /\ current' = q[k]
     \/ /\ pick_next_task(q, st) = {}
        /\ ready_queue' = q
        /\ state' = stay
        /\ UNCHANGED current

\* Fault: the task that is put back in the queue stays marked Running.
scheduleKeepsRunning(st, ts) ==
  /\ need_reschedule' = FALSE
  /\ UNCHANGED preempt_enabled
  /\ IF current # None /\ st[current] = "Running"
     THEN /\ time_slice' = [ts EXCEPT ![current] = Quantum]
          /\ Dispatch(Append(ready_queue, current), st, st)
     ELSE /\ time_slice' = ts
          /\ Dispatch(ready_queue, st, st)

\* schedule(), entered with task states st and time slices ts.
schedule(st, ts) ==
  /\ need_reschedule' = FALSE
  /\ UNCHANGED preempt_enabled
  /\ IF current # None /\ st[current] = "Running"
     THEN LET ready == [st EXCEPT ![current] = "Ready"]
          IN  /\ time_slice' = [ts EXCEPT ![current] = Quantum]
              /\ Dispatch(Append(ready_queue, current), ready, ready)
     ELSE /\ time_slice' = ts
          /\ Dispatch(ready_queue, st, st)

-----------------------------------------------------------------------------
(* Creation *)

Create(p, fg) ==
  /\ next_id <= MaxTasks
  /\ next_id' = next_id + 1
  /\ state' = [state EXCEPT ![next_id] = "Ready"]
  /\ priority' = [priority EXCEPT ![next_id] = p]
  /\ foreground' = [foreground EXCEPT ![next_id] = fg]
  /\ pending' = [pending EXCEPT ![next_id] = {}]
  /\ time_slice' = [time_slice EXCEPT ![next_id] = Quantum]
  /\ all_tasks' = all_tasks \cup {next_id}
  /\ Push(next_id)
  /\ UNCHANGED <<current, need_reschedule, preempt_enabled>>

create_kernel_task == Create(Normal, "Foreground")
create_kernel_task_with_priority == \E p \in Priorities : Create(p, "Foreground")
create_background_task == Create(Normal, "Background")
create_idle_task == Create(Low, "Foreground")

\* A user task differs in its two stacks and its task_type only.
create_user_task == Create(Normal, "Foreground")

-----------------------------------------------------------------------------
(* The timer *)

\* pop_signal: the lowest pending signal, NoSignal when there is none.
pop_signal(t) ==
  IF pending[t] = {} THEN {NoSignal}
  ELSE {s \in pending[t] : \A r \in pending[t] : s <= r}

\* SIGKILL and SIGTSTP mark the task and leave tick without scheduling.
TickFatalSignal(c, sig) ==
  /\ \/ sig = SIGKILL /\ state' = [state EXCEPT ![c] = "Terminated"] /\ UNCHANGED foreground
     \/ /\ sig = SIGTSTP
        /\ state' = [state EXCEPT ![c] = "Blocked"]
        /\ foreground' = [foreground EXCEPT ![c] = "Stopped"]
  /\ need_reschedule' = TRUE
  /\ UNCHANGED <<time_slice, ready_queue, current, preempt_enabled>>

\* Any other signal, or none: SIGCONT resumes a stopped task, then a task that
\* is not running asks for a reschedule and one that is uses up a tick.
TickAccount(c, sig) ==
  LET resumed == sig = SIGCONT /\ foreground[c] = "Stopped"
      st == IF resumed THEN [state EXCEPT ![c] = "Running"] ELSE state
      left == IF time_slice[c] > 0 THEN time_slice[c] - 1 ELSE 0
      ts == [time_slice EXCEPT ![c] = left]
  IN  /\ sig \notin {SIGKILL, SIGTSTP}
      /\ foreground' = IF resumed THEN [foreground EXCEPT ![c] = "Background"] ELSE foreground
      /\ \/ /\ st[c] # "Running"
            /\ need_reschedule' = TRUE
            /\ state' = st
            /\ UNCHANGED <<time_slice, ready_queue, current, preempt_enabled>>
         \/ /\ st[c] = "Running"
            /\ left = 0 \/ need_reschedule
            /\ schedule(st, ts)
         \/ /\ st[c] = "Running"
            /\ left # 0 /\ ~ need_reschedule
            /\ state' = st
            /\ time_slice' = ts
            /\ UNCHANGED <<ready_queue, current, need_reschedule, preempt_enabled>>

tick ==
  /\ preempt_enabled
  /\ UNCHANGED <<next_id, priority, all_tasks>>
  /\ \/ /\ current # None
        /\ \E sig \in pop_signal(current) :
             /\ pending' = [pending EXCEPT ![current] = @ \ {sig}]
             /\ TickFatalSignal(current, sig) \/ TickAccount(current, sig)
     \/ /\ current = None /\ need_reschedule
        /\ UNCHANGED <<foreground, pending>>
        /\ schedule(state, time_slice)

\* Fault: the preempted task goes to the front of the queue.
preempt_scheduleFront ==
  /\ preempt_enabled
  /\ UNCHANGED <<task_vars, need_reschedule, preempt_enabled>>
  /\ IF current # None
     THEN /\ time_slice' = [time_slice EXCEPT ![current] = Quantum]
          /\ Dispatch(<<current>> \o ready_queue,
                      [state EXCEPT ![current] = "Ready"],
                      [state EXCEPT ![current] = "Running"])
     ELSE /\ UNCHANGED time_slice
          /\ Dispatch(ready_queue, state, state)

\* The running task goes to the back of the queue whatever state it is in.
preempt_schedule ==
  /\ preempt_enabled
  /\ UNCHANGED <<task_vars, need_reschedule, preempt_enabled>>
  /\ IF current # None
     THEN /\ time_slice' = [time_slice EXCEPT ![current] = Quantum]
          /\ Dispatch(Append(ready_queue, current),
                      [state EXCEPT ![current] = "Ready"],
                      [state EXCEPT ![current] = "Running"])
     ELSE /\ UNCHANGED time_slice
          /\ Dispatch(ready_queue, state, state)

-----------------------------------------------------------------------------
(* Process control.  A call that returns an error changes nothing: its    *)
(* conditions are guards.                                                  *)

block_current ==
  /\ current # None
  /\ state' = [state EXCEPT ![current] = "Blocked"]
  /\ need_reschedule' = TRUE
  /\ UNCHANGED <<task_vars, time_slice, ready_queue, current, preempt_enabled>>

unblock_task(t) ==
  /\ t \in all_tasks /\ state[t] = "Blocked"
  /\ state' = [state EXCEPT ![t] = "Ready"]
  /\ Push(t)
  /\ need_reschedule' = TRUE
  /\ UNCHANGED <<task_vars, time_slice, current, preempt_enabled>>

terminate_current ==
  /\ UNCHANGED task_vars
  /\ schedule(IF current # None THEN [state EXCEPT ![current] = "Terminated"] ELSE state,
              time_slice)

\* Ids up to Protected are refused.
terminate_task(t) ==
  /\ t > Protected /\ t \in all_tasks
  /\ state' = [state EXCEPT ![t] = "Terminated"]
  /\ ready_queue' = Retain(ready_queue, {t})
  /\ need_reschedule' = TRUE
  /\ UNCHANGED <<task_vars, time_slice, current, preempt_enabled>>

send_signal(t, sig) ==
  /\ t \in all_tasks
  /\ pending' = [pending EXCEPT ![t] = @ \cup {sig}]
  /\ UNCHANGED <<next_id, priority, foreground, all_tasks, state, time_slice,
                 ready_queue, current, need_reschedule, preempt_enabled>>

\* Fault: the task is resumed and not queued.
background_taskUnqueued(t) ==
  /\ t \in all_tasks /\ foreground[t] = "Stopped"
  /\ foreground' = [foreground EXCEPT ![t] = "Background"]
  /\ state' = [state EXCEPT ![t] = "Ready"]
  /\ pending' = [pending EXCEPT ![t] = @ \cup {SIGCONT}]
  /\ need_reschedule' = TRUE
  /\ UNCHANGED <<next_id, priority, all_tasks, time_slice, ready_queue, current, preempt_enabled>>

background_task(t) ==
  /\ t \in all_tasks /\ foreground[t] = "Stopped"
  /\ foreground' = [foreground EXCEPT ![t] = "Background"]
  /\ state' = [state EXCEPT ![t] = "Ready"]
  /\ pending' = [pending EXCEPT ![t] = @ \cup {SIGCONT}]
  /\ Push(t)
  /\ need_reschedule' = TRUE
  /\ UNCHANGED <<next_id, priority, all_tasks, time_slice, current, preempt_enabled>>

\* The test for Stopped comes after the assignment of Foreground, so its
\* branch, which would queue the task, is never taken.
foreground_task(t) ==
  /\ t \in all_tasks /\ foreground[t] # "Foreground"
  /\ foreground' = [foreground EXCEPT ![t] = "Foreground"]
  /\ UNCHANGED <<next_id, priority, pending, all_tasks, state, time_slice,
                 ready_queue, current, need_reschedule, preempt_enabled>>

yield_current == UNCHANGED task_vars /\ schedule(state, time_slice)

set_preemption(on) ==
  /\ preempt_enabled' = on
  /\ UNCHANGED <<task_vars, state, time_slice, ready_queue, current, need_reschedule>>

enable_preemption == set_preemption(TRUE)
disable_preemption == set_preemption(FALSE)

cleanup_terminated ==
  LET terminated == {t \in all_tasks : state[t] = "Terminated"}
  IN  /\ all_tasks' = all_tasks \ terminated
      /\ ready_queue' = Retain(ready_queue, terminated)
      /\ UNCHANGED <<next_id, priority, foreground, pending, state, time_slice,
                     current, need_reschedule, preempt_enabled>>

-----------------------------------------------------------------------------
(* Specifications *)

Init ==
  /\ next_id = 1
  /\ state = [t \in TaskId |-> "Absent"]
  /\ priority = [t \in TaskId |-> Normal]
  /\ foreground = [t \in TaskId |-> "Foreground"]
  /\ pending = [t \in TaskId |-> {}]
  /\ time_slice = [t \in TaskId |-> Quantum]
  /\ ready_queue = <<>>
  /\ current = None
  /\ all_tasks = {}
  /\ need_reschedule = FALSE
  /\ preempt_enabled = FALSE

\* Every public method, in any order.
Next ==
  \/ create_kernel_task
  \/ create_kernel_task_with_priority
  \/ create_background_task
  \/ create_user_task
  \/ create_idle_task
  \/ tick
  \/ preempt_schedule
  \/ block_current
  \/ terminate_current
  \/ yield_current
  \/ enable_preemption
  \/ disable_preemption
  \/ cleanup_terminated
  \/ \E t \in TaskId :
       \/ unblock_task(t)
       \/ terminate_task(t)
       \/ background_task(t)
       \/ foreground_task(t)
       \/ \E sig \in Signals : send_signal(t, sig)

Spec == Init /\ [][Next]_vars

-----------------------------------------------------------------------------
(* Properties *)

TaskStates == {"Absent", "Ready", "Running", "Blocked", "Terminated"}

\* The fields stay in their types, and only ids that were handed out occur in
\* the queue, in all_tasks or as the current task.
TypeOK ==
  /\ next_id \in 1 .. MaxTasks + 1
  /\ state \in [TaskId -> TaskStates]
  /\ priority \in [TaskId -> 0 .. 3]
  /\ foreground \in [TaskId -> {"Foreground", "Background", "Stopped"}]
  /\ pending \in [TaskId -> SUBSET (1 .. 31)]
  /\ time_slice \in [TaskId -> 0 .. Quantum]
  /\ ready_queue \in Seq(1 .. next_id - 1)
  /\ current \in 0 .. next_id - 1
  /\ all_tasks \in SUBSET (1 .. next_id - 1)
  /\ need_reschedule \in BOOLEAN
  /\ preempt_enabled \in BOOLEAN

\* The one CPU has one owner: whatever the order of ticks, preemptions,
\* signals, kills and wake-ups, no task other than current is marked Running.
SingleRunning == \A t \in TaskId : state[t] = "Running" => t = current

\* No wake-up is lost: a task marked Ready always has an entry in ready_queue,
\* through the removals of pick_next_task, kill and cleanup.
ReadyIsQueued == \A t \in TaskId : state[t] = "Ready" => t \in Queued(ready_queue)

\* When schedule or preempt_schedule hands the CPU to another task, no ready
\* task left in the queue has a higher priority.
DispatchIsHighest ==
  [][current' # current =>
       \A t \in Queued(ready_queue') :
         state'[t] = "Ready" => priority[t] <= priority[current']]_vars

-----------------------------------------------------------------------------
(* What comments and documentation say of the scheduler and the code does  *)
(* not do; each is violated.                                               *)

\* "Pick the highest-priority ready task from the queue" (pick_next_task): a
\* yield that leaves a ready task in the queue leaves a running current task.
PickIsComplete ==
  [][(yield_current /\ \E t \in Queued(ready_queue') : state'[t] = "Ready")
       => current' # None /\ state'[current'] = "Running"]_vars

\* "Terminated, // Has exited, awaiting cleanup" (TaskState): a terminated
\* task never runs again.
KilledStaysDead ==
  [][\A t \in TaskId : state[t] = "Terminated" => state'[t] = "Terminated"]_vars

\* "Move a background/stopped task to foreground (fg command)": a stopped task
\* brought to the foreground is made runnable again.
FgResumes ==
  [][\A t \in TaskId :
       (foreground[t] = "Stopped" /\ foreground'[t] = "Foreground")
         => state'[t] \in {"Ready", "Running"}]_vars

\* "10 ticks = 100ms at 100 Hz" (DEFAULT_TIME_SLICE): the timer does not take
\* the CPU from a running task with more than one tick left in its quantum.
QuantumIsRespected ==
  [][(preempt_schedule /\ current # None /\ state[current] = "Running" /\ time_slice[current] > 1)
       => current' = current]_vars
=============================================================================
