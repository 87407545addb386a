----------------------------- MODULE KernelTasks -----------------------------
(***************************************************************************)
(* The running kernel: the shell and its task commands (src/src/lib.rs),   *)
(* the timer interrupt (src/src/interrupts.rs), the mutex of each task and *)
(* the allocation of stacks (src/src/sched/task.rs), around the scheduler. *)
(*                                                                         *)
(* The commands run with interrupts on: they are cut where they take or    *)
(* release the mutex of a task, or change what the timer handler reads.    *)
(* The handler runs with interrupts off, so a mutex the interrupted code   *)
(* holds is never released while the handler spins on it.                  *)
(*                                                                         *)
(* The shell is not a task.  It goes on in the context that kernel_main    *)
(* booted in, which no saved_rsp refers to.  What a switch does to the     *)
(* stack is the subject of InterruptFrames; here it resumes the context    *)
(* saved_rsp stands for.  The tasks run starts never end and never call    *)
(* the scheduler.  Stacks are numbered in steps of TASK_STACK_SIZE.        *)
(* Interrupts are taken to reach their own handlers.  Then tick has no     *)
(* caller, because vector 32 is timer_isr; by the stub the keyboard really *)
(* enters (see InterruptFrames) no command could be typed at all.          *)
(***************************************************************************)
EXTENDS Scheduler

CONSTANTS
  STACKS,     \* 352: stacks between TASK_STACKS_BASE and STACK_REGION_END
  RESERVED    \* 64: stacks in the range kernel_main reserves in the Pmm

ASSUME StackConstants == STACKS \in Nat \ {0} /\ RESERVED \in 0 .. STACKS

\* The idle task and the first task that run creates cannot be killed.
ASSUME ProtectedConstant == Protected >= 2

Shell == 0       \* the context of kernel_main and shell
NoStack == -1

VARIABLES
  cpu,         \* the context that executes: Shell or a task
  saved,       \* the context saved_rsp of each task leads to
  spinning,    \* the timer handler waits for a mutex
  command,     \* where the shell is in a command
  held,        \* the tasks whose mutex the shell has locked
  NEXT_STACK,
  stack        \* the stack of each task

kernel_vars == <<vars, cpu, saved, spinning, command, held, NEXT_STACK, stack>>
shell_vars == <<command, held>>
cpu_vars == <<cpu, saved, spinning>>
stack_vars == <<NEXT_STACK, stack>>

At(pc, t, k) == [pc |-> pc, task |-> t, at |-> k]
Prompt == At("prompt", None, 0)

TasksInit ==
  /\ Init
  /\ cpu = Shell /\ saved = [t \in TaskId |-> t] /\ spinning = FALSE
  /\ command = Prompt /\ held = {}
  /\ NEXT_STACK = 0 /\ stack = [t \in TaskId |-> NoStack]

InShell(pc) == cpu = Shell /\ ~ spinning /\ command.pc = pc

-----------------------------------------------------------------------------
(* Creating tasks *)

\* The answer 0 is NoStack.
alloc_stack(t) ==
  IF NEXT_STACK + 1 > STACKS
  THEN UNCHANGED stack_vars
  ELSE /\ NEXT_STACK' = NEXT_STACK + 1
       /\ stack' = [stack EXCEPT ![t] = NEXT_STACK]

\* kernel_main up to the shell.
boot_idle ==
  /\ next_id = 1
  /\ alloc_stack(1)
  /\ create_idle_task
  /\ UNCHANGED <<shell_vars, cpu_vars>>

boot_preemption ==
  /\ next_id > 1 /\ ~ preempt_enabled
  /\ enable_preemption
  /\ UNCHANGED <<shell_vars, cpu_vars, stack_vars>>

\* cmd_run to the end of setup_initial_stack, which without a stack writes
\* below address 0 and faults again whenever the handler returns.
run_new ==
  /\ preempt_enabled /\ InShell("prompt") /\ next_id <= MaxTasks
  /\ alloc_stack(next_id)
  /\ next_id' = next_id + 1
  /\ command' = At(IF stack'[next_id] = NoStack THEN "fault" ELSE "push", next_id, 0)
  /\ UNCHANGED <<priority, foreground, pending, all_tasks, state, time_slice, ready_queue,
                 current, need_reschedule, preempt_enabled, held, cpu_vars>>

\* create_kernel_task: into the ready queue, ...
run_push ==
  /\ InShell("push")
  /\ state' = [state EXCEPT ![command.task] = "Ready"]
  /\ Push(command.task)
  /\ command' = [command EXCEPT !.pc = "list"]
  /\ UNCHANGED <<task_vars, time_slice, current, need_reschedule, preempt_enabled,
                 held, cpu_vars, stack_vars>>

\* ... and into all_tasks.
run_list ==
  /\ InShell("list")
  /\ all_tasks' = all_tasks \cup {command.task}
  /\ command' = Prompt
  /\ UNCHANGED <<next_id, priority, foreground, pending, state, time_slice, ready_queue,
                 current, need_reschedule, preempt_enabled, held, cpu_vars, stack_vars>>

-----------------------------------------------------------------------------
(* The commands that walk through all_tasks, locking one task at a time in *)
(* the order of their ids: kill stops at its task; ps, and bg and fg, for  *)
(* which no task is in the state they look for, go to the end.             *)

\* t = None for the commands without a target; kill refuses system tasks.
scan_first(t) ==
  /\ preempt_enabled /\ InShell("prompt")
  /\ t = None \/ t > Protected
  /\ command' = At("scan", t, 1)
  /\ held' = {1}
  /\ UNCHANGED <<vars, cpu_vars, stack_vars>>

scan_next ==
  /\ InShell("scan") /\ command.at # command.task
  /\ LET next == command.at + 1
     IN  IF next \in all_tasks
         THEN command' = [command EXCEPT !.at = next] /\ held' = {next}
         ELSE command' = Prompt /\ held' = {}
  /\ UNCHANGED <<vars, cpu_vars, stack_vars>>

\* Fault: the guard is still alive when retain begins.
kill_markHolds ==
  /\ InShell("scan") /\ command.at = command.task
  /\ state' = [state EXCEPT ![command.task] = "Terminated"]
  /\ need_reschedule' = TRUE
  /\ command' = At("retain", command.task, 1)
  /\ UNCHANGED <<task_vars, time_slice, ready_queue, current, preempt_enabled, held, cpu_vars, stack_vars>>

\* Fault: the task is marked Terminated and its entry stays in the queue.
kill_markKeepsEntry ==
  /\ InShell("scan") /\ command.at = command.task
  /\ state' = [state EXCEPT ![command.task] = "Terminated"]
  /\ need_reschedule' = TRUE
  /\ held' = {}
  /\ command' = Prompt
  /\ UNCHANGED <<task_vars, time_slice, ready_queue, current, preempt_enabled, cpu_vars, stack_vars>>

\* terminate_task up to retain.
kill_mark ==
  /\ InShell("scan") /\ command.at = command.task
  /\ state' = [state EXCEPT ![command.task] = "Terminated"]
  /\ need_reschedule' = TRUE
  /\ held' = {}
  /\ command' = At("retain", command.task, 1)
  /\ UNCHANGED <<task_vars, time_slice, ready_queue, current, preempt_enabled, cpu_vars, stack_vars>>

\* The mutex the shell takes next.
Wanted ==
  IF InShell("retain") /\ command.at <= Len(ready_queue) THEN {ready_queue[command.at]} ELSE {}

\* VecDeque::retain looks at one entry after the other under its mutex ...
retain_lock ==
  /\ Wanted # {} /\ held = {}
  /\ held' = Wanted
  /\ UNCHANGED <<vars, command, cpu_vars, stack_vars>>

\* ... swaps an entry it keeps with the one it drops, which so moves to the
\* back, ...
retain_entry ==
  LET k == command.at
      q == ready_queue
  IN  /\ Wanted # {} /\ held = Wanted
      /\ held' = {}
      /\ command' = [command EXCEPT !.at = k + 1]
      /\ ready_queue' = IF k > 1 /\ q[k - 1] = command.task
                        THEN [q EXCEPT ![k - 1] = q[k], ![k] = q[k - 1]] ELSE q
      /\ UNCHANGED <<task_vars, state, time_slice, current, need_reschedule, preempt_enabled,
                     cpu_vars, stack_vars>>

\* ... and truncates the queue.
retain_truncate ==
  /\ InShell("retain") /\ command.at > Len(ready_queue)
  /\ ready_queue' = Retain(ready_queue, {command.task})
  /\ command' = Prompt
  /\ UNCHANGED <<task_vars, state, time_slice, current, need_reschedule, preempt_enabled,
                 held, cpu_vars, stack_vars>>

Commands ==
  \/ run_push \/ run_list
  \/ scan_next \/ kill_mark \/ retain_lock \/ retain_entry \/ retain_truncate

-----------------------------------------------------------------------------
(* The timer interrupt *)

\* Fault: the search for the next task ends at the first one it would take.
HandlerLocksFirst ==
  {ready_queue[k] : k \in {j \in 1 .. Len(ready_queue) :
                             (1 .. j - 1) \cap AboveLow(ready_queue, state) = {}}}

\* The tasks preempt_schedule locks: the current one and, in pick_next_task,
\* every entry of the queue.
HandlerLocks == Queued(ready_queue) \cup ({current} \ {None})

\* Fault: the context is stored in the task that is resumed.
resumeStoresInNext ==
  /\ saved' = IF current # None THEN [saved EXCEPT ![current'] = cpu] ELSE saved
  /\ cpu' = IF current' = current THEN cpu ELSE saved[current']

\* rust_timer_handler returns the stack pointer timer_isr continues with.
\* The interrupted context is saved in the current task, if there is one.
resume ==
  /\ saved' = IF current # None THEN [saved EXCEPT ![current] = cpu] ELSE saved
  /\ cpu' = IF current' = current THEN cpu ELSE saved[current']

timer ==
  /\ ~ spinning
  /\ \/ /\ preempt_enabled /\ held \cap HandlerLocks = {}
        /\ preempt_schedule /\ resume
        /\ UNCHANGED spinning
     \/ /\ preempt_enabled /\ held \cap HandlerLocks # {}
        /\ spinning' = TRUE
        /\ UNCHANGED <<vars, cpu, saved>>
  /\ UNCHANGED <<shell_vars, stack_vars>>

TasksNext ==
  \/ boot_idle
  \/ boot_preemption
  \/ run_new
  \/ \E t \in TaskId \cup {None} : scan_first(t)
  \/ Commands
  \/ timer

\* kernel_main and a command, once begun, go on; the timer is periodic.
\* Nobody has to type a command.
TasksSpec ==
  /\ TasksInit /\ [][TasksNext]_kernel_vars
  /\ WF_kernel_vars(boot_idle)
  /\ WF_kernel_vars(boot_preemption)
  /\ WF_kernel_vars(Commands)
  /\ WF_kernel_vars(timer)

-----------------------------------------------------------------------------
(* Properties *)

\* The code that executes once tasks run is that of the current task, and it
\* has a stack in the region that no other task has, wherever the timer cut
\* the shell short and however often the tasks preempt each other
\* (scheduler.rs 304-346, task.rs 288-300).
CurrentExecutes ==
  current # None =>
    /\ cpu = current
    /\ stack[current] \in 0 .. STACKS - 1
    /\ \A t \in TaskId \ {current} : stack[t] # stack[current]

\* No method of the scheduler locks the mutex of a task while it holds one:
\* spin::Mutex would wait for itself (the drops before push_back and retain,
\* scheduler.rs 360-407).
NoSelfDeadlock == Wanted # {} => held \subseteq Wanted /\ Cardinality(held) <= 1

\* The timer handler can only ever wait for a mutex at the interrupt that
\* takes the CPU from the shell: a mutex that the shell holds at that moment
\* and the handler does not meet then is met by none that follows
\* (pick_next_task locks the whole queue, scheduler.rs 251-273).
SpinsOnlyInShell == spinning => cpu = Shell

\* The queue stays exact however the timer cuts run and kill: it holds every
\* ready task, no task twice, and no task that is not ready but the one whose
\* kill has marked it and is still at retain (or was cut off there, for ever:
\* scheduler.rs 395-401 with 310).
QueueIsExact ==
  /\ {t \in TaskId : state[t] = "Ready"} \subseteq Queued(ready_queue)
  /\ \A j, k \in 1 .. Len(ready_queue) : ready_queue[j] = ready_queue[k] => j = k
  /\ \A t \in Queued(ready_queue) :
       state[t] # "Ready" => command.pc = "retain" /\ t = command.task

\* A kill is final: a task that kill has marked Terminated never runs again,
\* also when the timer interrupts kill before the task has left the queue.
\* Every later preempt_schedule passes over the entry that stays behind.
KillIsFinal ==
  [][\A t \in TaskId : state[t] = "Terminated" => state'[t] = "Terminated"]_kernel_vars

\* A command cut short by the timer strands no other task: a ready task of
\* normal priority in the queue runs, unless it is killed first or the
\* handler waits for the shell.
QueuedTasksRun ==
  \A t \in TaskId :
    (state[t] = "Ready" /\ priority[t] = Normal /\ t \in Queued(ready_queue))
      ~> (state[t] \in {"Running", "Terminated"} \/ spinning)

-----------------------------------------------------------------------------
(* What comments say and the code does not do; each is violated. *)

\* "Cannot kill the shell (task 1) or idle" (terminate_task): the shell is one
\* of the tasks the scheduler takes in turn, so it gets the CPU again.
ShellIsScheduled == []<>(cpu = Shell \/ spinning)

\* "Cannot kill the shell (task 1) or idle" (terminate_task): kill can be given
\* every other task.  The idle task is the one of priority Low.
OthersCanBeKilled ==
  \A t \in all_tasks :
    (preempt_enabled /\ InShell("prompt") /\ priority[t] # Low) => ENABLED scan_first(t)

\* "performs the timer tick and returns the RSP to use" (rust_timer_handler):
\* the handler always returns.
HandlerReturns == ~ spinning

\* "32MB for stacks" (alloc_stack): the stacks lie in memory that kernel_main
\* has reserved in the Pmm.
StacksReserved == \A t \in TaskId : stack[t] < RESERVED
=============================================================================
