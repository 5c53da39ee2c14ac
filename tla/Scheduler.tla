------------------------------ MODULE Scheduler ------------------------------
(***************************************************************************)
(* Tasks and their scheduling: kernel/task/task_manager.cpp,               *)
(* kernel/task/scheduler.cpp, kernel/task/idle_task.cpp, and the callers   *)
(* that create, yield and end tasks: the system calls Exit, Yield,         *)
(* TaskExit and Spawn of kernel/sys/syscall.cpp, CreateProcess of          *)
(* kernel/app/elf/elf_loader.cpp and the timer interrupt.                  *)
(*                                                                         *)
(* There is one CPU.  Code of the current task runs until the timer        *)
(* interrupt, a system call or the end of the task moves the CPU, so an    *)
(* action is the code between two points where that can happen.  List      *)
(* operations are atomic here; PreemptibleKernel takes them apart where    *)
(* the code runs them with interrupts enabled.                             *)
(***************************************************************************)
EXTENDS ReadyList

VARIABLES
    rq,             \* the ready queue (see ReadyList)
    state,          \* Task::state of every structure
    is_app,         \* Task::is_app of every structure
    allocated,      \* the structures that MemoryManager has handed out
    current,        \* TaskManager::current_task_
    task_count,     \* TaskManager::task_count_
    enabled,        \* Scheduler::enabled_
    g_idle_task,    \* the idle task, Null before InitializeIdleTask
    started,        \* EssentialProcesses::processes[0].started
    loading         \* per task: the task its CreateProcess is working on

vars == <<rq, state, is_app, allocated, current, task_count, enabled,
          g_idle_task, started, loading>>

TaskState == {"READY", "RUNNING", "BLOCKED", "TERMINATED"}

TypeOK ==
    /\ rq \in ListType
    /\ state \in [Task -> TaskState]
    /\ is_app \in [Task -> BOOLEAN]
    /\ allocated \in SUBSET Task
    /\ current \in TaskOrNull
    /\ task_count \in Nat
    /\ enabled \in BOOLEAN
    /\ g_idle_task \in TaskOrNull
    /\ started \in BOOLEAN
    /\ loading \in [Task -> TaskOrNull]

\* TaskManager::Initialize and Scheduler::Initialize.  The contents of a
\* structure that was never handed out are irrelevant.
Init ==
    /\ rq = EmptyList
    /\ state = [t \in Task |-> "TERMINATED"]
    /\ is_app = [t \in Task |-> FALSE]
    /\ allocated = {}
    /\ current = Null
    /\ task_count = 0
    /\ enabled = FALSE
    /\ g_idle_task = Null
    /\ started = FALSE
    /\ loading = [t \in Task |-> Null]

-----------------------------------------------------------------------------
(***************************************************************************)
(* TaskManager                                                             *)
(***************************************************************************)
\* Mutant: task_count_ is not incremented.
CreateTaskUncounted(t, app) ==
    /\ t \notin allocated
    /\ allocated' = allocated \cup {t}
    /\ state' = [state EXCEPT ![t] = "READY"]
    /\ is_app' = [is_app EXCEPT ![t] = app]
    /\ rq' = [rq EXCEPT !.next[t] = Null, !.prev[t] = Null]
    /\ UNCHANGED task_count

\* CreateTask and CreateAppTask: memset, then READY, in no queue.  When an
\* allocation fails they release what they got and leave everything as it was.
CreateTask(t, app) ==
    /\ t \notin allocated
    /\ allocated' = allocated \cup {t}
    /\ state' = [state EXCEPT ![t] = "READY"]
    /\ is_app' = [is_app EXCEPT ![t] = app]
    /\ rq' = [rq EXCEPT !.next[t] = Null, !.prev[t] = Null]
    /\ task_count' = task_count + 1

\* The structure is released; its bytes stay until the next CreateTask.
TerminateTask(t) ==
    /\ rq' = RemoveFromReadyQueue(rq, t)
    /\ state' = [state EXCEPT ![t] = "TERMINATED"]
    /\ allocated' = allocated \ {t}
    /\ task_count' = task_count - 1
    /\ UNCHANGED is_app

\* AddToReadyQueue on the list and on the task's state.
Publish(t) ==
    /\ rq' = AddToReadyQueue(rq, t)
    /\ state' = IF Queued(rq, t) THEN state ELSE [state EXCEPT ![t] = "READY"]

-----------------------------------------------------------------------------
(***************************************************************************)
(* Scheduler::Schedule(voluntary), called while current_task_ = cur.       *)
(***************************************************************************)
IsRunning(cur) == cur # Null /\ state[cur] = "RUNNING"

\* The early returns.
KeepsCPU(voluntary, cur) ==
    \/ ~enabled
    \/ GetNextTask(rq) = Null
    \/ GetNextTask(rq) = cur
    \/ ~voluntary /\ IsRunning(cur) /\ is_app[cur]

\* Mutant: the task that loses the CPU is not put back.
DispatchDroppingCurrent(cur) ==
    LET next == GetNextTask(rq)
    IN /\ rq' = RemoveFromReadyQueue(rq, next)
       /\ state' = [t \in Task |-> IF t = next THEN "RUNNING"
                                   ELSE IF IsRunning(cur) /\ t = cur THEN "READY"
                                   ELSE state[t]]
       /\ current' = next

\* Mutant: the task that loses the CPU keeps the state RUNNING.
DispatchKeepingState(cur) ==
    LET next == GetNextTask(rq)
        requeued == IF IsRunning(cur)
                    THEN AddToReadyQueue(RemoveFromReadyQueue(rq, cur), cur)
                    ELSE rq
    IN /\ rq' = RemoveFromReadyQueue(requeued, next)
       /\ state' = [state EXCEPT ![next] = "RUNNING"]
       /\ current' = next

\* The switch itself: the running task goes to the tail, the head runs.
Dispatch(cur) ==
    LET next == GetNextTask(rq)
        requeued == IF IsRunning(cur)
                    THEN AddToReadyQueue(RemoveFromReadyQueue(rq, cur), cur)
                    ELSE rq
    IN /\ rq' = RemoveFromReadyQueue(requeued, next)
       /\ state' = [t \in Task |-> IF t = next THEN "RUNNING"
                                   ELSE IF IsRunning(cur) /\ t = cur THEN "READY"
                                   ELSE state[t]]
       /\ current' = next

Schedule(voluntary, cur) ==
    IF KeepsCPU(voluntary, cur)
    THEN current' = cur /\ UNCHANGED <<rq, state>>
    ELSE Dispatch(cur)

-----------------------------------------------------------------------------
(***************************************************************************)
(* Boot: KernelMain creates the idle task, enables the scheduler and       *)
(* starts the timer.                                                       *)
(***************************************************************************)
InitializeIdleTask(t) ==
    /\ g_idle_task = Null
    /\ t \notin allocated
    /\ allocated' = allocated \cup {t}
    /\ state' = [state EXCEPT ![t] = "READY"]
    /\ is_app' = [is_app EXCEPT ![t] = FALSE]
    /\ rq' = AddToReadyQueue([rq EXCEPT !.next[t] = Null, !.prev[t] = Null], t)
    /\ task_count' = task_count + 1
    /\ g_idle_task' = t
    /\ UNCHANGED <<current, enabled, started, loading>>

Enable ==
    /\ g_idle_task # Null
    /\ ~enabled
    /\ enabled' = TRUE
    /\ UNCHANGED <<rq, state, is_app, allocated, current, task_count,
                   g_idle_task, started, loading>>

\* A timer tick.  The timer is started right after Enable.
TimerHandler ==
    /\ enabled
    /\ Schedule(FALSE, current)
    /\ UNCHANGED <<is_app, allocated, task_count, enabled, g_idle_task, started,
                   loading>>

-----------------------------------------------------------------------------
(***************************************************************************)
(* CreateProcess, called by the idle loop for the shell and by the Spawn   *)
(* system call.  It creates the task, loads the program and then publishes *)
(* the task or, when loading fails, terminates it.                         *)
(***************************************************************************)
\* Code of task c is running, and c is not inside CreateProcess or TaskExit.
Executes(c) == c # Null /\ current = c /\ c \in allocated /\ loading[c] = Null

IsUserCode(c) == Executes(c) /\ c # g_idle_task

\* Mutant: the idle loop does not remember that the shell is started.
MayCreateAlways(c) == Executes(c)

MayCreate(c) == Executes(c) /\ (c = g_idle_task => ~started)

\* CheckAndStartProcesses of the idle task, or Spawn of an application.
CreateProcess(c, t) ==
    /\ MayCreate(c)
    /\ CreateTask(t, TRUE)
    /\ loading' = [loading EXCEPT ![c] = t]
    /\ UNCHANGED <<current, enabled, g_idle_task, started>>

LoadSucceeds(c) ==
    /\ current = c /\ loading[c] # Null
    /\ Publish(loading[c])
    /\ loading' = [loading EXCEPT ![c] = Null]
    /\ started' = (started \/ c = g_idle_task)
    /\ UNCHANGED <<is_app, allocated, current, task_count, enabled, g_idle_task>>

LoadFails(c) ==
    /\ current = c /\ loading[c] # Null
    /\ TerminateTask(loading[c])
    /\ loading' = [loading EXCEPT ![c] = Null]
    /\ UNCHANGED <<current, enabled, g_idle_task, started>>

-----------------------------------------------------------------------------
(***************************************************************************)
(* The system calls that move the CPU.                                     *)
(***************************************************************************)
Yield(a) ==
    /\ IsUserCode(a)
    /\ Schedule(TRUE, a)
    /\ UNCHANGED <<is_app, allocated, task_count, enabled, g_idle_task, started,
                   loading>>

\* Interrupts are off from the removal to ExitApp.  The structure and its
\* kernel stack are never released, and task_count_ keeps counting them.
Exit(a) ==
    /\ IsUserCode(a)
    /\ rq' = RemoveFromReadyQueue(rq, a)
    /\ state' = [state EXCEPT ![a] = "TERMINATED"]
    /\ current' = Null
    /\ UNCHANGED <<is_app, allocated, task_count, enabled, g_idle_task, started,
                   loading>>

\* TaskExit, first half: the running task releases its own structure.
TaskExit(a) ==
    /\ IsUserCode(a)
    /\ TerminateTask(a)
    /\ UNCHANGED <<current, enabled, g_idle_task, started, loading>>

\* TaskExit, second half: SetCurrentTask(nullptr) and Schedule().
TaskExitSchedule ==
    /\ current # Null /\ current \notin allocated
    /\ Schedule(FALSE, Null)
    /\ UNCHANGED <<is_app, allocated, task_count, enabled, g_idle_task, started,
                   loading>>

Next ==
    \/ \E t \in Task : InitializeIdleTask(t)
    \/ Enable
    \/ TimerHandler
    \/ \E c, t \in Task : CreateProcess(c, t)
    \/ \E c \in Task : LoadSucceeds(c) \/ LoadFails(c)
    \/ \E a \in Task : Yield(a) \/ Exit(a) \/ TaskExit(a)
    \/ TaskExitSchedule

Spec == Init /\ [][Next]_vars

-----------------------------------------------------------------------------
(***************************************************************************)
(* The rest of the public interface.  Nothing in the repository calls it   *)
(* yet; a caller may name any task that has been published and has not     *)
(* ended.                                                                  *)
(***************************************************************************)
Published(t) ==
    /\ t \in allocated
    /\ state[t] # "TERMINATED"
    /\ \A c \in Task : loading[c] # t

BlockTask(t) ==
    /\ Published(t)
    /\ rq' = RemoveFromReadyQueue(rq, t)
    /\ state' = [state EXCEPT ![t] = "BLOCKED"]
    /\ UNCHANGED <<is_app, allocated, current, task_count, enabled, g_idle_task,
                   started, loading>>

WakeTask(t) ==
    /\ Published(t)
    /\ state[t] = "BLOCKED"
    /\ Publish(t)
    /\ UNCHANGED <<is_app, allocated, current, task_count, enabled, g_idle_task,
                   started, loading>>

Disable ==
    /\ enabled
    /\ enabled' = FALSE
    /\ UNCHANGED <<rq, state, is_app, allocated, current, task_count,
                   g_idle_task, started, loading>>

ApiNext ==
    \/ Next
    \/ \E t \in Task : BlockTask(t) \/ WakeTask(t)
    \/ Disable

ApiSpec == Init /\ [][ApiNext]_vars

-----------------------------------------------------------------------------
(***************************************************************************)
(* Invariants of ApiSpec.                                                  *)
(***************************************************************************)
\* The ready queue is a proper doubly linked list whatever order tasks are
\* created, published, scheduled, blocked, woken and ended in: head and tail
\* are its ends, prev mirrors next, nothing is linked twice, no cycle, and a
\* task outside it carries no link (AddToReadyQueue relies on that).
QueueWellFormed == WellFormed(rq)

\* TaskState::RUNNING means the current task, and it never waits in the queue.
RunningIsCurrent ==
    \A t \in Task : state[t] = "RUNNING" => t = current /\ ~Queued(rq, t)

\* Only live, READY tasks wait in the queue: Schedule never dispatches a
\* released structure, nor a task that has ended or is blocked.
QueuedAreReady ==
    \A t \in Task : Queued(rq, t) => t \in allocated /\ state[t] = "READY"

\* A READY task is in the queue, or CreateProcess still holds it: no task is
\* left READY where the scheduler cannot find it.
NoTaskLost ==
    \A t \in allocated :
        state[t] = "READY" => Queued(rq, t) \/ \E c \in Task : loading[c] = t

\* task_count_ is the number of structures that are handed out, also after
\* failed loads.
TaskCountExact == task_count = Cardinality(allocated)

-----------------------------------------------------------------------------
(***************************************************************************)
(* Invariants of Spec, which hold because of who calls what.               *)
(***************************************************************************)
\* The idle task runs or waits in the queue for ever, so the queue is empty
\* only while the idle task runs.
IdleAlive == g_idle_task # Null => g_idle_task = current \/ Queued(rq, g_idle_task)

\* "We do not come back here" in the TaskExit system call: whenever a task has
\* released its own structure and kernel stack, Schedule finds another task,
\* so the released stack is not returned to.
TaskExitNeverReturns ==
    current # Null /\ current \notin allocated => ~KeepsCPU(FALSE, Null)

\* The idle loop can be preempted in the middle of CreateProcess, and neither
\* MemoryManager nor the file system is protected against a second caller.
\* It is safe because nobody else exists at that time: the idle task creates
\* only the first application, and publishes it last.
IdleLoadsAlone ==
    \A t \in Task : /\ g_idle_task # Null
                    /\ loading[g_idle_task] = t
                    => allocated = {g_idle_task, t}

-----------------------------------------------------------------------------
\* The tasks that wait and the task that runs, as RoundRobin sees them.
RR == INSTANCE RoundRobin WITH
        queue <- QueueOf(rq),
        running <- IF IsRunning(current) THEN current ELSE Null

\* The linked list, the state fields and current_task_ implement the FIFO
\* round robin of RoundRobin, also when tasks are blocked and woken.
ImplementsRoundRobin == RR!Spec

-----------------------------------------------------------------------------
(***************************************************************************)
(* Liveness.  Timer ticks keep coming, and code that runs makes progress.  *)
(* An application is never preempted, so each one must keep calling Yield  *)
(* or end: the code cannot guarantee that, its programs must.              *)
(***************************************************************************)
Fairness ==
    /\ WF_vars(\E t \in Task : InitializeIdleTask(t))
    /\ WF_vars(Enable)
    /\ WF_vars(TimerHandler)
    /\ WF_vars(TaskExitSchedule)
    /\ \A c \in Task :
          /\ WF_vars(LoadSucceeds(c) \/ LoadFails(c))
          /\ SF_vars(Yield(c) \/ Exit(c) \/ TaskExit(c))

FairSpec == Spec /\ Fairness

\* Round robin starves nobody: a task in the ready queue gets the CPU.
EveryReadyTaskRuns == \A t \in Task : Queued(rq, t) ~> current = t

\* After an application has ended, some task runs again.
CpuNeverAbandoned == enabled /\ current = Null ~> current # Null
=============================================================================
