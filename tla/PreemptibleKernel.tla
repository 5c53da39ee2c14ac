-------------------------- MODULE PreemptibleKernel --------------------------
(***************************************************************************)
(* Scheduler with TaskExit taken apart where it changes the ready queue    *)
(* with interrupts enabled: it calls Schedule() without the cli of         *)
(* Scheduler::Yield, so the timer may come between                         *)
(* RemoveFromReadyQueue(next) and SetCurrentTask(next).  The interrupted   *)
(* call is never resumed: its registers go to dummy_context.               *)
(***************************************************************************)
EXTENDS Scheduler

VARIABLES
    dispatching     \* the task TaskExit has taken from the queue to run next

pvars == <<vars, dispatching>>

PInit == Init /\ dispatching = Null

\* TaskExit after TerminateTask: SetCurrentTask(nullptr), then Schedule() up
\* to RemoveFromReadyQueue(next).
TaskExitTakesNext ==
    /\ current # Null /\ current \notin allocated
    /\ ~KeepsCPU(FALSE, Null)
    /\ current' = Null
    /\ dispatching' = GetNextTask(rq)
    /\ rq' = RemoveFromReadyQueue(rq, GetNextTask(rq))
    /\ UNCHANGED <<state, is_app, allocated, task_count, enabled, g_idle_task,
                   started, loading>>

\* The rest of that Schedule().
TaskExitRunsNext ==
    /\ dispatching # Null
    /\ state' = [state EXCEPT ![dispatching] = "RUNNING"]
    /\ current' = dispatching
    /\ dispatching' = Null
    /\ UNCHANGED <<rq, is_app, allocated, task_count, enabled, g_idle_task,
                   started, loading>>

\* A tick that switches tasks abandons an interrupted TaskExit.
TickDuringTaskExit ==
    /\ TimerHandler
    /\ dispatching' = IF current' = current THEN dispatching ELSE Null

\* What runs with interrupts off, or on behalf of an application that no tick
\* preempts, or touches no shared list.
Unsplit ==
    /\ \/ \E t \in Task : InitializeIdleTask(t)
       \/ Enable
       \/ \E c, t \in Task : CreateProcess(c, t)
       \/ \E c \in Task : LoadSucceeds(c) \/ LoadFails(c)
       \/ \E a \in Task : Yield(a) \/ Exit(a) \/ TaskExit(a)
    /\ UNCHANGED dispatching

\* Ticks anywhere in TaskExit.
TaskExitNext ==
    \/ TaskExitTakesNext
    \/ TaskExitRunsNext
    \/ TickDuringTaskExit
    \/ Unsplit

TaskExitSpec == PInit /\ [][TaskExitNext]_pvars

-----------------------------------------------------------------------------
\* "Idle task: waits with hlt and is woken by the timer interrupt": the idle
\* task runs, waits in the ready queue, or is just being switched to.
IdleStaysSchedulable ==
    g_idle_task # Null =>
        g_idle_task \in {current, dispatching} \/ Queued(rq, g_idle_task)
=============================================================================
