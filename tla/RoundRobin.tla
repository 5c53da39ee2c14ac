----------------------------- MODULE RoundRobin -----------------------------
(***************************************************************************)
(* What the scheduler promises, without lists, structures or flags: the    *)
(* tasks that wait for the CPU form a FIFO queue, at most one task runs,   *)
(* and whoever gets the CPU is the one that has waited longest.            *)
(***************************************************************************)
EXTENDS Naturals, Sequences

CONSTANTS Task, Null

VARIABLES
    queue,      \* the waiting tasks, the longest waiting one first
    running     \* the task that owns the CPU, or Null

vars == <<queue, running>>

Waiting == {queue[i] : i \in 1..Len(queue)}

Init == queue = <<>> /\ running = Null

\* A task that neither waits nor runs joins the end of the queue.
Enqueue(t) ==
    /\ t \notin Waiting
    /\ t # running
    /\ queue' = Append(queue, t)
    /\ UNCHANGED running

\* The CPU goes to the head of the queue; whoever had it joins the end.
Switch ==
    /\ queue # <<>>
    /\ running' = Head(queue)
    /\ queue' = IF running = Null THEN Tail(queue)
                ELSE Append(Tail(queue), running)

\* The running task gives up the CPU for good, or until it is enqueued again.
Stop ==
    /\ running # Null
    /\ running' = Null
    /\ UNCHANGED queue

\* A waiting task leaves the queue; the order of the others is kept.
Withdraw(t) ==
    /\ \E i \in 1..Len(queue) :
          /\ queue[i] = t
          /\ queue' = SubSeq(queue, 1, i - 1) \o SubSeq(queue, i + 1, Len(queue))
    /\ UNCHANGED running

Next ==
    \/ \E t \in Task : Enqueue(t) \/ Withdraw(t)
    \/ Switch
    \/ Stop

Spec == Init /\ [][Next]_vars
=============================================================================
