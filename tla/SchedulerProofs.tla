--------------------------- MODULE SchedulerProofs ---------------------------
(***************************************************************************)
(* Proofs about Scheduler, for any finite set of Task structures.          *)
(*                                                                         *)
(* ApiInv is inductive for ApiSpec: the invariants themselves, and what    *)
(* they lean on.  A structure that is free is not RUNNING (so Schedule may *)
(* forget current_task_ after TaskExit), and a task that CreateProcess     *)
(* holds is READY, outside the queue, not current, and held by one caller  *)
(* (so TerminateTask after a failed load disturbs nobody else).            *)
(***************************************************************************)
EXTENDS Scheduler, ReadyListProofs

FreeIsTerminated == \A t \in Task \ allocated : state[t] = "TERMINATED"

LoadingApart ==
    \A c \in Task : loading[c] # Null =>
        /\ c \in allocated
        /\ loading[c] \in allocated
        /\ state[loading[c]] = "READY"
        /\ ~Queued(rq, loading[c])
        /\ loading[c] # current
        /\ loading[loading[c]] = Null
        /\ \A d \in Task : loading[d] = loading[c] => d = c

ApiInv ==
    /\ TypeOK
    /\ QueueWellFormed
    /\ RunningIsCurrent
    /\ QueuedAreReady
    /\ NoTaskLost
    /\ TaskCountExact
    /\ FreeIsTerminated
    /\ LoadingApart

LEMMA ApiInvInit == Init => ApiInv
<1> SUFFICES ASSUME Init PROVE ApiInv
  OBVIOUS
<1>1. /\ rq \in ListType /\ WellFormed(rq)
      /\ \A t \in Task : ~Queued(rq, t)
  BY EmptyListLemma DEF Init
<1>2. TypeOK
  BY <1>1 DEF Init, TypeOK, TaskState, TaskOrNull
<1>3. TaskCountExact
  BY FS_EmptySet DEF Init, TaskCountExact
<1> QED
  BY <1>1, <1>2, <1>3
     DEF Init, ApiInv, QueueWellFormed, RunningIsCurrent, QueuedAreReady,
         NoTaskLost, FreeIsTerminated, LoadingApart

-----------------------------------------------------------------------------
(***************************************************************************)
(* A structure more or less.                                               *)
(***************************************************************************)
LEMMA CountUp ==
    ASSUME TypeOK, TaskCountExact, NEW t \in Task, t \notin allocated
    PROVE  task_count + 1 \in Nat /\ task_count + 1 = Cardinality(allocated \cup {t})
<1>1. IsFiniteSet(allocated)
  BY FS_Subset, TaskAssumption DEF TypeOK
<1>2. Cardinality(allocated \cup {t}) = Cardinality(allocated) + 1
  BY <1>1, FS_AddElement
<1> QED
  BY <1>2 DEF TypeOK, TaskCountExact

LEMMA CountDown ==
    ASSUME TypeOK, TaskCountExact, NEW t \in Task, t \in allocated
    PROVE  task_count - 1 \in Nat /\ task_count - 1 = Cardinality(allocated \ {t})
<1>1. IsFiniteSet(allocated)
  BY FS_Subset, TaskAssumption DEF TypeOK
<1>2. Cardinality(allocated \ {t}) = Cardinality(allocated) - 1
  BY <1>1, FS_RemoveElement
<1>3. Cardinality(allocated \ {t}) \in Nat
  BY <1>1, FS_CardinalityType, FS_RemoveElement
<1> QED
  BY <1>2, <1>3 DEF TypeOK, TaskCountExact

\* memset on a structure that is in no queue leaves the list as it is.
LEMMA FreshLinks ==
    ASSUME NEW q \in ListType, NEW t \in Task, ~Queued(q, t)
    PROVE  [q EXCEPT !.next[t] = Null, !.prev[t] = Null] = q
<1>1. q.next[t] = Null /\ q.prev[t] = Null
  BY DEF Queued
<1>2. [q.next EXCEPT ![t] = Null] = q.next /\ [q.prev EXCEPT ![t] = Null] = q.prev
  BY <1>1 DEF ListType
<1> QED
  BY <1>2 DEF ListType

-----------------------------------------------------------------------------
(***************************************************************************)
(* Schedule.  cur is current_task_, or Null when TaskExit has reset it.    *)
(***************************************************************************)
\* A Schedule that switches: the head, a live READY task, runs; a task that
\* was running joins the queue; nobody else moves.
LEMMA DispatchEffect ==
    ASSUME ApiInv, NEW voluntary \in BOOLEAN, NEW cur \in {current, Null},
           ~KeepsCPU(voluntary, cur), Schedule(voluntary, cur)
    PROVE  /\ rq.head \in Task /\ Queued(rq, rq.head) /\ rq.head # cur
           /\ current' = rq.head
           /\ state' = [t \in Task |-> IF t = rq.head THEN "RUNNING"
                                       ELSE IF IsRunning(cur) /\ t = cur THEN "READY"
                                       ELSE state[t]]
           /\ IsRunning(cur) => /\ cur \in Task /\ cur = current
                                /\ state[cur] = "RUNNING" /\ ~Queued(rq, cur)
           /\ rq' \in ListType /\ WellFormed(rq')
           /\ \A u \in Task :
                 Queued(rq', u)
                 <=> (Queued(rq, u) \/ (IsRunning(cur) /\ u = cur)) /\ u # rq.head
<1> USE DEF ApiInv
<1> DEFINE next == rq.head
           put == IsRunning(cur)
           requeued == IF put
                       THEN AddToReadyQueue(RemoveFromReadyQueue(rq, cur), cur)
                       ELSE rq
<1>1. /\ rq' = RemoveFromReadyQueue(requeued, next)
      /\ state' = [t \in Task |-> IF t = next THEN "RUNNING"
                                  ELSE IF put /\ t = cur THEN "READY"
                                  ELSE state[t]]
      /\ current' = next
  BY DEF Schedule, Dispatch, GetNextTask
<1>2. next \in Task /\ Queued(rq, next) /\ next # cur
  BY HeadLemma DEF KeepsCPU, GetNextTask, QueueWellFormed, TypeOK
<1>3. put => cur \in Task /\ cur = current /\ state[cur] = "RUNNING" /\ ~Queued(rq, cur)
  BY DEF IsRunning, RunningIsCurrent, TypeOK, TaskOrNull
<1>4. /\ requeued \in ListType /\ WellFormed(requeued)
      /\ \A u \in Task : Queued(requeued, u) <=> Queued(rq, u) \/ (put /\ u = cur)
  <2>1. CASE put
    <3>1. RemoveFromReadyQueue(rq, cur) = rq
      BY <1>3, <2>1, RemoveLemma DEF TypeOK, QueueWellFormed
    <3> QED
      BY <1>3, <2>1, <3>1, AddLemma DEF TypeOK, QueueWellFormed
  <2>2. CASE ~put
    BY <2>2 DEF TypeOK, QueueWellFormed
  <2> QED
    BY <2>1, <2>2
<1> HIDE DEF requeued, put
<1>5. /\ rq' \in ListType /\ WellFormed(rq')
      /\ \A u \in Task : Queued(rq', u)
                         <=> (Queued(rq, u) \/ (put /\ u = cur)) /\ u # next
  BY <1>1, <1>2, <1>4, RemoveLemma
<1> QED
  BY <1>1, <1>2, <1>3, <1>5 DEF put

LEMMA ScheduleKeepsInv ==
    ASSUME ApiInv, NEW voluntary \in BOOLEAN, NEW cur \in {current, Null},
           cur = Null => \A t \in Task : state[t] # "RUNNING",
           Schedule(voluntary, cur),
           UNCHANGED <<is_app, allocated, task_count, enabled, g_idle_task,
                       started, loading>>
    PROVE  ApiInv'
<1> USE DEF ApiInv
<1>1. CASE KeepsCPU(voluntary, cur)
  <2>1. current' = cur /\ rq' = rq /\ state' = state
    BY <1>1 DEF Schedule
  <2>2. cur \in TaskOrNull /\ (cur = Null \/ cur = current)
    BY DEF TypeOK, TaskOrNull
  <2>3. TypeOK'
    BY <2>1, <2>2 DEF TypeOK
  <2>4. RunningIsCurrent' /\ LoadingApart'
    BY <2>1, <2>2, TaskAssumption
       DEF RunningIsCurrent, LoadingApart, TypeOK, TaskOrNull, Queued
  <2> QED
    BY <2>1, <2>3, <2>4
       DEF QueueWellFormed, QueuedAreReady, NoTaskLost, TaskCountExact,
           FreeIsTerminated, Queued
<1>2. CASE ~KeepsCPU(voluntary, cur)
  <2> DEFINE next == rq.head
             put == IsRunning(cur)
  <2>2. next \in Task /\ Queued(rq, next) /\ next # cur
    BY <1>2, DispatchEffect
  <2>1. /\ state' = [t \in Task |-> IF t = next THEN "RUNNING"
                                    ELSE IF put /\ t = cur THEN "READY"
                                    ELSE state[t]]
        /\ current' = next
    BY <1>2, DispatchEffect
  <2>3. put => cur \in Task /\ cur = current /\ state[cur] = "RUNNING" /\ ~Queued(rq, cur)
    BY <1>2, DispatchEffect
  <2>5. /\ rq' \in ListType /\ WellFormed(rq')
        /\ \A u \in Task : Queued(rq', u)
                           <=> (Queued(rq, u) \/ (put /\ u = cur)) /\ u # next
    BY <1>2, DispatchEffect
  <2> HIDE DEF put
  <2>6. TypeOK'
    BY <2>1, <2>2, <2>5 DEF TypeOK, TaskState, TaskOrNull
  <2>7. RunningIsCurrent'
    <3>1. \A t \in Task : state[t] = "RUNNING" => put /\ t = cur
      BY <2>2 DEF put, IsRunning, RunningIsCurrent, TypeOK, TaskOrNull
    <3> QED
      BY <2>1, <2>2, <2>5, <3>1 DEF RunningIsCurrent
  <2>8. /\ next \in allocated /\ state[next] = "READY"
        /\ put => cur \in allocated
    BY <2>2, <2>3 DEF QueuedAreReady, FreeIsTerminated
  <2>9. QueuedAreReady'
    BY <2>1, <2>2, <2>3, <2>5, <2>8 DEF QueuedAreReady
  <2>10. NoTaskLost'
    BY <2>1, <2>2, <2>3, <2>5 DEF NoTaskLost, TypeOK
  <2>11. FreeIsTerminated'
    BY <2>1, <2>2, <2>3, <2>8 DEF FreeIsTerminated
  <2>12. LoadingApart'
    <3> SUFFICES ASSUME NEW c \in Task, loading[c] # Null
                 PROVE  /\ state'[loading[c]] = "READY"
                        /\ ~Queued(rq', loading[c])
                        /\ loading[c] # current'
      BY DEF LoadingApart
    <3>1. loading[c] \in Task
      BY DEF TypeOK, TaskOrNull
    <3>2. loading[c] # next
      BY <2>2 DEF LoadingApart
    <3>3. put => loading[c] # cur
      BY <2>3 DEF LoadingApart
    <3> QED
      BY <2>1, <2>5, <3>1, <3>2, <3>3 DEF LoadingApart
  <2>13. QueueWellFormed' /\ TaskCountExact'
    BY <2>5 DEF QueueWellFormed, TaskCountExact
  <2> QED
    BY <2>6, <2>7, <2>9, <2>10, <2>11, <2>12, <2>13
<1> QED
  BY <1>1, <1>2

-----------------------------------------------------------------------------
(***************************************************************************)
(* The steps that create, publish and end tasks.                           *)
(***************************************************************************)
LEMMA InitializeIdleTaskKeepsInv ==
    ASSUME ApiInv, NEW t \in Task, InitializeIdleTask(t)
    PROVE  ApiInv'
<1> USE DEF ApiInv, InitializeIdleTask
<1>1. t \notin allocated /\ ~Queued(rq, t) /\ state[t] = "TERMINATED"
  BY DEF QueuedAreReady, FreeIsTerminated
<1>2. rq' = AddToReadyQueue(rq, t)
  BY <1>1, FreshLinks DEF TypeOK
<1>3. /\ rq' \in ListType /\ WellFormed(rq')
      /\ \A u \in Task : Queued(rq', u) <=> Queued(rq, u) \/ u = t
  BY <1>2, AddLemma DEF TypeOK, QueueWellFormed
<1>4. TypeOK' /\ TaskCountExact'
  BY <1>1, <1>3, CountUp DEF TypeOK, TaskState, TaskOrNull, TaskCountExact
<1>5. RunningIsCurrent'
  BY <1>1, <1>3 DEF RunningIsCurrent, TypeOK
<1>6. QueuedAreReady'
  BY <1>3 DEF QueuedAreReady, TypeOK
<1>7. NoTaskLost'
  BY <1>3 DEF NoTaskLost, TypeOK
<1>8. FreeIsTerminated'
  BY DEF FreeIsTerminated, TypeOK
<1>9. LoadingApart'
  <2> SUFFICES ASSUME NEW c \in Task, loading[c] # Null
               PROVE  /\ state'[loading[c]] = "READY" /\ ~Queued(rq', loading[c])
                      /\ c \in allocated' /\ loading[c] \in allocated'
    BY DEF LoadingApart
  <2>1. loading[c] \in Task /\ loading[c] # t
    BY <1>1 DEF LoadingApart, TypeOK, TaskOrNull
  <2> QED
    BY <1>3, <2>1 DEF LoadingApart, TypeOK
<1> QED
  BY <1>3, <1>4, <1>5, <1>6, <1>7, <1>8, <1>9 DEF QueueWellFormed

LEMMA CreateProcessKeepsInv ==
    ASSUME ApiInv, NEW c \in Task, NEW t \in Task, CreateProcess(c, t)
    PROVE  ApiInv'
<1> USE DEF ApiInv, CreateProcess, CreateTask
<1>1. t \notin allocated /\ ~Queued(rq, t) /\ state[t] = "TERMINATED"
  BY DEF QueuedAreReady, FreeIsTerminated
<1>2. rq' = rq
  BY <1>1, FreshLinks DEF TypeOK
<1>3. /\ current = c /\ c \in allocated /\ loading[c] = Null /\ c # t
      /\ t # Null /\ current' = current
  BY <1>1, TaskAssumption DEF MayCreate, Executes
<1>4. TypeOK' /\ TaskCountExact'
  BY <1>1, <1>2, CountUp DEF TypeOK, TaskState, TaskOrNull, TaskCountExact
<1>5. RunningIsCurrent' /\ QueuedAreReady'
  BY <1>1, <1>2, <1>3 DEF RunningIsCurrent, QueuedAreReady, TypeOK, Queued
<1>6. NoTaskLost'
  <2>1. loading'[c] = t /\ \A d \in Task \ {c} : loading'[d] = loading[d]
    BY DEF TypeOK
  <2>2. ASSUME NEW u \in allocated', state'[u] = "READY", u # t
        PROVE  Queued(rq', u) \/ \E d \in Task : loading'[d] = u
    <3>1. u \in allocated /\ u \in Task /\ state[u] = "READY"
      BY <2>2 DEF TypeOK
    <3> QED
      BY <1>2, <1>3, <2>1, <3>1, TaskAssumption DEF NoTaskLost
  <2> QED
    BY <2>1, <2>2 DEF NoTaskLost
<1>7. FreeIsTerminated'
  BY DEF FreeIsTerminated, TypeOK
<1>8. LoadingApart'
  <2>1. loading'[c] = t /\ \A d \in Task \ {c} : loading'[d] = loading[d]
    BY DEF TypeOK
  <2>2. loading[t] = Null /\ \A d \in Task : loading[d] # t
    BY <1>1, <1>3 DEF LoadingApart, TypeOK
  <2>3. \A d \in Task : loading[d] # c
    BY <1>3, TaskAssumption DEF LoadingApart, TypeOK
  <2>4. state'[t] = "READY" /\ \A u \in Task \ {t} : state'[u] = state[u]
    BY DEF TypeOK
  <2>5. \A d \in Task : loading[d] # Null => loading[d] \in Task
    BY DEF TypeOK, TaskOrNull
  <2>6. allocated' = allocated \cup {t} /\ allocated \subseteq Task
    BY DEF TypeOK
  <2> SUFFICES ASSUME NEW d \in Task, loading'[d] # Null
               PROVE  /\ d \in allocated'
                      /\ loading'[d] \in allocated'
                      /\ state'[loading'[d]] = "READY"
                      /\ ~Queued(rq', loading'[d])
                      /\ loading'[d] # current'
                      /\ loading'[loading'[d]] = Null
                      /\ \A e \in Task : loading'[e] = loading'[d] => e = d
    BY DEF LoadingApart
  <2>7. CASE d = c
    BY <1>1, <1>2, <1>3, <2>1, <2>2, <2>4, <2>6, <2>7
  <2>8. CASE d # c
    <3>1. loading'[d] = loading[d] /\ loading[d] \in Task /\ loading[d] # t
          /\ loading[d] # c
      BY <2>1, <2>2, <2>3, <2>5, <2>8
    <3>2. /\ d \in allocated /\ loading[d] \in allocated
          /\ state[loading[d]] = "READY" /\ ~Queued(rq, loading[d])
          /\ loading[d] # current /\ loading[loading[d]] = Null
          /\ \A e \in Task : loading[e] = loading[d] => e = d
      BY <3>1, TaskAssumption DEF LoadingApart
    <3> QED
      BY <1>2, <1>3, <2>1, <2>4, <2>6, <3>1, <3>2
  <2> QED
    BY <2>7, <2>8
<1> HIDE DEF CreateProcess, CreateTask
<1>9. QueueWellFormed'
  BY <1>2 DEF QueueWellFormed
<1> QED
  BY <1>4, <1>5, <1>6, <1>7, <1>8, <1>9

LEMMA LoadSucceedsKeepsInv ==
    ASSUME ApiInv, NEW c \in Task, LoadSucceeds(c)
    PROVE  ApiInv'
<1> DEFINE t == loading[c]
<1> USE DEF ApiInv, LoadSucceeds, Publish
<1>1. /\ t \in Task /\ c \in allocated /\ t \in allocated /\ state[t] = "READY"
      /\ ~Queued(rq, t) /\ t # current /\ loading[t] = Null
      /\ \A d \in Task : loading[d] = t => d = c
  BY DEF LoadingApart, TypeOK, TaskOrNull
<1>2. /\ rq' \in ListType /\ WellFormed(rq')
      /\ \A u \in Task : Queued(rq', u) <=> Queued(rq, u) \/ u = t
  BY <1>1, AddLemma DEF TypeOK, QueueWellFormed
<1>3. state' = state
  BY <1>1 DEF TypeOK
<1>4. loading' = [loading EXCEPT ![c] = Null]
  OBVIOUS
<1>5. TypeOK' /\ TaskCountExact'
  BY <1>2, <1>3, <1>4 DEF TypeOK, TaskOrNull, TaskCountExact
<1>6. RunningIsCurrent' /\ QueuedAreReady' /\ FreeIsTerminated'
  BY <1>1, <1>2, <1>3 DEF RunningIsCurrent, QueuedAreReady, FreeIsTerminated
<1>7. NoTaskLost'
  BY <1>1, <1>2, <1>3, <1>4 DEF NoTaskLost, TypeOK
<1>8. LoadingApart'
  <2> SUFFICES ASSUME NEW d \in Task, loading'[d] # Null
               PROVE  /\ d \in allocated
                      /\ loading'[d] \in allocated
                      /\ state[loading'[d]] = "READY"
                      /\ ~Queued(rq', loading'[d])
                      /\ loading'[d] # current
                      /\ loading'[loading'[d]] = Null
                      /\ \A e \in Task : loading'[e] = loading'[d] => e = d
    BY <1>3 DEF LoadingApart
  <2>1. d # c /\ loading'[d] = loading[d] /\ loading[d] \in Task /\ loading[d] # t
    BY <1>1, <1>4 DEF TypeOK, TaskOrNull
  <2> QED
    BY <1>2, <1>4, <2>1 DEF LoadingApart, TypeOK
<1> QED
  BY <1>2, <1>5, <1>6, <1>7, <1>8 DEF QueueWellFormed

\* TerminateTask of a task that is current, or that only c's CreateProcess
\* knows; c then forgets it.
LEMMA TerminateKeepsInv ==
    ASSUME ApiInv, NEW t \in allocated, TerminateTask(t),
           loading[t] = Null,
           \A d \in Task : loading'[d] = IF loading[d] = t THEN Null ELSE loading[d],
           loading' \in [Task -> TaskOrNull],
           UNCHANGED <<current, enabled, g_idle_task, started>>
    PROVE  ApiInv'
<1> USE DEF ApiInv, TerminateTask
<1>1. t \in Task
  BY DEF TypeOK
<1>2. /\ rq' \in ListType /\ WellFormed(rq')
      /\ \A u \in Task : Queued(rq', u) <=> Queued(rq, u) /\ u # t
  BY <1>1, RemoveLemma DEF TypeOK, QueueWellFormed
<1>3. TypeOK' /\ TaskCountExact'
  BY <1>1, <1>2, CountDown DEF TypeOK, TaskState, TaskCountExact
<1>4. RunningIsCurrent' /\ QueuedAreReady' /\ FreeIsTerminated'
  BY <1>1, <1>2 DEF RunningIsCurrent, QueuedAreReady, FreeIsTerminated, TypeOK
<1>5. NoTaskLost'
  <2> SUFFICES ASSUME NEW u \in allocated', state'[u] = "READY"
               PROVE  Queued(rq', u) \/ \E d \in Task : loading'[d] = u
    BY DEF NoTaskLost
  <2>1. u \in allocated /\ u \in Task /\ u # t /\ state[u] = "READY"
    BY <1>1 DEF TypeOK
  <2>2. Queued(rq, u) \/ \E d \in Task : loading[d] = u
    BY <2>1 DEF NoTaskLost
  <2> QED
    BY <1>2, <2>1, <2>2
<1>6. LoadingApart'
  <2> SUFFICES ASSUME NEW d \in Task, loading'[d] # Null
               PROVE  /\ d \in allocated'
                      /\ loading'[d] \in allocated'
                      /\ state'[loading'[d]] = "READY"
                      /\ ~Queued(rq', loading'[d])
                      /\ loading'[d] # current
                      /\ loading'[loading'[d]] = Null
                      /\ \A e \in Task : loading'[e] = loading'[d] => e = d
    BY DEF LoadingApart
  <2>1. loading'[d] = loading[d] /\ loading[d] # t /\ loading[d] \in Task /\ d # t
    BY DEF TypeOK, TaskOrNull
  <2>2. /\ d \in allocated /\ loading[d] \in allocated
        /\ state[loading[d]] = "READY" /\ ~Queued(rq, loading[d])
        /\ loading[d] # current /\ loading[loading[d]] = Null
        /\ \A e \in Task : loading[e] = loading[d] => e = d
    BY <2>1, TaskAssumption DEF LoadingApart
  <2>3. state'[loading[d]] = state[loading[d]]
    BY <2>1 DEF TypeOK
  <2>4. loading'[loading[d]] = Null
    BY <2>1, <2>2
  <2>5. \A e \in Task : loading'[e] = loading[d] => e = d
    BY <2>1, <2>2, TaskAssumption
  <2> QED
    BY <1>2, <2>1, <2>2, <2>3, <2>4, <2>5
<1> QED
  BY <1>2, <1>3, <1>4, <1>5, <1>6 DEF QueueWellFormed

LEMMA LoadFailsKeepsInv ==
    ASSUME ApiInv, NEW c \in Task, LoadFails(c)
    PROVE  ApiInv'
<1> DEFINE t == loading[c]
<1>1. /\ t \in Task /\ t \in allocated /\ loading[t] = Null
      /\ \A d \in Task : loading[d] = t => d = c
  BY DEF ApiInv, LoadFails, LoadingApart, TypeOK, TaskOrNull
<1>2. \A d \in Task : loading'[d] = IF loading[d] = t THEN Null ELSE loading[d]
  BY <1>1 DEF ApiInv, LoadFails, TypeOK
<1>3. loading' \in [Task -> TaskOrNull]
  BY DEF ApiInv, LoadFails, TypeOK, TaskOrNull
<1> QED
  BY <1>1, <1>2, <1>3, TerminateKeepsInv DEF LoadFails

LEMMA TaskExitKeepsInv ==
    ASSUME ApiInv, NEW a \in Task, TaskExit(a)
    PROVE  ApiInv'
<1>1. a \in allocated /\ loading[a] = Null /\ a = current /\ TerminateTask(a)
  BY DEF TaskExit, IsUserCode, Executes
<1>2. loading' = loading /\ \A d \in Task : loading[d] # a
  BY <1>1, TaskAssumption DEF ApiInv, TaskExit, LoadingApart
<1> QED
  BY <1>1, <1>2, TerminateKeepsInv DEF ApiInv, TypeOK, TaskExit

\* Exit and BlockTask: a published task leaves the queue and changes state.
LEMMA LeaveKeepsInv ==
    ASSUME ApiInv, NEW t \in allocated, NEW st \in {"BLOCKED", "TERMINATED"},
           \A c \in Task : loading[c] # t,
           rq' = RemoveFromReadyQueue(rq, t),
           state' = [state EXCEPT ![t] = st],
           current' = current \/ (current' = Null /\ t = current),
           UNCHANGED <<is_app, allocated, task_count, enabled, g_idle_task,
                       started, loading>>
    PROVE  ApiInv'
<1> USE DEF ApiInv
<1>1. t \in Task
  BY DEF TypeOK
<1>2. /\ rq' \in ListType /\ WellFormed(rq')
      /\ \A u \in Task : Queued(rq', u) <=> Queued(rq, u) /\ u # t
  BY <1>1, RemoveLemma DEF TypeOK, QueueWellFormed
<1>3. /\ state'[t] = st /\ \A u \in Task \ {t} : state'[u] = state[u]
      /\ st # "READY" /\ st # "RUNNING"
  BY <1>1 DEF TypeOK
<1>4. TypeOK' /\ TaskCountExact'
  BY <1>1, <1>2 DEF TypeOK, TaskState, TaskOrNull, TaskCountExact
<1>5. RunningIsCurrent'
  BY <1>1, <1>2, <1>3 DEF RunningIsCurrent
<1>6. QueuedAreReady' /\ FreeIsTerminated'
  BY <1>1, <1>2, <1>3 DEF QueuedAreReady, FreeIsTerminated, TypeOK
<1>7. NoTaskLost'
  BY <1>1, <1>2, <1>3 DEF NoTaskLost, TypeOK
<1>8. LoadingApart'
  <2> SUFFICES ASSUME NEW c \in Task, loading[c] # Null
               PROVE  /\ state'[loading[c]] = "READY" /\ ~Queued(rq', loading[c])
                      /\ loading[c] # current'
    BY DEF LoadingApart
  <2>1. loading[c] \in Task /\ loading[c] # t
    BY DEF TypeOK, TaskOrNull
  <2> QED
    BY <1>2, <1>3, <2>1 DEF LoadingApart
<1> QED
  BY <1>2, <1>4, <1>5, <1>6, <1>7, <1>8 DEF QueueWellFormed

LEMMA WakeTaskKeepsInv ==
    ASSUME ApiInv, NEW t \in Task, WakeTask(t)
    PROVE  ApiInv'
<1> USE DEF ApiInv, WakeTask, Publish, Published
<1>1. t \in allocated /\ state[t] = "BLOCKED" /\ ~Queued(rq, t)
  BY DEF QueuedAreReady
<1>2. /\ rq' \in ListType /\ WellFormed(rq')
      /\ \A u \in Task : Queued(rq', u) <=> Queued(rq, u) \/ u = t
  BY AddLemma DEF TypeOK, QueueWellFormed
<1>3. state' = [state EXCEPT ![t] = "READY"]
  BY <1>1
<1>4. TypeOK' /\ TaskCountExact'
  BY <1>2, <1>3 DEF TypeOK, TaskState, TaskCountExact
<1>5. RunningIsCurrent' /\ QueuedAreReady' /\ FreeIsTerminated'
  BY <1>1, <1>2, <1>3
     DEF RunningIsCurrent, QueuedAreReady, FreeIsTerminated, TypeOK
<1>6. NoTaskLost'
  BY <1>2, <1>3 DEF NoTaskLost, TypeOK
<1>7. LoadingApart'
  <2> SUFFICES ASSUME NEW c \in Task, loading[c] # Null
               PROVE  state'[loading[c]] = "READY" /\ ~Queued(rq', loading[c])
    BY DEF LoadingApart
  <2>1. loading[c] \in Task /\ loading[c] # t
    BY DEF TypeOK, TaskOrNull
  <2> QED
    BY <1>2, <1>3, <2>1 DEF LoadingApart, TypeOK
<1> QED
  BY <1>2, <1>4, <1>5, <1>6, <1>7 DEF QueueWellFormed

LEMMA ApiInvStep == ApiInv /\ [ApiNext]_vars => ApiInv'
<1> SUFFICES ASSUME ApiInv, [ApiNext]_vars PROVE ApiInv'
  OBVIOUS
<1>1. ASSUME NEW t \in Task, InitializeIdleTask(t) PROVE ApiInv'
  BY <1>1, InitializeIdleTaskKeepsInv
<1>2. CASE Enable \/ Disable
  <2>1. /\ UNCHANGED <<rq, state, is_app, allocated, current, task_count,
                       g_idle_task, started, loading>>
        /\ enabled' \in BOOLEAN
    BY <1>2 DEF Enable, Disable
  <2>2. TypeOK'
    BY <2>1 DEF ApiInv, TypeOK
  <2> QED
    BY <2>1, <2>2
       DEF ApiInv, QueueWellFormed, RunningIsCurrent, QueuedAreReady, NoTaskLost,
           TaskCountExact, FreeIsTerminated, LoadingApart, Queued
<1>3. CASE TimerHandler
  <2>1. current = Null => \A t \in Task : state[t] # "RUNNING"
    BY TaskAssumption DEF ApiInv, RunningIsCurrent
  <2> QED
    BY <1>3, <2>1, ScheduleKeepsInv DEF TimerHandler
<1>4. ASSUME NEW c \in Task, NEW t \in Task, CreateProcess(c, t) PROVE ApiInv'
  BY <1>4, CreateProcessKeepsInv
<1>5. ASSUME NEW c \in Task, LoadSucceeds(c) PROVE ApiInv'
  BY <1>5, LoadSucceedsKeepsInv
<1>6. ASSUME NEW c \in Task, LoadFails(c) PROVE ApiInv'
  BY <1>6, LoadFailsKeepsInv
<1>7. ASSUME NEW a \in Task, Yield(a) PROVE ApiInv'
  <2>1. a = current /\ a # Null
    BY <1>7, TaskAssumption DEF Yield, IsUserCode, Executes
  <2> QED
    BY <1>7, <2>1, ScheduleKeepsInv DEF Yield
<1>8. ASSUME NEW a \in Task, Exit(a) PROVE ApiInv'
  <2>1. a \in allocated /\ a = current
    BY <1>8 DEF Exit, IsUserCode, Executes
  <2>2. \A c \in Task : loading[c] # a
    BY <2>1, TaskAssumption DEF ApiInv, LoadingApart
  <2> QED
    BY <1>8, <2>1, <2>2, LeaveKeepsInv DEF Exit
<1>9. ASSUME NEW a \in Task, TaskExit(a) PROVE ApiInv'
  BY <1>9, TaskExitKeepsInv
<1>10. CASE TaskExitSchedule
  <2>1. \A t \in Task : state[t] # "RUNNING"
    BY <1>10 DEF TaskExitSchedule, ApiInv, RunningIsCurrent, FreeIsTerminated
  <2> QED
    BY <1>10, <2>1, ScheduleKeepsInv DEF TaskExitSchedule
<1>11. ASSUME NEW t \in Task, BlockTask(t) PROVE ApiInv'
  BY <1>11, LeaveKeepsInv DEF BlockTask, Published
<1>12. ASSUME NEW t \in Task, WakeTask(t) PROVE ApiInv'
  BY <1>12, WakeTaskKeepsInv
<1>13. CASE UNCHANGED vars
  BY <1>13 DEF vars, ApiInv, TypeOK, QueueWellFormed, RunningIsCurrent,
         QueuedAreReady, NoTaskLost, TaskCountExact, FreeIsTerminated,
         LoadingApart, Queued
<1> QED
  BY <1>1, <1>2, <1>3, <1>4, <1>5, <1>6, <1>7, <1>8, <1>9, <1>10, <1>11, <1>12,
     <1>13 DEF ApiNext, Next

\* The inductive invariant holds for every use of the interface.
THEOREM ApiInvariant == ApiSpec => []ApiInv
BY ApiInvInit, ApiInvStep, PTL DEF ApiSpec

\* Every variable keeps its type.
THEOREM TypeCorrect == ApiSpec => []TypeOK
<1>1. ApiInv => TypeOK
  BY DEF ApiInv
<1> QED
  BY <1>1, ApiInvariant, PTL

\* The ready queue stays a proper doubly linked list, for any number of tasks
\* and any sequence of creations, switches, blocks, wakes and exits.
THEOREM ListStaysWellFormed == ApiSpec => []QueueWellFormed
<1>1. ApiInv => QueueWellFormed
  BY DEF ApiInv
<1> QED
  BY <1>1, ApiInvariant, PTL

\* One task at most is RUNNING, it is the current one and it is not queued;
\* Schedule dispatches only live READY tasks.
THEOREM OneRunningTask == ApiSpec => [](RunningIsCurrent /\ QueuedAreReady)
<1>1. ApiInv => RunningIsCurrent /\ QueuedAreReady
  BY DEF ApiInv
<1> QED
  BY <1>1, ApiInvariant, PTL

\* No READY task gets lost, and task_count_ is exact.
THEOREM NothingLost == ApiSpec => [](NoTaskLost /\ TaskCountExact)
<1>1. ApiInv => NoTaskLost /\ TaskCountExact
  BY DEF ApiInv
<1> QED
  BY <1>1, ApiInvariant, PTL

-----------------------------------------------------------------------------
(***************************************************************************)
(* Spec: what follows from who calls what.                                 *)
(*                                                                         *)
(* KernelInv adds to ApiInv that the current task is RUNNING unless it has *)
(* just released itself, that the idle task is live, and that before the   *)
(* shell is started there is nobody but the idle task and the task it is   *)
(* loading.                                                                *)
(***************************************************************************)
CurrentRuns ==
    current # Null => enabled /\ (current \in allocated => state[current] = "RUNNING")

StartOnce ==
    /\ g_idle_task = Null => allocated = {} /\ ~enabled
    /\ g_idle_task # Null /\ ~started =>
          allocated = {g_idle_task, loading[g_idle_task]} \ {Null}
    /\ started => g_idle_task # Null /\ loading[g_idle_task] = Null

IdleLive == g_idle_task # Null => g_idle_task \in allocated

KernelInv == ApiInv /\ CurrentRuns /\ StartOnce /\ IdleLive /\ IdleAlive

LEMMA KernelInvInit == Init => KernelInv
<1>1. Init => ApiInv
  BY ApiInvInit
<1> QED
  BY <1>1 DEF KernelInv, Init, CurrentRuns, StartOnce, IdleLive, IdleAlive

LEMMA ScheduleKeepsKernelInv ==
    ASSUME KernelInv, ApiInv', NEW voluntary \in BOOLEAN, NEW cur \in {current, Null},
           enabled,
           cur = Null => current = Null \/ current \notin allocated,
           Schedule(voluntary, cur),
           UNCHANGED <<is_app, allocated, task_count, enabled, g_idle_task,
                       started, loading>>
    PROVE  KernelInv'
<1> USE DEF KernelInv
<1>1. StartOnce' /\ IdleLive'
  BY DEF StartOnce, IdleLive
<1>2. CASE KeepsCPU(voluntary, cur)
  <2>1. current' = cur /\ rq' = rq /\ state' = state
    BY <1>2 DEF Schedule
  <2>2. CurrentRuns'
    BY <2>1 DEF CurrentRuns
  <2>3. IdleAlive'
    BY <2>1, TaskAssumption DEF IdleAlive, IdleLive, Queued
  <2> QED
    BY <1>1, <2>2, <2>3
<1>3. CASE ~KeepsCPU(voluntary, cur)
  <2> DEFINE next == rq.head
  <2>1. /\ next \in Task /\ next # cur /\ current' = next /\ state'[next] = "RUNNING"
        /\ \A u \in Task :
              Queued(rq', u)
              <=> (Queued(rq, u) \/ (IsRunning(cur) /\ u = cur)) /\ u # next
    BY <1>3, DispatchEffect
  <2>2. CurrentRuns'
    BY <2>1 DEF CurrentRuns
  <2>3. IdleAlive'
    <3> SUFFICES ASSUME g_idle_task # Null
                 PROVE  g_idle_task = next \/ Queued(rq', g_idle_task)
      BY <2>1 DEF IdleAlive
    <3>1. g_idle_task \in Task /\ g_idle_task \in allocated
      BY DEF IdleLive, ApiInv, TypeOK, TaskOrNull
    <3>2. CASE g_idle_task = current
      <4>1. cur = current /\ cur # Null
        BY <3>1, <3>2
      <4>2. IsRunning(cur)
        BY <3>1, <3>2, <4>1 DEF CurrentRuns, IsRunning
      <4> QED
        BY <2>1, <3>1, <3>2, <4>1, <4>2
    <3>3. CASE Queued(rq, g_idle_task)
      BY <2>1, <3>1, <3>3
    <3> QED
      BY <3>2, <3>3 DEF IdleAlive
  <2> QED
    BY <1>1, <2>2, <2>3
<1> QED
  BY <1>2, <1>3

\* Until the shell is started, whoever runs is the idle task.
LEMMA OnlyIdleBeforeStart ==
    ASSUME KernelInv, ~started, NEW c \in allocated, c = current
    PROVE  c = g_idle_task
BY DEF KernelInv, StartOnce, ApiInv, LoadingApart, TypeOK, TaskOrNull

LEMMA KernelInvStep == KernelInv /\ [Next]_vars => KernelInv'
<1> SUFFICES ASSUME KernelInv, [Next]_vars PROVE KernelInv'
  OBVIOUS
<1> USE DEF KernelInv
<1>1. ApiInv'
  BY ApiInvStep DEF ApiNext
<1>2. ASSUME NEW t \in Task, InitializeIdleTask(t) PROVE KernelInv'
  <2>1. /\ g_idle_task = Null /\ allocated = {} /\ current = Null /\ ~started
        /\ loading[t] = Null
    BY <1>2 DEF InitializeIdleTask, StartOnce, CurrentRuns, ApiInv, LoadingApart
  <2>2. /\ g_idle_task' = t /\ allocated' = {t} /\ current' = Null /\ started' = started
        /\ loading' = loading
    BY <1>2, <2>1 DEF InitializeIdleTask
  <2>3. t # Null
    BY TaskAssumption
  <2>4. ~Queued(rq, t)
    BY <2>1 DEF ApiInv, QueuedAreReady
  <2>5. Queued(rq', t)
    BY <1>2, <2>4, FreshLinks, AddLemma
       DEF InitializeIdleTask, ApiInv, TypeOK, QueueWellFormed
  <2> QED
    BY <1>1, <2>1, <2>2, <2>3, <2>5 DEF CurrentRuns, StartOnce, IdleLive, IdleAlive
<1>3. CASE Enable
  BY <1>1, <1>3 DEF Enable, CurrentRuns, StartOnce, IdleLive, IdleAlive, Queued
<1>4. CASE TimerHandler
  BY <1>1, <1>4, ScheduleKeepsKernelInv DEF TimerHandler
<1>5. ASSUME NEW c \in Task, NEW t \in Task, CreateProcess(c, t) PROVE KernelInv'
  <2>1. /\ c = current /\ c \in allocated /\ loading[c] = Null /\ c # t
        /\ c = g_idle_task => ~started
        /\ t \notin allocated /\ ~Queued(rq, t)
    BY <1>5 DEF CreateProcess, MayCreate, Executes, CreateTask, ApiInv, QueuedAreReady
  <2>2. /\ allocated' = allocated \cup {t}
        /\ loading' = [loading EXCEPT ![c] = t]
        /\ state' = [state EXCEPT ![t] = "READY"]
        /\ UNCHANGED <<current, enabled, g_idle_task, started>>
    BY <1>5 DEF CreateProcess, CreateTask
  <2>3. rq' = rq
    BY <1>5, <2>1, FreshLinks DEF CreateProcess, CreateTask, ApiInv, TypeOK
  <2>4. CurrentRuns' /\ IdleLive' /\ IdleAlive'
    BY <2>1, <2>2, <2>3
       DEF CurrentRuns, IdleLive, IdleAlive, Queued, ApiInv, TypeOK
  <2>5. StartOnce'
    <3>1. CASE started
      BY <2>1, <2>2, <3>1 DEF StartOnce, ApiInv, TypeOK, TaskOrNull
    <3>2. CASE ~started
      <4>1. c = g_idle_task
        BY <2>1, <3>2, OnlyIdleBeforeStart
      <4>2. allocated = {c}
        BY <2>1, <3>2, <4>1, TaskAssumption DEF StartOnce
      <4>3. loading'[c] = t /\ t # Null /\ c # Null
        BY <2>2, TaskAssumption DEF ApiInv, TypeOK
      <4> QED
        BY <2>2, <3>2, <4>1, <4>2, <4>3 DEF StartOnce
    <3> QED
      BY <3>1, <3>2
  <2> QED
    BY <1>1, <2>4, <2>5
<1>6. ASSUME NEW c \in Task, LoadSucceeds(c) PROVE KernelInv'
  <2>1. /\ c = current /\ c \in allocated /\ loading[c] \in Task
        /\ ~Queued(rq, loading[c]) /\ state[loading[c]] = "READY"
    BY <1>6 DEF LoadSucceeds, ApiInv, LoadingApart, TypeOK, TaskOrNull
  <2>2. /\ rq' = AddToReadyQueue(rq, loading[c])
        /\ state' = state
        /\ loading' = [loading EXCEPT ![c] = Null]
        /\ started' = (started \/ c = g_idle_task)
        /\ UNCHANGED <<allocated, current, enabled, g_idle_task>>
    BY <1>6, <2>1 DEF LoadSucceeds, Publish, ApiInv, TypeOK
  <2>3. \A u \in Task : Queued(rq, u) => Queued(rq', u)
    BY <2>1, <2>2, AddLemma DEF ApiInv, TypeOK, QueueWellFormed
  <2>4. CurrentRuns' /\ IdleLive' /\ IdleAlive'
    BY <2>2, <2>3 DEF CurrentRuns, IdleLive, IdleAlive, ApiInv, TypeOK, TaskOrNull
  <2>5. ~started => c = g_idle_task
    BY <2>1, OnlyIdleBeforeStart
  <2>6. g_idle_task # Null
    BY <2>1 DEF StartOnce
  <2>7. loading'[g_idle_task] = Null
    BY <2>2, <2>5, <2>6 DEF StartOnce, ApiInv, TypeOK, TaskOrNull
  <2> QED
    BY <1>1, <2>2, <2>4, <2>5, <2>6, <2>7 DEF StartOnce
<1>7. ASSUME NEW c \in Task, LoadFails(c) PROVE KernelInv'
  <2> DEFINE t == loading[c]
  <2>1. /\ c = current /\ c \in allocated /\ t \in Task /\ t \in allocated
        /\ ~Queued(rq, t) /\ t # current
    BY <1>7 DEF LoadFails, ApiInv, LoadingApart, TypeOK, TaskOrNull
  <2>2. /\ rq' = RemoveFromReadyQueue(rq, t)
        /\ state' = [state EXCEPT ![t] = "TERMINATED"]
        /\ allocated' = allocated \ {t}
        /\ loading' = [loading EXCEPT ![c] = Null]
        /\ UNCHANGED <<current, enabled, g_idle_task, started>>
    BY <1>7 DEF LoadFails, TerminateTask
  <2>3. rq' = rq
    BY <2>1, <2>2, RemoveLemma DEF ApiInv, TypeOK, QueueWellFormed
  <2>4. t # g_idle_task
    BY <2>1, TaskAssumption DEF IdleAlive
  <2>5. CurrentRuns' /\ IdleLive' /\ IdleAlive'
    BY <2>1, <2>2, <2>3, <2>4
       DEF CurrentRuns, IdleLive, IdleAlive, Queued, ApiInv, TypeOK
  <2>6. StartOnce'
    <3>1. CASE started
      BY <2>1, <2>2, <3>1, TaskAssumption DEF StartOnce, ApiInv, TypeOK, TaskOrNull
    <3>2. CASE ~started
      <4>1. c = g_idle_task
        BY <2>1, <3>2, OnlyIdleBeforeStart
      <4>2. allocated = {c, t} /\ c # Null /\ t # Null
        BY <2>1, <3>2, <4>1, TaskAssumption DEF StartOnce
      <4>3. allocated' = {c} /\ loading'[c] = Null
        BY <2>2, <2>4, <4>1, <4>2 DEF ApiInv, TypeOK
      <4> QED
        BY <2>2, <3>2, <4>1, <4>2, <4>3 DEF StartOnce
    <3> QED
      BY <3>1, <3>2
  <2> QED
    BY <1>1, <2>5, <2>6
<1>8. ASSUME NEW a \in Task, Yield(a) PROVE KernelInv'
  <2>1. a = current /\ a # Null /\ enabled
    BY <1>8, TaskAssumption DEF Yield, IsUserCode, Executes, CurrentRuns
  <2> QED
    BY <1>1, <1>8, <2>1, ScheduleKeepsKernelInv DEF Yield
<1>9. ASSUME NEW a \in Task, Exit(a) \/ TaskExit(a) PROVE KernelInv'
  <2>1. /\ a = current /\ a \in allocated /\ a # g_idle_task /\ a # Null /\ loading[a] = Null
        /\ rq' = RemoveFromReadyQueue(rq, a)
        /\ state' = [state EXCEPT ![a] = "TERMINATED"]
        /\ UNCHANGED <<enabled, g_idle_task, started, loading>>
    BY <1>9, TaskAssumption DEF Exit, TaskExit, IsUserCode, Executes, TerminateTask
  <2>2. started /\ g_idle_task # Null
    BY <2>1, OnlyIdleBeforeStart DEF StartOnce
  <2>3. \/ current' = Null /\ allocated' = allocated
        \/ current' = a /\ allocated' = allocated \ {a}
    BY <1>9, <2>1 DEF Exit, TaskExit, TerminateTask
  <2>4. \A u \in Task : Queued(rq', u) <=> Queued(rq, u) /\ u # a
    BY <2>1, RemoveLemma DEF ApiInv, TypeOK, QueueWellFormed
  <2>5. CurrentRuns'
    BY <2>1, <2>3 DEF CurrentRuns
  <2>6. IdleLive' /\ IdleAlive'
    BY <2>1, <2>3, <2>4 DEF IdleLive, IdleAlive, ApiInv, TypeOK, TaskOrNull
  <2>7. StartOnce'
    BY <2>1, <2>2 DEF StartOnce
  <2> QED
    BY <1>1, <2>5, <2>6, <2>7
<1>10. CASE TaskExitSchedule
  <2>1. enabled
    BY <1>10 DEF TaskExitSchedule, CurrentRuns
  <2> QED
    BY <1>1, <1>10, <2>1, ScheduleKeepsKernelInv DEF TaskExitSchedule
<1>11. CASE UNCHANGED vars
  BY <1>1, <1>11 DEF vars, CurrentRuns, StartOnce, IdleLive, IdleAlive, Queued
<1> QED
  BY <1>2, <1>3, <1>4, <1>5, <1>6, <1>7, <1>8, <1>9, <1>10, <1>11 DEF Next

THEOREM KernelInvariant == Spec => []KernelInv
BY KernelInvInit, KernelInvStep, PTL DEF Spec

\* The idle task is always running or in the ready queue.
THEOREM IdleNeverLost == Spec => []IdleAlive
<1>1. KernelInv => IdleAlive
  BY DEF KernelInv
<1> QED
  BY <1>1, KernelInvariant, PTL

\* The Schedule at the end of TaskExit never returns to the released stack.
THEOREM TaskExitDoesNotReturn == Spec => []TaskExitNeverReturns
<1>1. KernelInv => TaskExitNeverReturns
  <2> SUFFICES ASSUME KernelInv, current # Null, current \notin allocated
               PROVE  ~KeepsCPU(FALSE, Null)
    BY DEF TaskExitNeverReturns
  <2>1. enabled
    BY DEF KernelInv, CurrentRuns
  <2>2. g_idle_task # Null
    BY <2>1 DEF KernelInv, StartOnce
  <2>3. g_idle_task \in Task /\ Queued(rq, g_idle_task)
    BY <2>2 DEF KernelInv, IdleLive, IdleAlive, ApiInv, TypeOK
  <2>4. rq.head # Null
    BY <2>3, HeadLemma DEF KernelInv, ApiInv, TypeOK, QueueWellFormed
  <2> QED
    BY <2>1, <2>4 DEF KeepsCPU, GetNextTask, IsRunning
<1> QED
  BY <1>1, KernelInvariant, PTL

\* While the idle task loads a program there is no other task that could be
\* inside the memory manager or the file system.
THEOREM IdleLoadsWithoutCompany == Spec => []IdleLoadsAlone
<1>1. KernelInv => IdleLoadsAlone
  <2> SUFFICES ASSUME KernelInv, NEW t \in Task, g_idle_task # Null,
                      loading[g_idle_task] = t
               PROVE  allocated = {g_idle_task, t}
    BY DEF IdleLoadsAlone
  <2>1. t # Null
    BY TaskAssumption
  <2> QED
    BY <2>1 DEF KernelInv, StartOnce
<1> QED
  BY <1>1, KernelInvariant, PTL

-----------------------------------------------------------------------------
(***************************************************************************)
(* The refinement of RoundRobin.  Runs is what it calls running, and each  *)
(* step below is one of its steps, or changes neither Runs nor the queue.  *)
(***************************************************************************)
Runs == IF IsRunning(current) THEN current ELSE Null

LEMMA WaitingIsQueued ==
    ASSUME ApiInv
    PROVE  \A t \in Task : t \in RR!Waiting <=> Queued(rq, t)
<1>1. rq \in ListType /\ WellFormed(rq)
  BY DEF ApiInv, TypeOK, QueueWellFormed
<1>2. RR!Waiting = Elements(QueueOf(rq))
  BY DEF RR!Waiting, Elements
<1> QED
  BY <1>1, <1>2, QueueRepresented

\* Joining the queue.
LEMMA EnqueueSimulated ==
    ASSUME ApiInv, NEW t \in Task, ~Queued(rq, t), t # Runs,
           rq' = AddToReadyQueue(rq, t), Runs' = Runs
    PROVE  RR!Next
<1>1. QueueOf(rq') = Append(QueueOf(rq), t)
  BY AddAppends DEF ApiInv, TypeOK, QueueWellFormed
<1>2. t \notin RR!Waiting
  BY WaitingIsQueued
<1>3. RR!Enqueue(t)
  BY <1>1, <1>2 DEF RR!Enqueue, Runs
<1> QED
  BY <1>3 DEF RR!Next

\* Leaving the queue or the CPU.
LEMMA LeaveSimulated ==
    ASSUME ApiInv, NEW t \in Task, rq' = RemoveFromReadyQueue(rq, t),
           Runs' = IF Runs = t THEN Null ELSE Runs
    PROVE  RR!Next \/ UNCHANGED RR!vars
<1>1. rq \in ListType /\ WellFormed(rq) /\ t # Null
  BY TaskAssumption DEF ApiInv, TypeOK, QueueWellFormed
<1>2. CASE Queued(rq, t)
  <2> DEFINE s == QueueOf(rq)
  <2>1. s \in Seq(Task) /\ Represents(rq, s)
    BY <1>1, QueueRepresented
  <2>2. PICK k \in 1..Len(s) : s[k] = t /\ QueueOf(rq') = Without(s, k)
    BY <1>1, <1>2, RemoveTakesOut
  <2>3. Runs # t
    BY <1>1, <1>2, TaskAssumption DEF Runs, IsRunning, ApiInv, RunningIsCurrent
  <2> HIDE DEF s
  <2>4. Without(s, k) = SubSeq(s, 1, k - 1) \o SubSeq(s, k + 1, Len(s))
    <3> DEFINE a == SubSeq(s, 1, k - 1)
               b == SubSeq(s, k + 1, Len(s))
    <3>1. Len(s) \in Nat /\ k \in Nat
      BY <2>1
    <3>2. a \in Seq(Task) /\ Len(a) = k - 1 /\ \A i \in 1..(k - 1) : a[i] = s[i]
      BY <2>1, <2>2, <3>1
    <3>3. b \in Seq(Task) /\ Len(b) = Len(s) - k /\ \A i \in 1..(Len(s) - k) : b[i] = s[k + i]
      BY <2>1, <2>2, <3>1
    <3> HIDE DEF a, b
    <3>4. /\ a \o b \in Seq(Task) /\ Len(a \o b) = Len(s) - 1
          /\ \A i \in 1..(Len(s) - 1) : (a \o b)[i] = IF i < k THEN s[i] ELSE s[i + 1]
      <4>1. a \o b \in Seq(Task) /\ Len(a \o b) = Len(a) + Len(b)
        BY <3>2, <3>3, ConcatProperties
      <4>2. \A i \in 1..Len(a) + Len(b) : (a \o b)[i] = IF i <= Len(a) THEN a[i] ELSE b[i - Len(a)]
        BY <3>2, <3>3
      <4>3. ASSUME NEW i \in 1..(Len(s) - 1)
            PROVE  (a \o b)[i] = IF i < k THEN s[i] ELSE s[i + 1]
        <5>1. CASE i < k
          BY <2>2, <3>1, <3>2, <3>3, <4>2, <5>1
        <5>2. CASE ~(i < k)
          <6>1. (a \o b)[i] = b[i - (k - 1)] /\ i - (k - 1) \in 1..(Len(s) - k)
            BY <2>2, <3>1, <3>2, <3>3, <4>2, <5>2
          <6>2. k + (i - (k - 1)) = i + 1
            BY <3>1
          <6> QED
            BY <3>3, <5>2, <6>1, <6>2
        <5> QED
          BY <5>1, <5>2
      <4> QED
        BY <3>1, <3>2, <3>3, <4>1, <4>3
    <3>5. /\ Without(s, k) \in Seq(Task) /\ Len(Without(s, k)) = Len(s) - 1
          /\ \A i \in 1..(Len(s) - 1) : Without(s, k)[i] = IF i < k THEN s[i] ELSE s[i + 1]
      BY <2>1, <2>2, WithoutProperties DEF Represents
    <3>6. a \o b = Without(s, k)
      BY <3>1, <3>4, <3>5, SeqEqual
    <3> QED
      BY <3>6 DEF a, b
  <2>5. RR!Withdraw(t)
    <3>1. Runs' = Runs
      BY <2>3
    <3> QED
      BY <2>2, <2>4, <3>1 DEF RR!Withdraw, Runs, s
  <2> QED
    BY <2>5 DEF RR!Next
<1>3. CASE ~Queued(rq, t)
  <2>1. rq' = rq
    BY <1>1, <1>3, RemoveLemma
  <2>2. CASE Runs = t
    <3>1. RR!Stop
      BY <1>1, <2>1, <2>2 DEF RR!Stop, Runs
    <3> QED
      BY <3>1 DEF RR!Next
  <2>3. CASE Runs # t
    BY <2>1, <2>3 DEF RR!vars, Runs
  <2> QED
    BY <2>2, <2>3
<1> QED
  BY <1>2, <1>3

\* Schedule hands the CPU to the longest waiting task, or keeps it.
LEMMA ScheduleSimulated ==
    ASSUME ApiInv, NEW voluntary \in BOOLEAN, NEW cur \in {current, Null},
           cur = Null => Runs = Null, Schedule(voluntary, cur)
    PROVE  RR!Next \/ UNCHANGED RR!vars
<1> DEFINE put == IsRunning(cur)
<1>0. /\ rq \in ListType /\ WellFormed(rq) /\ current \in TaskOrNull
      /\ state \in [Task -> TaskState]
  BY DEF ApiInv, TypeOK, QueueWellFormed
<1>1. Runs = IF put THEN cur ELSE Null
  BY DEF Runs, IsRunning
<1>2. CASE KeepsCPU(voluntary, cur)
  <2>1. rq' = rq /\ state' = state /\ current' = cur
    BY <1>2 DEF Schedule
  <2>2. Runs' = IF put THEN cur ELSE Null
    BY <2>1 DEF Runs, IsRunning
  <2> QED
    BY <1>1, <2>1, <2>2 DEF RR!vars, Runs
<1>3. CASE ~KeepsCPU(voluntary, cur)
  <2> DEFINE next == rq.head
             s == QueueOf(rq)
  <2>1. /\ next \in Task /\ next # cur /\ current' = next
        /\ state' = [t \in Task |-> IF t = next THEN "RUNNING"
                                    ELSE IF put /\ t = cur THEN "READY"
                                    ELSE state[t]]
        /\ put => cur \in Task /\ ~Queued(rq, cur)
    BY <1>3, DispatchEffect
  <2>2. next # Null
    BY <2>1, TaskAssumption
  <2>3. Runs' = next
    BY <2>1, <2>2 DEF Runs, IsRunning
  <2>4. s \in Seq(Task) /\ s # <<>> /\ Head(s) = next /\ Represents(rq, s)
    BY <1>0, <2>2, RemoveHeadTakesFirst, QueueRepresented
  <2>5. QueueOf(rq') = IF put THEN Append(Tail(s), cur) ELSE Tail(s)
    <3>1. CASE ~put
      <4>1. rq' = RemoveFromReadyQueue(rq, next)
        BY <1>3, <3>1 DEF Schedule, Dispatch, GetNextTask
      <4> QED
        BY <1>0, <2>2, <3>1, <4>1, RemoveHeadTakesFirst
    <3>2. CASE put
      <4> DEFINE r == AddToReadyQueue(rq, cur)
      <4>1. RemoveFromReadyQueue(rq, cur) = rq
        BY <1>0, <2>1, <3>2, RemoveLemma
      <4>2. rq' = RemoveFromReadyQueue(r, next)
        BY <1>3, <3>2, <4>1 DEF Schedule, Dispatch, GetNextTask
      <4>3. r \in ListType /\ WellFormed(r) /\ QueueOf(r) = Append(s, cur)
        BY <1>0, <2>1, <3>2, AddLemma, AddAppends
      <4>4. r.head = next
        <5>1. Represents(r, Append(s, cur))
          BY <4>3, QueueRepresented
        <5>2. Append(s, cur)[1] = s[1] /\ Len(Append(s, cur)) # 0 /\ s[1] = next
          BY <2>1, <2>4, <3>2
        <5> QED
          BY <5>1, <5>2 DEF Represents
      <4> HIDE DEF r, s
      <4>5. QueueOf(rq') = Tail(Append(s, cur))
        BY <2>2, <4>2, <4>3, <4>4, RemoveHeadTakesFirst
      <4>6. Tail(Append(s, cur)) = Append(Tail(s), cur)
        BY <2>1, <2>4, <3>2
      <4> QED
        BY <3>2, <4>5, <4>6
    <3> QED
      BY <3>1, <3>2
  <2>6. RR!Switch
    <3>1. Runs = Null <=> ~put
      BY <1>1, <2>1, TaskAssumption
    <3>2. QueueOf(rq') = IF Runs = Null THEN Tail(s) ELSE Append(Tail(s), Runs)
      BY <1>1, <2>5, <3>1
    <3> QED
      BY <2>3, <2>4, <3>2 DEF RR!Switch, Runs
  <2> QED
    BY <2>6 DEF RR!Next
<1> QED
  BY <1>2, <1>3

LEMMA PublishSimulated ==
    ASSUME ApiInv, NEW t \in Task, state[t] # "RUNNING", Publish(t), current' = current
    PROVE  RR!Next \/ UNCHANGED RR!vars
<1>1. t # Runs
  BY TaskAssumption DEF Runs, IsRunning
<1>2. CASE Queued(rq, t)
  BY <1>2 DEF Publish, AddToReadyQueue, RR!vars, IsRunning
<1>3. CASE ~Queued(rq, t)
  <2>1. rq' = AddToReadyQueue(rq, t) /\ state' = [state EXCEPT ![t] = "READY"]
    BY <1>3 DEF Publish
  <2>2. Runs' = Runs
    BY <2>1 DEF Runs, IsRunning, ApiInv, TypeOK, TaskOrNull
  <2> QED
    BY <1>1, <1>3, <2>1, <2>2, EnqueueSimulated
<1> QED
  BY <1>2, <1>3

\* A task that ends or blocks.
LEMMA EndSimulated ==
    ASSUME ApiInv, NEW t \in Task, rq' = RemoveFromReadyQueue(rq, t),
           NEW st, st # "RUNNING", state' = [state EXCEPT ![t] = st],
           current' = current \/ (t = current /\ current' = Null)
    PROVE  RR!Next \/ UNCHANGED RR!vars
<1>1. Runs' = IF Runs = t THEN Null ELSE Runs
  <2>1. current \in TaskOrNull /\ state \in [Task -> TaskState] /\ Null \notin Task
    BY TaskAssumption DEF ApiInv, TypeOK
  <2> QED
    BY <2>1 DEF Runs, IsRunning, TaskOrNull
<1> QED
  BY <1>1, LeaveSimulated

\* A structure that was free, and is handed out: it is not what runs.
LEMMA HandOutSimulated ==
    ASSUME ApiInv, NEW t \in Task, t \notin allocated, current' = current,
           state' = [state EXCEPT ![t] = "READY"]
    PROVE  Runs' = Runs /\ t # Runs /\ ~Queued(rq, t)
<1>1. state[t] = "TERMINATED" /\ ~Queued(rq, t)
  BY DEF ApiInv, FreeIsTerminated, QueuedAreReady
<1>2. current \in TaskOrNull /\ state \in [Task -> TaskState] /\ Null \notin Task
  BY TaskAssumption DEF ApiInv, TypeOK
<1> QED
  BY <1>1, <1>2 DEF Runs, IsRunning, TaskOrNull

LEMMA StepSimulated == ApiInv /\ [ApiNext]_vars => RR!Next \/ UNCHANGED RR!vars
<1> SUFFICES ASSUME ApiInv, [ApiNext]_vars PROVE RR!Next \/ UNCHANGED RR!vars
  OBVIOUS
<1>0. rq \in ListType /\ loading \in [Task -> TaskOrNull]
  BY DEF ApiInv, TypeOK
<1>1. ASSUME NEW t \in Task, InitializeIdleTask(t) PROVE RR!Next
  <2>1. Runs' = Runs /\ t # Runs /\ ~Queued(rq, t)
    BY <1>1, HandOutSimulated DEF InitializeIdleTask
  <2>2. rq' = AddToReadyQueue(rq, t)
    BY <1>0, <1>1, <2>1, FreshLinks DEF InitializeIdleTask
  <2> QED
    BY <2>1, <2>2, EnqueueSimulated
<1>2. CASE Enable \/ Disable \/ UNCHANGED vars
  BY <1>2 DEF Enable, Disable, vars, RR!vars, IsRunning
<1>3. CASE TimerHandler
  <2>1. Schedule(FALSE, current) /\ (current = Null => Runs = Null)
    BY <1>3 DEF TimerHandler, Runs, IsRunning
  <2> QED
    BY <2>1, ScheduleSimulated
<1>4. ASSUME NEW c \in Task, NEW t \in Task, CreateProcess(c, t) PROVE UNCHANGED RR!vars
  <2>1. Runs' = Runs /\ ~Queued(rq, t)
    BY <1>4, HandOutSimulated DEF CreateProcess, CreateTask
  <2>2. rq' = rq
    BY <1>0, <1>4, <2>1, FreshLinks DEF CreateProcess, CreateTask
  <2> QED
    BY <2>1, <2>2 DEF RR!vars, Runs
<1>5. ASSUME NEW c \in Task, LoadSucceeds(c) PROVE RR!Next \/ UNCHANGED RR!vars
  <2>1. loading[c] \in Task /\ state[loading[c]] = "READY"
    BY <1>0, <1>5 DEF LoadSucceeds, ApiInv, LoadingApart, TaskOrNull
  <2> QED
    BY <1>5, <2>1, PublishSimulated DEF LoadSucceeds
<1>6. ASSUME NEW c \in Task, LoadFails(c) PROVE RR!Next \/ UNCHANGED RR!vars
  <2>1. loading[c] \in Task
    BY <1>0, <1>6 DEF LoadFails, TaskOrNull
  <2> QED
    BY <1>6, <2>1, EndSimulated DEF LoadFails, TerminateTask
<1>7. ASSUME NEW a \in Task, Yield(a) PROVE RR!Next \/ UNCHANGED RR!vars
  <2>1. Schedule(TRUE, current) /\ (current = Null => Runs = Null)
    BY <1>7 DEF Yield, IsUserCode, Executes, Runs, IsRunning
  <2> QED
    BY <2>1, ScheduleSimulated
<1>8. ASSUME NEW a \in Task, Exit(a) PROVE RR!Next \/ UNCHANGED RR!vars
  BY <1>8, EndSimulated DEF Exit, IsUserCode, Executes
<1>9. ASSUME NEW a \in Task, TaskExit(a) PROVE RR!Next \/ UNCHANGED RR!vars
  BY <1>9, EndSimulated DEF TaskExit, TerminateTask
<1>10. CASE TaskExitSchedule
  <2>1. Schedule(FALSE, Null) /\ current \notin allocated
    BY <1>10 DEF TaskExitSchedule
  <2>2. Runs = Null
    BY <2>1 DEF Runs, IsRunning, ApiInv, FreeIsTerminated, TypeOK, TaskOrNull
  <2> QED
    BY <2>1, <2>2, ScheduleSimulated
<1>11. ASSUME NEW t \in Task, BlockTask(t) PROVE RR!Next \/ UNCHANGED RR!vars
  BY <1>11, EndSimulated DEF BlockTask
<1>12. ASSUME NEW t \in Task, WakeTask(t) PROVE RR!Next \/ UNCHANGED RR!vars
  BY <1>12, PublishSimulated DEF WakeTask
<1> QED
  BY <1>1, <1>2, <1>3, <1>4, <1>5, <1>6, <1>7, <1>8, <1>9, <1>10, <1>11, <1>12
     DEF ApiNext, Next

\* The intrusive list, the state fields and current_task_ implement a FIFO queue
\* and one running task, whatever the callers of the interface do: Schedule
\* always runs the task that has waited longest, and every other step enqueues
\* one task, takes one out or leaves both alone.
THEOREM SchedulerIsRoundRobin == ApiSpec => ImplementsRoundRobin
<1>1. Init => RR!Init
  <2> SUFFICES ASSUME Init PROVE RR!Init
    OBVIOUS
  <2>1. Represents(EmptyList, <<>>) /\ <<>> \in Seq(Task)
    BY DEF Represents, EmptyList, Elements, Distinct
  <2>2. QueueOf(rq) = <<>>
    BY <2>1, QueueIs DEF Init
  <2> QED
    BY <2>2 DEF RR!Init, Init, IsRunning
<1>2. ApiInv /\ [ApiNext]_vars => [RR!Next]_(RR!vars)
  BY StepSimulated
<1> QED
  BY <1>1, <1>2, ApiInvariant, PTL DEF ApiSpec, ImplementsRoundRobin, RR!Spec
=============================================================================
