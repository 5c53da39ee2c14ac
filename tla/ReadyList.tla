------------------------------ MODULE ReadyList ------------------------------
(***************************************************************************)
(* The ready queue of kernel/task/task_manager.cpp: an intrusive doubly    *)
(* linked list.  Its value is a record: the static members                 *)
(* ready_queue_head_ and ready_queue_tail_, and the next and prev fields   *)
(* of every Task structure.                                                *)
(*                                                                         *)
(* The operators are the C++ functions as value transformers: they take a  *)
(* list value and return the list value the function leaves behind.        *)
(***************************************************************************)
EXTENDS Naturals, Sequences, FiniteSets

CONSTANTS
    Task,       \* addresses a Task structure may have
    Null        \* nullptr

ASSUME TaskAssumption == IsFiniteSet(Task) /\ Null \notin Task

TaskOrNull == Task \cup {Null}

ListType == [head : TaskOrNull, tail : TaskOrNull,
             next : [Task -> TaskOrNull], prev : [Task -> TaskOrNull]]

\* TaskManager::Initialize: an empty list, and no structure carries a link.
EmptyList == [head |-> Null, tail |-> Null,
              next |-> [t \in Task |-> Null], prev |-> [t \in Task |-> Null]]

-----------------------------------------------------------------------------
\* The test by which AddToReadyQueue recognises a task that is queued already.
Queued(q, t) == q.next[t] # Null \/ q.prev[t] # Null \/ t = q.head

\* Mutant: the task is pushed in front instead of appended.
LinkAtHead(q, t) ==
    [head |-> t,
     tail |-> IF q.head # Null THEN q.tail ELSE t,
     next |-> [q.next EXCEPT ![t] = q.head],
     prev |-> [u \in Task |-> IF u = q.head THEN t
                              ELSE IF u = t THEN Null ELSE q.prev[u]]]

\* The stores of AddToReadyQueue once that test has failed.
Link(q, t) ==
    [head |-> IF q.tail # Null THEN q.head ELSE t,
     tail |-> t,
     next |-> [u \in Task |-> IF u = q.tail THEN t
                              ELSE IF u = t THEN Null ELSE q.next[u]],
     prev |-> [q.prev EXCEPT ![t] = q.tail]]

AddToReadyQueue(q, t) == IF Queued(q, t) THEN q ELSE Link(q, t)

\* Mutant: the tail is not moved when the last task leaves.
RemoveKeepingTail(q, t) ==
    LET n == q.next[t]
        p == q.prev[t]
    IN [head |-> IF t = q.head THEN n ELSE q.head,
        tail |-> q.tail,
        next |-> [u \in Task |-> IF u = t THEN Null
                                 ELSE IF u = p THEN n ELSE q.next[u]],
        prev |-> [u \in Task |-> IF u = t THEN Null
                                 ELSE IF u = n THEN p ELSE q.prev[u]]]

RemoveFromReadyQueue(q, t) ==
    LET n == q.next[t]
        p == q.prev[t]
    IN [head |-> IF t = q.head THEN n ELSE q.head,
        tail |-> IF t = q.tail THEN p ELSE q.tail,
        next |-> [u \in Task |-> IF u = t THEN Null
                                 ELSE IF u = p THEN n ELSE q.next[u]],
        prev |-> [u \in Task |-> IF u = t THEN Null
                                 ELSE IF u = n THEN p ELSE q.prev[u]]]

GetNextTask(q) == q.head

-----------------------------------------------------------------------------
(***************************************************************************)
(* The sequence a list stands for.                                         *)
(***************************************************************************)
Distinct(s) == \A i, j \in 1..Len(s) : s[i] = s[j] => i = j

Elements(s) == {s[i] : i \in 1..Len(s)}

\* q is exactly the doubly linked list of the tasks of s, in the order of s.
Represents(q, s) ==
    /\ Distinct(s)
    /\ q.head = IF Len(s) = 0 THEN Null ELSE s[1]
    /\ q.tail = IF Len(s) = 0 THEN Null ELSE s[Len(s)]
    /\ \A i \in 1..Len(s) :
          /\ q.next[s[i]] = IF i = Len(s) THEN Null ELSE s[i + 1]
          /\ q.prev[s[i]] = IF i = 1 THEN Null ELSE s[i - 1]
    /\ \A t \in Task \ Elements(s) : q.next[t] = Null /\ q.prev[t] = Null

\* The sequences that can list distinct tasks.
TaskSeqs == UNION {[1..n -> Task] : n \in 0..Cardinality(Task)}

WellFormed(q) == \E s \in TaskSeqs : Represents(q, s)

QueueOf(q) == CHOOSE s \in TaskSeqs : Represents(q, s)
=============================================================================
