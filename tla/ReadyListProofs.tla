--------------------------- MODULE ReadyListProofs ---------------------------
(***************************************************************************)
(* What AddToReadyQueue and RemoveFromReadyQueue do to a well formed list, *)
(* proved for any finite set of tasks.  Elsewhere only AddLemma,           *)
(* RemoveLemma and HeadLemma are needed: they speak of WellFormed and of   *)
(* Queued, the code's own membership test, and not of sequences.           *)
(***************************************************************************)
EXTENDS ReadyList, NatLemmas, FiniteSetTheorems, SequenceTheorems

\* A sequence of distinct tasks is no longer than there are tasks, so that
\* the sequences TLC enumerates are all there are.
LEMMA DistinctIsTaskSeq ==
    ASSUME NEW s \in Seq(Task), Distinct(s)
    PROVE  s \in TaskSeqs
<1>1. s \in [1..Len(s) -> Task] /\ Len(s) \in Nat
  BY LenProperties
<1>2. s \in Injection(1..Len(s), Task)
  BY <1>1 DEF Distinct, Injection, IsInjective
<1>3. Cardinality(1..Len(s)) <= Cardinality(Task)
  BY <1>2, FS_Injection, TaskAssumption
<1>4. Cardinality(1..Len(s)) = Len(s)
  <2>1. Cardinality(1..Len(s)) = IF 1 > Len(s) THEN 0 ELSE Len(s) - 1 + 1
    BY <1>1, FS_Interval
  <2> QED
    BY <2>1, <1>1
<1>5. Cardinality(Task) \in Nat
  BY FS_CardinalityType, TaskAssumption
<1>6. Len(s) \in 0..Cardinality(Task)
  BY <1>1, <1>3, <1>4, <1>5
<1> QED
  BY <1>1, <1>6 DEF TaskSeqs

LEMMA TaskSeqIsSeq ==
    ASSUME NEW s \in TaskSeqs
    PROVE  s \in Seq(Task)
<1>1. PICK n \in 0..Cardinality(Task) : s \in [1..n -> Task]
  BY DEF TaskSeqs
<1>2. Cardinality(Task) \in Nat
  BY FS_CardinalityType, TaskAssumption
<1> QED
  BY <1>1, <1>2

\* The code's membership test is exact on a list that represents s.
LEMMA QueuedIsElement ==
    ASSUME NEW q \in ListType, NEW s \in Seq(Task), Represents(q, s),
           NEW t \in Task
    PROVE  Queued(q, t) <=> t \in Elements(s)
<1>1. CASE t \in Elements(s)
  <2>1. PICK i \in 1..Len(s) : t = s[i]
    BY <1>1 DEF Elements
  <2>2. CASE i = 1
    BY <1>1, <2>1, <2>2 DEF Represents, Queued
  <2>3. CASE i # 1
    <3>1. q.prev[t] = s[i - 1]
      BY <2>1, <2>3 DEF Represents
    <3>2. s[i - 1] \in Task
      BY <2>1, <2>3
    <3> QED
      BY <3>1, <3>2, TaskAssumption, <1>1 DEF Queued
  <2> QED
    BY <2>2, <2>3
<1>2. CASE t \notin Elements(s)
  <2>1. q.next[t] = Null /\ q.prev[t] = Null
    BY <1>2 DEF Represents
  <2>2. t # q.head
    <3>1. CASE Len(s) = 0
      BY <3>1, TaskAssumption DEF Represents
    <3>2. CASE Len(s) # 0
      <4>1. 1 \in 1..Len(s)
        BY <3>2
      <4> QED
        BY <4>1, <3>2, <1>2 DEF Represents, Elements
    <3> QED
      BY <3>1, <3>2
  <2> QED
    BY <2>1, <2>2, <1>2 DEF Queued
<1> QED
  BY <1>1, <1>2

-----------------------------------------------------------------------------
(***************************************************************************)
(* Insertion                                                               *)
(***************************************************************************)
LEMMA LinkRepresents ==
    ASSUME NEW q \in ListType, NEW s \in Seq(Task), Represents(q, s),
           NEW t \in Task, t \notin Elements(s)
    PROVE  /\ Link(q, t) \in ListType
           /\ Represents(Link(q, t), Append(s, t))
           /\ Elements(Append(s, t)) = Elements(s) \cup {t}
<1> DEFINE r == Link(q, t)
           u == Append(s, t)
           n == Len(s)
<1>1. /\ n \in Nat
      /\ u \in Seq(Task)
      /\ Len(u) = n + 1
      /\ \A i \in 1..n : u[i] = s[i] /\ s[i] \in Task
      /\ u[n + 1] = t
  OBVIOUS
<1>2. /\ q.head \in TaskOrNull /\ q.tail \in TaskOrNull
      /\ q.next \in [Task -> TaskOrNull] /\ q.prev \in [Task -> TaskOrNull]
  BY DEF ListType
<1>3. r \in ListType
  BY <1>2 DEF Link, ListType, TaskOrNull
<1>4. /\ r.head = IF q.tail # Null THEN q.head ELSE t
      /\ r.tail = t
      /\ \A v \in Task : r.next[v] = IF v = q.tail THEN t
                                    ELSE IF v = t THEN Null ELSE q.next[v]
      /\ \A v \in Task : r.prev[v] = IF v = t THEN q.tail ELSE q.prev[v]
  BY <1>2 DEF Link
<1>5. Elements(u) = Elements(s) \cup {t}
  BY <1>1 DEF Elements
<1>6. \A i \in 1..n : s[i] # t
  BY DEF Elements
<1>7. Distinct(u)
  BY <1>1, <1>6 DEF Distinct, Represents
<1>8. q.tail = IF n = 0 THEN Null ELSE s[n]
  BY DEF Represents
<1>9. r.head = u[1]
  <2>1. CASE n = 0
    BY <1>1, <1>4, <1>8, <2>1
  <2>2. CASE n # 0
    BY <1>1, <1>4, <1>8, <2>2, TaskAssumption DEF Represents
  <2> QED
    BY <2>1, <2>2
<1>10. ASSUME NEW i \in 1..Len(u)
       PROVE  /\ r.next[u[i]] = IF i = Len(u) THEN Null ELSE u[i + 1]
              /\ r.prev[u[i]] = IF i = 1 THEN Null ELSE u[i - 1]
  <2>1. CASE i = n + 1
    <3>1. t # q.tail
      BY <1>1, <1>6, <1>8, TaskAssumption
    <3> QED
      BY <1>1, <1>4, <1>8, <2>1, <3>1
  <2>2. CASE i # n + 1
    <3>1. i \in 1..n /\ u[i] = s[i] /\ s[i] \in Task /\ s[i] # t
      BY <1>1, <1>6, <2>2
    <3>2. q.prev[s[i]] = IF i = 1 THEN Null ELSE s[i - 1]
      BY <3>1 DEF Represents
    <3>3. q.next[s[i]] = IF i = n THEN Null ELSE s[i + 1]
      BY <3>1 DEF Represents
    <3>4. s[i] = q.tail <=> i = n
      BY <1>1, <1>8, <3>1 DEF Represents, Distinct
    <3>5. r.prev[u[i]] = IF i = 1 THEN Null ELSE u[i - 1]
      BY <1>1, <1>4, <3>1, <3>2
    <3>6. r.next[u[i]] = IF i = Len(u) THEN Null ELSE u[i + 1]
      BY <1>1, <1>4, <3>1, <3>3, <3>4
    <3> QED
      BY <3>5, <3>6
  <2> QED
    BY <2>1, <2>2
<1>11. ASSUME NEW v \in Task \ Elements(u)
       PROVE  r.next[v] = Null /\ r.prev[v] = Null
  <2>1. v # t /\ v \notin Elements(s)
    BY <1>5
  <2>2. v # q.tail
    BY <1>1, <1>8, <2>1, TaskAssumption DEF Elements
  <2>3. q.next[v] = Null /\ q.prev[v] = Null
    BY <2>1 DEF Represents
  <2> QED
    BY <1>4, <2>1, <2>2, <2>3
<1>12. Represents(r, u)
  <2> HIDE DEF r, u, n
  <2>1. r.tail = IF Len(u) = 0 THEN Null ELSE u[Len(u)]
    BY <1>1, <1>4
  <2>2. r.head = IF Len(u) = 0 THEN Null ELSE u[1]
    BY <1>1, <1>9
  <2> QED
    BY <1>7, <2>1, <2>2, <1>10, <1>11 DEF Represents
<1> QED
  BY <1>3, <1>5, <1>12

-----------------------------------------------------------------------------
(***************************************************************************)
(* Removal                                                                 *)
(***************************************************************************)
\* s without its k-th element.
Without(s, k) == [i \in 1..(Len(s) - 1) |-> IF i < k THEN s[i] ELSE s[i + 1]]

LEMMA WithoutProperties ==
    ASSUME NEW s \in Seq(Task), Distinct(s), NEW k \in 1..Len(s)
    PROVE  /\ Without(s, k) \in Seq(Task)
           /\ Len(Without(s, k)) = Len(s) - 1
           /\ \A i \in 1..(Len(s) - 1) :
                 Without(s, k)[i] = IF i < k THEN s[i] ELSE s[i + 1]
           /\ Distinct(Without(s, k))
           /\ Elements(Without(s, k)) = Elements(s) \ {s[k]}
<1> DEFINE n == Len(s)
           u == Without(s, k)
<1>1. n \in Nat /\ n - 1 \in Nat /\ \A i \in 1..n : s[i] \in Task
  OBVIOUS
<1>2. u \in [1..(n - 1) -> Task]
  BY <1>1 DEF Without
<1>3. u \in Seq(Task) /\ Len(u) = n - 1
  BY <1>1, <1>2
<1>4. \A i \in 1..(n - 1) : u[i] = IF i < k THEN s[i] ELSE s[i + 1]
  BY DEF Without
<1>5. Distinct(u)
  <2> SUFFICES ASSUME NEW i \in 1..(n - 1), NEW j \in 1..(n - 1), u[i] = u[j]
               PROVE  i = j
    BY <1>3 DEF Distinct
  <2> DEFINE a == IF i < k THEN i ELSE i + 1
             b == IF j < k THEN j ELSE j + 1
  <2>1. a \in 1..n /\ b \in 1..n /\ u[i] = s[a] /\ u[j] = s[b]
    BY <1>1, <1>4
  <2>2. a = b
    BY <2>1 DEF Distinct
  <2> QED
    BY <2>2, <1>1
<1>6. Elements(u) = Elements(s) \ {s[k]}
  <2>1. ASSUME NEW i \in 1..(n - 1)
        PROVE  u[i] \in Elements(s) \ {s[k]}
    <3> DEFINE a == IF i < k THEN i ELSE i + 1
    <3>1. a \in 1..n /\ a # k /\ u[i] = s[a]
      BY <1>1, <1>4
    <3> QED
      BY <3>1 DEF Elements, Distinct
  <2>2. ASSUME NEW j \in 1..n, s[j] # s[k]
        PROVE  s[j] \in Elements(u)
    <3>1. j # k
      BY <2>2
    <3> DEFINE i == IF j < k THEN j ELSE j - 1
    <3>2. i \in 1..(n - 1) /\ u[i] = s[j]
      BY <1>1, <1>4, <3>1
    <3> QED
      BY <3>2, <1>3 DEF Elements
  <2>3. Elements(u) \subseteq Elements(s) \ {s[k]}
    <3> HIDE DEF u
    <3> QED
      BY <2>1, <1>3 DEF Elements
  <2>4. Elements(s) \ {s[k]} \subseteq Elements(u)
    <3> HIDE DEF u
    <3> QED
      BY <2>2 DEF Elements
  <2> QED
    BY <2>3, <2>4
<1> QED
  BY <1>3, <1>4, <1>5, <1>6

LEMMA RemoveRepresents ==
    ASSUME NEW q \in ListType, NEW s \in Seq(Task), Represents(q, s),
           NEW k \in 1..Len(s)
    PROVE  /\ RemoveFromReadyQueue(q, s[k]) \in ListType
           /\ Represents(RemoveFromReadyQueue(q, s[k]), Without(s, k))
<1> DEFINE t == s[k]
           r == RemoveFromReadyQueue(q, t)
           u == Without(s, k)
           n == Len(s)
           pre == IF k = 1 THEN Null ELSE s[k - 1]
           suc == IF k = n THEN Null ELSE s[k + 1]
<1>1. n \in Nat /\ n # 0 /\ \A i \in 1..n : s[i] \in Task /\ s[i] # Null
  BY TaskAssumption
<1>2. /\ q.head \in TaskOrNull /\ q.tail \in TaskOrNull
      /\ q.next \in [Task -> TaskOrNull] /\ q.prev \in [Task -> TaskOrNull]
  BY DEF ListType
<1>3. q.next[t] = suc /\ q.prev[t] = pre /\ q.head = s[1] /\ q.tail = s[n]
  BY <1>1 DEF Represents
<1>4. /\ r.head = IF t = q.head THEN suc ELSE q.head
      /\ r.tail = IF t = q.tail THEN pre ELSE q.tail
      /\ \A v \in Task : r.next[v] = IF v = t THEN Null
                                    ELSE IF v = pre THEN suc ELSE q.next[v]
      /\ \A v \in Task : r.prev[v] = IF v = t THEN Null
                                    ELSE IF v = suc THEN pre ELSE q.prev[v]
  BY <1>3 DEF RemoveFromReadyQueue
<1>5. r \in ListType
  BY <1>1, <1>2 DEF RemoveFromReadyQueue, ListType, TaskOrNull
<1>6. Distinct(s) /\ \A i \in 1..n : s[i] = t <=> i = k
  BY DEF Represents, Distinct
<1>7. /\ u \in Seq(Task)
      /\ Len(u) = n - 1
      /\ \A i \in 1..(n - 1) : u[i] = IF i < k THEN s[i] ELSE s[i + 1]
      /\ Distinct(u)
      /\ Elements(u) = Elements(s) \ {t}
  BY <1>6, WithoutProperties
<1>8. r.head = IF n = 1 THEN Null ELSE u[1]
  <2>1. t = q.head <=> k = 1
    BY <1>1, <1>3, <1>6
  <2> QED
    BY <2>1, <1>1, <1>3, <1>4, <1>7
<1>9. r.tail = IF n = 1 THEN Null ELSE u[n - 1]
  <2>1. t = q.tail <=> k = n
    BY <1>1, <1>3, <1>6
  <2> QED
    BY <2>1, <1>1, <1>3, <1>4, <1>7
<1>10. ASSUME NEW i \in 1..(n - 1)
       PROVE  /\ r.next[u[i]] = IF i = n - 1 THEN Null ELSE u[i + 1]
              /\ r.prev[u[i]] = IF i = 1 THEN Null ELSE u[i - 1]
  <2> DEFINE a == IF i < k THEN i ELSE i + 1
  <2>1. a \in 1..n /\ a # k /\ u[i] = s[a] /\ s[a] \in Task /\ s[a] # t
    BY <1>1, <1>6, <1>7
  <2>2. /\ q.next[s[a]] = IF a = n THEN Null ELSE s[a + 1]
        /\ q.prev[s[a]] = IF a = 1 THEN Null ELSE s[a - 1]
    BY <2>1 DEF Represents
  <2>3. s[a] = pre <=> a = k - 1
    BY <1>1, <2>1, TaskAssumption DEF Represents, Distinct
  <2>4. s[a] = suc <=> a = k + 1
    BY <1>1, <2>1, TaskAssumption DEF Represents, Distinct
  <2>5. r.next[u[i]] = IF a = k - 1 THEN suc ELSE IF a = n THEN Null ELSE s[a + 1]
    BY <1>4, <2>1, <2>2, <2>3
  <2>6. r.prev[u[i]] = IF a = k + 1 THEN pre ELSE IF a = 1 THEN Null ELSE s[a - 1]
    BY <1>4, <2>1, <2>2, <2>4
  <2> HIDE DEF r, u
  <2>7. r.next[u[i]] = IF i = n - 1 THEN Null ELSE u[i + 1]
    <3>1. CASE i < k - 1
      BY <1>1, <1>7, <2>5, <3>1
    <3>2. CASE i = k - 1
      <4>1. a = k - 1
        BY <1>1, <3>2
      <4>2. i = n - 1 <=> k = n
        BY <1>1, <3>2
      <4>3. k # n => u[i + 1] = s[k + 1]
        BY <1>1, <1>7, <3>2
      <4> QED
        BY <2>5, <4>1, <4>2, <4>3
    <3>3. CASE i >= k
      <4>1. a = i + 1 /\ a # k - 1
        BY <1>1, <3>3
      <4>2. i # n - 1 => u[i + 1] = s[a + 1]
        BY <1>1, <1>7, <3>3, <4>1
      <4> HIDE DEF a
      <4> QED
        BY <1>1, <2>5, <4>1, <4>2
    <3> QED
      BY <1>1, <3>1, <3>2, <3>3
  <2>8. r.prev[u[i]] = IF i = 1 THEN Null ELSE u[i - 1]
    <3>1. CASE i < k
      <4>1. a = i /\ a # k + 1
        BY <1>1, <3>1
      <4>2. i # 1 => u[i - 1] = s[i - 1]
        BY <1>1, <1>7, <3>1
      <4> HIDE DEF a
      <4> QED
        BY <1>1, <2>6, <4>1, <4>2
    <3>2. CASE i = k
      <4>1. a = k + 1
        BY <1>1, <3>2
      <4>2. i # 1 => u[i - 1] = s[k - 1]
        BY <1>1, <1>7, <3>2
      <4> HIDE DEF a
      <4> QED
        BY <2>6, <3>2, <4>1, <4>2
    <3>3. CASE i > k
      <4>1. a = i + 1 /\ a # k + 1 /\ a # 1 /\ i # 1 /\ a - 1 = i
        BY <1>1, <3>3
      <4>2. u[i - 1] = s[i]
        BY <1>1, <1>7, <3>3
      <4> HIDE DEF a
      <4> QED
        BY <2>6, <4>1, <4>2
    <3> QED
      BY <1>1, <3>1, <3>2, <3>3
  <2> QED
    BY <2>7, <2>8
<1>11. ASSUME NEW v \in Task \ Elements(u)
       PROVE  r.next[v] = Null /\ r.prev[v] = Null
  <2>1. CASE v = t
    BY <1>4, <2>1
  <2>2. CASE v # t
    <3>1. v \notin Elements(s)
      BY <1>7, <2>2
    <3>2. q.next[v] = Null /\ q.prev[v] = Null
      BY <3>1 DEF Represents
    <3>3. v # pre /\ v # suc
      BY <1>1, <3>1, TaskAssumption DEF Elements
    <3> QED
      BY <1>4, <2>2, <3>2, <3>3
  <2> QED
    BY <2>1, <2>2
<1>12. Represents(r, u)
  <2> HIDE DEF r, u, t
  <2> QED
    BY <1>1, <1>7, <1>8, <1>9, <1>10, <1>11 DEF Represents
<1> QED
  BY <1>5, <1>12

\* Removing a task that is not queued changes nothing.
LEMMA RemoveAbsent ==
    ASSUME NEW q \in ListType, NEW s \in Seq(Task), Represents(q, s),
           NEW t \in Task, t \notin Elements(s)
    PROVE  RemoveFromReadyQueue(q, t) = q
<1>1. q.next[t] = Null /\ q.prev[t] = Null
  BY DEF Represents
<1>2. t # q.head
  BY QueuedIsElement DEF Queued
<1>3. t # q.tail
  BY TaskAssumption DEF Represents, Elements
<1>4. /\ q = [head |-> q.head, tail |-> q.tail, next |-> q.next, prev |-> q.prev]
      /\ q.next = [v \in Task |-> q.next[v]]
      /\ q.prev = [v \in Task |-> q.prev[v]]
  BY DEF ListType
<1>5. \A v \in Task : v # Null
  BY TaskAssumption
<1>6. [v \in Task |-> IF v = t THEN Null ELSE IF v = Null THEN Null ELSE q.next[v]]
        = q.next
  BY <1>1, <1>4, <1>5
<1>7. [v \in Task |-> IF v = t THEN Null ELSE IF v = Null THEN Null ELSE q.prev[v]]
        = q.prev
  BY <1>1, <1>4, <1>5
<1> QED
  BY <1>1, <1>2, <1>3, <1>4, <1>6, <1>7 DEF RemoveFromReadyQueue

-----------------------------------------------------------------------------
(***************************************************************************)
(* What the users of the list need.                                        *)
(***************************************************************************)
\* AddToReadyQueue keeps a list well formed and adds exactly its task, also
\* when the task is queued already.
THEOREM AddLemma ==
    ASSUME NEW q \in ListType, WellFormed(q), NEW t \in Task
    PROVE  /\ AddToReadyQueue(q, t) \in ListType
           /\ WellFormed(AddToReadyQueue(q, t))
           /\ \A u \in Task : Queued(AddToReadyQueue(q, t), u)
                                <=> Queued(q, u) \/ u = t
<1>1. PICK s \in TaskSeqs : Represents(q, s)
  BY DEF WellFormed
<1>2. s \in Seq(Task)
  BY TaskSeqIsSeq
<1>3. CASE Queued(q, t)
  BY <1>3 DEF AddToReadyQueue
<1>4. CASE ~Queued(q, t)
  <2>1. AddToReadyQueue(q, t) = Link(q, t)
    BY <1>4 DEF AddToReadyQueue
  <2>2. t \notin Elements(s)
    BY <1>1, <1>2, <1>4, QueuedIsElement
  <2>3. /\ Link(q, t) \in ListType
        /\ Represents(Link(q, t), Append(s, t))
        /\ Elements(Append(s, t)) = Elements(s) \cup {t}
    BY <1>1, <1>2, <2>2, LinkRepresents
  <2>4. Append(s, t) \in Seq(Task)
    BY <1>2
  <2>5. WellFormed(Link(q, t))
    BY <2>3, <2>4, DistinctIsTaskSeq DEF WellFormed, Represents
  <2>6. ASSUME NEW u \in Task
        PROVE  Queued(Link(q, t), u) <=> Queued(q, u) \/ u = t
    <3>1. Queued(Link(q, t), u) <=> u \in Elements(Append(s, t))
      BY <2>3, <2>4, QueuedIsElement
    <3>2. Queued(q, u) <=> u \in Elements(s)
      BY <1>1, <1>2, QueuedIsElement
    <3> QED
      BY <2>3, <3>1, <3>2
  <2> QED
    BY <2>1, <2>3, <2>5, <2>6
<1> QED
  BY <1>3, <1>4

\* RemoveFromReadyQueue keeps a list well formed and removes exactly its task.
THEOREM RemoveLemma ==
    ASSUME NEW q \in ListType, WellFormed(q), NEW t \in Task
    PROVE  /\ RemoveFromReadyQueue(q, t) \in ListType
           /\ WellFormed(RemoveFromReadyQueue(q, t))
           /\ \A u \in Task : Queued(RemoveFromReadyQueue(q, t), u)
                                <=> Queued(q, u) /\ u # t
           /\ ~Queued(q, t) => RemoveFromReadyQueue(q, t) = q
<1>1. PICK s \in TaskSeqs : Represents(q, s)
  BY DEF WellFormed
<1>2. s \in Seq(Task)
  BY TaskSeqIsSeq
<1>3. \A u \in Task : Queued(q, u) <=> u \in Elements(s)
  BY <1>1, <1>2, QueuedIsElement
<1>4. CASE ~Queued(q, t)
  <2>1. RemoveFromReadyQueue(q, t) = q
    BY <1>1, <1>2, <1>3, <1>4, RemoveAbsent
  <2> QED
    BY <1>4, <2>1
<1>5. CASE Queued(q, t)
  <2>1. PICK k \in 1..Len(s) : t = s[k]
    BY <1>3, <1>5 DEF Elements
  <2> DEFINE r == RemoveFromReadyQueue(q, t)
  <2>2. r \in ListType /\ Represents(r, Without(s, k))
    BY <1>1, <1>2, <2>1, RemoveRepresents
  <2>3. /\ Without(s, k) \in Seq(Task)
        /\ Distinct(Without(s, k))
        /\ Elements(Without(s, k)) = Elements(s) \ {t}
    BY <1>1, <1>2, <2>1, WithoutProperties DEF Represents
  <2>4. WellFormed(r)
    BY <2>2, <2>3, DistinctIsTaskSeq DEF WellFormed
  <2>5. \A u \in Task : Queued(r, u) <=> u \in Elements(Without(s, k))
    BY <2>2, <2>3, QueuedIsElement
  <2>6. \A u \in Task : Queued(r, u) <=> Queued(q, u) /\ u # t
    BY <1>3, <2>3, <2>5
  <2> QED
    BY <1>5, <2>2, <2>4, <2>6
<1> QED
  BY <1>4, <1>5

\* GetNextTask returns nullptr exactly when nobody is queued.
THEOREM HeadLemma ==
    ASSUME NEW q \in ListType, WellFormed(q)
    PROVE  /\ q.head = Null <=> \A t \in Task : ~Queued(q, t)
           /\ q.head # Null => q.head \in Task /\ Queued(q, q.head)
<1>1. q.head \in TaskOrNull
  BY DEF ListType
<1>2. q.head # Null => q.head \in Task /\ Queued(q, q.head)
  BY <1>1 DEF TaskOrNull, Queued
<1>3. PICK s \in TaskSeqs : Represents(q, s)
  BY DEF WellFormed
<1>4. s \in Seq(Task)
  BY TaskSeqIsSeq
<1>5. ASSUME q.head = Null, NEW t \in Task
      PROVE  ~Queued(q, t)
  <2>1. Len(s) = 0
    <3>1. Len(s) # 0 => s[1] \in Task
      BY <1>4
    <3> QED
      BY <1>3, <1>5, <3>1, TaskAssumption DEF Represents
  <2>2. t \notin Elements(s)
    BY <2>1 DEF Elements
  <2> QED
    BY <1>3, <1>4, <2>2, QueuedIsElement
<1> QED
  BY <1>2, <1>5

\* The empty list.
LEMMA EmptyListLemma ==
    /\ EmptyList \in ListType
    /\ WellFormed(EmptyList)
    /\ \A t \in Task : ~Queued(EmptyList, t)
<1>1. EmptyList \in ListType
  BY DEF EmptyList, ListType, TaskOrNull
<1>2. Represents(EmptyList, <<>>) /\ Distinct(<<>>)
  BY DEF Represents, EmptyList, Elements, Distinct
<1>3. <<>> \in Seq(Task)
  OBVIOUS
<1>4. WellFormed(EmptyList)
  BY <1>2, <1>3, DistinctIsTaskSeq DEF WellFormed
<1>5. \A t \in Task : ~Queued(EmptyList, t)
  BY TaskAssumption DEF Queued, EmptyList
<1> QED
  BY <1>1, <1>4, <1>5

-----------------------------------------------------------------------------
(***************************************************************************)
(* The list as a sequence: QueueOf picks the only one there is, and the    *)
(* functions of the list are append, head and removal on it.               *)
(***************************************************************************)
\* Following next from the head finds s again.
LEMMA RepresentsPrefix ==
    ASSUME NEW q, NEW s \in Seq(Task), NEW u \in Seq(Task), Represents(q, s), Represents(q, u),
           NEW i \in 1..Len(s)
    PROVE  i <= Len(u) /\ u[i] = s[i]
<1> DEFINE Bad == {j \in Nat : j \in 1..Len(s) /\ ~(j <= Len(u) /\ u[j] = s[j])}
<1>0. Len(s) \in Nat /\ Len(u) \in Nat /\ \A j \in 1..Len(s) : s[j] \in Task /\ s[j] # Null
  BY TaskAssumption
<1>1. ASSUME Bad # {} PROVE FALSE
  <2>1. PICK j \in Bad : \A k \in Bad : j <= k
    BY <1>1, NatMin
  <2>2. j \in 1..Len(s) /\ j \in Nat /\ ~(j <= Len(u) /\ u[j] = s[j])
    OBVIOUS
  <2>3. CASE j = 1
    BY <1>0, <2>2, <2>3 DEF Represents
  <2>4. CASE j # 1
    <3>1. j - 1 \in 1..Len(s) /\ j - 1 \notin Bad
      BY <1>0, <2>1, <2>2, <2>4
    <3>2. j - 1 \in 1..Len(u) /\ u[j - 1] = s[j - 1]
      BY <1>0, <3>1
    <3>3. q.next[s[j - 1]] = s[j]
      BY <1>0, <2>2, <3>1 DEF Represents
    <3>4. q.next[u[j - 1]] = IF j - 1 = Len(u) THEN Null ELSE u[j - 1 + 1]
      BY <3>2 DEF Represents
    <3> QED
      BY <1>0, <2>2, <3>2, <3>3, <3>4
  <2> QED
    BY <2>3, <2>4
<1> QED
  BY <1>0, <1>1

LEMMA RepresentsUnique ==
    ASSUME NEW q, NEW s \in Seq(Task), NEW u \in Seq(Task), Represents(q, s), Represents(q, u)
    PROVE  u = s
<1>1. \A i \in 1..Len(s) : i <= Len(u) /\ u[i] = s[i]
  BY RepresentsPrefix
<1>2. \A i \in 1..Len(u) : i <= Len(s) /\ u[i] = s[i]
  BY RepresentsPrefix
<1>3. Len(s) \in Nat /\ Len(u) \in Nat
  OBVIOUS
<1>4. Len(s) = Len(u)
  <2>1. Len(s) # 0 => Len(s) <= Len(u)
    BY <1>1, <1>3
  <2>2. Len(u) # 0 => Len(u) <= Len(s)
    BY <1>2, <1>3
  <2> QED
    BY <1>3, <2>1, <2>2
<1> QED
  BY <1>1, <1>4, SeqEqual

LEMMA QueueIs ==
    ASSUME NEW q, NEW s \in Seq(Task), Represents(q, s)
    PROVE  QueueOf(q) = s
<1>1. s \in TaskSeqs
  BY DistinctIsTaskSeq DEF Represents
<1>2. QueueOf(q) \in TaskSeqs /\ Represents(q, QueueOf(q))
  BY <1>1 DEF QueueOf
<1>3. QueueOf(q) \in Seq(Task)
  BY <1>2, TaskSeqIsSeq
<1> QED
  BY <1>2, <1>3, RepresentsUnique

LEMMA QueueRepresented ==
    ASSUME NEW q \in ListType, WellFormed(q)
    PROVE  /\ QueueOf(q) \in Seq(Task) /\ Represents(q, QueueOf(q))
           /\ \A t \in Task : Queued(q, t) <=> t \in Elements(QueueOf(q))
<1>1. QueueOf(q) \in TaskSeqs /\ Represents(q, QueueOf(q))
  BY DEF QueueOf, WellFormed
<1>2. QueueOf(q) \in Seq(Task)
  BY <1>1, TaskSeqIsSeq
<1> QED
  BY <1>1, <1>2, QueuedIsElement

\* AddToReadyQueue appends.
THEOREM AddAppends ==
    ASSUME NEW q \in ListType, WellFormed(q), NEW t \in Task, ~Queued(q, t)
    PROVE  QueueOf(AddToReadyQueue(q, t)) = Append(QueueOf(q), t)
<1> DEFINE s == QueueOf(q)
<1>1. s \in Seq(Task) /\ Represents(q, s) /\ t \notin Elements(s)
  BY QueueRepresented
<1> HIDE DEF s
<1>2. Represents(Link(q, t), Append(s, t)) /\ Append(s, t) \in Seq(Task)
  BY <1>1, LinkRepresents
<1>3. QueueOf(Link(q, t)) = Append(s, t)
  BY <1>2, QueueIs
<1> QED
  BY <1>3 DEF AddToReadyQueue, s

\* RemoveFromReadyQueue takes its task out and keeps the order of the others.
THEOREM RemoveTakesOut ==
    ASSUME NEW q \in ListType, WellFormed(q), NEW t \in Task, Queued(q, t)
    PROVE  \E k \in 1..Len(QueueOf(q)) :
              /\ QueueOf(q)[k] = t
              /\ QueueOf(RemoveFromReadyQueue(q, t)) = Without(QueueOf(q), k)
<1> DEFINE s == QueueOf(q)
<1>1. s \in Seq(Task) /\ Represents(q, s) /\ t \in Elements(s)
  BY QueueRepresented
<1> HIDE DEF s
<1>2. PICK k \in 1..Len(s) : s[k] = t
  BY <1>1 DEF Elements
<1>3. Represents(RemoveFromReadyQueue(q, s[k]), Without(s, k))
  BY <1>1, RemoveRepresents
<1>4. Without(s, k) \in Seq(Task)
  BY <1>1, WithoutProperties DEF Represents
<1>5. QueueOf(RemoveFromReadyQueue(q, t)) = Without(s, k)
  BY <1>2, <1>3, <1>4, QueueIs
<1> QED
  BY <1>2, <1>5 DEF s

\* GetNextTask is the task that has waited longest, and removing it leaves the rest.
THEOREM RemoveHeadTakesFirst ==
    ASSUME NEW q \in ListType, WellFormed(q), q.head # Null
    PROVE  /\ QueueOf(q) # <<>> /\ Head(QueueOf(q)) = q.head
           /\ QueueOf(RemoveFromReadyQueue(q, q.head)) = Tail(QueueOf(q))
<1> DEFINE s == QueueOf(q)
<1>1. s \in Seq(Task) /\ Represents(q, s)
  BY QueueRepresented
<1> HIDE DEF s
<1>2. Len(s) \in Nat /\ Len(s) # 0 /\ s[1] = q.head /\ 1 \in 1..Len(s)
  BY <1>1 DEF Represents
<1>3. Represents(RemoveFromReadyQueue(q, s[1]), Without(s, 1))
  BY <1>1, <1>2, RemoveRepresents
<1>4. /\ Without(s, 1) \in Seq(Task) /\ Len(Without(s, 1)) = Len(s) - 1
      /\ \A i \in 1..(Len(s) - 1) : Without(s, 1)[i] = s[i + 1]
  BY <1>1, <1>2, WithoutProperties DEF Represents
<1>5. s # <<>>
  BY <1>1, <1>2
<1>6. /\ Tail(s) \in Seq(Task) /\ Len(Tail(s)) = Len(s) - 1
      /\ \A i \in 1..(Len(s) - 1) : Tail(s)[i] = s[i + 1]
  BY <1>1, <1>2, <1>5, HeadTailProperties
<1>7. Tail(s) = Without(s, 1)
  BY <1>2, <1>4, <1>6, SeqEqual
<1>8. QueueOf(RemoveFromReadyQueue(q, q.head)) = Tail(s)
  BY <1>2, <1>3, <1>4, <1>7, QueueIs
<1> QED
  BY <1>1, <1>2, <1>5, <1>8 DEF s
=============================================================================
