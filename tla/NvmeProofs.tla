----------------------------- MODULE NvmeProofs -----------------------------
(***************************************************************************)
(* The NVMe driver, for every queue depth, page size and set of requests.  *)
(***************************************************************************)
EXTENDS Nvme, TLAPS

(* The blocks of a buffer, page by page: the quotient and the remainder. *)
LEMMA DivMod ==
    ASSUME NEW j \in Nat, NEW p \in Nat \ {0}
    PROVE  /\ j % p \in 0 .. p - 1
           /\ j \div p \in Nat
           /\ j = (j \div p) * p + (j % p)
  BY Z3

LEMMA DivBound ==
    ASSUME NEW j \in Nat, NEW p \in Nat \ {0}, NEW r \in Nat, j < r
    PROVE  j \div p < (r + p - 1) \div p
  BY Z3

(***************************************************************************)
(* PRP coverage: walking the pointers that SetupPRPs builds, a controller  *)
(* finds block i of the transfer at block i of the buffer, for every       *)
(* buffer address, every size and every page size.                         *)
(***************************************************************************)
THEOREM PrpsCoverBuffer ==
    ASSUME NEW addr \in Nat, NEW size \in Nat, NEW i \in 0 .. size - 1
    PROVE  BlockAddress(SetupPRPs(addr, size), size, i) = addr + i
<1> DEFINE off == addr % PageSize
           first == PageSize - off
           rem == size - first
           next == addr - off + PageSize
           n == (rem + PageSize - 1) \div PageSize
           j == i - first
           prp == SetupPRPs(addr, size)
<1> USE PageSizeAssumption
<1>1. off \in 0 .. PageSize - 1
  BY DivMod
<1>2. prp.prp1 = addr
  BY DEF SetupPRPs
<1>3. CASE i < first
  BY <1>1, <1>2, <1>3 DEF BlockAddress
<1>4. CASE i >= first /\ rem <= PageSize
  <2>1. size > first
    BY <1>1, <1>4
  <2>2. prp.prp2 = Prp2Page(next)
    BY <1>1, <1>4, <2>1 DEF SetupPRPs
  <2>3. prp.prp2.kind = "page" /\ prp.prp2.page = next
    BY <2>2 DEF Prp2Page
  <2>4. BlockAddress(prp, size, i) = next + j
    BY <1>1, <1>2, <1>4, <2>3 DEF BlockAddress
  <2> QED
    BY <1>1, <1>4, <2>4
<1>5. CASE i >= first /\ rem > PageSize
  <2> DEFINE list == [k \in 0 .. n - 1 |-> next + k * PageSize]
  <2>1. size > first
    BY <1>1, <1>5
  <2>2. prp.prp2 = Prp2List(list)
    BY <1>1, <1>5, <2>1 DEF SetupPRPs
  <2>3. prp.prp2.kind = "list" /\ prp.prp2.list = list
    BY <2>2 DEF Prp2List
  <2>4. j \in Nat /\ rem \in Nat /\ j < rem
    BY <1>1, <1>5
  <2>5. j \div PageSize \in Nat /\ j \div PageSize < n
    BY <2>4, DivMod, DivBound
  <2>6. n \in Nat
    BY <2>4, DivMod
  <2>7. j \div PageSize \in DOMAIN list
    BY <2>5, <2>6
  <2>8. BlockAddress(prp, size, i) = list[j \div PageSize] + (j % PageSize)
    BY <1>1, <1>2, <1>5, <2>3, <2>7 DEF BlockAddress
  <2>9. list[j \div PageSize] = next + (j \div PageSize) * PageSize
    BY <2>7
  <2>10. j = (j \div PageSize) * PageSize + (j % PageSize)
    BY <2>4, DivMod
  <2>11. ASSUME NEW d \in Int, NEW m \in Int, j = d + m
         PROVE  next + d + m = addr + i
    BY <1>1, <2>11
  <2>12. (j \div PageSize) * PageSize \in Int /\ j % PageSize \in Int
    BY <2>4, <2>5, DivMod
  <2>13. next + (j \div PageSize) * PageSize + (j % PageSize) = addr + i
    BY <2>10, <2>11, <2>12
  <2> HIDE DEF prp, next, j, list
  <2> QED
    BY <2>8, <2>9, <2>13 DEF prp
<1> QED
  BY <1>1, <1>3, <1>4, <1>5

-----------------------------------------------------------------------------
(* The three moves of a queue pair keep it well formed. *)
LEMMA SubmitKeepsQueue ==
    ASSUME NEW C, NEW q, NEW cmd \in C, QueueInv(q, C, FALSE)
    PROVE  /\ QueueInv(Submit(q, cmd), C, TRUE)
           /\ Submit(q, cmd).sq[q.sqHead] = cmd
           /\ Submit(q, cmd).cqTail = Submit(q, cmd).head
           /\ Submit(q, cmd).sqHead = q.sqHead
<1> DEFINE r == Submit(q, cmd)
<1> USE QueueDepthAssumption
<1>1. r \in Queue(C)
  <2>1. q.sq \in [Slots -> C \cup {NoCommand}] /\ q.tail \in Slots
    BY DEF QueueInv, Queue
  <2>2. [q.sq EXCEPT ![q.tail] = cmd] \in [Slots -> C \cup {NoCommand}]
    BY <2>1
  <2>3. Succ(q.tail) \in Slots
    BY <2>1 DEF Succ, Slots
  <2> QED
    BY <2>2, <2>3 DEF QueueInv, Queue, Submit
<1>2. /\ r.sqDoorbell = r.tail /\ r.cqDoorbell = r.head
      /\ r.tail = Succ(q.tail) /\ r.head = q.head /\ r.cqTail = q.cqTail
      /\ r.sqHead = q.sqHead /\ r.cq = q.cq /\ r.phase = q.phase /\ r.tag = q.tag
      /\ r.sq = [q.sq EXCEPT ![q.tail] = cmd]
  BY DEF QueueInv, Queue, Submit
<1>3. q.tail = q.sqHead /\ q.cqTail = q.head
  BY DEF QueueInv, OneInFlight
<1>4. OneInFlight(r, TRUE)
  BY <1>2, <1>3 DEF OneInFlight
<1>5. r.sq[q.sqHead] = cmd
  BY <1>2, <1>3 DEF QueueInv, Queue
<1>6. QueueInv(r, C, TRUE)
  BY <1>1, <1>2, <1>4 DEF QueueInv
<1> QED
  BY <1>2, <1>3, <1>5, <1>6

LEMMA PostKeepsQueue ==
    ASSUME NEW C, NEW q, NEW failed \in BOOLEAN, QueueInv(q, C, TRUE), Pending(q)
    PROVE  /\ QueueInv(Post(q, failed), C, TRUE)
           /\ q.cqTail = q.head
           /\ Post(q, failed).cqTail # Post(q, failed).head
           /\ Post(q, failed).cq[Post(q, failed).head].error = failed
<1> DEFINE r == Post(q, failed)
<1> USE QueueDepthAssumption
<1>1. /\ q.sq \in [Slots -> C \cup {NoCommand}]
      /\ q.cq \in [Slots -> [tag : {0, 1}, error : BOOLEAN]]
      /\ q.sqHead \in Slots /\ q.cqTail \in Slots /\ q.head \in Slots /\ q.tag \in {0, 1}
  BY DEF QueueInv, Queue
<1>2. q.tail = Succ(q.sqHead) /\ q.cqTail = q.head
  BY DEF QueueInv, OneInFlight, Pending
<1>3. /\ r.sqDoorbell = q.sqDoorbell /\ r.cqDoorbell = q.cqDoorbell
      /\ r.tail = q.tail /\ r.head = q.head /\ r.phase = q.phase /\ r.sq = q.sq
      /\ r.sqHead = Succ(q.sqHead) /\ r.cqTail = Succ(q.cqTail) /\ r.on = q.on
      /\ r.cq = [q.cq EXCEPT ![q.cqTail] = [tag |-> q.tag, error |-> failed]]
      /\ r.tag = IF q.cqTail + 1 >= QueueDepth THEN 1 - q.tag ELSE q.tag
  BY DEF QueueInv, Queue, Post
<1>4. r \in Queue(C)
  <2>1. r.cq \in [Slots -> [tag : {0, 1}, error : BOOLEAN]]
    BY <1>1, <1>3
  <2>2. r.sqHead \in Slots /\ r.cqTail \in Slots /\ r.tag \in {0, 1}
    BY <1>1, <1>3 DEF Succ, Slots
  <2> QED
    BY <2>1, <2>2 DEF QueueInv, Queue, Post
<1>5. OneInFlight(r, TRUE)
  BY <1>2, <1>3 DEF OneInFlight
<1>6. r.cqTail # r.head
  BY <1>1, <1>2, <1>3 DEF Succ, Slots
<1>7. ASSUME NEW i \in Slots
      PROVE  r.cq[i].tag = IF i < r.cqTail THEN r.tag ELSE 1 - r.tag
  <2>1. q.cq[i].tag = IF i < q.cqTail THEN q.tag ELSE 1 - q.tag
    BY DEF QueueInv
  <2>2. r.cq[i].tag = IF i = q.cqTail THEN q.tag ELSE q.cq[i].tag
    BY <1>1, <1>3
  <2>3. 1 - (1 - q.tag) = q.tag
    BY <1>1
  <2>4. CASE q.cqTail + 1 >= QueueDepth
    BY <1>1, <1>3, <2>1, <2>2, <2>3, <2>4 DEF Succ, Slots
  <2>5. CASE ~(q.cqTail + 1 >= QueueDepth)
    BY <1>1, <1>3, <2>1, <2>2, <2>5 DEF Succ, Slots
  <2> QED
    BY <2>4, <2>5
<1>8. r.phase = IF r.cqTail # r.head /\ r.head + 1 >= QueueDepth THEN 1 - r.tag ELSE r.tag
  <2>1. q.phase = q.tag
    BY <1>2 DEF QueueInv
  <2> QED
    BY <1>1, <1>2, <1>3, <1>6, <2>1 DEF Slots
<1>9. r.cq[r.head].error = failed
  BY <1>1, <1>2, <1>3
<1>10. QueueInv(r, C, TRUE)
  BY <1>3, <1>4, <1>5, <1>7, <1>8 DEF QueueInv
<1> QED
  BY <1>2, <1>6, <1>9, <1>10

LEMMA PhaseFromInv ==
    ASSUME NEW C, NEW q, NEW w \in BOOLEAN, QueueInv(q, C, w)
    PROVE  PhaseTells(q)
<1> USE QueueDepthAssumption
<1>1. /\ q.cqTail \in Slots /\ q.head \in Slots /\ q.tag \in {0, 1}
      /\ q.cqTail = q.head \/ q.cqTail = Succ(q.head)
  BY DEF QueueInv, Queue, OneInFlight
<1>2. q.cq[q.head].tag = IF q.head < q.cqTail THEN q.tag ELSE 1 - q.tag
  BY <1>1 DEF QueueInv
<1>3. q.phase = IF q.cqTail # q.head /\ q.head + 1 >= QueueDepth THEN 1 - q.tag ELSE q.tag
  BY DEF QueueInv
<1> QED
  BY <1>1, <1>2, <1>3 DEF PhaseTells, Completed, Succ, Slots

LEMMA ConsumeKeepsQueue ==
    ASSUME NEW C, NEW q, QueueInv(q, C, TRUE), Completed(q)
    PROVE  /\ QueueInv(Consume(q), C, FALSE)
           /\ ExaminedError(Consume(q)) = q.cq[q.head].error
<1> DEFINE r == Consume(q)
<1> USE QueueDepthAssumption
<1>1. q.cqTail # q.head
  BY PhaseFromInv DEF PhaseTells
<1>2. q.tail = q.sqHead /\ q.cqTail = Succ(q.head)
  BY <1>1 DEF QueueInv, OneInFlight
<1>3. q.head \in Slots /\ q.phase \in {0, 1} /\ q.tag \in {0, 1}
  BY DEF QueueInv, Queue
<1>4. /\ r.sqDoorbell = q.sqDoorbell /\ r.cqDoorbell = Succ(q.head)
      /\ r.tail = q.tail /\ r.head = Succ(q.head) /\ r.sq = q.sq /\ r.cq = q.cq
      /\ r.sqHead = q.sqHead /\ r.cqTail = q.cqTail /\ r.tag = q.tag
      /\ r.phase = IF q.head + 1 >= QueueDepth THEN 1 - q.phase ELSE q.phase
  BY DEF QueueInv, Queue, Consume
<1>5. r \in Queue(C)
  <2>1. Succ(q.head) \in Slots /\ r.phase \in {0, 1}
    BY <1>3, <1>4 DEF Succ, Slots
  <2> QED
    BY <2>1 DEF QueueInv, Queue, Consume
<1>6. OneInFlight(r, FALSE)
  BY <1>2, <1>4 DEF OneInFlight
<1>7. r.phase = r.tag
  BY <1>1, <1>3, <1>4 DEF QueueInv
<1>8. QueueInv(r, C, FALSE)
  BY <1>2, <1>4, <1>5, <1>6, <1>7 DEF QueueInv
<1>9. Pred(Succ(q.head)) = q.head
  BY <1>3 DEF Pred, Succ, Slots
<1> QED
  BY <1>4, <1>8, <1>9 DEF ExaminedError

-----------------------------------------------------------------------------
LEMMA CommandsInTheirSets ==
    /\ \A cns \in {"controller", "namespace"} : Identify(cns) \in AdminCommands
    /\ CreateCq \in AdminCommands /\ CreateSq \in AdminCommands
    /\ \A r \in Requests : IOCommand(r) \in IOCommands
  BY DEF AdminCommands, IOCommands

LEMMA NoRequestIsNone == NoRequest \notin Requests
<1>1. \A r \in Requests : r.op \in {"read", "write"}
  BY RequestsAssumption
<1> QED
  BY <1>1 DEF NoRequest

(* The waiting flag as a case distinction. *)
AdminOK ==
    /\ pc \in Polling => QueueInv(admin, AdminCommands, TRUE)
    /\ pc \notin Polling => QueueInv(admin, AdminCommands, FALSE)

IoOK ==
    /\ pc = "io" => QueueInv(io, IOCommands, TRUE)
    /\ pc # "io" => QueueInv(io, IOCommands, FALSE)

LEMMA SplitOnWaiting == DriverInv <=> TypeOK /\ CallInv /\ AdminOK /\ IoOK
<1>1. CASE pc \in Polling
  BY <1>1 DEF DriverInv, AdminOK, IoOK, QueueInv, OneInFlight, Polling
<1>2. CASE pc = "io"
  BY <1>2 DEF DriverInv, AdminOK, IoOK, QueueInv, OneInFlight, Polling
<1>3. CASE pc \notin Polling /\ pc # "io"
  BY <1>3 DEF DriverInv, AdminOK, IoOK, QueueInv, OneInFlight
<1> QED
  BY <1>1, <1>2, <1>3

LEMMA InitDriverInv == Init => DriverInv
<1> SUFFICES ASSUME Init PROVE DriverInv
  OBVIOUS
<1> USE QueueDepthAssumption DEF Init
<1>1. ASSUME NEW C PROVE QueueInv(FreshQueue, C, FALSE)
  <2>1. FreshQueue \in Queue(C)
    BY DEF FreshQueue, Queue, NoCompletion, NoCommand, Slots
  <2>2. OneInFlight(FreshQueue, FALSE)
    BY DEF OneInFlight, FreshQueue
  <2>3. \A i \in Slots : FreshQueue.cq[i].tag = 0 /\ ~(i < 0)
    BY DEF FreshQueue, NoCompletion, Slots
  <2>4. /\ FreshQueue.cqTail = 0 /\ FreshQueue.tag = 1 /\ FreshQueue.head = 0
        /\ FreshQueue.phase = 1 /\ FreshQueue.tail = 0
        /\ FreshQueue.sqDoorbell = 0 /\ FreshQueue.cqDoorbell = 0
    BY DEF FreshQueue
  <2>5. \A i \in Slots : FreshQueue.cq[i].tag
             = IF i < FreshQueue.cqTail THEN FreshQueue.tag ELSE 1 - FreshQueue.tag
    BY <2>3, <2>4
  <2>6. FreshQueue.phase = IF FreshQueue.cqTail # FreshQueue.head /\ FreshQueue.head + 1 >= QueueDepth
                           THEN 1 - FreshQueue.tag ELSE FreshQueue.tag
    BY <2>4
  <2> QED
    BY <2>1, <2>2, <2>4, <2>5, <2>6 DEF QueueInv
<1>2. TypeOK
  BY <1>1 DEF TypeOK, QueueInv, Pcs
<1>3. CallInv
  BY DEF CallInv
<1>4. AdminOK /\ IoOK
  BY <1>1 DEF AdminOK, IoOK, Polling
<1> QED
  BY <1>2, <1>3, <1>4, SplitOnWaiting

LEMMA NextDriverInv == DriverInv /\ [Next]_vars => DriverInv'
<1> SUFFICES ASSUME DriverInv, [Next]_vars PROVE DriverInv'
  OBVIOUS
<1> USE CommandsInTheirSets
<1>0. TypeOK /\ CallInv /\ AdminOK /\ IoOK
  BY SplitOnWaiting
<1>s. (DriverInv <=> TypeOK /\ CallInv /\ AdminOK /\ IoOK)'
  BY SplitOnWaiting, PTL
<1>t. ASSUME AdminOK', IoOK', CallInv',
             pc' \in Pcs, enabled' \in BOOLEAN, csts' \in {"idle", "ready", "fatal"},
             ioCq' \in BOOLEAN, outcome' \in {"none", "done", "error"}
      PROVE  DriverInv'
  <2>1. admin' \in Queue(AdminCommands) /\ io' \in Queue(IOCommands)
    BY <1>t DEF AdminOK, IoOK, QueueInv
  <2>2. request' \in Requests \cup {NoRequest}
    BY <1>t DEF CallInv
  <2>3. TypeOK'
    BY <1>t, <2>1, <2>2 DEF TypeOK
  <2> QED
    BY <1>s, <1>t, <2>3
<1>p. pc # "io" => request = NoRequest /\ moved = {} /\ outcome = "none"
  BY <1>0 DEF CallInv
<1>1. CASE DisableController
  BY <1>0, <1>1, <1>p, <1>t DEF DisableController, callVars, TypeOK, CallInv, Pcs, Polling, AdminOK, IoOK
<1>2. CASE Initialize
  BY <1>0, <1>2, <1>p, <1>t DEF Initialize, callVars, TypeOK, CallInv, Pcs, Polling, AdminOK, IoOK
<1>3. CASE EnableFails
  BY <1>0, <1>3, <1>p, <1>t DEF EnableFails, callVars, TypeOK, CallInv, Pcs, Polling, AdminOK, IoOK
<1>4. CASE IdentifyController
  <2>1. QueueInv(admin', AdminCommands, TRUE)
    BY <1>0, <1>4, SubmitKeepsQueue DEF IdentifyController, Polling, AdminOK
  <2> QED
    BY <1>0, <1>4, <1>p, <1>t, <2>1 DEF IdentifyController, callVars, TypeOK, CallInv, Pcs, Polling, AdminOK, IoOK
<1>5. CASE IdentifyNamespace
  <2>1. QueueInv(Consume(admin), AdminCommands, FALSE)
    BY <1>0, <1>5, ConsumeKeepsQueue DEF IdentifyNamespace, Polling, AdminOK
  <2>2. QueueInv(admin', AdminCommands, TRUE)
    BY <1>5, <2>1, SubmitKeepsQueue DEF IdentifyNamespace
  <2> QED
    BY <1>0, <1>5, <1>p, <1>t, <2>2 DEF IdentifyNamespace, callVars, TypeOK, CallInv, Pcs, Polling, AdminOK, IoOK
<1>6. CASE CreateIOQueues
  <2>1. PICK from \in Polling, to \in Polling, cmd \in AdminCommands : SendAdminCommand(from, cmd, to)
    BY <1>6 DEF CreateIOQueues, Polling
  <2>2. QueueInv(Consume(admin), AdminCommands, FALSE)
    BY <1>0, <2>1, ConsumeKeepsQueue DEF SendAdminCommand, AdminOK
  <2>3. QueueInv(admin', AdminCommands, TRUE)
    BY <2>1, <2>2, SubmitKeepsQueue DEF SendAdminCommand
  <2> QED
    BY <1>0, <1>p, <1>t, <2>1, <2>3 DEF SendAdminCommand, callVars, TypeOK, CallInv, Pcs, Polling, AdminOK, IoOK
<1>7. CASE QueuesCreated
  <2>1. QueueInv(admin', AdminCommands, FALSE)
    BY <1>0, <1>7, ConsumeKeepsQueue DEF QueuesCreated, Polling, AdminOK
  <2> QED
    BY <1>0, <1>7, <1>p, <1>t, <2>1 DEF QueuesCreated, callVars, TypeOK, CallInv, Pcs, Polling, AdminOK, IoOK
<1>8. ASSUME NEW r \in Requests, ReadLBA(r) \/ WriteLBA(r)
      PROVE  DriverInv'
  <2>1. /\ pc = "ready" /\ pc' = "io" /\ request' = r /\ io' = Submit(io, IOCommand(r))
        /\ UNCHANGED <<enabled, csts, admin, ioCq, moved, outcome>>
    BY <1>8 DEF ReadLBA, WriteLBA
  <2>2. /\ QueueInv(io', IOCommands, TRUE)
        /\ io'.sq[io'.sqHead] = IOCommand(r) /\ io'.cqTail = io'.head
    <3>1. QueueInv(io, IOCommands, FALSE) /\ IOCommand(r) \in IOCommands
      BY <1>0, <2>1 DEF IoOK
    <3>2. /\ QueueInv(Submit(io, IOCommand(r)), IOCommands, TRUE)
          /\ Submit(io, IOCommand(r)).sq[io.sqHead] = IOCommand(r)
          /\ Submit(io, IOCommand(r)).cqTail = Submit(io, IOCommand(r)).head
          /\ Submit(io, IOCommand(r)).sqHead = io.sqHead
      BY <3>1, SubmitKeepsQueue
    <3> QED
      BY <2>1, <3>2
  <2>3. CallInv'
    BY <1>p, <2>1, <2>2 DEF CallInv
  <2> QED
    BY <1>0, <1>p, <1>t, <2>1, <2>2, <2>3 DEF TypeOK, Pcs, Polling, AdminOK, IoOK
<1>9. CASE SendIOCommand
  <2>1. QueueInv(io', IOCommands, FALSE)
    BY <1>0, <1>9, ConsumeKeepsQueue DEF SendIOCommand, IoOK
  <2> QED
    BY <1>0, <1>9, <1>t, <2>1 DEF SendIOCommand, TypeOK, CallInv, Pcs, Polling, AdminOK, IoOK
<1>10. CASE ControllerState
  <2>1. AdminOK'
    <3>1. CASE UNCHANGED admin
      BY <1>0, <1>10, <3>1 DEF ControllerState, AdminOK
    <3>2. CASE admin' = [admin EXCEPT !.on = TRUE]
      BY <1>0, <1>10, <3>2 DEF ControllerState, AdminOK, QueueInv, Queue, OneInFlight
    <3> QED
      BY <1>10, <3>1, <3>2 DEF ControllerState
  <2> QED
    BY <1>0, <1>10, <1>t, <2>1 DEF ControllerState, callVars, TypeOK, CallInv, IoOK
<1>11. CASE ExecuteAdmin
  <2>1. PICK failed \in BOOLEAN :
          /\ Pending(admin) /\ admin' = Post(admin, failed)
          /\ io'.on \in BOOLEAN /\ io' = [io EXCEPT !.on = io'.on]
    BY <1>0, <1>11 DEF ExecuteAdmin, IoOK, QueueInv, Queue
  <2>2. UNCHANGED <<pc, enabled, csts, request, moved, outcome>> /\ ioCq' \in BOOLEAN
    BY <1>0, <1>11 DEF ExecuteAdmin, callVars, TypeOK
  <2>3. pc \in Polling
    BY <1>0, <2>1 DEF AdminOK, IoOK, QueueInv, OneInFlight, Pending
  <2>4. QueueInv(admin', AdminCommands, TRUE)
    BY <1>0, <2>1, <2>3, PostKeepsQueue DEF AdminOK, IoOK
  <2>5. QueueInv(io', IOCommands, FALSE) /\ pc # "io"
    BY <1>0, <2>1, <2>3 DEF IoOK, QueueInv, Queue, OneInFlight, Polling
  <2> QED
    BY <1>0, <1>p, <1>t, <2>2, <2>3, <2>4, <2>5 DEF CallInv, TypeOK, AdminOK, IoOK
<1>12. CASE ExecuteIO
  <2>1. PICK failed \in BOOLEAN :
          /\ Pending(io) /\ io' = Post(io, failed)
          /\ outcome' = IF failed THEN "error" ELSE "done"
    BY <1>12 DEF ExecuteIO
  <2>2. UNCHANGED <<pc, enabled, csts, admin, ioCq, request>>
    BY <1>12 DEF ExecuteIO
  <2>3. pc = "io"
    BY <1>0, <2>1 DEF AdminOK, IoOK, QueueInv, OneInFlight, Pending
  <2>4. /\ QueueInv(io', IOCommands, TRUE)
        /\ io'.cqTail # io'.head /\ io'.cq[io'.head].error = failed
    BY <1>0, <2>1, <2>3, PostKeepsQueue DEF AdminOK, IoOK
  <2>5. CallInv'
    BY <1>0, <2>1, <2>2, <2>3, <2>4 DEF CallInv
  <2> QED
    BY <1>0, <1>t, <2>1, <2>2, <2>3, <2>4, <2>5 DEF TypeOK, AdminOK, IoOK, Polling
<1>13. CASE UNCHANGED vars
  BY <1>0, <1>13, <1>t DEF vars, TypeOK, CallInv, AdminOK, IoOK
<1> QED
  BY <1>1, <1>2, <1>3, <1>4, <1>5, <1>6, <1>7, <1>8, <1>9, <1>10, <1>11, <1>12, <1>13
     DEF Next, Driver, Controller

(* The inductive invariant holds in every reachable state. *)
THEOREM DriverInvariant == Spec => []DriverInv
  BY InitDriverInv, NextDriverInv, PTL DEF Spec

(* Types, for every queue depth and every set of requests. *)
THEOREM NvmeTypes == Spec => []TypeOK
<1>1. DriverInv => TypeOK
  BY DEF DriverInv
<1> QED
  BY <1>1, DriverInvariant, PTL

(***************************************************************************)
(* The phase test of the polling loops tells a new completion from one of  *)
(* the previous round, for every queue depth and however often the queues  *)
(* have wrapped.                                                           *)
(***************************************************************************)
THEOREM PhaseAlwaysTells == Spec => []PhaseTellsNew
<1>1. DriverInv => PhaseTellsNew
  BY SplitOnWaiting, PhaseFromInv DEF AdminOK, IoOK, PhaseTellsNew
<1> QED
  BY <1>1, DriverInvariant, PTL

(* At most one command is under way in each queue pair. *)
THEOREM OneCommand == Spec => []OneCommandAtATime
<1>1. DriverInv => OneCommandAtATime
  BY DEF DriverInv, QueueInv, OneCommandAtATime
<1> QED
  BY <1>1, DriverInvariant, PTL

(* The status examined after the head has moved is that of the command sent. *)
THEOREM StatusIsOwn == Spec => []ExaminesOwnStatus
<1>1. DriverInv => ExaminesOwnStatus
  <2> SUFFICES ASSUME DriverInv, pc = "io", Completed(io)
               PROVE  ExaminedError(Consume(io)) <=> outcome = "error"
    BY DEF ExaminesOwnStatus
  <2>1. QueueInv(io, IOCommands, TRUE) /\ CallInv
    BY SplitOnWaiting DEF IoOK
  <2>2. io.cqTail # io.head
    BY <2>1, PhaseFromInv DEF PhaseTells
  <2>3. ExaminedError(Consume(io)) = io.cq[io.head].error
    BY <2>1, ConsumeKeepsQueue
  <2>4. io.cq[io.head].error \in BOOLEAN
    BY <2>1 DEF QueueInv, Queue
  <2> QED
    BY <2>1, <2>2, <2>3, <2>4 DEF CallInv
<1> QED
  BY <1>1, DriverInvariant, PTL

(* What the controller moves for a command is the extent of its request. *)
LEMMA TransfersAreExtent ==
    ASSUME NEW r \in Requests
    PROVE  Transfers(IOCommand(r)) = Device!Extent(r)
<1>1. r.buf \in Nat /\ r.count \in Nat \ {0} /\ r.lba \in Nat
  BY RequestsAssumption
<1>2. /\ IOCommand(r).slba = r.lba /\ IOCommand(r).nlb = r.count - 1
      /\ IOCommand(r).prps = SetupPRPs(r.buf, r.count)
  BY DEF IOCommand
<1>3. IOCommand(r).nlb + 1 = r.count
  BY <1>1, <1>2
<1>4. \A i \in 0 .. r.count - 1 :
         BlockAddress(SetupPRPs(r.buf, r.count), r.count, i) = r.buf + i
  BY <1>1, PrpsCoverBuffer
<1>5. Transfers(IOCommand(r)) =
        {<<r.lba + i, BlockAddress(SetupPRPs(r.buf, r.count), r.count, i)>> : i \in 0 .. r.count - 1}
  BY <1>2, <1>3 DEF Transfers
<1> QED
  BY <1>4, <1>5 DEF Device!Extent

(***************************************************************************)
(* Refinement: the driver and the controller together are a block device,  *)
(* for every queue depth, page size and set of requests.                   *)
(***************************************************************************)
THEOREM NvmeIsBlockDevice == Spec => ImplementsBlockDevice
<1>1. Init => Device!Init
  BY DEF Init, Device!Init, NoRequest, Device!NoRequest
<1>2. DriverInv /\ [Next]_vars => [Device!Next]_(Device!bdVars)
  <2> SUFFICES ASSUME DriverInv, [Next]_vars
               PROVE  Device!Next \/ UNCHANGED callVars
    BY DEF Device!bdVars, callVars
  <2>0. CallInv /\ AdminOK /\ IoOK
    BY SplitOnWaiting
  <2>1. ASSUME NEW r \in Requests, ReadLBA(r) \/ WriteLBA(r)
        PROVE  Device!Next
    <3>1. request = NoRequest /\ request' = r /\ UNCHANGED <<moved, outcome>>
      BY <2>0, <2>1 DEF ReadLBA, WriteLBA, CallInv
    <3> QED
      BY <3>1 DEF Device!Next, Device!Call, NoRequest, Device!NoRequest
  <2>2. CASE SendIOCommand
    <3>1. io.cqTail # io.head
      BY <2>0, <2>2, PhaseFromInv DEF SendIOCommand, IoOK, PhaseTells
    <3>2. outcome # "none"
      BY <2>0, <2>2, <3>1 DEF SendIOCommand, CallInv
    <3> QED
      BY <2>2, <3>2 DEF SendIOCommand, Device!Next, Device!Return, NoRequest, Device!NoRequest
  <2>3. CASE ExecuteIO
    <3>1. pc = "io"
      BY <2>0, <2>3 DEF ExecuteIO, IoOK, QueueInv, OneInFlight, Pending
    <3>2. io.cqTail = io.head
      BY <2>0, <2>3, <3>1 DEF ExecuteIO, IoOK, QueueInv, OneInFlight, Pending
    <3>3. request \in Requests /\ outcome = "none" /\ io.sq[io.sqHead] = IOCommand(request)
      BY <2>0, <3>1, <3>2 DEF CallInv
    <3>4. request # Device!NoRequest
      BY <3>3, NoRequestIsNone DEF NoRequest, Device!NoRequest
    <3>5. UNCHANGED request /\ \/ moved' = moved /\ outcome' = "error"
                               \/ moved' = Transfers(IOCommand(request)) /\ outcome' = "done"
      BY <2>3, <3>3 DEF ExecuteIO
    <3>6. Transfers(IOCommand(request)) = Device!Extent(request)
      BY <3>3, TransfersAreExtent
    <3> QED
      BY <3>3, <3>4, <3>5, <3>6 DEF Device!Next, Device!Perform, Device!Refuse
  <2>4. CASE UNCHANGED callVars
    BY <2>4
  <2> QED
    BY <2>1, <2>2, <2>3, <2>4 DEF Next, Driver, Controller, vars, callVars, DisableController,
       Initialize, EnableFails, IdentifyController, IdentifyNamespace, CreateIOQueues,
       SendAdminCommand, QueuesCreated, ControllerState, ExecuteAdmin
<1> QED
  BY <1>1, <1>2, DriverInvariant, PTL DEF Spec, ImplementsBlockDevice, Device!Spec
=============================================================================
