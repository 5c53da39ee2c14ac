----------------------------- MODULE NvmeQueue -----------------------------
(***************************************************************************)
(* One submission/completion queue pair of the NVMe driver                 *)
(* (driver/nvme/nvme_driver.cpp) as functions of a record.  The admin and  *)
(* the I/O pair are handled by the same code twice.  Fields:               *)
(*   sq, cq                 the two rings in memory                        *)
(*   tail, head, phase      the driver's sq_tail_, cq_head_, phase_        *)
(*   sqDoorbell, cqDoorbell the doorbell registers                         *)
(*   on                     the device knows the pair                      *)
(*   sqHead, cqTail, tag    the device's positions and its phase tag       *)
(***************************************************************************)
EXTENDS Integers

CONSTANTS QueueDepth,   \* queue_depth_ (32 in the code)
          PageSize      \* blocks per 4 KiB page (8 in the code)

(* With one entry the tail would never differ from the device's head. *)
ASSUME QueueDepthAssumption == QueueDepth \in Nat \ {0, 1}
ASSUME PageSizeAssumption == PageSize \in Nat \ {0}

Slots == 0 .. QueueDepth - 1

(* The wrap is forgotten (a mutant). *)
SuccNoWrap(i) == i + 1

Succ(i) == IF i + 1 >= QueueDepth THEN 0 ELSE i + 1
Pred(i) == IF i = 0 THEN QueueDepth - 1 ELSE i - 1

(* Zeroed memory: opcode 0, and completions with phase tag 0 and status 0. *)
NoCommand == [opcode |-> "zero"]
NoCompletion == [tag |-> 0, error |-> FALSE]

(* The driver's fields are set by its constructor, the rings are zeroed, and *)
(* the device's positions are those of a queue it has just been given.       *)
FreshQueue ==
    [sq |-> [i \in Slots |-> NoCommand], cq |-> [i \in Slots |-> NoCompletion],
     tail |-> 0, head |-> 0, phase |-> 1, sqDoorbell |-> 0, cqDoorbell |-> 0,
     on |-> FALSE, sqHead |-> 0, cqTail |-> 0, tag |-> 1]

(***************************************************************************)
(* The driver's side.                                                      *)
(***************************************************************************)
Submit(q, cmd) ==
    [q EXCEPT !.sq = [q.sq EXCEPT ![q.tail] = cmd],
              !.tail = Succ(q.tail),
              !.sqDoorbell = Succ(q.tail)]

(* What the polling loop waits for. *)
Completed(q) == q.cq[q.head].tag = q.phase

(* The phase is not flipped when the head wraps (a mutant). *)
ConsumeSamePhase(q) ==
    [q EXCEPT !.head = Succ(q.head), !.cqDoorbell = Succ(q.head)]

Consume(q) ==
    [q EXCEPT !.head = Succ(q.head),
              !.phase = IF q.head + 1 >= QueueDepth THEN 1 - q.phase ELSE q.phase,
              !.cqDoorbell = Succ(q.head)]

(* The head has already moved on (a mutant). *)
ExaminedErrorAtHead(q) == q.cq[q.head].error

(* The entry that is examined for errors after the head has moved. *)
ExaminedError(q) == q.cq[Pred(q.head)].error

(***************************************************************************)
(* SetupPRPs: the pages of a buffer of size blocks at addr.  The second    *)
(* pointer is a page when two pages suffice and a list of pages otherwise. *)
(* The list has one page, 512 entries: callers stay far below 2 MiB.       *)
(***************************************************************************)
Prp2Page(a) == [kind |-> "page", page |-> a]
Prp2List(l) == [kind |-> "list", list |-> l]

(* One list entry too few when the last page is partly used (a mutant). *)
SetupPRPsRoundDown(addr, size) ==
    LET offset == addr % PageSize
        remaining == size - (PageSize - offset)
        next == addr - offset + PageSize
    IN  [prp1 |-> addr,
         prp2 |-> IF remaining <= PageSize
                  THEN Prp2Page(next)
                  ELSE Prp2List([i \in 0 .. (remaining \div PageSize) - 1
                                    |-> next + i * PageSize])]

SetupPRPs(addr, size) ==
    LET offset == addr % PageSize
        page_capacity == PageSize - offset
        remaining == size - page_capacity
        next_page_addr == addr - offset + PageSize
        num_pages == (remaining + PageSize - 1) \div PageSize
    IN  [prp1 |-> addr,
         prp2 |-> IF size <= page_capacity THEN Prp2Page(0)
                  ELSE IF remaining <= PageSize THEN Prp2Page(next_page_addr)
                  ELSE Prp2List([i \in 0 .. num_pages - 1
                                    |-> next_page_addr + i * PageSize])]

(***************************************************************************)
(* The device's side (external): how a controller walks the pointers of a  *)
(* command of size blocks.  Whether it takes PRP2 for a page or for a list *)
(* follows from the size alone, not from what the driver meant.            *)
(***************************************************************************)
Wild == -1

BlockAddress(prp, size, i) ==
    LET first == PageSize - (prp.prp1 % PageSize)
        j == i - first
    IN  IF i < first THEN prp.prp1 + i
        ELSE IF size - first <= PageSize
             THEN IF prp.prp2.kind = "page" THEN prp.prp2.page + j ELSE Wild
             ELSE IF prp.prp2.kind = "list" /\ j \div PageSize \in DOMAIN prp.prp2.list
                  THEN prp.prp2.list[j \div PageSize] + (j % PageSize)
                  ELSE Wild

Pending(q) == q.on /\ q.sqHead # q.sqDoorbell
RoomForCompletion(q) == Succ(q.cqTail) # q.cqDoorbell

(* The device takes the command at its head and posts the completion. *)
Post(q, failed) ==
    [q EXCEPT !.sqHead = Succ(q.sqHead),
              !.cq = [q.cq EXCEPT ![q.cqTail] = [tag |-> q.tag, error |-> failed]],
              !.cqTail = Succ(q.cqTail),
              !.tag = IF q.cqTail + 1 >= QueueDepth THEN 1 - q.tag ELSE q.tag]
=============================================================================
