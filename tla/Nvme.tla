-------------------------------- MODULE Nvme --------------------------------
(***************************************************************************)
(* The NVMe driver (driver/nvme/nvme_driver.cpp) and the controller it     *)
(* polls.  The driver is sequential and has at most one command under way: *)
(* it submits, polls the phase tag of the completion at its head, moves on *)
(* and only then examines the status.  The controller (external) runs      *)
(* concurrently and may fail any command.                                  *)
(***************************************************************************)
EXTENDS NvmeQueue

CONSTANTS Requests   \* what the callers of ReadLBA and WriteLBA ask for

(* A call with count 0 returns at once, so such requests are left out. *)
ASSUME RequestsAssumption ==
    Requests \subseteq [op : {"read", "write"}, lba : Nat, buf : Nat, count : Nat \ {0}]

VARIABLES pc,        \* where the driver is
          enabled,   \* CC.EN
          csts,      \* "idle", "ready" or "fatal"
          admin, io, \* the queue pairs
          ioCq,      \* the controller has an I/O completion queue
          request,   \* the argument of the ReadLBA or WriteLBA under way
          moved,     \* what the controller has moved for it
          outcome    \* what the controller has decided about it

vars == <<pc, enabled, csts, admin, io, ioCq, request, moved, outcome>>
callVars == <<request, moved, outcome>>

NoRequest == [op |-> "none"]
Identify(cns) == [opcode |-> "identify", cns |-> cns]
CreateCq == [opcode |-> "createCq"]
CreateSq == [opcode |-> "createSq"]

(* The command of ReadLBA and WriteLBA; the block count is zero based. *)
IOCommand(r) ==
    [opcode |-> r.op, slba |-> r.lba, nlb |-> r.count - 1,
     prps |-> SetupPRPs(r.buf, r.count)]

(* Firmware may have left the controller running. *)
Init ==
    /\ pc = "off"
    /\ enabled \in BOOLEAN
    /\ csts = IF enabled THEN "ready" ELSE "idle"
    /\ admin = FreshQueue
    /\ io = FreshQueue
    /\ ioCq = FALSE
    /\ request = NoRequest
    /\ moved = {}
    /\ outcome = "none"

(***************************************************************************)
(* The driver.                                                             *)
(***************************************************************************)
DisableController ==
    /\ pc = "off"
    /\ enabled' = FALSE
    /\ pc' = "resetting"
    /\ UNCHANGED <<csts, admin, io, ioCq, callVars>>

(* Initialize, once CSTS.RDY is 0: allocate and clear the admin rings, tell *)
(* the controller and enable it; without memory the driver stops for good.  *)
Initialize ==
    /\ pc = "resetting"
    /\ csts = "idle"
    /\ \/ enabled' = TRUE /\ pc' = "enabling"
       \/ pc' = "halted" /\ UNCHANGED enabled
    /\ UNCHANGED <<csts, admin, io, ioCq, callVars>>

(* EnableController stops for good on a fatal status and on its timeout. *)
EnableFails ==
    /\ pc = "enabling"
    /\ csts # "ready"
    /\ pc' = "halted"
    /\ UNCHANGED <<enabled, csts, admin, io, ioCq, callVars>>

IdentifyController ==
    /\ pc = "enabling"
    /\ csts = "ready"
    /\ admin' = Submit(admin, Identify("controller"))
    /\ pc' = "identify"
    /\ UNCHANGED <<enabled, csts, io, ioCq, callVars>>

(* The second command is built in the slot of the first and copied. *)
IdentifyNamespace ==
    /\ pc = "identify"
    /\ Completed(admin)
    /\ admin' = Submit(Consume(admin), Identify("namespace"))
    /\ pc' = "identifyNs"
    /\ UNCHANGED <<enabled, csts, io, ioCq, callVars>>

(* A failed admin command is reported on the console only. *)
SendAdminCommand(from, cmd, to) ==
    /\ pc = from
    /\ Completed(admin)
    /\ admin' = Submit(Consume(admin), cmd)
    /\ pc' = to
    /\ UNCHANGED <<enabled, csts, io, ioCq, callVars>>

CreateIOQueues ==
    \/ SendAdminCommand("identifyNs", CreateCq, "createCq")
    \/ SendAdminCommand("createCq", CreateSq, "createSq")

QueuesCreated ==
    /\ pc = "createSq"
    /\ Completed(admin)
    /\ admin' = Consume(admin)
    /\ pc' = "ready"
    /\ UNCHANGED <<enabled, csts, io, ioCq, callVars>>

ReadLBA(r) ==
    /\ pc = "ready"
    /\ r.op = "read"
    /\ request' = r
    /\ io' = Submit(io, IOCommand(r))
    /\ pc' = "io"
    /\ UNCHANGED <<enabled, csts, admin, ioCq, moved, outcome>>

(* The doorbell is not rung (a mutant). *)
WriteLBASilent(r) ==
    /\ pc = "ready"
    /\ r.op = "write"
    /\ request' = r
    /\ io' = [Submit(io, IOCommand(r)) EXCEPT !.sqDoorbell = io.sqDoorbell]
    /\ pc' = "io"
    /\ UNCHANGED <<enabled, csts, admin, ioCq, moved, outcome>>

WriteLBA(r) ==
    /\ pc = "ready"
    /\ r.op = "write"
    /\ request' = r
    /\ io' = Submit(io, IOCommand(r))
    /\ pc' = "io"
    /\ UNCHANGED <<enabled, csts, admin, ioCq, moved, outcome>>

(* The completion is not awaited (a mutant). *)
SendIOCommandNoWait ==
    /\ pc = "io"
    /\ io' = Consume(io)
    /\ pc' = "ready"
    /\ request' = NoRequest
    /\ moved' = {}
    /\ outcome' = "none"
    /\ UNCHANGED <<enabled, csts, admin, ioCq>>

(* The end of SendIOCommand, and the return to the caller. *)
SendIOCommand ==
    /\ pc = "io"
    /\ Completed(io)
    /\ io' = Consume(io)
    /\ pc' = "ready"
    /\ request' = NoRequest
    /\ moved' = {}
    /\ outcome' = "none"
    /\ UNCHANGED <<enabled, csts, admin, ioCq>>

Driver ==
    \/ DisableController
    \/ Initialize
    \/ EnableFails
    \/ IdentifyController
    \/ IdentifyNamespace
    \/ CreateIOQueues
    \/ QueuesCreated
    \/ \E r \in Requests : ReadLBA(r) \/ WriteLBA(r)
    \/ SendIOCommand

(***************************************************************************)
(* The controller (external).                                              *)
(***************************************************************************)
ControllerState ==
    /\ \/ ~enabled /\ csts = "ready" /\ csts' = "idle" /\ UNCHANGED admin
       \/ /\ enabled /\ csts = "idle"
          /\ csts' = "ready"
          /\ admin' = [admin EXCEPT !.on = TRUE]
       \/ enabled /\ csts = "idle" /\ csts' = "fatal" /\ UNCHANGED admin
    /\ UNCHANGED <<pc, enabled, io, ioCq, callVars>>

(* Identify with a valid namespace does not fail: the driver would take the *)
(* block size from memory that nobody has written.                          *)
ExecuteAdmin ==
    /\ Pending(admin) /\ RoomForCompletion(admin)
    /\ \E failed \in BOOLEAN :
         LET cmd == admin.sq[admin.sqHead] IN
         /\ cmd.opcode = "createSq" /\ ~ioCq => failed
         /\ cmd.opcode = "identify" => ~failed
         /\ admin' = Post(admin, failed)
         /\ ioCq' = (ioCq \/ (cmd.opcode = "createCq" /\ ~failed))
         /\ io' = [io EXCEPT !.on = @ \/ (cmd.opcode = "createSq" /\ ~failed)]
    /\ UNCHANGED <<pc, enabled, csts, callVars>>

Transfers(cmd) ==
    {<<cmd.slba + i, BlockAddress(cmd.prps, cmd.nlb + 1, i)>> : i \in 0 .. cmd.nlb}

ExecuteIO ==
    /\ Pending(io) /\ RoomForCompletion(io)
    /\ \E failed \in BOOLEAN :
         /\ io' = Post(io, failed)
         /\ moved' = IF failed THEN moved ELSE Transfers(io.sq[io.sqHead])
         /\ outcome' = IF failed THEN "error" ELSE "done"
    /\ UNCHANGED <<pc, enabled, csts, admin, ioCq, request>>

Controller == ControllerState \/ ExecuteAdmin \/ ExecuteIO

Next == Driver \/ Controller

Spec == Init /\ [][Next]_vars

(* The driver is straight-line code that polls, and a controller that has    *)
(* been told about a command answers it: without that nothing can be read.   *)
Fairness ==
    /\ WF_vars(ExecuteIO)
    /\ WF_vars(SendIOCommand)

FairSpec == Spec /\ Fairness

-----------------------------------------------------------------------------
Queue(Command) ==
    [sq : [Slots -> Command \cup {NoCommand}],
     cq : [Slots -> [tag : {0, 1}, error : BOOLEAN]],
     tail : Slots, head : Slots, phase : {0, 1},
     sqDoorbell : Slots, cqDoorbell : Slots,
     on : BOOLEAN, sqHead : Slots, cqTail : Slots, tag : {0, 1}]

AdminCommands == {Identify("controller"), Identify("namespace"), CreateCq, CreateSq}
IOCommands == {IOCommand(r) : r \in Requests}
Polling == {"identify", "identifyNs", "createCq", "createSq"}
Pcs == {"off", "resetting", "enabling", "ready", "io", "halted"} \cup Polling

(* Types of the driver's and the controller's state. *)
TypeOK ==
    /\ pc \in Pcs
    /\ enabled \in BOOLEAN
    /\ csts \in {"idle", "ready", "fatal"}
    /\ admin \in Queue(AdminCommands)
    /\ io \in Queue(IOCommands)
    /\ ioCq \in BOOLEAN
    /\ request \in Requests \cup {NoRequest}
    /\ outcome \in {"none", "done", "error"}

(***************************************************************************)
(* The tag at the head of a completion queue has the driver's phase exactly*)
(* when the controller has posted a completion that the driver has not     *)
(* consumed, however often the queues have wrapped: a completion of the    *)
(* previous round is never taken for the one that is awaited.              *)
(***************************************************************************)
PhaseTells(q) == Completed(q) <=> q.cqTail # q.head
PhaseTellsNew == PhaseTells(admin) /\ PhaseTells(io)

(***************************************************************************)
(* One command at a time: outside the polling loops both rings are empty   *)
(* for both sides, and inside, the one command is either submitted or      *)
(* answered.  So no slot is overwritten before the controller has read it. *)
(***************************************************************************)
OneInFlight(q, waiting) ==
    IF waiting
    THEN \/ q.tail = Succ(q.sqHead) /\ q.cqTail = q.head
         \/ q.tail = q.sqHead /\ q.cqTail = Succ(q.head)
    ELSE q.tail = q.sqHead /\ q.cqTail = q.head
OneCommandAtATime == OneInFlight(admin, pc \in Polling) /\ OneInFlight(io, pc = "io")

(***************************************************************************)
(* The inductive form.  The entries before the controller's tail carry its *)
(* tag and the others the opposite one, the doorbells are up to date, and  *)
(* the driver's phase is the controller's tag except between the wrap of   *)
(* the one and the wrap of the other; a command that is not answered is    *)
(* that of the current request, and the answer is what became of it.       *)
(***************************************************************************)
QueueInv(q, Command, waiting) ==
    /\ q \in Queue(Command)
    /\ q.sqDoorbell = q.tail /\ q.cqDoorbell = q.head
    /\ \A i \in Slots : q.cq[i].tag = IF i < q.cqTail THEN q.tag ELSE 1 - q.tag
    /\ OneInFlight(q, waiting)
    /\ q.phase = IF q.cqTail # q.head /\ q.head + 1 >= QueueDepth
                 THEN 1 - q.tag ELSE q.tag

CallInv ==
    IF pc = "io"
    THEN /\ request \in Requests
         /\ IF io.cqTail = io.head
            THEN outcome = "none" /\ io.sq[io.sqHead] = IOCommand(request)
            ELSE outcome = IF io.cq[io.head].error THEN "error" ELSE "done"
    ELSE request = NoRequest /\ moved = {} /\ outcome = "none"

DriverInv ==
    /\ TypeOK
    /\ QueueInv(admin, AdminCommands, pc \in Polling)
    /\ QueueInv(io, IOCommands, pc = "io")
    /\ CallInv

(***************************************************************************)
(* The status that SendIOCommand examines, at the entry before the head    *)
(* after the head has moved and perhaps wrapped, is that of the command it *)
(* sent.                                                                   *)
(***************************************************************************)
ExaminesOwnStatus ==
    pc = "io" /\ Completed(io) => (ExaminedError(Consume(io)) <=> outcome = "error")

(***************************************************************************)
(* A call returns only after the controller has moved exactly the blocks   *)
(* of the request to exactly the blocks of the buffer, or has failed it.   *)
(***************************************************************************)
Device == INSTANCE BlockDevice
ImplementsBlockDevice == Device!Spec

(* Once the I/O queues exist, every call returns. *)
CallsReturn == (pc = "io" /\ io.on) ~> pc = "ready"
=============================================================================
