---------------------------- MODULE KeyboardInput ----------------------------
(***************************************************************************)
(* From a key to the application that reads it: the keyboard's reports, the*)
(* event ring, Keyboard::Update, which both the timer interrupt and the    *)
(* Read system call run, and the ring of characters in KeyboardFD          *)
(* (driver/usb/keyboard/keyboard.cpp, sys/std/file_descriptor.cpp and .hpp,*)
(* interrupt.cpp).  The timer starts when the boot of Xhci has ended.      *)
(*                                                                         *)
(* System calls run with interrupts enabled.  A tick is one step, since    *)
(* nothing interrupts it; Read is a step for every access to what the tick *)
(* changes as well.                                                        *)
(***************************************************************************)
EXTENDS Xhci, SequencesExt

CONSTANTS Keys,
          FdSize,       \* kBufferSize of KeyboardFD, 1024 in the code
          MaxReports    \* bound: reports that the keyboards send, and faults

VARIABLES report,       \* the keys that are held on the keyboard of each port
          buf, prev,    \* buf_ and prev_buf_ of its driver
          fd,           \* g_fds[0]
          app,          \* the application, and the locals of its Read
          pending,      \* keys that were pressed and have not been read
          reports       \* for the bound

runVars == <<report, buf, prev, fd, app, pending, reports>>
vars == <<bootVars, runVars>>

EmptyFD == [chars |-> [i \in 0 .. FdSize - 1 |-> 0], w |-> 0, r |-> 0, n |-> 0]
AtUser == [pc |-> "user", ev |-> NoEvent, idx |-> 0, c |-> 0, n |-> 0]

Init ==
    /\ BootInit
    /\ report = [p \in Ports |-> <<>>]
    /\ buf = [p \in Ports |-> <<>>]
    /\ prev = [p \in Ports |-> <<>>]
    /\ fd = EmptyFD
    /\ app = AtUser
    /\ pending = [p \in Ports |-> <<>>]
    /\ reports = 0

Boot == (BootStep \/ HcObeys \/ \E ok \in BOOLEAN : Answer(ok)) /\ UNCHANGED runVars

-----------------------------------------------------------------------------
(* Keys are pressed and released: a report goes to the buffer of the TRB.   *)
(* It has the keys that stay down first.                                    *)
Key(p, ks) ==
    LET held == ToSet(report[p])
        pressed == SetToSeq(ks \ held)
    IN  /\ Armed(bus.eps[p]["int"])
        /\ reports + faults < MaxReports
        /\ reports' = reports + 1
        /\ report' = [report EXCEPT ![p] = SelectSeq(@, LAMBDA k : k \notin ks) \o pressed]
        /\ pending' = [pending EXCEPT ![p] = @ \o pressed]
        /\ buf' = [buf EXCEPT ![p] = report'[p]]
        /\ bus' = [bus EXCEPT !.eps[p]["int"] = Complete(@)]
        /\ er' = Post(er, Event("transfer", p, "int", "", TRUE))
        /\ UNCHANGED <<devices, drv, marks, faults, prev, fd, app>>

-----------------------------------------------------------------------------
(* KeyboardFD and Keyboard::Update. *)

(* A full buffer is not noticed (a mutant). *)
OnInputUnbounded(f, c) ==
    [f EXCEPT !.chars[f.w] = c, !.w = (@ + 1) % FdSize, !.n = @ + 1]

OnInput(f, c) ==
    IF f.n >= FdSize THEN f
    ELSE [f EXCEPT !.chars[f.w] = c, !.w = (@ + 1) % FdSize, !.n = @ + 1]

(* Every key of the report is taken for a new one (a mutant). *)
NewKeysAll(now, before) == now
NewKeys(now, before) == SelectSeq(now, LAMBDA k : ~Contains(before, k))

Mine(ev) == ev.type = "transfer" /\ ev.port = drv.kb /\ ev.ep = "int"
Input == FoldLeft(OnInput, fd, NewKeys(buf[drv.kb], prev[drv.kb]))
Overfull == IF fd.n + Len(NewKeys(buf[drv.kb], prev[drv.kb])) > FdSize THEN {"input full"} ELSE {}

(* The report is processed, remembered and cleared. *)
ProcessReport ==
    /\ fd' = Input
    /\ prev' = [prev EXCEPT ![drv.kb] = buf[drv.kb]]
    /\ buf' = [buf EXCEPT ![drv.kb] = <<>>]

Rearm == bus' = [bus EXCEPT !.eps[drv.kb]["int"] = SendNormalTRB(@)]

(* What follows such an overlap of a tick with a system call is not         *)
(* modelled.                                                                *)
Running == drv.step = "run" /\ "overlap" \notin marks

(* Update inside Update, or OnInput inside count_-- or Flush. *)
Overlap ==
    IF \/ app.pc \in {"advance", "process", "arm"}
       \/ app.pc \in {"store", "flush"} /\ Mine(Current(er)) /\ Input # fd
    THEN {"overlap"} ELSE {}

TimerHandler ==
    /\ Running
    /\ drv.kb # 0
    /\ HasEvent(er)
    /\ er' = Advance(er, er.idx)
    /\ IF Mine(Current(er))
       THEN ProcessReport /\ Rearm /\ marks' = marks \cup Overlap \cup Overfull
       ELSE UNCHANGED <<fd, prev, buf, bus>> /\ marks' = marks \cup Overlap \cup Dropped(Current(er))
    /\ UNCHANGED <<devices, drv, faults, report, app, pending, reports>>

-----------------------------------------------------------------------------
(* The Read system call, one character at a time. *)

ReadPolls ==
    /\ Running
    /\ app.pc = "user"
    /\ app' = IF drv.kb # 0 /\ HasEvent(er)
              THEN [app EXCEPT !.pc = "advance", !.ev = Current(er), !.idx = er.idx]
              ELSE [app EXCEPT !.pc = "count"]
    /\ UNCHANGED <<bootVars, report, buf, prev, fd, pending, reports>>

(* event_ring_index_++: the value read before, or a new load. *)
ReadAdvances ==
    /\ Running
    /\ app.pc = "advance"
    /\ er' \in {Advance(er, app.idx), Advance(er, er.idx)}
    /\ app' = [app EXCEPT !.pc = IF Mine(app.ev) THEN "process" ELSE "count", !.ev = NoEvent, !.idx = 0]
    /\ marks' = marks \cup (IF Mine(app.ev) THEN {} ELSE Dropped(app.ev))
    /\ UNCHANGED <<devices, drv, bus, faults, report, buf, prev, fd, pending, reports>>

ReadProcesses ==
    /\ Running
    /\ app.pc = "process"
    /\ ProcessReport
    /\ app' = [app EXCEPT !.pc = "arm"]
    /\ marks' = marks \cup Overfull
    /\ UNCHANGED <<devices, drv, bus, er, faults, report, pending, reports>>

ReadArms ==
    /\ Running
    /\ app.pc = "arm"
    /\ Rearm
    /\ app' = [app EXCEPT !.pc = "count"]
    /\ UNCHANGED <<devices, drv, er, marks, faults, report, buf, prev, fd, pending, reports>>

(* The last character is left in the buffer (a mutant). *)
ReadTakesAllButOne ==
    /\ Running
    /\ app.pc = "count"
    /\ IF fd.n <= 1 THEN app' = AtUser /\ UNCHANGED fd
       ELSE /\ app' = [app EXCEPT !.pc = "store", !.c = fd.chars[fd.r], !.n = fd.n - 1]
            /\ fd' = [fd EXCEPT !.r = (@ + 1) % FdSize]
    /\ UNCHANGED <<bootVars, report, buf, prev, pending, reports>>

ReadTakes ==
    /\ Running
    /\ app.pc = "count"
    /\ IF fd.n = 0 THEN app' = AtUser /\ UNCHANGED fd
       ELSE /\ app' = [app EXCEPT !.pc = "store", !.c = fd.chars[fd.r], !.n = fd.n - 1]
            /\ fd' = [fd EXCEPT !.r = (@ + 1) % FdSize]
    /\ UNCHANGED <<bootVars, report, buf, prev, pending, reports>>

ReadStores ==
    /\ Running
    /\ app.pc = "store"
    /\ fd' = [fd EXCEPT !.n = app.n]
    /\ app' = AtUser
    /\ pending' = [pending EXCEPT ![drv.kb] = IF @ # <<>> /\ Head(@) = app.c THEN Tail(@) ELSE @]
    /\ UNCHANGED <<bootVars, report, buf, prev, reports>>

(* Exit empties the buffer for the next reader: the positions, the count. *)
Flush ==
    /\ Running
    /\ app.pc = "user"
    /\ app' = [app EXCEPT !.pc = "flush"]
    /\ fd' = [fd EXCEPT !.r = 0, !.w = 0]
    /\ pending' = [p \in Ports |-> IF p = drv.kb /\ fd.n <= Len(pending[p])
                                   THEN SubSeq(pending[p], fd.n + 1, Len(pending[p]))
                                   ELSE pending[p]]
    /\ UNCHANGED <<bootVars, report, buf, prev, reports>>

FlushEnds ==
    /\ Running
    /\ app.pc = "flush"
    /\ app' = AtUser
    /\ fd' = [fd EXCEPT !.n = 0]
    /\ UNCHANGED <<bootVars, report, buf, prev, pending, reports>>

ReadStep == ReadPolls \/ ReadAdvances \/ ReadProcesses \/ ReadArms \/ ReadTakes \/ ReadStores \/ FlushEnds

Next ==
    \/ Boot
    \/ \E p \in Ports, ks \in SUBSET Keys \ {{}} : Key(p, ks)
    \/ TimerHandler
    \/ ReadStep
    \/ Flush

Spec == Init /\ [][Next]_vars

(***************************************************************************)
(* The driver and the applications keep running, the controller and the    *)
(* devices answer in the end, and the timer keeps ticking.                 *)
(***************************************************************************)
FairSpec ==
    /\ Spec
    /\ WF_vars(BootStep /\ UNCHANGED runVars)
    /\ WF_vars(HcObeys /\ UNCHANGED runVars)
    /\ WF_vars(Answer(TRUE) /\ UNCHANGED runVars)
    /\ WF_vars(TimerHandler)
    /\ WF_vars(ReadStep)

-----------------------------------------------------------------------------
(* Types of the rings, of the driver's state and of the input buffer. *)
TypeOK ==
    /\ drv.port \in 1 .. NPorts + 1
    /\ drv.kb \in 0 .. NPorts
    /\ drv.ms \in [slot : 0 .. NPorts, found : BOOLEAN, ready : BOOLEAN]
    /\ er.idx \in 0 .. EventSize /\ er.enq \in 0 .. EventSize - 1
    /\ \A p \in Ports, e \in {"int", "in", "out"} :
         bus.eps[p][e] = NoRing \/ bus.eps[p][e].idx \in 0 .. Link - 1
    /\ fd \in [chars : [0 .. FdSize - 1 -> Keys \cup {0}], w : 0 .. FdSize - 1, r : 0 .. FdSize - 1, n : 0 .. FdSize]
    /\ app.pc \in {"user", "advance", "process", "arm", "count", "store", "flush"}

(***************************************************************************)
(* As long as the driver's index is in the ring and Update was not run     *)
(* inside Update, the cycle bits tell it exactly the events that the       *)
(* controller has posted and it has not read, lap after lap, although only *)
(* PollEndpoint looks after the end of the ring.                           *)
(***************************************************************************)
EventsToldApart ==
    InRing(er) /\ "overlap" \notin marks =>
        \A k \in 0 .. EventSize - 1 :
            LET i == er.idx + k
                expected == IF i < EventSize THEN er.dcs ELSE 1 - er.dcs
            IN  (er.trbs[i % EventSize].cycle = expected) <=> k < (er.enq - er.idx) % EventSize

(***************************************************************************)
(* A control request is answered by its own transfer, although ControlIn   *)
(* takes any transfer event for the answer: another one can be in the ring *)
(* only after a request was given up or when a key is pressed meanwhile.   *)
(***************************************************************************)
OwnAnswers ==
    "foreign answer" \in marks => marks \cap {"timeout", "report dropped"} # {}

(***************************************************************************)
(* The keyboard in use never falls silent: outside the few steps in which a*)
(* report is being processed it has a TRB to put the next report in, or    *)
(* there is an event to be processed, unless a wait for another device     *)
(* threw a report away or Update was run inside Update.                    *)
(***************************************************************************)
NeverDeaf ==
    Running /\ drv.kb # 0 /\ marks \cap {"report dropped", "overlap"} = {} =>
        \/ app.pc \in {"process", "arm"}
        \/ Armed(bus.eps[drv.kb]["int"])
        \/ HasEvent(er)

(***************************************************************************)
(* Every key that is pressed is delivered to Read once and in order: what  *)
(* is pressed and not yet read is what the buffer and the last report hold.*)
(* Excepted are a full buffer, a report thrown away while booting, and a   *)
(* tick in the middle of the Update or the count_-- of Read, or of Flush.  *)
(***************************************************************************)
Buffered ==
    LET taken == IF app.pc = "store" THEN 1 ELSE 0
    IN  (IF taken = 1 THEN <<app.c>> ELSE <<>>)
          \o [i \in 1 .. (IF app.pc = "flush" THEN 0 ELSE fd.n - taken) |-> fd.chars[(fd.r + i - 1) % FdSize]]
KeysInOrder ==
    drv.kb # 0 /\ Running /\ marks \cap {"input full", "report dropped", "overlap"} = {} =>
        pending[drv.kb] = Buffered \o NewKeys(buf[drv.kb], prev[drv.kb])

(***************************************************************************)
(* The boot ends, although the polls of the mass storage have no limit,    *)
(* unless one of their transfers fails, the event index has left the ring, *)
(* or a device that is no mass storage was taken for one.                  *)
(***************************************************************************)
BootCompletes ==
    <>(drv.step = "run" \/ marks \cap {"no storage", "behind the ring", "transfer failed",
                              "foreign answer", "host system error"} # {})

(* Keys that are pressed while somebody reads are read. *)
Unread == IF drv.kb = 0 THEN <<>> ELSE pending[drv.kb]
KeysArrive ==
    (Running /\ Unread # <<>>)
        ~> (Unread = <<>> \/ marks \cap {"input full", "report dropped", "overlap"} # {})

(***************************************************************************)
(* What the installer says before it reads, "USB Mass Storage Detected.":  *)
(* there is a mass storage, and it has been initialised.                   *)
(***************************************************************************)
DetectedIsStorage == drv.job = "install" => drv.ms.ready
=============================================================================
