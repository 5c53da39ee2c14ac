------------------------------ MODULE UsbRings ------------------------------
(***************************************************************************)
(* The rings that the xHCI driver shares with the controller               *)
(* (driver/usb/xhci.cpp).  Every TRB carries a cycle bit; the consumer     *)
(* takes a TRB for new when the bit equals the cycle state that it flips   *)
(* on each lap.                                                            *)
(***************************************************************************)
EXTENDS Integers, Sequences

CONSTANTS EventSize,   \* TRBs of the event ring, 32 in the code
          RingSize     \* TRBs of a transfer ring, 32 in the code

ASSUME SizesAssumption == EventSize \in Nat \ {0, 1} /\ RingSize \in Nat \ {0, 1, 2}

-----------------------------------------------------------------------------
(* The event ring.  The controller writes at enq with the cycle bit ecs and *)
(* stops in front of erdp; the driver reads at idx and expects dcs.         *)

NoEvent == [type |-> "none", port |-> 0, ep |-> "", step |-> "", ok |-> FALSE]
NewEventRing ==
    [trbs |-> [i \in 0 .. EventSize - 1 |-> [cycle |-> 0, ev |-> NoEvent]],
     enq |-> 0, ecs |-> 1, erdp |-> 0, idx |-> 0, dcs |-> 1]

EventRingFull(er) == (er.enq + 1) % EventSize = er.erdp

(* A controller that finds the ring full drops the event. *)
Post(er, ev) ==
    IF EventRingFull(er) THEN er
    ELSE [er EXCEPT !.trbs[er.enq] = [cycle |-> er.ecs, ev |-> ev],
                    !.enq = (@ + 1) % EventSize,
                    !.ecs = IF er.enq + 1 = EventSize THEN 1 - @ ELSE @]

InRing(er) == er.idx < EventSize
HasEvent(er) == InRing(er) /\ er.trbs[er.idx].cycle = er.dcs
Current(er) == er.trbs[er.idx].ev

(* What an event held is forgotten when it has been read; its cycle bit is  *)
(* still there.                                                             *)
Forget(er, i) == [er.trbs EXCEPT ![i].ev = NoEvent]

(* EnableSlot, AddressDevice, ConfigureEndpoint and ControlIn only count:   *)
(* neither the end of the ring nor the controller's pointer is looked after.*)
TakeEvent(er) == [er EXCEPT !.trbs = Forget(er, er.idx), !.idx = @ + 1]

(* The cycle state stays as it is at the end of the ring (a mutant). *)
AdvanceSameCycle(er, from) ==
    LET next == IF from + 1 = EventSize THEN 0 ELSE from + 1
    IN  [er EXCEPT !.trbs = Forget(er, from), !.idx = next, !.erdp = next]

(* PollEndpoint wraps and tells the controller; from is the index it read. *)
Advance(er, from) ==
    LET next == IF from + 1 = EventSize THEN 0 ELSE from + 1
    IN  [er EXCEPT !.trbs = Forget(er, from),
                   !.idx = next,
                   !.erdp = next,
                   !.dcs = IF next = 0 THEN 1 - @ ELSE @]

-----------------------------------------------------------------------------
(* A transfer ring: the cycle bits of its TRBs, the driver's index and      *)
(* cycle state, the controller's dequeue index and cycle state.  The last   *)
(* TRB is the link back to the first.                                       *)

Link == RingSize - 1
NoRing == [idx |-> -1]
NewRing == [trbs |-> [i \in 0 .. Link |-> 0], idx |-> 0, pcs |-> 1, deq |-> 0, ccs |-> 1]

(* The driver goes on with the same cycle bit behind the link (a mutant). *)
SendNormalTRBSameCycle(r) ==
    IF r.idx + 1 = Link
    THEN [r EXCEPT !.trbs[r.idx] = r.pcs, !.trbs[Link] = r.pcs, !.idx = 0]
    ELSE [r EXCEPT !.trbs[r.idx] = r.pcs, !.idx = @ + 1]

SendNormalTRB(r) ==
    IF r.idx + 1 = Link
    THEN [r EXCEPT !.trbs[r.idx] = r.pcs, !.trbs[Link] = r.pcs, !.idx = 0, !.pcs = 1 - @]
    ELSE [r EXCEPT !.trbs[r.idx] = r.pcs, !.idx = @ + 1]

(* The controller sees a TRB to work on, and goes past it. *)
Armed(r) == r # NoRing /\ r.trbs[r.deq] = r.ccs
Complete(r) ==
    IF r.deq + 1 = Link
    THEN [r EXCEPT !.deq = 0, !.ccs = 1 - @]
    ELSE [r EXCEPT !.deq = @ + 1]
=============================================================================
