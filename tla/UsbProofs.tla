----------------------------- MODULE UsbProofs -----------------------------
(***************************************************************************)
(* The event ring of the xHCI driver, for every size of the rings, every   *)
(* number of ports and any number of events, faults and key presses.       *)
(***************************************************************************)
EXTENDS KeyboardInput, TLAPS

-----------------------------------------------------------------------------
(* What a ring is: the fields of r, and of each of its TRBs. *)
IsRing(r) ==
    /\ r = [trbs |-> r.trbs, enq |-> r.enq, ecs |-> r.ecs,
            erdp |-> r.erdp, idx |-> r.idx, dcs |-> r.dcs]
    /\ r.enq \in 0 .. EventSize - 1
    /\ r.ecs \in {0, 1}
    /\ r.erdp \in 0 .. EventSize - 1
    /\ r.idx \in 0 .. EventSize
    /\ r.dcs \in {0, 1}
    /\ r.trbs = [i \in 0 .. EventSize - 1 |-> r.trbs[i]]
    /\ \A i \in 0 .. EventSize - 1 :
         r.trbs[i] \in [cycle : {0, 1}, ev : {r.trbs[i].ev}]

(***************************************************************************)
(* The controller has written the TRBs in front of enq in this lap, the    *)
(* others in the one before.  The driver is in the same lap, not ahead of  *)
(* the controller, or in the lap before, in which case the controller has  *)
(* not reached erdp, which the driver never falls behind.                  *)
(***************************************************************************)
RingInv(r) ==
    /\ IsRing(r)
    /\ \A i \in 0 .. EventSize - 1 : (r.trbs[i].cycle = r.ecs) <=> i < r.enq
    /\ InRing(r) => /\ r.erdp <= r.idx
                    /\ IF r.ecs = r.dcs THEN r.idx <= r.enq ELSE r.enq < r.erdp

LEMMA ModWithin ==
    ASSUME NEW a \in Nat, NEW n \in Nat \ {0}, a < n
    PROVE  a % n = a
  BY Z3

LEMMA ModAround ==
    ASSUME NEW a \in Nat, NEW n \in Nat \ {0}, n <= a, a < n + n
    PROVE  a % n = a - n
  BY Z3

LEMMA ModBelow ==
    ASSUME NEW a \in Int, NEW n \in Nat \ {0}, a < 0, 0 - n <= a
    PROVE  a % n = a + n
  BY Z3

LEMMA NextSlot ==
    ASSUME NEW i \in 0 .. EventSize - 1
    PROVE  (i + 1) % EventSize = IF i + 1 = EventSize THEN 0 ELSE i + 1
<1>1. EventSize \in Nat \ {0, 1}
  BY SizesAssumption
<1>2. CASE i + 1 = EventSize
  BY <1>1, <1>2, ModAround
<1>3. CASE i + 1 < EventSize
  BY <1>1, <1>3, ModWithin
<1> QED
  BY <1>1, <1>2, <1>3

-----------------------------------------------------------------------------
(* What the operations of a ring do to it. *)

LEMMA NewRingInv == RingInv(NewEventRing)
  BY SizesAssumption DEF RingInv, IsRing, NewEventRing, InRing

(* The controller posts an event: what the driver is about to read stays. *)
LEMMA PostKeeps ==
    ASSUME NEW r, NEW ev, RingInv(r)
    PROVE  /\ RingInv(Post(r, ev))
           /\ Post(r, ev).idx = r.idx
           /\ HasEvent(r) => HasEvent(Post(r, ev))
<1> DEFINE q == Post(r, ev)
           last == r.enq + 1 = EventSize
<1>1. EventSize \in Nat \ {0, 1}
  BY SizesAssumption
<1>2. CASE EventRingFull(r)
  BY <1>2 DEF Post
<1>3. CASE ~EventRingFull(r)
  <2>1. /\ r.enq \in 0 .. EventSize - 1
        /\ r.erdp \in 0 .. EventSize - 1
        /\ r.idx \in 0 .. EventSize
        /\ {r.ecs, r.dcs} \subseteq {0, 1}
    BY DEF RingInv, IsRing
  <2>2. (r.enq + 1) % EventSize = IF last THEN 0 ELSE r.enq + 1
    BY <2>1, NextSlot
  <2>3. r.erdp # IF last THEN 0 ELSE r.enq + 1
    BY <1>3, <2>2 DEF EventRingFull
  <2> DEFINE new == [cycle |-> r.ecs, ev |-> ev]
  <2>4. q = [trbs |-> [r.trbs EXCEPT ![r.enq] = new],
             enq |-> IF last THEN 0 ELSE r.enq + 1,
             ecs |-> IF last THEN 1 - r.ecs ELSE r.ecs,
             erdp |-> r.erdp, idx |-> r.idx, dcs |-> r.dcs]
    BY <1>3, <2>2 DEF Post, RingInv, IsRing
  <2> HIDE DEF q
  <2>5. \A i \in 0 .. EventSize - 1 :
          q.trbs[i] = IF i = r.enq THEN new ELSE r.trbs[i]
    BY <2>1, <2>4 DEF RingInv, IsRing
  <2>6. IsRing(q)
    <3>1. /\ q = [trbs |-> q.trbs, enq |-> q.enq, ecs |-> q.ecs,
                  erdp |-> q.erdp, idx |-> q.idx, dcs |-> q.dcs]
          /\ q.enq \in 0 .. EventSize - 1
          /\ q.ecs \in {0, 1}
          /\ q.erdp \in 0 .. EventSize - 1
          /\ q.idx \in 0 .. EventSize
          /\ q.dcs \in {0, 1}
      BY <1>1, <2>1, <2>4
    <3>2. q.trbs = [i \in 0 .. EventSize - 1 |-> q.trbs[i]]
      BY <2>4 DEF RingInv, IsRing
    <3>3. \A i \in 0 .. EventSize - 1 : q.trbs[i] \in [cycle : {0, 1}, ev : {q.trbs[i].ev}]
      BY <2>1, <2>5 DEF RingInv, IsRing
    <3> QED
      BY <3>1, <3>2, <3>3 DEF IsRing
  <2>7. \A i \in 0 .. EventSize - 1 : (q.trbs[i].cycle = q.ecs) <=> i < q.enq
    <3>1. \A i \in 0 .. EventSize - 1 : r.trbs[i].cycle \in {0, 1}
      BY DEF RingInv, IsRing
    <3> QED
      BY <1>1, <2>1, <2>4, <2>5, <3>1 DEF RingInv
  <2>8. InRing(q) => /\ q.erdp <= q.idx
                     /\ IF q.ecs = q.dcs THEN q.idx <= q.enq ELSE q.enq < q.erdp
    BY <1>1, <2>1, <2>3, <2>4 DEF RingInv, InRing
  <2>9. HasEvent(r) => HasEvent(q)
    BY <1>1, <2>1, <2>4, <2>5 DEF RingInv, InRing, HasEvent
  <2> QED
    BY <2>4, <2>6, <2>7, <2>8, <2>9 DEF RingInv, q
<1> QED
  BY <1>2, <1>3

(* The TRBs after an event has been read. *)
AreTrbs(t) ==
    /\ t = [i \in 0 .. EventSize - 1 |-> t[i]]
    /\ \A i \in 0 .. EventSize - 1 : t[i] \in [cycle : {0, 1}, ev : {t[i].ev}]

LEMMA ForgetKeeps ==
    ASSUME NEW r, IsRing(r), NEW j \in 0 .. EventSize - 1
    PROVE  /\ AreTrbs(Forget(r, j))
           /\ \A i \in 0 .. EventSize - 1 : Forget(r, j)[i].cycle = r.trbs[i].cycle
  BY DEF Forget, IsRing, AreTrbs

(* A ring is put together again from its fields. *)
LEMMA RingOf ==
    ASSUME NEW t, AreTrbs(t),
           NEW enq \in 0 .. EventSize - 1, NEW ecs \in {0, 1},
           NEW erdp \in 0 .. EventSize - 1, NEW idx \in 0 .. EventSize, NEW dcs \in {0, 1}
    PROVE  IsRing([trbs |-> t, enq |-> enq, ecs |-> ecs, erdp |-> erdp, idx |-> idx, dcs |-> dcs])
  BY DEF IsRing, AreTrbs

(* The driver only counts. *)
LEMMA TakeEventKeeps ==
    ASSUME NEW r, RingInv(r), HasEvent(r)
    PROVE  RingInv(TakeEvent(r))
<1> DEFINE t == Forget(r, r.idx)
           q == [trbs |-> t, enq |-> r.enq, ecs |-> r.ecs,
                 erdp |-> r.erdp, idx |-> r.idx + 1, dcs |-> r.dcs]
<1>1. EventSize \in Nat \ {0, 1}
  BY SizesAssumption
<1>2. IsRing(r) /\ r.idx \in 0 .. EventSize - 1
  BY <1>1 DEF RingInv, IsRing, HasEvent, InRing
<1>3. TakeEvent(r) = q
  <2>1. r = [trbs |-> r.trbs, enq |-> r.enq, ecs |-> r.ecs,
             erdp |-> r.erdp, idx |-> r.idx, dcs |-> r.dcs]
    BY <1>2 DEF IsRing
  <2>2. TakeEvent(r) = [r EXCEPT !.trbs = t, !.idx = r.idx + 1]
    BY DEF TakeEvent
  <2> HIDE DEF t
  <2> QED
    BY <2>1, <2>2
<1>4. AreTrbs(t) /\ \A i \in 0 .. EventSize - 1 : t[i].cycle = r.trbs[i].cycle
  BY <1>2, ForgetKeeps
<1> HIDE DEF t
<1>5. IsRing(q)
  BY <1>1, <1>2, <1>4, RingOf DEF IsRing
<1>6. \A i \in 0 .. EventSize - 1 : (q.trbs[i].cycle = q.ecs) <=> i < q.enq
  BY <1>4 DEF RingInv
<1>7. /\ r.erdp <= r.idx
      /\ IF r.ecs = r.dcs THEN r.idx < r.enq ELSE r.enq < r.erdp
  BY <1>2 DEF RingInv, IsRing, HasEvent, InRing
<1>8. /\ q.erdp <= q.idx
      /\ IF q.ecs = q.dcs THEN q.idx <= q.enq ELSE q.enq < q.erdp
  BY <1>1, <1>2, <1>7 DEF IsRing
<1> QED
  BY <1>3, <1>5, <1>6, <1>8 DEF RingInv

(* The driver counts, wraps and tells the controller. *)
LEMMA AdvanceKeeps ==
    ASSUME NEW r, RingInv(r), HasEvent(r)
    PROVE  RingInv(Advance(r, r.idx))
<1> DEFINE t == Forget(r, r.idx)
           next == IF r.idx + 1 = EventSize THEN 0 ELSE r.idx + 1
           dcs == IF next = 0 THEN 1 - r.dcs ELSE r.dcs
           q == [trbs |-> t, enq |-> r.enq, ecs |-> r.ecs,
                 erdp |-> next, idx |-> next, dcs |-> dcs]
<1>1. EventSize \in Nat \ {0, 1}
  BY SizesAssumption
<1>2. IsRing(r) /\ r.idx \in 0 .. EventSize - 1
  BY <1>1 DEF RingInv, IsRing, HasEvent, InRing
<1>3. next \in 0 .. EventSize - 1 /\ (next = 0 <=> r.idx + 1 = EventSize)
  BY <1>1, <1>2
<1>4. next # 0 => next = r.idx + 1
  BY <1>1, <1>2
<1>5. Advance(r, r.idx) = q
  <2>1. r = [trbs |-> r.trbs, enq |-> r.enq, ecs |-> r.ecs,
             erdp |-> r.erdp, idx |-> r.idx, dcs |-> r.dcs]
    BY <1>2 DEF IsRing
  <2>2. Advance(r, r.idx) = [r EXCEPT !.trbs = t, !.idx = next, !.erdp = next, !.dcs = dcs]
    BY DEF Advance
  <2> HIDE DEF t, next, dcs
  <2> QED
    BY <2>1, <2>2
<1>6. AreTrbs(t) /\ \A i \in 0 .. EventSize - 1 : t[i].cycle = r.trbs[i].cycle
  BY <1>2, ForgetKeeps
<1> HIDE DEF t, next
<1>7. dcs \in {0, 1}
  BY <1>2 DEF IsRing
<1>8. IsRing(q)
  <2> HIDE DEF dcs
  <2> QED
    BY <1>1, <1>2, <1>3, <1>6, <1>7, RingOf DEF IsRing
<1>9. \A i \in 0 .. EventSize - 1 : (q.trbs[i].cycle = q.ecs) <=> i < q.enq
  BY <1>6 DEF RingInv
<1>10. /\ r.erdp <= r.idx
       /\ IF r.ecs = r.dcs THEN r.idx < r.enq ELSE r.enq < r.erdp
  BY <1>2 DEF RingInv, IsRing, HasEvent, InRing
<1>11. /\ q.erdp <= q.idx
       /\ IF q.ecs = q.dcs THEN q.idx <= q.enq ELSE q.enq < q.erdp
  BY <1>1, <1>2, <1>3, <1>4, <1>10 DEF IsRing
<1> QED
  BY <1>5, <1>8, <1>9, <1>11 DEF RingInv

(***************************************************************************)
(* The cycle bits tell posted from old: the TRB k places ahead of the      *)
(* driver has the bit that the driver expects there exactly when k is less *)
(* than the number of events that were posted and not read.                *)
(***************************************************************************)
LEMMA BitsTell ==
    ASSUME NEW r, RingInv(r), InRing(r), NEW k \in 0 .. EventSize - 1
    PROVE  LET i == r.idx + k
               expected == IF i < EventSize THEN r.dcs ELSE 1 - r.dcs
           IN  (r.trbs[i % EventSize].cycle = expected) <=> k < (r.enq - r.idx) % EventSize
<1> DEFINE i == r.idx + k
           at == IF i < EventSize THEN i ELSE i - EventSize
           ahead == IF r.ecs = r.dcs THEN r.enq - r.idx ELSE r.enq - r.idx + EventSize
<1>1. EventSize \in Nat \ {0, 1}
  BY SizesAssumption
<1>2. /\ r.idx \in 0 .. EventSize - 1
      /\ r.enq \in 0 .. EventSize - 1
      /\ r.erdp \in 0 .. EventSize - 1
      /\ r.ecs \in {0, 1} /\ r.dcs \in {0, 1}
      /\ r.erdp <= r.idx
      /\ IF r.ecs = r.dcs THEN r.idx <= r.enq ELSE r.enq < r.erdp
  BY <1>1 DEF RingInv, IsRing, InRing
<1>3. at \in 0 .. EventSize - 1 /\ i % EventSize = at
  <2>1. i \in Nat /\ i < EventSize + EventSize
    BY <1>1, <1>2
  <2>2. CASE i < EventSize
    BY <1>1, <2>1, <2>2, ModWithin
  <2>3. CASE EventSize <= i
    BY <1>1, <2>1, <2>3, ModAround
  <2> QED
    BY <1>1, <2>1, <2>2, <2>3
<1>4. (r.enq - r.idx) % EventSize = ahead
  <2>1. CASE r.ecs = r.dcs
    BY <1>1, <1>2, <2>1, ModWithin
  <2>2. CASE r.ecs # r.dcs
    BY <1>1, <1>2, <2>2, ModBelow
  <2> QED
    BY <2>1, <2>2
<1>5. r.trbs[at].cycle \in {0, 1} /\ ((r.trbs[at].cycle = r.ecs) <=> at < r.enq)
  BY <1>3 DEF RingInv, IsRing
<1>6. (r.trbs[at].cycle = IF i < EventSize THEN r.dcs ELSE 1 - r.dcs) <=> k < ahead
  BY <1>1, <1>2, <1>3, <1>5
<1> QED
  BY <1>3, <1>4, <1>6

-----------------------------------------------------------------------------
(* What the four ways of going on with the ring have in common. *)
RingStep ==
    \/ er' = er
    \/ \E ev : er' = Post(er, ev)
    \/ HasEvent(er) /\ er' = TakeEvent(er)
    \/ HasEvent(er) /\ er' = Advance(er, er.idx)

LEMMA RingStepKeeps ==
    ASSUME RingInv(er), RingStep
    PROVE  RingInv(er)'
<1>1. ASSUME NEW ev, er' = Post(er, ev)
      PROVE  RingInv(er')
  BY <1>1, PostKeeps
<1>2. CASE HasEvent(er) /\ er' = TakeEvent(er)
  BY <1>2, TakeEventKeeps
<1>3. CASE HasEvent(er) /\ er' = Advance(er, er.idx)
  BY <1>3, AdvanceKeeps
<1>4. CASE er' = er
  BY <1>4
<1>5. RingInv(er')
  BY <1>1, <1>2, <1>3, <1>4 DEF RingStep
<1> QED
  BY <1>5 DEF RingInv, IsRing, InRing

(***************************************************************************)
(* While no tick has run Update inside Update: the ring is in order, there *)
(* is no application before the boot has ended, and the event that Read    *)
(* has seen and not yet left behind is still the current one.  The last    *)
(* is what makes the index that Read has kept the right one.               *)
(***************************************************************************)
IsApp == app = [pc |-> app.pc, ev |-> app.ev, idx |-> app.idx, c |-> app.c, n |-> app.n]
Held == app.pc = "advance" => app.idx = er.idx /\ HasEvent(er)
EInv ==
    "overlap" \in marks \/
        /\ RingInv(er)
        /\ app.pc = "user" \/ drv.step = "run"
        /\ IsApp
        /\ Held

(* The driver's own steps: there is no application yet. *)
LEMMA BootStepKeeps ==
    ASSUME EInv, BootStep \/ HcObeys, UNCHANGED runVars
    PROVE  EInv'
<1>1. /\ drv.step # "run"
      /\ RingStep
      /\ marks \subseteq marks'
  <2>1. CASE BiosHandoff
    BY <2>1 DEF BiosHandoff, RingStep
  <2>2. CASE RequestHc \/ HcReady \/ HcObeys
    BY <2>2 DEF RequestHc, HcReady, HcObeys, At, HcSteps, RingStep
  <2>3. CASE ResetPort
    BY <2>3 DEF ResetPort, RingStep
  <2>4. CASE SendCommand \/ ControlIn \/ SendBulk
    BY <2>4 DEF SendCommand, ControlIn, SendBulk, At, Commands, Controls, Bulks, RingStep
  <2>5. CASE CommandEvent
    BY <2>5 DEF CommandEvent, At, Commands, RingStep
  <2>6. CASE ControlEvent
    <3>1. marks \subseteq marks'
      BY <2>6 DEF ControlEvent
    <3> QED
      BY <2>6, <3>1 DEF ControlEvent, At, Controls, RingStep
  <2>7. CASE BulkEvent
    BY <2>7 DEF BulkEvent, At, Bulks, RingStep
  <2>8. CASE TimeOut
    BY <2>8 DEF TimeOut, At, Commands, Controls, RingStep
  <2>9. CASE HostSystemError
    BY <2>9 DEF HostSystemError, At, RingStep
  <2>10. CASE InstallerReads
    BY <2>10 DEF InstallerReads, RingStep
  <2>11. CASE BootEnds
    BY <2>11 DEF BootEnds, RingStep
  <2> QED
    BY <2>1, <2>2, <2>3, <2>4, <2>5, <2>6, <2>7, <2>8, <2>9, <2>10, <2>11 DEF BootStep
<1>2. app' = app
  BY DEF runVars
<1>3. CASE "overlap" \in marks
  BY <1>1, <1>3 DEF EInv
<1>4. CASE "overlap" \notin marks
  <2>1. RingInv(er)' /\ app.pc = "user"
    BY <1>1, <1>4, RingStepKeeps DEF EInv
  <2> QED
    BY <1>2, <1>4, <2>1 DEF EInv, IsApp, Held
<1> QED
  BY <1>3, <1>4

(* An event is posted: by the controller, or for a key. *)
LEMMA PostedKeeps ==
    ASSUME EInv, NEW ev, er' = Post(er, ev), app' = app, drv' = drv, marks \subseteq marks'
    PROVE  EInv'
<1>1. CASE "overlap" \in marks
  BY <1>1 DEF EInv
<1>2. CASE "overlap" \notin marks
  <2>1. RingInv(er)'
    BY <1>2, RingStepKeeps DEF EInv, RingStep
  <2>2. er'.idx = er.idx /\ (HasEvent(er) => HasEvent(er'))
    BY <1>2, PostKeeps DEF EInv
  <2>3. Held'
    BY <1>2, <2>2 DEF EInv, Held, HasEvent, InRing
  <2> QED
    BY <1>2, <2>1, <2>3 DEF EInv, IsApp
<1> QED
  BY <1>1, <1>2

(* A tick that finds Read between the two halves of its poll is an overlap. *)
LEMMA TimerKeeps ==
    ASSUME EInv, TimerHandler
    PROVE  EInv'
<1>1. "overlap" \notin marks /\ app' = app /\ drv' = drv /\ HasEvent(er) /\ er' = Advance(er, er.idx)
  BY DEF TimerHandler, Running
<1>2. Overlap \subseteq marks'
  BY DEF TimerHandler
<1>3. RingInv(er)'
  BY <1>1, RingStepKeeps DEF EInv, RingStep
<1>4. CASE app.pc = "advance"
  BY <1>2, <1>4 DEF Overlap, EInv
<1>5. CASE app.pc # "advance"
  BY <1>1, <1>3, <1>5 DEF EInv, IsApp, Held
<1> QED
  BY <1>4, <1>5

(* Read and Flush: the index that Read has kept is the ring's. *)
LEMMA ReadKeeps ==
    ASSUME EInv, ReadStep \/ Flush
    PROVE  EInv'
<1>1. /\ drv.step = "run" /\ "overlap" \notin marks
      /\ drv' = drv
  BY DEF ReadStep, ReadPolls, ReadAdvances, ReadProcesses, ReadArms, ReadTakes, ReadStores,
         FlushEnds, Flush, Running, bootVars
<1>2. RingInv(er) /\ IsApp /\ Held
  BY <1>1 DEF EInv
<1>3. CASE ReadPolls
  <2>1. er' = er
    BY <1>3 DEF ReadPolls, bootVars
  <2>2. IsApp' /\ (app'.pc = "advance" => app'.idx = er.idx /\ HasEvent(er))
    BY <1>2, <1>3 DEF ReadPolls, IsApp
  <2> QED
    BY <1>1, <1>2, <2>1, <2>2 DEF EInv, Held, RingInv, IsRing, HasEvent, InRing
<1>4. CASE ReadAdvances
  <2>1. HasEvent(er) /\ er' = Advance(er, er.idx)
    BY <1>2, <1>4 DEF ReadAdvances, Held
  <2>2. RingInv(er)'
    BY <1>2, <2>1, RingStepKeeps DEF RingStep
  <2>3. IsApp' /\ app'.pc # "advance"
    BY <1>2, <1>4 DEF ReadAdvances, IsApp
  <2> QED
    BY <1>1, <2>2, <2>3 DEF EInv, Held
<1>5. ASSUME ReadProcesses \/ ReadArms \/ ReadTakes \/ ReadStores \/ Flush \/ FlushEnds
      PROVE  EInv'
  <2>1. er' = er
    BY <1>5 DEF ReadProcesses, ReadArms, ReadTakes, ReadStores, Flush, FlushEnds, bootVars
  <2>2. IsApp' /\ app'.pc # "advance"
    <3>1. CASE ReadProcesses \/ ReadArms \/ Flush
      <4>1. \E pc \in {"arm", "count", "flush"} : app' = [app EXCEPT !.pc = pc]
        BY <3>1 DEF ReadProcesses, ReadArms, Flush
      <4> QED
        BY <1>2, <4>1 DEF IsApp
    <3>2. CASE ReadTakes
      <4>1. app' = AtUser \/ \E c, n : app' = [app EXCEPT !.pc = "store", !.c = c, !.n = n]
        BY <3>2 DEF ReadTakes
      <4>2. CASE app' = AtUser
        BY <4>2 DEF IsApp, AtUser
      <4>3. ASSUME NEW c, NEW n, app' = [app EXCEPT !.pc = "store", !.c = c, !.n = n]
            PROVE  IsApp' /\ app'.pc # "advance"
        <5>1. app' = [pc |-> "store", ev |-> app.ev, idx |-> app.idx, c |-> c, n |-> n]
          BY <1>2, <4>3 DEF IsApp
        <5> QED
          BY <5>1 DEF IsApp
      <4> QED
        BY <4>1, <4>2, <4>3
    <3>3. CASE ReadStores \/ FlushEnds
      BY <3>3 DEF ReadStores, FlushEnds, IsApp, AtUser
    <3> QED
      BY <1>5, <3>1, <3>2, <3>3
  <2>3. RingInv(er)'
    BY <1>2, <2>1, RingStepKeeps DEF RingStep
  <2> QED
    BY <1>1, <2>2, <2>3 DEF EInv, Held
<1> QED
  BY <1>3, <1>4, <1>5 DEF ReadStep

LEMMA EInvKept == EInv /\ [Next]_vars => EInv'
<1> SUFFICES ASSUME EInv, [Next]_vars PROVE EInv'
  OBVIOUS
<1>1. CASE (BootStep \/ HcObeys) /\ UNCHANGED runVars
  BY <1>1, BootStepKeeps
<1>2. ASSUME NEW ok \in BOOLEAN, Answer(ok), UNCHANGED runVars
      PROVE  EInv'
  <2>1. app' = app /\ drv' = drv /\ marks \subseteq marks'
    BY <1>2 DEF Answer, AnswerCommand, AnswerControl, AnswerBulk, Fault, runVars
  <2>2. \E ev : er' = Post(er, ev)
    BY <1>2 DEF Answer, AnswerCommand, AnswerControl, AnswerBulk
  <2> QED
    BY <2>1, <2>2, PostedKeeps
<1>3. ASSUME NEW p \in Ports, NEW ks \in SUBSET Keys \ {{}}, Key(p, ks)
      PROVE  EInv'
  <2>1. /\ app' = app /\ drv' = drv /\ marks' = marks
        /\ er' = Post(er, Event("transfer", p, "int", "", TRUE))
    BY <1>3 DEF Key
  <2> QED
    BY <2>1, PostedKeeps
<1>4. CASE TimerHandler
  BY <1>4, TimerKeeps
<1>5. CASE ReadStep \/ Flush
  BY <1>5, ReadKeeps
<1>6. CASE UNCHANGED vars
  BY <1>6 DEF vars, bootVars, runVars, EInv, IsApp, Held, RingInv, IsRing, HasEvent, InRing
<1> QED
  BY <1>1, <1>2, <1>3, <1>4, <1>5, <1>6 DEF Next, Boot

(***************************************************************************)
(* As long as no tick has run Update inside Update, the cycle bits of the  *)
(* event ring tell the driver exactly the events that the controller has   *)
(* posted and it has not read, although four of the five functions that    *)
(* read the ring look after neither its end nor the controller's pointer.  *)
(***************************************************************************)
THEOREM EventsAlwaysToldApart == Spec => []EventsToldApart
<1>1. Init => EInv
  BY NewRingInv DEF Init, BootInit, AtUser, EInv, IsApp, Held
<1>2. EInv => EventsToldApart
  BY BitsTell DEF EInv, EventsToldApart
<1> QED
  BY <1>1, <1>2, EInvKept, PTL DEF Spec
=============================================================================
