------------------------- MODULE MemoryManagerProofs -------------------------
(***************************************************************************)
(* MemoryManager hands out disjoint usable frames, conserves them and      *)
(* implements FrameAllocator, for any memory map, kernel image, frame size *)
(* and history of requests.                                                *)
(***************************************************************************)
EXTENDS MemoryManager, Integers, TLAPS

Held == UNION {Run(b.start, b.n) : b \in blocks}

\* What the search loop has established: no run of the length it looks for
\* starts before i.
SearchSound ==
    want # 0 =>
        /\ ~Halted
        /\ want \in {NumFrames(size) : size \in Sizes}
        /\ \A s \in clear : s < i => ~(Run(s, want) \subseteq clear)

\* Every free frame is in range and usable; no frame is free once the machine
\* has halted, and nothing is handed out.
ClearUsable ==
    /\ clear \subseteq Usable(memmap, total, base)
    /\ Usable(memmap, total, base) \subseteq 0 .. (total - 1)
    /\ Usable(memmap, total, base) \subseteq Bits
    /\ Halted => clear = {} /\ blocks = {}

\* The inductive invariant.
Inv ==
    /\ TypeOK
    /\ BlocksApart
    /\ BlocksUsable
    /\ FramesConserved
    /\ ClearUsable
    /\ SearchSound

-----------------------------------------------------------------------------
\* The bitmap has a bit for every frame below range_end_.
LEMMA BitmapCovers ==
    ASSUME NEW n \in Nat
    PROVE  BitmapSize(n) \in Nat /\ n <= 8 * BitmapSize(n)
BY SMT DEF BitmapSize

\* A conventional frame lies below range_end_.
LEMMA ConventionalBelowEnd ==
    ASSUME NEW m \in MemMaps, NEW n, IsRangeEnd(m, n)
    PROVE  n \in Nat /\ Conventional(m) \subseteq 0 .. (n - 1)
<1>1. \A k \in 1..Len(m) : /\ m[k].start \in Nat /\ m[k].pages \in Nat
                           /\ m[k].start + m[k].pages <= n
  BY MemoryAssumption DEF IsRangeEnd, Ends, Descriptor
<1>2. n \in Nat
  BY <1>1 DEF IsRangeEnd, Ends
<1>3. ASSUME NEW f \in Conventional(m)
      PROVE  f \in 0 .. (n - 1)
  <2>1. PICK k \in 1..Len(m) : f \in Region(m, k)
    BY <1>3 DEF Conventional
  <2> QED
    BY <1>1, <1>2, <2>1 DEF Region, Run
<1> QED
  BY <1>2, <1>3

\* Initialize establishes the invariant.
LEMMA InvInit == Init => Inv
<1> SUFFICES ASSUME Init PROVE Inv
  OBVIOUS
<1>1. IsRangeEnd(memmap, total) /\ memmap \in MemMaps
  BY DEF Init
<1>2. total \in Nat /\ Conventional(memmap) \subseteq 0 .. (total - 1)
  BY <1>1, ConventionalBelowEnd
<1>3. BitmapSize(total) \in Nat /\ total <= 8 * BitmapSize(total)
  BY <1>2, BitmapCovers
<1>4. Usable(memmap, total, base) \subseteq 0 .. (total - 1)
  BY <1>2 DEF Usable
<1>5. Usable(memmap, total, base) \subseteq Bits
  BY <1>2, <1>3, <1>4 DEF Bits
<1>6. blocks = {} /\ want = 0 /\ i = 0 /\ answer = 0 /\ base \in Nat
  BY <1>2 DEF Init
<1>7. clear = IF Halted THEN {} ELSE Usable(memmap, total, base)
  BY <1>5 DEF Init
<1>8. TypeOK
  BY <1>1, <1>2, <1>5, <1>6, <1>7 DEF TypeOK
<1>9. FramesConserved
  BY <1>6, <1>7 DEF FramesConserved
<1>10. ClearUsable
  BY <1>4, <1>5, <1>6, <1>7 DEF ClearUsable
<1> QED
  BY <1>6, <1>8, <1>9, <1>10 DEF Inv, BlocksApart, BlocksUsable, SearchSound

\* Marking a run of free frames and handing it out keeps the invariant.
LEMMA ClaimKeepsInv ==
    ASSUME Inv, ~Halted, NEW s \in Nat, NEW n \in Nat,
           Run(s, n) \subseteq clear,
           Claim(s, n), want' = 0, i' \in Nat,
           UNCHANGED <<memmap, total, base>>
    PROVE  Inv'
<1> DEFINE new == [start |-> s, n |-> n]
<1> USE DEF Inv
<1>1. /\ clear' = clear \ Run(s, n)
      /\ blocks' = blocks \cup {new}
      /\ answer' = s
      /\ Run(new.start, new.n) = Run(s, n)
      /\ new \in [start : Nat, n : Nat]
  BY DEF Claim
<1>2. TypeOK'
  BY <1>1 DEF TypeOK, Bits
<1>3. BlocksApart'
  <2> SUFFICES ASSUME NEW b \in blocks'
               PROVE  /\ Run(b.start, b.n) \cap clear' = {}
                      /\ \A c \in blocks' : b # c =>
                            Run(b.start, b.n) \cap Run(c.start, c.n) = {}
    BY DEF BlocksApart, Run
  <2>1. \A c \in blocks : Run(c.start, c.n) \cap Run(s, n) = {}
    BY DEF BlocksApart
  <2> QED
    BY <1>1, <2>1 DEF BlocksApart
<1>4. BlocksUsable'
  <2>1. Run(s, n) \subseteq Conventional(memmap) /\ Run(s, n) \cap Reserved(total, base) = {}
    BY DEF ClearUsable, Usable
  <2>2. \A b \in blocks' : /\ Run(b.start, b.n) \subseteq Conventional(memmap)
                           /\ Run(b.start, b.n) \cap Reserved(total, base) = {}
    BY <1>1, <2>1 DEF BlocksUsable
  <2> QED
    BY <2>2 DEF BlocksUsable, Run
<1>5. FramesConserved'
  <2>1. clear \cup Held = Usable(memmap, total, base)
    BY DEF FramesConserved, Held
  <2>2. Held' = Held \cup Run(s, n)
    BY <1>1 DEF Held, Run
  <2>3. clear' \cup Held' = Usable(memmap, total, base)
    BY <1>1, <2>1, <2>2
  <2> QED
    BY <2>3 DEF FramesConserved, Held
<1>6. ClearUsable'
  BY <1>1 DEF ClearUsable, Halted, Bits
<1> QED
  BY <1>2, <1>3, <1>4, <1>5, <1>6 DEF SearchSound

\* Giving back a run that was handed out keeps the invariant.
LEMMA FreeKeepsInv ==
    ASSUME Inv, NEW b \in blocks, Free(b)
    PROVE  Inv'
<1> USE DEF Inv
<1>1. /\ b.start \in Nat /\ b.n \in Nat
      /\ want = 0 /\ ~Halted
      /\ Run(b.start, b.n) \subseteq Usable(memmap, total, base)
  BY DEF Free, Ready, TypeOK, BlocksUsable, Usable
<1>2. /\ clear' = clear \cup Run(b.start, b.n)
      /\ blocks' = blocks \ {b}
      /\ UNCHANGED <<memmap, total, base, i, want, answer>>
  BY <1>1 DEF Free, ClearUsable
<1>4. TypeOK'
  BY <1>1, <1>2 DEF TypeOK, Bits, ClearUsable
<1>5. BlocksApart'
  <2> SUFFICES ASSUME NEW c \in blocks'
               PROVE  /\ Run(c.start, c.n) \cap clear' = {}
                      /\ \A d \in blocks' : c # d =>
                            Run(c.start, c.n) \cap Run(d.start, d.n) = {}
    BY DEF BlocksApart, Run
  <2>1. Run(c.start, c.n) \cap Run(b.start, b.n) = {}
    BY <1>2 DEF BlocksApart
  <2> QED
    BY <1>2, <2>1 DEF BlocksApart
<1>6. BlocksUsable'
  BY <1>2 DEF BlocksUsable, Run, Conventional, Region, Reserved, BitmapFrames
<1>7. FramesConserved'
  <2>1. clear \cup Held = Usable(memmap, total, base)
    BY <1>1 DEF FramesConserved, Held
  <2>2. Held = Held' \cup Run(b.start, b.n)
    BY <1>2 DEF Held, Run
  <2>3. clear' \cup Held' = Usable(memmap, total, base)
    BY <1>2, <2>1, <2>2
  <2> QED
    BY <1>2, <2>3 DEF FramesConserved, Held
<1>8. ClearUsable'
  BY <1>1, <1>2 DEF ClearUsable, Halted, Bits
<1> QED
  BY <1>1, <1>2, <1>4, <1>5, <1>6, <1>7, <1>8 DEF SearchSound

\* A failed request changes nothing but the answer.
LEMMA FailKeepsInv ==
    ASSUME Inv, Fail, want' = 0, i' \in Nat, UNCHANGED <<memmap, total, base>>
    PROVE  Inv'
<1>1. TypeOK'
  BY DEF Inv, Fail, TypeOK, Bits
<1>2. BlocksApart' /\ BlocksUsable' /\ FramesConserved' /\ ClearUsable'
  BY DEF Inv, Fail, BlocksApart, BlocksUsable, FramesConserved, ClearUsable, Halted, Bits
<1> QED
  BY <1>1, <1>2 DEF Inv, SearchSound

\* The test of an iteration, for the run as a whole.
LEMMA BlockedOrRun ==
    ASSUME Inv, want # 0, \A j \in 0 .. (want - 1) : ~Blocked(j)
    PROVE  Run(i, want) \subseteq clear
BY DEF Inv, TypeOK, Blocked, Run

\* Skipping behind the frame in the way skips no run.
LEMMA ProbeSkipsNoRun ==
    ASSUME Inv, Probe
    PROVE  i' \in Nat /\ \A s \in clear : s < i' => ~(Run(s, want) \subseteq clear)
<1>1. PICK j \in 0 .. (want - 1) : Blocked(j) /\ i' = i + j + 1
  BY DEF Probe
<1>2. i \in Nat /\ want \in Nat /\ j \in Nat /\ total \in Nat
  BY DEF Inv, TypeOK
<1>3. i + j \notin clear
  BY <1>1, <1>2 DEF Blocked, Inv, ClearUsable
<1>4. ASSUME NEW s \in clear, s < i'
      PROVE  ~(Run(s, want) \subseteq clear)
  <2>1. s \in Nat
    BY DEF Inv, TypeOK, ClearUsable
  <2>2. CASE s < i
    BY <2>2 DEF Inv, SearchSound, Probe
  <2>3. CASE i <= s
    <3>1. i + j \in Run(s, want)
      BY <1>1, <1>2, <1>4, <2>1, <2>3 DEF Run
    <3> QED
      BY <1>3, <3>1
  <2> QED
    BY <1>2, <2>1, <2>2, <2>3
<1> QED
  BY <1>1, <1>2, <1>4

\* An iteration that finds nothing keeps the invariant.
LEMMA ProbeKeepsInv == Inv /\ Probe => Inv'
<1> SUFFICES ASSUME Inv, Probe PROVE Inv'
  OBVIOUS
<1>1. i' \in Nat /\ \A s \in clear : s < i' => ~(Run(s, want) \subseteq clear)
  BY ProbeSkipsNoRun
<1>2. UNCHANGED <<memmap, total, base, clear, want, answer, blocks>>
  BY DEF Probe
<1>3. TypeOK'
  BY <1>1, <1>2 DEF Inv, TypeOK, Bits
<1>4. BlocksApart' /\ BlocksUsable' /\ FramesConserved' /\ ClearUsable'
  BY <1>2 DEF Inv, BlocksApart, BlocksUsable, FramesConserved, ClearUsable, Halted, Bits
<1>5. SearchSound'
  BY <1>1, <1>2 DEF Inv, SearchSound, Run, Halted, NumFrames
<1> QED
  BY <1>3, <1>4, <1>5 DEF Inv

\* The start of a search, at the first free frame.
LEMMA AllocateKeepsInv ==
    ASSUME Inv, NEW size \in Sizes, Allocate(size)
    PROVE  Inv'
<1>1. CASE clear = {}
  <2>1. Fail /\ want' = 0 /\ i' \in Nat /\ UNCHANGED <<memmap, total, base>>
    BY <1>1 DEF Allocate, Ready, Inv, TypeOK
  <2> QED
    BY <2>1, FailKeepsInv
<1>2. CASE clear # {}
  <2>1. PICK f \in clear : IsFindFreeFrame(f) /\ i' = f
    BY <1>2 DEF Allocate
  <2>2. /\ want' = NumFrames(size) /\ NumFrames(size) > 1 /\ ~Halted
        /\ UNCHANGED <<memmap, total, base, clear, answer, blocks>>
    BY <1>2 DEF Allocate, Ready
  <2>3. f \in Nat /\ NumFrames(size) \in Nat
    BY <2>1, <2>2, MemoryAssumption DEF Inv, TypeOK, Bits, NumFrames
  <2>4. TypeOK'
    BY <2>1, <2>2, <2>3 DEF Inv, TypeOK, Bits
  <2>5. BlocksApart' /\ BlocksUsable' /\ FramesConserved' /\ ClearUsable'
    BY <2>2 DEF Inv, BlocksApart, BlocksUsable, FramesConserved, ClearUsable, Halted, Bits
  <2>6. \A s \in clear : ~(s < i')
    BY <2>1, <2>3 DEF IsFindFreeFrame, Inv, TypeOK, Bits
  <2>7. SearchSound'
    BY <2>2, <2>6 DEF SearchSound, Halted, NumFrames
  <2> QED
    BY <2>4, <2>5, <2>7 DEF Inv
<1> QED
  BY <1>1, <1>2

\* A request of one frame.
LEMMA AllocateFrameKeepsInv ==
    ASSUME Inv, NEW size \in Sizes, AllocateFrame(size)
    PROVE  Inv'
<1>1. ~Halted /\ want' = 0 /\ i' \in Nat /\ UNCHANGED <<memmap, total, base>>
  BY DEF AllocateFrame, Ready, Inv, TypeOK
<1>2. CASE clear = {}
  BY <1>1, <1>2, FailKeepsInv DEF AllocateFrame
<1>3. CASE clear # {}
  <2>1. PICK f \in clear : Claim(f, 1)
    BY <1>3 DEF AllocateFrame
  <2>2. f \in Nat
    BY DEF Inv, TypeOK, Bits
  <2>3. Run(f, 1) \subseteq clear
    BY <2>2 DEF Run
  <2> QED
    BY <1>1, <2>1, <2>2, <2>3, ClaimKeepsInv
<1> QED
  BY <1>2, <1>3

\* The end of a search.
LEMMA SearchEndKeepsInv == Inv /\ (Found \/ NotFound) => Inv'
<1>1. ASSUME Inv, Found PROVE Inv'
  <2>1. /\ want # 0 /\ Claim(i, want) /\ want' = 0
        /\ UNCHANGED <<memmap, total, base, i>>
        /\ \A j \in 0 .. (want - 1) : ~Blocked(j)
    BY <1>1 DEF Found
  <2>2. Run(i, want) \subseteq clear
    BY <1>1, <2>1, BlockedOrRun
  <2>3. ~Halted /\ i \in Nat /\ want \in Nat
    BY <1>1, <2>1 DEF Inv, SearchSound, TypeOK
  <2> QED
    BY <1>1, <2>1, <2>2, <2>3, ClaimKeepsInv
<1>2. ASSUME Inv, NotFound PROVE Inv'
  <2>1. Fail /\ want' = 0 /\ i' \in Nat /\ UNCHANGED <<memmap, total, base>>
    BY <1>2 DEF NotFound, Inv, TypeOK
  <2> QED
    BY <1>2, <2>1, FailKeepsInv
<1> QED
  BY <1>1, <1>2

\* Every step keeps the invariant.
LEMMA InvStep == Inv /\ [Next]_vars => Inv'
<1> SUFFICES ASSUME Inv, [Next]_vars PROVE Inv'
  OBVIOUS
<1>1. CASE AllocateNothing
  <2>1. Fail /\ want' = 0 /\ i' \in Nat /\ UNCHANGED <<memmap, total, base>>
    BY <1>1 DEF AllocateNothing, Ready, Inv, TypeOK
  <2> QED
    BY <2>1, FailKeepsInv
<1>2. CASE \E size \in Sizes : AllocateFrame(size) \/ Allocate(size)
  BY <1>2, AllocateFrameKeepsInv, AllocateKeepsInv
<1>3. CASE Search
  BY <1>3, ProbeKeepsInv, SearchEndKeepsInv DEF Search
<1>4. CASE \E b \in blocks : Free(b)
  BY <1>4, FreeKeepsInv
<1>5. CASE UNCHANGED vars
  <2>1. UNCHANGED <<memmap, total, base, clear, i, want, answer, blocks>>
    BY <1>5 DEF vars
  <2>2. TypeOK' /\ BlocksApart' /\ BlocksUsable'
    BY <2>1 DEF Inv, TypeOK, Bits, BlocksApart, BlocksUsable
  <2>3. FramesConserved' /\ ClearUsable' /\ SearchSound'
    BY <2>1 DEF Inv, FramesConserved, ClearUsable, Halted, Bits, SearchSound, NumFrames
  <2> QED
    BY <2>2, <2>3 DEF Inv
<1> QED
  BY <1>1, <1>2, <1>3, <1>4, <1>5 DEF Next, Halt

\* The inductive invariant holds in every reachable state.
THEOREM MemoryInvariant == Spec => []Inv
BY InvInit, InvStep, PTL DEF Spec

\* Every variable of the memory manager keeps its type.
THEOREM MemoryTypeCorrect == Spec => []TypeOK
BY MemoryInvariant, PTL DEF Inv

\* Whatever is allocated and freed in whatever order, no two callers hold the
\* same frame, and nobody holds a frame of the bitmap, of the kernel or of
\* memory the firmware keeps.
THEOREM BlocksNeverOverlap == Spec => [](BlocksApart /\ BlocksUsable)
<1>1. Inv => BlocksApart /\ BlocksUsable
  BY DEF Inv
<1> QED
  BY <1>1, MemoryInvariant, PTL

\* No frame is lost or invented by any history of allocations and frees.
THEOREM FramesAreConserved == Spec => []FramesConserved
<1>1. Inv => FramesConserved
  BY DEF Inv
<1> QED
  BY <1>1, MemoryInvariant, PTL

-----------------------------------------------------------------------------
(***************************************************************************)
(* The place of the bitmap.                                                *)
(***************************************************************************)
\* Rounding a size up to frames stays within a region that is large enough.
LEMMA RoundedUpFits ==
    ASSUME NEW size \in Nat, NEW pages \in Nat, pages * FrameSize >= size
    PROVE  NumFrames(size) \in Nat /\ NumFrames(size) <= pages
<1> DEFINE q == NumFrames(size)
<1>1. FrameSize \in Nat /\ FrameSize > 0
  BY MemoryAssumption
<1>2. q \in Int /\ q * FrameSize <= size + FrameSize - 1 /\ q >= 0
  BY <1>1 DEF NumFrames
<1>3. q < pages + 1
  <2> HIDE DEF q
  <2>1. SUFFICES ASSUME q >= pages + 1 PROVE FALSE
    BY <1>2
  <2>2. q * FrameSize >= (pages + 1) * FrameSize
    BY <1>1, <1>2, <2>1
  <2>3. (pages + 1) * FrameSize = pages * FrameSize + FrameSize
    BY <1>1
  <2>4. q * FrameSize \in Int /\ pages * FrameSize \in Int /\ (pages + 1) * FrameSize \in Int
    BY <1>1, <1>2
  <2> QED
    BY <1>1, <1>2, <2>2, <2>3, <2>4
<1> QED
  BY <1>2, <1>3

\* Initialize puts the bitmap into memory the firmware reports as free, and it
\* never moves.
THEOREM BitmapStaysInFreeMemory == Spec => []BitmapInFreeMemory
<1>1. Init => BitmapInFreeMemory
  <2> SUFFICES ASSUME Init, base # 0 PROVE BitmapFrames(total, base) \subseteq Conventional(memmap)
    BY DEF BitmapInFreeMemory, Halted
  <2>1. memmap \in MemMaps /\ total \in Nat
    BY ConventionalBelowEnd DEF Init
  <2>2. PICK k \in 1..Len(memmap) : base = memmap[k].start /\ HoldsBitmap(memmap, total, k)
    BY DEF Init, IsBitmapBase
  <2>3. memmap[k].start \in Nat /\ memmap[k].pages \in Nat
    BY <2>1, MemoryAssumption DEF Descriptor
  <2>4. NumFrames(BitmapSize(total)) \in Nat /\ NumFrames(BitmapSize(total)) <= memmap[k].pages
    BY <2>1, <2>2, <2>3, BitmapCovers, RoundedUpFits DEF HoldsBitmap
  <2>5. BitmapFrames(total, base) \subseteq Region(memmap, k)
    BY <2>2, <2>3, <2>4 DEF BitmapFrames, Region, Run
  <2> QED
    BY <2>2, <2>5 DEF Conventional, HoldsBitmap
<1>2. BitmapInFreeMemory /\ [Next]_vars => BitmapInFreeMemory'
  <2> SUFFICES ASSUME [Next]_vars PROVE UNCHANGED <<memmap, total, base>>
    BY DEF BitmapInFreeMemory, Halted
  <2> QED
    BY DEF Next, AllocateNothing, AllocateFrame, Allocate, Search, Probe, Found,
           NotFound, Free, Halt, vars
<1> QED
  BY <1>1, <1>2, PTL DEF Spec

-----------------------------------------------------------------------------
(***************************************************************************)
(* First fit.                                                              *)
(***************************************************************************)
\* Initialize leaves an initial state of FrameAllocator.
LEMMA RefinesInit == Init => FA!Init
<1> SUFFICES ASSUME Init PROVE FA!Init
  OBVIOUS
<1>1. Inv
  BY InvInit
<1>2. clear \subseteq Nat \ {0}
  BY <1>1 DEF Inv, TypeOK, Bits, ClearUsable, Usable, Reserved
<1> QED
  BY <1>2 DEF Init, FA!Init

\* Every step is a request granted at the lowest place, a request refused for
\* lack of a run, a release, or invisible.
LEMMA RefinesStep == Inv /\ [Next]_vars => [FA!Next]_(FA!vars)
<1> DEFINE Requests == {NumFrames(size) : size \in Sizes}
<1> SUFFICES ASSUME Inv, [Next]_vars PROVE FA!Next \/ UNCHANGED FA!vars
  OBVIOUS
<1>0. clear \subseteq Nat /\ i \in Nat /\ want \in Nat /\ total \in Nat
  BY DEF Inv, TypeOK, Bits
<1>1. CASE AllocateNothing
  <2>1. 0 \in Requests
    BY <1>1, MemoryAssumption DEF AllocateNothing, NumFrames
  <2>2. FA!Refuse(0)
    BY <1>1 DEF AllocateNothing, Fail, FA!Refuse
  <2> QED
    BY <2>1, <2>2 DEF FA!Next
<1>2. ASSUME NEW size \in Sizes, AllocateFrame(size)
      PROVE  FA!Next
  <2>1. 1 \in Requests
    BY <1>2 DEF AllocateFrame
  <2>2. CASE clear = {}
    <3>1. FA!Refuse(1)
      BY <1>2, <2>2 DEF AllocateFrame, Fail, FA!Refuse
    <3> QED
      BY <2>1, <3>1 DEF FA!Next
  <2>3. CASE clear # {}
    <3>1. PICK f \in clear : IsFindFreeFrame(f) /\ Claim(f, 1)
      BY <1>2, <2>3 DEF AllocateFrame
    <3>2. FA!RunAt(f, 1)
      BY <1>0 DEF FA!RunAt
    <3>3. \A r \in 0 .. (f - 1) : ~FA!RunAt(r, 1)
      BY <1>0, <3>1 DEF FA!RunAt, IsFindFreeFrame
    <3>4. FA!Grant(f, 1)
      BY <3>1, <3>2, <3>3 DEF FA!Grant, Claim, Run
    <3> QED
      BY <2>1, <3>4 DEF FA!Next
  <2> QED
    BY <2>2, <2>3
<1>3. ASSUME NEW size \in Sizes, Allocate(size)
      PROVE  FA!Next \/ UNCHANGED FA!vars
  <2>1. CASE clear = {}
    <3>1. FA!Refuse(NumFrames(size))
      BY <1>3, <2>1 DEF Allocate, Fail, FA!Refuse
    <3> QED
      BY <3>1 DEF FA!Next
  <2>2. CASE clear # {}
    BY <1>3, <2>2 DEF Allocate, FA!vars
  <2> QED
    BY <2>1, <2>2
<1>4. CASE Probe
  BY <1>4 DEF Probe, FA!vars
<1>5. CASE Found
  <2>1. want \in Requests /\ want > 0 /\ Claim(i, want)
    BY <1>0, <1>5 DEF Found, Inv, SearchSound
  <2>2. Run(i, want) \subseteq clear
    BY <1>5, BlockedOrRun DEF Found
  <2>3. i \in clear
    BY <1>0, <2>1, <2>2 DEF Run
  <2>4. ASSUME NEW r \in 0 .. (i - 1), FA!RunAt(r, want) PROVE FALSE
    <3>1. r \in clear /\ r < i
      BY <1>0, <2>1, <2>4 DEF FA!RunAt
    <3> QED
      BY <2>1, <2>4, <3>1 DEF FA!RunAt, Run, Inv, SearchSound
  <2>5. FA!Grant(i, want)
    BY <2>1, <2>2, <2>4 DEF FA!Grant, FA!RunAt, Claim, Run
  <2> QED
    BY <2>1, <2>3, <2>5 DEF FA!Next
<1>6. CASE NotFound
  <2>1. want \in Requests /\ Fail /\ want # 0 /\ i >= total
    BY <1>6 DEF NotFound, Inv, SearchSound
  <2>2. \A s \in clear : s < i
    BY <1>0, <2>1 DEF Inv, ClearUsable
  <2>3. FA!Refuse(want)
    BY <2>1, <2>2 DEF FA!Refuse, FA!RunAt, Fail, Run, Inv, SearchSound
  <2> QED
    BY <2>1, <2>3 DEF FA!Next
<1>7. ASSUME NEW b \in blocks, Free(b) PROVE FA!Next
  <2>1. Run(b.start, b.n) \subseteq Bits
    BY DEF Inv, BlocksUsable, ClearUsable, Usable
  <2>2. FA!Release(b)
    BY <1>7, <2>1 DEF Free, FA!Release, FA!Frames, Run
  <2> QED
    BY <2>2 DEF FA!Next
<1>8. CASE UNCHANGED vars
  BY <1>8 DEF vars, FA!vars
<1> QED
  BY <1>1, <1>2, <1>3, <1>4, <1>5, <1>6, <1>7, <1>8 DEF Next, Search, Halt

\* The bitmap and the search loop of Allocate implement first fit, whatever
\* the memory map and the requests are: the answer is the lowest run that is
\* long enough, and nullptr only when there is none.
THEOREM AllocatorIsFirstFit == Spec => ImplementsFrameAllocator
<1>1. Spec => FA!Spec
  BY RefinesInit, RefinesStep, MemoryInvariant, PTL DEF Spec, FA!Spec
<1> QED
  BY <1>1 DEF ImplementsFrameAllocator
=============================================================================
