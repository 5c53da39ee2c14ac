---------------------------- MODULE MemoryManager ----------------------------
(***************************************************************************)
(* The physical memory manager, kernel/memory/memory_manager.cpp: one bit  *)
(* per 4 KiB frame, initialised from the memory map of the firmware, and a *)
(* first-fit search for runs of clear bits.  operator new and delete of    *)
(* kernel/new.cpp add a header to the size and call it.                    *)
(*                                                                         *)
(* Addresses are counted in frames; the firmware reports whole pages.      *)
(* nullptr is frame 0.  One iteration of the search loop is one step.      *)
(***************************************************************************)
EXTENDS Naturals, Sequences

CONSTANTS
    FrameSize,      \* kFrameSize, in bytes
    MemMaps,        \* the memory maps the firmware may hand over
    KernelFrames,   \* the frames from __kernel_start to __kernel_end
    Sizes           \* the sizes requested, in bytes; adding FrameSize does
                    \* not exceed a size_t

Descriptor == [start : Nat, pages : Nat, conventional : BOOLEAN]

ASSUME MemoryAssumption ==
    /\ FrameSize \in Nat \ {0}
    /\ KernelFrames \subseteq Nat
    /\ Sizes \subseteq Nat
    /\ \A m \in MemMaps : /\ Len(m) \in Nat
                          /\ \A k \in 1..Len(m) : m[k] \in Descriptor

VARIABLES
    memmap,     \* the argument of Initialize
    total,      \* range_end_ / kFrameSize
    base,       \* the frame the bitmap starts at, 0 when none was found
    clear,      \* the frames whose bit is 0
    i,          \* the loop variable of Allocate
    want,       \* num_frames of the search in progress, 0 when there is none
    answer,     \* what the last call returned
    blocks      \* the runs handed out and not freed: [start, n]

vars == <<memmap, total, base, clear, i, want, answer, blocks>>

-----------------------------------------------------------------------------
(***************************************************************************)
(* Initialize                                                              *)
(***************************************************************************)
\* Size of n bytes in frames, rounded up.
NumFrames(n) == (n + FrameSize - 1) \div FrameSize

Run(s, n) == s .. (s + n - 1)

Region(m, k) == Run(m[k].start, m[k].pages)

Conventional(m) == UNION {Region(m, k) : k \in {j \in 1..Len(m) : m[j].conventional}}

\* The first loop: range_end_ is the highest end of a region.
Ends(m) == {0} \cup {m[k].start + m[k].pages : k \in 1..Len(m)}

IsRangeEnd(m, n) == n \in Ends(m) /\ \A e \in Ends(m) : e <= n

BitmapSize(n) == (n + 7) \div 8

HoldsBitmap(m, n, k) ==
    m[k].conventional /\ m[k].pages * FrameSize >= BitmapSize(n)

\* The second loop: the start of the first conventional region that is large
\* enough.  No such region, and one that starts at address 0, both give 0.
IsBitmapBase(m, n, b) ==
    \/ b = 0 /\ \A k \in 1..Len(m) : ~HoldsBitmap(m, n, k)
    \/ \E k \in 1..Len(m) :
          /\ b = m[k].start
          /\ HoldsBitmap(m, n, k)
          /\ \A j \in 1..(k - 1) : ~HoldsBitmap(m, n, j)

BitmapFrames(n, b) == Run(b, NumFrames(BitmapSize(n)))

\* The frames that are not given to anybody by Initialize: those of the bitmap
\* and of the kernel image, and frame 0.
Reserved(n, b) == BitmapFrames(n, b) \cup KernelFrames \cup {0}

\* The frames Initialize clears the bit of and does not set it again.
Usable(m, n, b) == Conventional(m) \ Reserved(n, b)

\* The frames that have a bit; Get answers "in use" for any other, and Set
\* ignores it.
Bits == 0 .. (8 * BitmapSize(total) - 1)

\* Without a place for the bitmap, Initialize halts the machine.
Halted == base = 0

Init ==
    /\ memmap \in MemMaps
    /\ total \in {n \in Ends(memmap) : IsRangeEnd(memmap, n)}
    /\ base \in {b \in 0..total : IsBitmapBase(memmap, total, b)}
    /\ clear = IF Halted THEN {} ELSE Usable(memmap, total, base) \cap Bits
    /\ i = 0 /\ want = 0 /\ answer = 0
    /\ blocks = {}

-----------------------------------------------------------------------------
(***************************************************************************)
(* Allocate and Free.                                                      *)
(***************************************************************************)
IsFindFreeFrame(f) == f \in clear /\ \A g \in clear : f <= g

\* No call is in progress; the callers take turns (see IdleLoadsAlone in
\* Scheduler).
Ready == ~Halted /\ want = 0

\* Mutant: only the first frame is marked.
ClaimFirst(s, n) ==
    /\ clear' = clear \ {s}
    /\ answer' = s
    /\ blocks' = blocks \cup {[start |-> s, n |-> n]}

\* Mark n frames from s on and return them.
Claim(s, n) ==
    /\ clear' = clear \ Run(s, n)
    /\ answer' = s
    /\ blocks' = blocks \cup {[start |-> s, n |-> n]}

\* Mutant: the -1 of FindFreeFrame is returned.
FailReturningMinusOne == answer' = 0 - 1 /\ UNCHANGED <<clear, blocks>>

Fail == answer' = 0 /\ UNCHANGED <<clear, blocks>>

AllocateNothing ==
    /\ Ready
    /\ 0 \in Sizes
    /\ Fail
    /\ UNCHANGED <<memmap, total, base, i, want>>

\* Requests of up to one frame.
AllocateFrame(size) ==
    /\ Ready
    /\ NumFrames(size) = 1
    /\ IF clear = {} THEN Fail
       ELSE \E f \in clear : IsFindFreeFrame(f) /\ Claim(f, 1)
    /\ UNCHANGED <<memmap, total, base, i, want>>

\* Larger ones: the search starts at the first free frame.
Allocate(size) ==
    /\ Ready
    /\ NumFrames(size) > 1
    /\ IF clear = {} THEN Fail /\ UNCHANGED <<i, want>>
       ELSE /\ want' = NumFrames(size)
            /\ \E f \in clear : IsFindFreeFrame(f) /\ i' = f
            /\ UNCHANGED <<clear, answer, blocks>>
    /\ UNCHANGED <<memmap, total, base>>

\* The frame i + j ends the run that starts at i.
Blocked(j) == i + j >= total \/ i + j \notin clear

\* Mutant: the frame behind the one in the way is skipped as well.
ProbeSkippingTwo ==
    /\ want # 0 /\ i < total
    /\ \E j \in 0 .. (want - 1) :
          /\ Blocked(j)
          /\ \A k \in 0 .. (j - 1) : ~Blocked(k)
          /\ i' = i + j + 2
    /\ UNCHANGED <<memmap, total, base, clear, want, answer, blocks>>

\* Mutant: the search goes on at the frame in the way.
ProbeSkippingNone ==
    /\ want # 0 /\ i < total
    /\ \E j \in 0 .. (want - 1) :
          /\ Blocked(j)
          /\ \A k \in 0 .. (j - 1) : ~Blocked(k)
          /\ i' = i + j
    /\ UNCHANGED <<memmap, total, base, clear, want, answer, blocks>>

\* An iteration that finds no run at i goes on behind the frame in the way.
Probe ==
    /\ want # 0 /\ i < total
    /\ \E j \in 0 .. (want - 1) :
          /\ Blocked(j)
          /\ \A k \in 0 .. (j - 1) : ~Blocked(k)
          /\ i' = i + j + 1
    /\ UNCHANGED <<memmap, total, base, clear, want, answer, blocks>>

\* An iteration that finds one takes it.
Found ==
    /\ want # 0 /\ i < total
    /\ \A j \in 0 .. (want - 1) : ~Blocked(j)
    /\ Claim(i, want)
    /\ want' = 0
    /\ UNCHANGED <<memmap, total, base, i>>

NotFound ==
    /\ want # 0 /\ i >= total
    /\ Fail
    /\ want' = 0
    /\ UNCHANGED <<memmap, total, base, i>>

Search == Probe \/ Found \/ NotFound

\* Mutant: only the first frame is given back.
FreeFirst(b) ==
    /\ Ready
    /\ clear' = clear \cup {b.start}
    /\ blocks' = blocks \ {b}
    /\ UNCHANGED <<memmap, total, base, i, want, answer>>

\* Free of a run that was allocated with the same size, FreeFrame of one frame.
Free(b) ==
    /\ Ready
    /\ clear' = clear \cup (Run(b.start, b.n) \cap Bits)
    /\ blocks' = blocks \ {b}
    /\ UNCHANGED <<memmap, total, base, i, want, answer>>

\* while (1) hlt
Halt == Halted /\ UNCHANGED vars

Next ==
    \/ AllocateNothing
    \/ \E size \in Sizes : AllocateFrame(size) \/ Allocate(size)
    \/ Search
    \/ \E b \in blocks : Free(b)
    \/ Halt

Spec == Init /\ [][Next]_vars

FairSpec == Spec /\ WF_vars(Search)

-----------------------------------------------------------------------------
TypeOK ==
    /\ memmap \in MemMaps
    /\ total \in Nat /\ base \in Nat /\ i \in Nat /\ want \in Nat /\ answer \in Nat
    /\ clear \subseteq Bits
    /\ blocks \subseteq [start : Nat, n : Nat]

\* Two callers never hold the same frame, and what they hold is not free.
BlocksApart ==
    \A b \in blocks :
        /\ Run(b.start, b.n) \cap clear = {}
        /\ \A c \in blocks : b # c => Run(b.start, b.n) \cap Run(c.start, c.n) = {}

\* Nobody is given a frame of the bitmap, of the kernel image or of memory the
\* firmware does not report as free, nor frame 0, which means failure.
BlocksUsable ==
    \A b \in blocks : /\ Run(b.start, b.n) \subseteq Conventional(memmap)
                      /\ Run(b.start, b.n) \cap Reserved(total, base) = {}

\* Frames are neither lost nor invented: what is free and what is held is,
\* after any history of allocations and frees, what Initialize found.
FramesConserved ==
    ~Halted => clear \cup UNION {Run(b.start, b.n) : b \in blocks}
                 = Usable(memmap, total, base)

\* The bitmap lies in memory that the firmware reports as free.
BitmapInFreeMemory == ~Halted => BitmapFrames(total, base) \subseteq Conventional(memmap)

\* The memory manager as FrameAllocator sees it.
FA == INSTANCE FrameAllocator WITH
        Requests <- {NumFrames(size) : size \in Sizes},
        free <- clear,
        held <- blocks

\* The bitmap and the search loop implement first fit: Allocate returns the
\* lowest run that is long enough, and nullptr only when there is none.
ImplementsFrameAllocator == FA!Spec

\* Every Allocate returns.
SearchEnds == want # 0 ~> want = 0
=============================================================================
