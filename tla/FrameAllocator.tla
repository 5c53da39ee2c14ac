--------------------------- MODULE FrameAllocator ---------------------------
(***************************************************************************)
(* What the memory manager promises, without bitmap and search loop: a     *)
(* request for n frames gets the lowest run of n free frames, and is       *)
(* refused only when there is no such run; nobody gets a frame that        *)
(* somebody holds.                                                         *)
(***************************************************************************)
EXTENDS Naturals

CONSTANT Requests       \* the numbers of frames asked for

VARIABLES
    free,       \* the frames nobody holds
    held,       \* the runs handed out: [start, n]
    answer      \* what the last request returned: a frame, or 0 (nullptr)

vars == <<free, held, answer>>

Frames(b) == b.start .. (b.start + b.n - 1)

RunAt(s, n) == s .. (s + n - 1) \subseteq free

Init == free \subseteq Nat \ {0} /\ held = {} /\ answer = 0

Grant(s, n) ==
    /\ RunAt(s, n)
    /\ \A r \in 0 .. (s - 1) : ~RunAt(r, n)
    /\ free' = free \ (s .. (s + n - 1))
    /\ held' = held \cup {[start |-> s, n |-> n]}
    /\ answer' = s

Refuse(n) ==
    /\ n = 0 \/ \A s \in free : ~RunAt(s, n)
    /\ answer' = 0
    /\ UNCHANGED <<free, held>>

Release(b) ==
    /\ free' = free \cup Frames(b)
    /\ held' = held \ {b}
    /\ UNCHANGED answer

Next ==
    \/ \E n \in Requests : Refuse(n) \/ \E s \in free : n > 0 /\ Grant(s, n)
    \/ \E b \in held : Release(b)

Spec == Init /\ [][Next]_vars
=============================================================================
