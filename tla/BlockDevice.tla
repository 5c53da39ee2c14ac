---------------------------- MODULE BlockDevice ----------------------------
(***************************************************************************)
(* What a block device promises to the file system (block_device.hpp): a   *)
(* call of Read or Write returns after every block of the request has been *)
(* moved between its place on the disk and its place in the buffer, or     *)
(* after the device has refused the request as a whole.  The caller is not *)
(* told which of the two it was: NVMe::Driver::Read and Write return true  *)
(* in both cases.                                                          *)
(***************************************************************************)
EXTENDS Integers

CONSTANTS Requests   \* records [op, lba, buf, count]: what the callers ask for

VARIABLES request,   \* the call under way, or NoRequest
          moved,     \* pairs <<block of the disk, block of memory>> moved for it
          outcome    \* "none" until the device has decided

bdVars == <<request, moved, outcome>>

NoRequest == [op |-> "none"]

(* Block i of the request is block lba + i of the disk and buf + i of memory. *)
Extent(r) == {<<r.lba + i, r.buf + i>> : i \in 0 .. r.count - 1}

Init ==
    /\ request = NoRequest
    /\ moved = {}
    /\ outcome = "none"

Call(r) ==
    /\ request = NoRequest
    /\ request' = r
    /\ UNCHANGED <<moved, outcome>>

Perform ==
    /\ request # NoRequest
    /\ outcome = "none"
    /\ moved' = Extent(request)
    /\ outcome' = "done"
    /\ UNCHANGED request

Refuse ==
    /\ request # NoRequest
    /\ outcome = "none"
    /\ outcome' = "error"
    /\ UNCHANGED <<request, moved>>

Return ==
    /\ outcome # "none"
    /\ request' = NoRequest
    /\ moved' = {}
    /\ outcome' = "none"

Next ==
    \/ \E r \in Requests : Call(r)
    \/ Perform
    \/ Refuse
    \/ Return

Spec == Init /\ [][Next]_bdVars
=============================================================================
