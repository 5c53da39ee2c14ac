------------------------------- MODULE MCNvme -------------------------------
(***************************************************************************)
(* Three entries, so that the queues wrap at an odd number of commands,    *)
(* and pages of two blocks, so that short buffers need one page, two pages *)
(* or a list, from an aligned address and from one inside a page.          *)
(***************************************************************************)
EXTENDS Nvme

Buffer(op, buf, count) == [op |-> op, lba |-> 5, buf |-> buf, count |-> count]

MCRequests ==
    {Buffer("read", 4, 1), Buffer("read", 5, 3), Buffer("read", 4, 6),
     Buffer("write", 5, 2), Buffer("write", 5, 6)}
=============================================================================
