--------------------------- MODULE MCMemoryManager ---------------------------
(***************************************************************************)
(* MemoryManager for TLC: a frame of two bytes, so that bitmaps of one and *)
(* of several frames occur, and memory maps with holes, adjacent regions,  *)
(* a kernel image inside a region and at the edge, and no room.            *)
(***************************************************************************)
EXTENDS MemoryManager

Free_(s, p) == [start |-> s, pages |-> p, conventional |-> TRUE]
Other(s, p) == [start |-> s, pages |-> p, conventional |-> FALSE]

MCKernelFrames == {3, 4}

\* One large region; a hole; two holes and a descriptor beyond the end of the
\* free memory; a first region too small for the bitmap; nothing usable; a first
\* region at address 0, which Initialize takes for "no region".
MCMemMaps == {
    <<Other(0, 1), Free_(1, 10)>>,
    <<Other(0, 1), Free_(1, 5), Other(6, 2), Free_(8, 5)>>,
    <<Free_(2, 1), Other(4, 1), Free_(5, 4), Free_(9, 3), Other(12, 6)>>,
    <<Free_(5, 6), Free_(1, 2)>>,
    <<Other(0, 20), Free_(20, 1)>>,
    <<Free_(0, 8), Free_(8, 8)>> }
=============================================================================
