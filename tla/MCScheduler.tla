----------------------------- MODULE MCScheduler -----------------------------
(***************************************************************************)
(* Scheduler for TLC: a few Task structures.  A structure that Exit leaks  *)
(* never comes back, so their number also bounds the length of a life.     *)
(***************************************************************************)
EXTENDS Scheduler, TLC

TaskSymmetry == Permutations(Task)
=============================================================================
