-------------------------- MODULE MCSingleWriterLock --------------------------
(* Three processes with two descriptor numbers each.  A process never needs   *)
(* more: one descriptor it holds or leaked, one of an acquire in progress.    *)
EXTENDS SingleWriterLock, TLC

Symmetry == Permutations(Process) \cup Permutations(Fd)
=============================================================================
