----------------------------- MODULE MCKernLock -----------------------------
(* Model checking of the virtual memory system's sleep lock.               *)
EXTENDS KernLock, TLC

Symmetry == Permutations(Threads)
=============================================================================
