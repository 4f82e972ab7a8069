---------------------------- MODULE MCKernSynch ----------------------------
(* Model checking of sleeping, waking, stopping and swapping.              *)
EXTENDS KernSynch, TLC

Symmetry == Permutations(Users)
=============================================================================
