----------------------------- MODULE MCCallout -----------------------------
(* Model checking of the callout queue.                                    *)
EXTENDS Callout, TLC

Symmetry == Permutations(Funcs)
=============================================================================
