------------------------------- MODULE MCLockf -------------------------------
(* Lockf with interchangeable lock structures, for model checking.         *)
EXTENDS Lockf, TLC

LockSymmetry == Permutations(Locks)
=============================================================================
