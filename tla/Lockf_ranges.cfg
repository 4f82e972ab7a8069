SPECIFICATION Spec
CONSTANTS
  Procs = {p1, p2}
  Flocks = {}
  Locks = {k1, k2, k3, k4, k5}
  NOLOCKF = NOLOCKF
  MaxOff = 1
  Requested = {"F_RDLCK", "F_WRLCK"}
  maxlockdepth = 2
  Interruptible = FALSE
  Continuable = FALSE
  MallocSleeps = FALSE
SYMMETRY LockSymmetry
CHECK_DEADLOCK FALSE
INVARIANTS NoLostSleeper DeadlockOnlyIfReplaced
PROPERTY ImplementsByteLocks
