SPECIFICATION Spec
CONSTANTS
  Procs = {f1, f2, f3, f4}
  Flocks = {f1, f2, f3, f4}
  Locks = {k1, k2, k3, k4, k5}
  NOLOCKF = NOLOCKF
  MaxOff = 0
  Requested = {"F_RDLCK", "F_WRLCK"}
  maxlockdepth = 2
  Interruptible = TRUE
  Continuable = FALSE
  MallocSleeps = FALSE
SYMMETRY LockSymmetry
CHECK_DEADLOCK FALSE
INVARIANTS ChainsSound NoDeadlock
