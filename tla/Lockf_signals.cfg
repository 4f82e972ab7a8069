SPECIFICATION Spec
CONSTANTS
  Procs = {p1, p2}
  Flocks = {}
  Locks = {k1, k2, k3}
  NOLOCKF = NOLOCKF
  MaxOff = 1
  Requested = {"F_RDLCK", "F_WRLCK"}
  maxlockdepth = 2
  Interruptible = TRUE
  Continuable = TRUE
  MallocSleeps = TRUE
SYMMETRY LockSymmetry
CHECK_DEADLOCK FALSE
INVARIANT OwnLocksOrdered
