CONSTANTS
  p1 = p1
  p2 = p2
  f1 = f1
  f2 = f2
  f3 = f3
  Procs = {p1, p2}
  Files = {f1, f2, f3}
  Closed = {f3}
  Timeouts = {1}
  NoProc = NoProc
  Never = Never
SPECIFICATION Spec
INVARIANT NoMissedEvent
PROPERTIES
  TimeoutReturns
  SelectReturns
