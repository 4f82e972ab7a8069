CONSTANTS
  Funcs = {f1, f2}
  NoFunc = NoFunc
  MaxTicks = 3
  NCallout = 4
SPECIFICATION FairSpec
PROPERTIES ImplementsTimers OverdueIsCalled
