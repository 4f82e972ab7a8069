CONSTANTS
  Procs = {proc0, p1}
  proc0 = proc0
  Other = Other
  Chans = {c1}
  NoChan = NoChan
  SwapChan = SwapChan
  MemChan = MemChan
  Sent = {"INT", "KILL", "STOP", "CONT"}
  Caught = {"INT"}
  Maskable = {"INT"}
SPECIFICATION FairSpec
INVARIANTS SleepersAwaitable RunnableQueued NoPanic NoStaleTimeout TimeoutJustified NoSleepOnSignal
PROPERTIES TimedSleepEnds SwappedIn
