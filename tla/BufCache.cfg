CONSTANTS
  p1 = p1
  p2 = p2
  b1 = b1
  b2 = b2
  file = file
  dev = dev
  Procs = {p1, p2}
  Bufs = {b1, b2}
  Vnodes = {file, dev}
  Locked = {file}
  Blocks <- MCBlocks
  NoBlk = NoBlk
  NoBuf = NoBuf
  NoProc = NoProc
  IOErrors = TRUE
SPECIFICATION Spec
INVARIANTS
  OneBufferPerBlock
  ReadsLatest
  NothingForgotten
  FsyncDurable
  NoLostSleeper
  StaleOnlyAfterError
PROPERTY FsyncReturns
