CONSTANTS
  p1 = p1
  p2 = p2
  v1 = v1
  v2 = v2
  f1 = f1
  f2 = f2
  f3 = f3
  a = a
  b = b
  Procs = {p1, p2}
  Syncers = {p2}
  Vnodes = {v1, v2}
  desiredvnodes = 1
  Files = {f1, f2, f3}
  Names = {a, b}
  NoProc = NoProc
  NoVnode = NoVnode
  NoFile = NoFile
  NoName = NoName
  NoChan = NoChan
SYMMETRY Symmetry
SPECIFICATION Spec
INVARIANTS
  OneVnodePerFile
  EntriesSound
  ReferencesSafe
  NoPanic
