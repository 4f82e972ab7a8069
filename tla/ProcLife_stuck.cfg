CONSTANTS
  init = init
  sh = sh
  job = job
  db = db
  Procs = {init, sh, job, db}
  initproc = init
  Creates <- Family
  Debuggers = {db, sh}
  Jobs = {job}
  NoProc = NoProc
SPECIFICATION Spec
PROPERTY PtraceReturns
CHECK_DEADLOCK FALSE
