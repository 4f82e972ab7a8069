----------------------------- MODULE MCProcLife -----------------------------
(* init starts a shell, the shell a job and a debugger; the job may have     *)
(* started the debugger itself.                                              *)
EXTENDS ProcLife

CONSTANTS init, sh, job, db

Family == [p \in {init, sh, job, db} |->
  CASE p = init -> {sh}
    [] p = sh   -> {job, db}
    [] p = job  -> {db}
    [] p = db   -> {}]
=============================================================================
