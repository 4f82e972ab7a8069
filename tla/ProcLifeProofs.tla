--------------------------- MODULE ProcLifeProofs ---------------------------
(* Proofs about processes, their parents and their tracers, for every set of *)
(* processes and every choice of debuggers and jobs.                         *)
EXTENDS ProcLife, TLAPS

\* The assumptions on the constants, together.
LEMMA Constants ==
  /\ initproc \in Procs /\ NoProc \notin Procs
  /\ Creates \in [Procs -> SUBSET Procs]
  /\ Debuggers \subseteq Procs /\ Jobs \subseteq Procs
  /\ initproc \notin Debuggers /\ initproc \notin Jobs
BY InitIsProc, CreatesProcs, UsersAreProcs, NoProcFresh

\* At first there is only init.
LEMMA InitIInv == Init => IInv
<1> SUFFICES ASSUME Init PROVE IInv
  OBVIOUS
<1> USE Constants DEF Init
<1>1. TypeOK
  BY DEF TypeOK, Places
<1>2. Roles
  BY DEF Roles, Stopped
<1>3. LivingParent /\ NoZombieMissed /\ NotAbandoned /\ ChildHeld
  BY DEF LivingParent, NoZombieMissed, NotAbandoned, ChildHeld
<1> QED
  BY <1>1, <1>2, <1>3 DEF IInv

\* A new process has a parent that runs, and is no zombie; its parent may sleep
\* for it at once (vfork).
LEMMA ForkKeeps ==
  ASSUME IInv, NEW p \in Procs, NEW q \in Procs, NEW v \in BOOLEAN,
         fork1(p, q, v)
  PROVE  IInv'
<1> USE Constants DEF IInv, fork1, Runs, ipc
<1>1. TypeOK'
  <2>1. pc' \in [Procs -> Places] /\ p_pptr' \in [Procs -> Procs \cup {NoProc}]
    BY DEF TypeOK, Places
  <2>2. \A x \in Procs : p_pptr'[x] = NoProc <=> x = initproc \/ pc'[x] = "free"
    BY DEF TypeOK, Roles
  <2>3. /\ asleep' \subseteq Procs /\ SPPWAIT' \subseteq Procs
        /\ arg' \in [Procs -> Procs \cup {NoProc}]
    BY DEF TypeOK
  <2> QED
    BY <2>1, <2>2, <2>3 DEF TypeOK
<1>2. Roles'
  BY DEF TypeOK, Roles, Stopped
<1>3. LivingParent'
  BY DEF TypeOK, Roles, LivingParent, Alive
<1>4. NoZombieMissed'
  BY DEF TypeOK, Roles, NoZombieMissed, Children, Reportable, Stopped, OnProc
<1>5. NotAbandoned'
  BY DEF TypeOK, NotAbandoned
<1>6. ChildHeld'
  BY DEF TypeOK, ChildHeld, Stopped
<1> QED
  BY <1>1, <1>2, <1>3, <1>4, <1>5, <1>6

\* vfork goes back to sleep only for a child that has the flag SPPWAIT, and such
\* a child has not begun to exit.
LEMMA ForkedKeeps ==
  ASSUME IInv, NEW p \in Procs, Forked(p)
  PROVE  IInv'
<1> USE Constants DEF IInv, Forked, Runs, Place, family, ipc
<1>1. TypeOK'
  BY DEF TypeOK, Places, Signals, Fatal, Requests
<1>2. Roles'
  BY DEF TypeOK, Roles, Stopped
<1>3. LivingParent'
  BY DEF TypeOK, Roles, LivingParent, Alive
<1>4. NoZombieMissed'
  BY DEF TypeOK, Roles, NoZombieMissed, Children, Reportable, Stopped, OnProc
<1>5. NotAbandoned'
  BY DEF TypeOK, NotAbandoned
<1>6. ChildHeld'
  BY DEF TypeOK, ChildHeld, Stopped
<1> QED
  BY <1>1, <1>2, <1>3, <1>4, <1>5, <1>6

\* execve only wakes, and leaves a signal for a process that is traced.
LEMMA ExecveKeeps ==
  ASSUME IInv, NEW p \in Procs, execve(p)
  PROVE  IInv'
<1> USE Constants DEF IInv, execve, Runs, family, ipc, OnProc
<1>1. TypeOK'
  BY DEF TypeOK, Places, Signals, Fatal, Requests
<1>2. Roles'
  BY DEF TypeOK, Roles, Stopped
<1>3. LivingParent'
  BY DEF TypeOK, Roles, LivingParent, Alive
<1>4. NoZombieMissed'
  BY DEF TypeOK, Roles, NoZombieMissed, Children, Reportable, Stopped, OnProc
<1>5. NotAbandoned'
  BY DEF TypeOK, NotAbandoned
<1>6. ChildHeld'
  BY DEF TypeOK, ChildHeld, Stopped
<1> QED
  BY <1>1, <1>2, <1>3, <1>4, <1>5, <1>6

\* The first half of exit: the process is still alive, but has no flags left.
LEMMA Exit1Keeps ==
  ASSUME IInv, NEW p \in Procs, exit1(p)
  PROVE  IInv'
<1> USE Constants DEF IInv, exit1, Runs, Place, family, ipc
<1>1. TypeOK'
  BY DEF TypeOK, Places, Signals, Fatal, Requests
<1>2. Roles'
  BY DEF TypeOK, Roles, Stopped
<1>3. LivingParent'
  BY DEF TypeOK, Roles, LivingParent, Alive
<1>4. NoZombieMissed'
  BY DEF TypeOK, Roles, NoZombieMissed, Children, Reportable, Stopped, OnProc
<1>5. NotAbandoned'
  BY DEF TypeOK, NotAbandoned
<1>6. ChildHeld'
  BY DEF TypeOK, ChildHeld, Stopped
<1> QED
  BY <1>1, <1>2, <1>3, <1>4, <1>5, <1>6

\* The second half of exit.  The zombie's parent is woken, and so is init when
\* it inherits; a child that is stopped for the tracer that goes is set running.
LEMMA Exit2Keeps ==
  ASSUME IInv, NEW p \in Procs, exit2(p)
  PROVE  IInv'
<1> USE Constants DEF IInv, exit2, Runs, ipc, exit_kills, exit_continues, exit_wakes,
        Children
<1>1. TypeOK'
  BY DEF TypeOK, Places, Signals, Fatal, Requests
<1>2. Roles'
  BY DEF TypeOK, Roles, Stopped
<1>3. LivingParent'
  BY DEF TypeOK, Roles, LivingParent, Alive
<1>4. NoZombieMissed'
  BY DEF TypeOK, Roles, NoZombieMissed, Children, Reportable, Stopped, OnProc
<1>5. NotAbandoned'
  BY DEF TypeOK, NotAbandoned, Stopped
<1>6. ChildHeld'
  BY DEF TypeOK, ChildHeld, Stopped
<1> QED
  BY <1>1, <1>2, <1>3, <1>4, <1>5, <1>6

\* wait frees a zombie, which has no children any more; or gives it back to a
\* parent that is alive, whom it wakes; or sleeps when it has seen no child to report.
LEMMA Wait1Keeps ==
  ASSUME IInv, NEW q \in Procs, wait1(q)
  PROVE  IInv'
<1> USE Constants DEF IInv, wait1, Runs, Place, family, ipc, giveBack, Children
<1>1. TypeOK'
  <2>1. pc' \in [Procs -> Places] /\ p_sig' \in [Procs -> SUBSET Signals]
    BY DEF TypeOK, Places
  <2>2. /\ p_pptr' \in [Procs -> Procs \cup {NoProc}]
        /\ p_oppid' \in [Procs -> Procs \cup {NoProc}]
    BY DEF TypeOK, Alive
  <2>3. \A x \in Procs : p_pptr'[x] = NoProc <=> x = initproc \/ pc'[x] = "free"
    BY DEF TypeOK, Alive, Roles
  <2>4. /\ asleep' \subseteq Procs /\ STRC' \subseteq Procs /\ SWTED' \subseteq Procs
    BY DEF TypeOK
  <2> QED
    BY <2>1, <2>2, <2>3, <2>4 DEF TypeOK
<1>2. Roles'
  BY DEF TypeOK, Roles, Stopped
<1>3. LivingParent'
  BY DEF TypeOK, Roles, LivingParent, Alive
<1>4. NoZombieMissed'
  BY DEF TypeOK, Roles, NoZombieMissed, Children, Reportable, Stopped, OnProc
<1>5. NotAbandoned'
  BY DEF TypeOK, NotAbandoned
<1>6. ChildHeld'
  BY DEF TypeOK, ChildHeld, Stopped
<1> QED
  BY <1>1, <1>2, <1>3, <1>4, <1>5, <1>6

\* kill does not set a traced process running, so that ptrace keeps its child.
LEMMA KillKeeps ==
  ASSUME IInv, NEW p \in Procs, kill(p)
  PROVE  IInv'
<1> USE Constants DEF IInv, kill, continues, Place, family, ipc
<1>1. TypeOK'
  BY DEF TypeOK, Places, Signals, Fatal, Requests
<1>2. Roles'
  BY DEF TypeOK, Roles, Stopped
<1>3. LivingParent'
  BY DEF TypeOK, Roles, LivingParent, Alive
<1>4. NoZombieMissed'
  BY DEF TypeOK, Roles, NoZombieMissed, Children, Reportable, Stopped, OnProc
<1>5. NotAbandoned'
  BY DEF TypeOK, NotAbandoned
<1>6. ChildHeld'
  BY DEF TypeOK, ChildHeld, Stopped
<1> QED
  BY <1>1, <1>2, <1>3, <1>4, <1>5, <1>6

\* SIGSTOP to a running process is only noted.
LEMMA KillStopKeeps ==
  ASSUME IInv, NEW p \in Procs, killStop(p)
  PROVE  IInv'
<1> USE Constants DEF IInv, killStop, family, ipc
<1>1. TypeOK'
  BY DEF TypeOK, Places, Signals, Fatal, Requests
<1>2. Roles'
  BY DEF TypeOK, Roles, Stopped
<1>3. LivingParent'
  BY DEF TypeOK, Roles, LivingParent, Alive
<1>4. NoZombieMissed'
  BY DEF TypeOK, Roles, NoZombieMissed, Children, Reportable, Stopped, OnProc
<1>5. NotAbandoned'
  BY DEF TypeOK, NotAbandoned
<1>6. ChildHeld'
  BY DEF TypeOK, ChildHeld, Stopped
<1> QED
  BY <1>1, <1>2, <1>3, <1>4, <1>5, <1>6

\* Like SIGKILL, SIGCONT leaves a traced process where it is.
LEMMA KillContKeeps ==
  ASSUME IInv, NEW p \in Procs, killCont(p)
  PROVE  IInv'
<1> USE Constants DEF IInv, killCont, continues, Place, family, ipc
<1>1. TypeOK'
  BY DEF TypeOK, Places, Signals, Fatal, Requests
<1>2. Roles'
  BY DEF TypeOK, Roles, Stopped
<1>3. LivingParent'
  BY DEF TypeOK, Roles, LivingParent, Alive
<1>4. NoZombieMissed'
  BY DEF TypeOK, Roles, NoZombieMissed, Children, Reportable, Stopped, OnProc
<1>5. NotAbandoned'
  BY DEF TypeOK, NotAbandoned
<1>6. ChildHeld'
  BY DEF TypeOK, ChildHeld, Stopped
<1> QED
  BY <1>1, <1>2, <1>3, <1>4, <1>5, <1>6

\* A process stops, and its parent is woken.
LEMMA IssigKeeps ==
  ASSUME IInv, NEW p \in Procs, issig(p)
  PROVE  IInv'
<1> USE Constants DEF IInv, issig, Runs, stopsForJob, Place, family, ipc
<1>1. TypeOK'
  <2>1. mask' \in [Procs -> Signals \cup {"none"}]
    BY DEF TypeOK, First, Signals, Fatal
  <2> QED
    BY <2>1 DEF TypeOK, Places
<1>2. Roles'
  <2>1. p \in Jobs
    BY DEF TypeOK, Roles
  <2> QED
    BY <2>1 DEF TypeOK, Roles, Stopped
<1>3. LivingParent'
  BY DEF TypeOK, Roles, LivingParent, Alive
<1>4. NoZombieMissed'
  BY DEF TypeOK, Roles, NoZombieMissed, Children, Reportable, Stopped, OnProc
<1>5. NotAbandoned'
  BY DEF TypeOK, NotAbandoned
<1>6. ChildHeld'
  BY DEF TypeOK, ChildHeld, Stopped
<1> QED
  BY <1>1, <1>2, <1>3, <1>4, <1>5, <1>6

\* PT_TRACE_ME, by a process that runs.
LEMMA TraceMeKeeps ==
  ASSUME IInv, NEW p \in Procs, traceMe(p)
  PROVE  IInv'
<1> USE Constants DEF IInv, traceMe, Runs, family, ipc
<1>1. TypeOK'
  BY DEF TypeOK, Places, Signals, Fatal, Requests
<1>2. Roles'
  BY DEF TypeOK, Roles, Stopped
<1>3. LivingParent'
  BY DEF TypeOK, Roles, LivingParent, Alive
<1>4. NoZombieMissed'
  BY DEF TypeOK, Roles, NoZombieMissed, Children, Reportable, Stopped, OnProc
<1>5. NotAbandoned'
  BY DEF TypeOK, NotAbandoned
<1>6. ChildHeld'
  BY DEF TypeOK, ChildHeld, Stopped
<1> QED
  BY <1>1, <1>2, <1>3, <1>4, <1>5, <1>6

\* PT_ATTACH moves a process to a tracer that runs, not one that sleeps.
LEMMA AttachKeeps ==
  ASSUME IInv, NEW t \in Procs, NEW p \in Procs, attach(t, p)
  PROVE  IInv'
<1> USE Constants DEF IInv, attach, Runs, Place, ipc, Alive
<1>1. TypeOK'
  BY DEF TypeOK, Places, Signals, Fatal, Requests
<1>2. Roles'
  BY DEF TypeOK, Roles, Stopped
<1>3. LivingParent'
  BY DEF TypeOK, Roles, LivingParent, Alive
<1>4. NoZombieMissed'
  BY DEF TypeOK, Roles, NoZombieMissed, Children, Reportable, Stopped, OnProc
<1>5. NotAbandoned'
  BY DEF TypeOK, NotAbandoned
<1>6. ChildHeld'
  BY DEF TypeOK, ChildHeld, Stopped
<1> QED
  BY <1>1, <1>2, <1>3, <1>4, <1>5, <1>6

\* A request of ptrace sets the child running, or finds ipc locked and sleeps.
LEMMA PtraceKeeps ==
  ASSUME IInv, NEW t \in Procs, NEW p \in Procs, NEW r \in Requests,
         ptrace(t, p, r)
  PROVE  IInv'
<1> USE Constants DEF IInv, ptrace, Ask, Runs, Place, family, ipc, Stopped
<1>1. TypeOK'
  BY DEF TypeOK, Places, Signals, Fatal, Requests
<1>2. Roles'
  BY DEF TypeOK, Roles, Stopped
<1>3. LivingParent'
  BY DEF TypeOK, Roles, LivingParent, Alive
<1>4. NoZombieMissed'
  BY DEF TypeOK, Roles, NoZombieMissed, Children, Reportable, Stopped, OnProc
<1>5. NotAbandoned'
  BY DEF TypeOK, NotAbandoned
<1>6. ChildHeld'
  BY DEF TypeOK, ChildHeld, Stopped
<1> QED
  BY <1>1, <1>2, <1>3, <1>4, <1>5, <1>6

\* ptrace wakes to find ipc free, its child still stopped and its own: no other
\* tracer that waits for ipc has the same child.
LEMMA LockedKeeps ==
  ASSUME IInv, NEW t \in Procs, NEW r \in Requests, Locked(t, r)
  PROVE  IInv'
<1> USE Constants DEF IInv, Locked, Ask, Runs, family
<1>1. TypeOK'
  BY DEF TypeOK, Places, Signals, Fatal, Requests
<1>2. Roles'
  BY DEF TypeOK, Roles, Stopped
<1>3. LivingParent'
  BY DEF TypeOK, Roles, LivingParent, Alive
<1>4. NoZombieMissed'
  BY DEF TypeOK, Roles, NoZombieMissed, Children, Reportable, Stopped, OnProc
<1>5. NotAbandoned'
  BY DEF TypeOK, NotAbandoned
<1>6. ChildHeld'
  BY DEF TypeOK, ChildHeld, Stopped
<1> QED
  BY <1>1, <1>2, <1>3, <1>4, <1>5, <1>6

\* ptrace returns with the answer.
LEMMA AnsweredKeeps ==
  ASSUME IInv, NEW t \in Procs, Answered(t)
  PROVE  IInv'
<1> USE Constants DEF IInv, Answered, Runs, Place, family
<1>1. TypeOK'
  BY DEF TypeOK, Places, Signals, Fatal, Requests
<1>2. Roles'
  BY DEF TypeOK, Roles, Stopped
<1>3. LivingParent'
  BY DEF TypeOK, Roles, LivingParent, Alive
<1>4. NoZombieMissed'
  BY DEF TypeOK, Roles, NoZombieMissed, Children, Reportable, Stopped, OnProc
<1>5. NotAbandoned'
  BY DEF TypeOK, NotAbandoned
<1>6. ChildHeld'
  BY DEF TypeOK, ChildHeld, Stopped
<1> QED
  BY <1>1, <1>2, <1>3, <1>4, <1>5, <1>6

\* The child stops again and wakes its tracer, or goes on; after PT_DETACH it
\* has a parent that is alive.
LEMMA ProcxmtKeeps ==
  ASSUME IInv, NEW p \in Procs, procxmt(p)
  PROVE  IInv'
<1> USE Constants DEF IInv, procxmt, Runs, Place, family, detached, Alive
<1>1. TypeOK'
  <2>1. pc' \in [Procs -> Places] /\ p_sig' \in [Procs -> SUBSET Signals]
    BY DEF TypeOK, Places
  <2>2. /\ p_pptr' \in [Procs -> Procs \cup {NoProc}]
        /\ p_oppid' \in [Procs -> Procs \cup {NoProc}]
    BY DEF TypeOK
  <2>3. \A x \in Procs : p_pptr'[x] = NoProc <=> x = initproc \/ pc'[x] = "free"
    BY DEF TypeOK, Roles
  <2>4. /\ asleep' \subseteq Procs /\ STRC' \subseteq Procs /\ SWTED' \subseteq Procs
        /\ ip_req' \in Requests \cup {"none"}
    BY DEF TypeOK
  <2> QED
    BY <2>1, <2>2, <2>3, <2>4 DEF TypeOK
<1>2. Roles'
  BY DEF TypeOK, Roles, Stopped
<1>3. LivingParent'
  BY DEF TypeOK, Roles, LivingParent, Alive
<1>4. NoZombieMissed'
  BY DEF TypeOK, Roles, NoZombieMissed, Children, Reportable, Stopped, OnProc
<1>5. NotAbandoned'
  BY DEF TypeOK, NotAbandoned
<1>6. ChildHeld'
  BY DEF TypeOK, ChildHeld, Stopped
<1> QED
  BY <1>1, <1>2, <1>3, <1>4, <1>5, <1>6

-----------------------------------------------------------------------------
\* Every step keeps the invariant.
LEMMA NextIInv == ASSUME IInv, [Next]_vars PROVE IInv'
<1>1. ASSUME NEW p \in Procs,
             Step(p) \/ execve(p) \/ exit1(p) \/ wait1(p) \/ issig(p)
      PROVE  IInv'
  BY <1>1, ForkedKeeps, Wait1Keeps, Exit2Keeps, AnsweredKeeps, ProcxmtKeeps,
     LockedKeeps, ExecveKeeps, Exit1Keeps, IssigKeeps DEF Step
<1>2. ASSUME NEW p \in Procs, kill(p) \/ killStop(p) \/ killCont(p) \/ traceMe(p)
      PROVE  IInv'
  BY <1>2, KillKeeps, KillStopKeeps, KillContKeeps, TraceMeKeeps
<1>3. ASSUME NEW p \in Procs, NEW q \in Procs,
             (\E v \in BOOLEAN : fork1(p, q, v)) \/ attach(p, q)
      PROVE  IInv'
  BY <1>3, ForkKeeps, AttachKeeps
<1>4. CASE UNCHANGED vars
  BY <1>4 DEF IInv, TypeOK, Roles, LivingParent, NoZombieMissed, NotAbandoned,
     ChildHeld, vars, family, ipc, Children, Reportable, Alive
<1> QED
  BY <1>1, <1>2, <1>3, <1>4, PtraceKeeps DEF Next

\* The inductive invariant holds in every state, for any processes, whoever
\* traces whom.
THEOREM Invariance == Spec => []IInv
BY InitIInv, NextIInv, PTL DEF Spec

\* The state keeps its types; only init and unused identifiers have no parent.
THEOREM TypeCorrect == Spec => []TypeOK
<1>1. IInv => TypeOK
  BY DEF IInv
<1> QED
  BY <1>1, Invariance, PTL

\* exit, wait1 and ptrace leave no process with a parent that is a zombie or
\* has been freed: p_pptr is never a dangling pointer.
THEOREM ParentsLive == Spec => []LivingParent
<1>1. IInv => LivingParent
  BY DEF IInv
<1> QED
  BY <1>1, Invariance, PTL

\* No wait and no vfork sleeps through what it waits for.
THEOREM ZombiesReported == Spec => []NoZombieMissed
<1>1. IInv => NoZombieMissed
  BY DEF IInv
<1> QED
  BY <1>1, Invariance, PTL

\* exit, wait1 and procxmt leave nobody stopped in issig for a tracer that it
\* no longer has.
THEOREM TracedStayTraced == Spec => []NotAbandoned
<1>1. IInv => NotAbandoned
  BY DEF IInv
<1> QED
  BY <1>1, Invariance, PTL

\* ptrace may use its child after the sleep for ip_lock without a second look.
THEOREM PtraceKeepsChild == Spec => []ChildHeld
<1>1. IInv => ChildHeld
  BY DEF IInv
<1> QED
  BY <1>1, Invariance, PTL
=============================================================================
