------------------------------ MODULE ProcLife ------------------------------
(***************************************************************************)
(* The life of processes: fork, vfork and exec (kern_fork.c, kern_exec.c), *)
(* exit and wait (kern_exit.c), and ptrace (sys_process.c) with the stops  *)
(* of issig (kern_sig.c).                                                  *)
(*                                                                         *)
(* A process runs alone between its sleeps.  exit sleeps half way, when it *)
(* closes files.  A process is its own process identifier, which is free   *)
(* for another process once it has been waited for.                        *)
(***************************************************************************)
EXTENDS Naturals, FiniteSets

CONSTANTS
  Procs, initproc,
  Creates,         \* the identifiers that each process gives to its children
  Debuggers,       \* processes that call ptrace
  Jobs,            \* processes that get signals and are traced
  NoProc

ASSUME InitIsProc  == initproc \in Procs
ASSUME CreatesProcs == Creates \in [Procs -> SUBSET Procs]
ASSUME UsersAreProcs == Debuggers \cup Jobs \subseteq Procs \ {initproc}
ASSUME NoProcFresh == NoProc \notin Procs

VARIABLES
  pc,              \* where each process is
  asleep,          \* those that sleep there
  p_pptr, p_oppid, \* its parent, and its parent before ptrace
  STRC, SPPWAIT, SWTED,
  p_sig,           \* pending signals
  mask,            \* the one that issig has stopped for, for a tracer
  arg,             \* the child that vfork or ptrace is about
  ip_lock, ip_req  \* the request that ptrace has put into ipc

family == <<p_pptr, p_oppid>>
ipc    == <<ip_lock, ip_req>>
vars   == <<pc, asleep, family, STRC, SPPWAIT, SWTED, p_sig, mask, arg, ipc>>

Fatal    == {"SIGTRAP", "SIGKILL"}
Signals  == Fatal \cup {"SIGSTOP"}
Requests == {"PT_READ", "PT_CONTINUE", "PT_KILL", "PT_DETACH"}

\* "trace" and "job" are the two places where issig stops, "xmt" is where the
\* first of them goes on; "lock" and "answer" are the sleeps of ptrace.
Places == {"free", "user", "ppwait", "wait", "exit", "zombie", "trace", "xmt", "job",
           "lock", "answer"}
Stopped == {"trace", "job"}

TypeOK ==
  /\ pc \in [Procs -> Places] /\ asleep \subseteq Procs
  /\ p_pptr \in [Procs -> Procs \cup {NoProc}]
  /\ \A p \in Procs : p_pptr[p] = NoProc <=> p = initproc \/ pc[p] = "free"
  /\ p_oppid \in [Procs -> Procs \cup {NoProc}]
  /\ STRC \subseteq Procs /\ SPPWAIT \subseteq Procs /\ SWTED \subseteq Procs
  /\ p_sig \in [Procs -> SUBSET Signals] /\ mask \in [Procs -> Signals \cup {"none"}]
  /\ arg \in [Procs -> Procs \cup {NoProc}]
  /\ ip_lock \in Procs \cup {NoProc} /\ ip_req \in Requests \cup {"none"}

Init ==
  /\ pc = [p \in Procs |-> IF p = initproc THEN "user" ELSE "free"]
  /\ asleep = {}
  /\ p_pptr = [p \in Procs |-> NoProc] /\ p_oppid = [p \in Procs |-> NoProc]
  /\ STRC = {} /\ SPPWAIT = {} /\ SWTED = {}
  /\ p_sig = [p \in Procs |-> {}] /\ mask = [p \in Procs |-> "none"]
  /\ arg = [p \in Procs |-> NoProc]
  /\ ip_lock = NoProc /\ ip_req = "none"

-----------------------------------------------------------------------------
Runs(p, place) == pc[p] = place /\ p \notin asleep

Children(q) == {p \in Procs : p_pptr[p] = q}

\* pfind finds those that have not become zombies.
Alive == {p \in Procs : pc[p] \notin {"free", "zombie"}}

\* wakeup(p): p may sleep in wait or vfork on itself.
OnProc(p) == {q \in asleep : q = p /\ pc[q] \in {"wait", "ppwait"}}
\* wakeup(&ipc)
OnIpc == {q \in asleep : pc[q] \in {"lock", "answer"}}

Place(p, place) == pc' = [pc EXCEPT ![p] = place]

\* fork1.  The parent of a vfork sleeps.
fork1(p, q, isvfork) ==
  /\ Runs(p, "user") /\ pc[q] = "free" /\ q \in Creates[p]
  /\ isvfork => p # initproc
  /\ pc' = [pc EXCEPT ![q] = "user", ![p] = IF isvfork THEN "ppwait" ELSE @]
  /\ asleep' = IF isvfork THEN asleep \cup {p} ELSE asleep
  /\ arg' = IF isvfork THEN [arg EXCEPT ![p] = q] ELSE arg
  /\ SPPWAIT' = IF isvfork THEN SPPWAIT \cup {q} ELSE SPPWAIT
  /\ p_pptr' = [p_pptr EXCEPT ![q] = p]
  /\ UNCHANGED <<p_oppid, STRC, SWTED, p_sig, ipc, mask>>

\* vfork looks at the flag of its child whenever it is woken.
Forked(p) ==
  /\ Runs(p, "ppwait")
  /\ \/ /\ arg[p] \in SPPWAIT
        /\ asleep' = asleep \cup {p}
        /\ UNCHANGED <<pc, arg>>
     \/ /\ arg[p] \notin SPPWAIT
        /\ Place(p, "user") /\ arg' = [arg EXCEPT ![p] = NoProc]
        /\ UNCHANGED asleep
  /\ UNCHANGED <<family, STRC, SPPWAIT, SWTED, p_sig, ipc, mask>>

\* execve ends a vfork, and stops a traced process.  It wakes who is the parent
\* by now.
execve(p) ==
  /\ Runs(p, "user") /\ p \in SPPWAIT \cup STRC
  /\ SPPWAIT' = SPPWAIT \ {p}
  /\ asleep' = IF p \in SPPWAIT THEN asleep \ OnProc(p_pptr[p]) ELSE asleep
  /\ p_sig' = [p_sig EXCEPT ![p] = IF p \in STRC THEN @ \cup {"SIGTRAP"} ELSE @]
  /\ UNCHANGED <<pc, family, STRC, SWTED, arg, ipc, mask>>

\* exit up to the point where it closes files and may sleep.
exit1(p) ==
  /\ p # initproc /\ Runs(p, "user")
  /\ Place(p, "exit")
  /\ STRC' = STRC \ {p} /\ SPPWAIT' = SPPWAIT \ {p}
  /\ p_sig' = [p_sig EXCEPT ![p] = {}]
  /\ UNCHANGED <<asleep, family, SWTED, arg, ipc, mask>>

\* exit: the traced children, which it kills.
exit_kills(q) == Children(q) \cap STRC

\* mutant: SIGKILL is sent before STRC is cleared
exit_continues_not(q) == {}

\* exit: those of them that SIGKILL continues, being traced no longer.
exit_continues(q) == {p \in exit_kills(q) : pc[p] \in Stopped}

\* mutant: init is not told about zombies it inherits
exit_wakes_parent(p) == OnProc(p_pptr[p])

\* exit: whom it wakes, apart from those it kills.
exit_wakes(p) ==
  OnProc(p_pptr[p]) \cup (IF Children(p) # {} THEN OnProc(initproc) ELSE {})

\* The rest of exit: the children go to init; the traced ones are killed
\* (psignal), which sets them running if they are stopped or in wait.
exit2(p) ==
  LET killed == {q \in exit_kills(p) : pc[q] \notin {"zombie", "exit"}}
  IN  /\ Runs(p, "exit")
      /\ pc' = [q \in Procs |->
           CASE q = p -> "zombie"
             [] q \in exit_continues(p) -> IF pc[q] = "trace" THEN "xmt" ELSE "user"
             [] q \in killed /\ pc[q] = "wait" -> "user"
             [] OTHER -> pc[q]]
      /\ p_pptr' = [q \in Procs |-> IF p_pptr[q] = p THEN initproc ELSE p_pptr[q]]
      /\ STRC' = STRC \ exit_kills(p)
      /\ p_sig' = [q \in Procs |-> IF q \in killed THEN p_sig[q] \cup {"SIGKILL"} ELSE p_sig[q]]
      /\ asleep' = asleep \ (exit_wakes(p) \cup {q \in killed : pc[q] = "wait"})
      /\ UNCHANGED <<p_oppid, SPPWAIT, SWTED, arg, ipc, mask>>

-----------------------------------------------------------------------------
\* What wait1 can report of a child at once.
Reportable(p) ==
  pc[p] = "zombie" \/ (pc[p] \in Stopped /\ p \in STRC \ SWTED)

\* mutant: the old parent is not looked up
giveBack_any(p) == p_oppid[p] # NoProc

\* A zombie that came by ptrace goes back to its parent, if pfind finds it.
giveBack(p) == p_oppid[p] \in Alive

\* CURSIG: a stop has to wait while the parent waits in vfork.
Signalled(p) ==
  p_sig[p] \cap Fatal # {} \/ (p_sig[p] # {} /\ p \notin SPPWAIT)

\* wait1, by a process that calls it or wakes in it.
wait1(q) ==
  /\ Runs(q, "user") \/ Runs(q, "wait")
  /\ \/ \E p \in Children(q) :
          /\ pc[p] = "zombie" /\ giveBack(p)
          /\ p_oppid' = [p_oppid EXCEPT ![p] = NoProc]
          /\ p_pptr' = [p_pptr EXCEPT ![p] = p_oppid[p]]
          /\ asleep' = asleep \ OnProc(p_oppid[p])
          /\ Place(q, "user")
          /\ UNCHANGED <<STRC, SWTED, p_sig>>
     \/ \E p \in Children(q) :
          /\ pc[p] = "zombie" /\ ~giveBack(p)
          /\ pc' = [pc EXCEPT ![p] = "free", ![q] = "user"]
          /\ p_pptr' = [p_pptr EXCEPT ![p] = NoProc]
          /\ p_oppid' = [p_oppid EXCEPT ![p] = NoProc]
          /\ SWTED' = SWTED \ {p} /\ STRC' = STRC \ {p}  \* bzero of the next fork1
          /\ p_sig' = [p_sig EXCEPT ![p] = {}]
          /\ UNCHANGED asleep
     \/ \E p \in Children(q) :
          /\ pc[p] # "zombie" /\ Reportable(p)
          /\ SWTED' = SWTED \cup {p}
          /\ Place(q, "user")
          /\ UNCHANGED <<asleep, family, STRC, p_sig>>
     \/ /\ Children(q) = {}          \* ECHILD
        /\ pc[q] = "wait"
        /\ Place(q, "user")
        /\ UNCHANGED <<asleep, family, STRC, SWTED, p_sig>>
     \/ /\ Children(q) # {} /\ \A p \in Children(q) : ~Reportable(p)
        /\ ~Signalled(q)             \* otherwise the signal comes first
        /\ Place(q, "wait") /\ asleep' = asleep \cup {q}
        /\ UNCHANGED <<family, STRC, SWTED, p_sig>>
  /\ UNCHANGED <<SPPWAIT, arg, ipc, mask>>

-----------------------------------------------------------------------------
\* mutant: SIGKILL always sets running
continues_traced(p) == pc[p] = "job"

\* psignal, SSTOP: a traced process stays stopped.
continues(p) == pc[p] = "job" /\ p \notin STRC

\* kill(2) with SIGKILL.  It interrupts a wait, and continues a process that is
\* stopped unless it is traced.
kill(p) ==
  /\ p \in Jobs /\ pc[p] \notin {"free", "exit", "zombie"}
  /\ p_sig' = [p_sig EXCEPT ![p] = @ \cup {"SIGKILL"}]
  /\ IF pc[p] = "wait" \/ continues(p)
     THEN Place(p, "user") /\ asleep' = asleep \ {p}
     ELSE UNCHANGED <<pc, asleep>>
  /\ UNCHANGED <<family, STRC, SPPWAIT, SWTED, arg, ipc, mask>>

\* kill(2) with SIGSTOP to a running process, and with SIGCONT to one that is
\* stopped in "job".
killStop(p) ==
  /\ p \in Jobs /\ pc[p] = "user"
  /\ p_sig' = [p_sig EXCEPT ![p] = @ \cup {"SIGSTOP"}]
  /\ UNCHANGED <<pc, asleep, family, STRC, SPPWAIT, SWTED, arg, ipc, mask>>

killCont(p) ==
  /\ continues(p)
  /\ Place(p, "user")
  /\ p_sig' = [p_sig EXCEPT ![p] = @ \ {"SIGSTOP"}]
  /\ UNCHANGED <<asleep, family, STRC, SPPWAIT, SWTED, arg, ipc, mask>>

\* mutant: SIGSTOP is looked at before SIGKILL
stopsForJob_first(p) == p \notin STRC /\ "SIGSTOP" \in p_sig[p]

\* issig takes the lowest signal first, SIGSTOP last.
stopsForJob(p) == p \notin STRC /\ p_sig[p] = {"SIGSTOP"}

\* The lowest signal.
First(sigs) ==
  CASE "SIGTRAP" \in sigs -> "SIGTRAP"
    [] "SIGTRAP" \notin sigs /\ "SIGKILL" \in sigs -> "SIGKILL"
    [] OTHER -> "SIGSTOP"

\* issig stops: a traced process for any signal, another for SIGSTOP; never
\* while the parent waits in vfork.  The parent is woken (stop).
issig(p) ==
  /\ Runs(p, "user") /\ p \notin SPPWAIT
  /\ \/ /\ p \in STRC /\ p_sig[p] # {} /\ Place(p, "trace")
        /\ mask' = [mask EXCEPT ![p] = First(p_sig[p])]
     \/ stopsForJob(p) /\ Place(p, "job") /\ UNCHANGED mask
  /\ SWTED' = SWTED \ {p}
  /\ asleep' = asleep \ OnProc(p_pptr[p])
  /\ UNCHANGED <<family, STRC, SPPWAIT, p_sig, arg, ipc>>

-----------------------------------------------------------------------------
\* ptrace: PT_TRACE_ME.
traceMe(p) ==
  /\ p \in Jobs /\ Runs(p, "user") /\ p \notin STRC
  /\ STRC' = STRC \cup {p}
  /\ UNCHANGED <<pc, asleep, family, SPPWAIT, SWTED, p_sig, arg, ipc, mask>>

\* ptrace: PT_ATTACH, to another process.
attach(t, p) ==
  /\ t \in Debuggers /\ Runs(t, "user") /\ p \in Jobs \cap Alive /\ p # t /\ p \notin STRC
  /\ STRC' = STRC \cup {p}
  /\ p_oppid' = [p_oppid EXCEPT ![p] = p_pptr[p]]
  /\ p_pptr' = [p_pptr EXCEPT ![p] = t]
  /\ p_sig' = [p_sig EXCEPT ![p] = @ \cup {"SIGSTOP"}]
  /\ IF pc[p] = "wait" THEN Place(p, "user") /\ asleep' = asleep \ {p}
                       ELSE UNCHANGED <<pc, asleep>>
  /\ UNCHANGED <<SPPWAIT, SWTED, arg, ipc, mask>>

\* ptrace: the request is left in ipc for the child, which is set running.
\* Out of "job" it takes the signal and goes on without a look at ipc.
Ask(t, p, r) ==
  /\ ip_lock' = p /\ ip_req' = r
  /\ SWTED' = SWTED \ {p}
  /\ pc' = [pc EXCEPT ![t] = "answer",
                      ![p] = CASE @ = "trace" -> "xmt" [] @ = "job" -> "user" [] OTHER -> @]
  /\ p_sig' = IF pc[p] = "job" THEN [p_sig EXCEPT ![p] = @ \ {"SIGSTOP"}] ELSE p_sig
  /\ arg' = [arg EXCEPT ![t] = p]

ptrace(t, p, r) ==
  /\ t \in Debuggers /\ Runs(t, "user")
  /\ p \in STRC /\ p_pptr[p] = t /\ pc[p] \in Stopped
  /\ \/ ip_lock = NoProc /\ Ask(t, p, r)
     \/ /\ ip_lock # NoProc
        /\ Place(t, "lock") /\ arg' = [arg EXCEPT ![t] = p]
        /\ UNCHANGED <<SWTED, p_sig, ipc>>
  /\ asleep' = asleep \cup {t}
  /\ UNCHANGED <<family, STRC, SPPWAIT, mask>>

\* ptrace, when it wakes and finds ipc free: the child is not looked at again.
Locked(t, r) ==
  /\ Runs(t, "lock") /\ ip_lock = NoProc
  /\ Ask(t, arg[t], r)
  /\ asleep' = asleep \cup {t}
  /\ UNCHANGED <<family, STRC, SPPWAIT, mask>>

\* ptrace, when it wakes for the answer.
Answered(t) ==
  /\ Runs(t, "answer") /\ ip_req = "none"
  /\ ip_lock' = NoProc
  /\ asleep' = asleep \ OnIpc
  /\ Place(t, "user") /\ arg' = [arg EXCEPT ![t] = NoProc]
  /\ UNCHANGED <<family, STRC, SPPWAIT, SWTED, p_sig, ip_req, mask>>

\* PT_DETACH: the parent a process gets.  p_oppid is 0 after PT_TRACE_ME.
detached(p) == IF p_oppid[p] \in Alive THEN p_oppid[p] ELSE p_pptr[p]

\* procxmt in the child and what issig does with the result: stop again, if
\* still traced, or go on.  Any request but PT_KILL may be in error (-1).
procxmt(p) ==
  LET r == ip_req
      done == mask' = [mask EXCEPT ![p] = "none"]
      on == Place(p, "user") /\ done /\ UNCHANGED SWTED
      again(woken) ==
        IF p \in STRC
        THEN /\ Place(p, "trace") /\ SWTED' = SWTED \ {p} /\ UNCHANGED mask
             /\ asleep' = asleep \ (woken \cup OnProc(p_pptr[p]))
        ELSE on /\ asleep' = asleep \ woken
  IN  /\ Runs(p, "xmt")
      /\ \/ /\ ip_lock # p
            /\ again({})
            /\ UNCHANGED <<family, STRC, p_sig, ip_req>>
         \/ /\ ip_lock = p /\ r # "PT_KILL"
            /\ ip_req' = "none" /\ again(OnIpc)
            /\ UNCHANGED <<family, STRC, p_sig>>
         \/ /\ ip_lock = p /\ r = "PT_CONTINUE"
            /\ ip_req' = "none" /\ on /\ asleep' = asleep \ OnIpc
            /\ p_sig' = [p_sig EXCEPT ![p] = IF p \in STRC THEN @ \ {mask[p]} ELSE @]
            /\ UNCHANGED <<family, STRC>>
         \/ /\ ip_lock = p /\ r = "PT_KILL"
            /\ ip_req' = "none" /\ Place(p, "exit") /\ done /\ asleep' = asleep \ OnIpc
            /\ STRC' = STRC \ {p} /\ p_sig' = [p_sig EXCEPT ![p] = {}]
            /\ UNCHANGED <<family, SWTED>>
         \/ /\ ip_lock = p /\ r = "PT_DETACH"
            /\ ip_req' = "none" /\ on /\ asleep' = asleep \ OnIpc
            /\ STRC' = STRC \ {p}
            /\ p_pptr' = [p_pptr EXCEPT ![p] = detached(p)]
            /\ p_oppid' = [p_oppid EXCEPT ![p] = NoProc]
            /\ UNCHANGED p_sig
      /\ UNCHANGED <<SPPWAIT, arg, ip_lock>>

Step(p) ==
  Forked(p) \/ (pc[p] = "wait" /\ wait1(p)) \/ exit2(p) \/ Answered(p) \/ procxmt(p)
  \/ (\E r \in Requests : Locked(p, r))

Next ==
  \/ \E p \in Procs : Step(p) \/ execve(p) \/ exit1(p) \/ wait1(p) \/ issig(p)
  \/ \E p \in Procs : kill(p) \/ killStop(p) \/ killCont(p) \/ traceMe(p)
  \/ \E p, q \in Procs : (\E v \in BOOLEAN : fork1(p, q, v)) \/ attach(p, q)
  \/ \E p, q \in Procs, r \in Requests : ptrace(p, q, r)

\* psig: a process that is to be killed exits when it is about to leave the kernel.
psig(p) == p_sig[p] \cap Fatal # {} /\ (p \in STRC => p \in SPPWAIT) /\ exit1(p)

\* A process that can go on in the kernel does, and none outlives a SIGKILL by
\* making system calls.
Fairness == \A p \in Procs : WF_vars(Step(p)) /\ SF_vars(psig(p))

Spec == Init /\ [][Next]_vars /\ Fairness
-----------------------------------------------------------------------------
\* A process has a living parent, to whom it reports when it exits; exit, wait1
\* and ptrace hand over the children of those that go.
LivingParent ==
  \A p \in Procs : pc[p] # "free" /\ p # initproc => p_pptr[p] \in Alive

\* No process sleeps in wait while a child of its own can be reported, whoever
\* made it a child: fork, exit of the parent, ptrace, or a tracer's wait.
NoZombieMissed ==
  \A q \in asleep :
    /\ pc[q] = "wait" => \A p \in Children(q) : ~Reportable(p)
    /\ pc[q] = "ppwait" => ~(arg[q] \in Children(q) /\ pc[arg[q]] = "zombie")

\* A process that is stopped for its tracer is traced, and its tracer can
\* release it.
NotAbandoned == \A p \in Procs : pc[p] = "trace" => p \in STRC

\* A process that is killed, by kill or by the exit of its tracer, becomes a
\* zombie, wherever it was stopped; unless it sleeps uninterruptibly or is traced.
KillTakesEffect ==
  \A p \in Procs :
    "SIGKILL" \in p_sig[p] ~>
      \/ pc[p] \in {"exit", "zombie", "free"}
      \/ pc[p] \in {"ppwait", "lock", "answer"} \/ p \in STRC

\* ptrace sleeps for ip_lock and then uses its child without a second look:
\* nobody else can have set it running, taken it or freed it.
ChildHeld ==
  \A t \in Procs : pc[t] = "lock" =>
    arg[t] \in STRC /\ p_pptr[arg[t]] = t /\ pc[arg[t]] \in Stopped

\* ptrace comes back with the answer: "when the child is in the stopped state,
\* its core image can be examined and modified using ptrace" (ptrace.2).  The
\* code breaks this: a child that had stopped in "job" does not call procxmt.
PtraceReturns ==
  \A t \in Procs : pc[t] = "answer" ~> pc[t] # "answer"
-----------------------------------------------------------------------------
\* What the proofs add to the properties.  init is never stopped and does not
\* exit; only jobs get signals or are traced; a process whose parent waits in
\* vfork has not stopped or begun to exit.
Roles ==
  /\ pc[initproc] \in {"user", "wait"}
  /\ STRC \subseteq Jobs
  /\ \A p \in Procs :
       /\ p_sig[p] # {} \/ pc[p] \in Stopped \cup {"xmt"} => p \in Jobs
       /\ p \in SPPWAIT => pc[p] \in {"user", "ppwait", "wait", "lock", "answer"}

IInv ==
  TypeOK /\ Roles /\ LivingParent /\ NoZombieMissed /\ NotAbandoned /\ ChildHeld
=============================================================================
