------------------------------ MODULE KernSynch ------------------------------
(***************************************************************************)
(* Sleeping, waking, stopping and swapping of processes: tsleep, sleep,    *)
(* endtsleep, unsleep, wakeup, setrun and swtch of kern/kern_synch.c,      *)
(* psignal, issig and stop of kern/kern_sig.c, sched and swapout of        *)
(* vm/vm_glue.c and the wakeup of the swapper in vm/vm_meter.c.            *)
(*                                                                         *)
(* One processor, a kernel that is not preempted: a process runs until it  *)
(* calls swtch, and only interrupts (device wakeups, tty signals, the      *)
(* clock) come in between, where the priority level lets them.  A stretch  *)
(* at splhigh is one action.  Run queue priorities are left out: cpu_swtch *)
(* may pick any queued process, or one outside the model.  Processes are   *)
(* not traced and not inside vfork; their parents are outside the model.   *)
(***************************************************************************)
EXTENDS Naturals, FiniteSets

CONSTANTS
  Procs,       \* the process table, proc0 included
  proc0,       \* the swapper
  Other,       \* any process outside the model, or the idle loop
  Chans,       \* wait channels
  NoChan,      \* p_wchan of a process that waits for nothing
  SwapChan,    \* &proc0, where the swapper sleeps
  MemChan,     \* where the swapper waits for memory
  Sent,        \* the signals that are sent
  Caught,      \* the signals that have handlers
  Maskable     \* the signals that processes block and unblock

ASSUME Proc0InProcs == proc0 \in Procs
ASSUME OtherFresh   == Other \notin Procs
ASSUME NoChanFresh  == NoChan \notin Chans \cup {SwapChan, MemChan}
ASSUME KernelChans  == SwapChan \notin Chans /\ MemChan \notin Chans
                       /\ SwapChan # MemChan
ASSUME SentSigs     == Sent \subseteq {"INT", "KILL", "STOP", "CONT"}
ASSUME CaughtSigs   == Caught \subseteq {"INT", "CONT"}
ASSUME MaskableSigs == Maskable \subseteq {"INT", "STOP", "CONT"}

VARIABLES
  p_stat, p_wchan,
  SLOAD, SSINTR, STIMO,   \* the processes with that bit set in p_flag
  slpque, runq,           \* the processes on a sleep queue, on a run queue
  curproc,
  p_sig, p_sigmask,
  calls,                  \* the calls of endtsleep(p) in the callout queue
  pc,                     \* where in the kernel a process is
  catch, timo, sig,       \* the variables of its tsleep
  swapin_p,               \* the process that sched is bringing in
  \* history: was the sleeper awakened, did its timeout expire, what did
  \* tsleep return, and was the last of STOP and CONT sent a STOP
  woken, expired, ret, lastStop

queues  == <<p_stat, p_wchan, slpque, runq>>
signals == <<p_sig, p_sigmask, lastStop>>
frame   == <<catch, timo, sig>>
vars == <<queues, SLOAD, SSINTR, STIMO, curproc, signals, calls, pc, frame,
          swapin_p, woken, expired, ret>>

Users    == Procs \ {proc0}
AllChans == Chans \cup {SwapChan, MemChan}
Sigs     == {"INT", "KILL", "STOP", "CONT"}
Stats    == {"SRUN", "SSLEEP", "SSTOP", "SZOMB"}
Places   == {"user", "kern", "cursig1", "slept", "resume", "relook", "cursig2",
             "usersig", "dead", "sched", "schedsleep", "swapin"}

TypeOK ==
  /\ p_stat \in [Procs -> Stats]
  /\ p_wchan \in [Procs -> AllChans \cup {NoChan}]
  /\ SLOAD \subseteq Procs /\ SSINTR \subseteq Procs /\ STIMO \subseteq Procs
  /\ slpque \subseteq Procs /\ runq \subseteq Procs
  /\ curproc \in Procs \cup {Other}
  /\ p_sig \in [Procs -> SUBSET Sigs]
  /\ p_sigmask \in [Procs -> SUBSET Maskable]
  /\ calls \in [Procs -> Nat]
  /\ pc \in [Procs -> Places]
  /\ catch \subseteq Procs /\ timo \subseteq Procs
  /\ sig \in [Procs -> Sigs \cup {"none"}]
  /\ swapin_p \in Procs
  /\ woken \subseteq Procs /\ expired \subseteq Procs
  /\ ret \in [Procs -> {"none", "0", "EWOULDBLOCK", "EINTR"}]
  /\ lastStop \subseteq Procs

Init ==
  /\ p_stat = [p \in Procs |-> "SRUN"]
  /\ p_wchan = [p \in Procs |-> NoChan]
  /\ SLOAD = Procs /\ SSINTR = {} /\ STIMO = {}
  /\ slpque = {} /\ runq = Procs
  /\ curproc = Other
  /\ p_sig = [p \in Procs |-> {}]
  /\ p_sigmask = [p \in Procs |-> {}]
  /\ calls = [p \in Procs |-> 0]
  /\ pc = [p \in Procs |-> IF p = proc0 THEN "sched" ELSE "kern"]
  /\ catch = {} /\ timo = {}
  /\ sig = [p \in Procs |-> "none"]
  /\ swapin_p = proc0
  /\ woken = {} /\ expired = {}
  /\ ret = [p \in Procs |-> "none"]
  /\ lastStop = {}

-----------------------------------------------------------------------------
(* The queues.                                                             *)

\* The processes of W leave the sleep queue and those of R become runnable:
\* on the run queue if they are in memory; otherwise the swapper is awakened.
Requeue(W, R) ==
  LET swapper == IF R \subseteq SLOAD THEN {}
                 ELSE {p \in Procs : p_wchan[p] = SwapChan}
      off == W \cup swapper
      run == R \cup {p \in swapper : p_stat[p] = "SSLEEP"}
  IN  /\ p_wchan' = [p \in Procs |-> IF p \in off THEN NoChan ELSE p_wchan[p]]
      /\ slpque' = slpque \ off
      /\ p_stat' = [p \in Procs |-> IF p \in run THEN "SRUN" ELSE p_stat[p]]
      /\ runq' = runq \cup (run \cap SLOAD)

unsleep(p) == Requeue({p}, {})

\* mutant: a process that is made runnable stays on the sleep queue
setrun_asleep(p) == Requeue({}, {p})

setrun(p) == Requeue({p}, {p})

\* A stopped process leaves the sleep queue but stays stopped.
wakeup_all(chan) ==
  LET waiters == {p \in Procs : p_wchan[p] = chan}
  IN  /\ Requeue(waiters, {p \in waiters : p_stat[p] = "SSLEEP"})
      /\ woken' = woken \cup waiters

\* The process goes onto the sleep queue, asleep or stopped.
Enqueue(p, chan, stat) ==
  /\ p_wchan' = [p_wchan EXCEPT ![p] = chan]
  /\ slpque' = slpque \cup {p}
  /\ p_stat' = [p_stat EXCEPT ![p] = stat]
  /\ UNCHANGED runq

\* A device or another process wakes what sleeps on chan.
wakeup(chan) ==
  /\ \E p \in Procs : p_wchan[p] = chan
  /\ wakeup_all(chan)
  /\ UNCHANGED <<SLOAD, SSINTR, STIMO, curproc, signals, calls, pc, frame,
                 swapin_p, expired, ret>>

\* cpu_swtch takes a process off the run queue and resumes it.
cpu_swtch(p) ==
  /\ curproc = Other /\ p \in runq
  /\ curproc' = p
  /\ runq' = runq \ {p}
  /\ UNCHANGED <<p_stat, p_wchan, slpque, SLOAD, SSINTR, STIMO, signals,
                 calls, pc, frame, swapin_p, woken, expired, ret>>

-----------------------------------------------------------------------------
(* Signals.                                                                *)

\* The signal that CURSIG finds; it takes them by number.  A default CONT
\* has no action and is dropped.
Cursig(sigs, mask) ==
  LET todo == sigs \ mask
  IN  IF "INT" \in todo THEN "INT"
      ELSE IF "KILL" \in todo THEN "KILL"
      ELSE IF "STOP" \in todo THEN "STOP"
      ELSE IF "CONT" \in todo /\ "CONT" \in Caught THEN "CONT"
      ELSE "none"

AfterCursig(sigs, mask) ==
  IF Cursig(sigs, mask) = "none" /\ "CONT" \notin mask
  THEN sigs \ {"CONT"} ELSE sigs

\* mutant: a signal for a stopped process does not undo its sleep
psignal_stopped_lazy(p, s) ==
  \/ /\ \/ s = "KILL"
        \/ s = "CONT" /\ s \in Caught \ p_sigmask[p]
        \/ s = "CONT" /\ p_wchan[p] = NoChan
     /\ setrun(p)
  \/ /\ s = "CONT" /\ s \notin Caught \ p_sigmask[p] /\ p_wchan[p] # NoChan
     /\ p_stat' = [p_stat EXCEPT ![p] = "SSLEEP"]
     /\ UNCHANGED <<p_wchan, slpque, runq>>
  \/ /\ s \in {"STOP", "INT"}
     /\ UNCHANGED queues

\* mutant: a continued process goes back to sleep whatever happened meanwhile
psignal_stopped_sleeps(p, s) ==
  \/ /\ s = "KILL" \/ (s = "CONT" /\ s \in Caught \ p_sigmask[p])
     /\ setrun(p)
  \/ /\ s = "CONT" /\ s \notin Caught \ p_sigmask[p]
     /\ p_stat' = [p_stat EXCEPT ![p] = "SSLEEP"]
     /\ UNCHANGED <<p_wchan, slpque, runq>>
  \/ /\ s \in {"STOP", "INT"}
     /\ UNCHANGED queues

\* What a signal does to the state of a stopped process.
psignal_stopped(p, s) ==
  \/ /\ \/ s = "KILL"
        \/ s = "CONT" /\ s \in Caught \ p_sigmask[p]
        \/ s = "CONT" /\ p_wchan[p] = NoChan
     /\ setrun(p)
  \/ /\ s = "CONT" /\ s \notin Caught \ p_sigmask[p] /\ p_wchan[p] # NoChan
     /\ p_stat' = [p_stat EXCEPT ![p] = "SSLEEP"]
     /\ UNCHANGED <<p_wchan, slpque, runq>>
  \/ /\ s = "INT" /\ p_wchan[p] # NoChan /\ p \in SSINTR
     /\ unsleep(p)
  \/ /\ s = "STOP" \/ (s = "INT" /\ (p_wchan[p] = NoChan \/ p \notin SSINTR))
     /\ UNCHANGED queues

\* What it does to the state of a sleeping one.
psignal_sleeping(p, s) ==
  \/ /\ p \notin SSINTR
     /\ UNCHANGED queues
  \/ /\ p \in SSINTR /\ s = "STOP"
     /\ p_stat' = [p_stat EXCEPT ![p] = "SSTOP"]
     /\ UNCHANGED <<p_wchan, slpque, runq>>
  \/ /\ p \in SSINTR /\ s # "STOP"
     /\ setrun(p)

\* STOP and CONT cancel each other; a signal whose action is taken here and
\* now is not left pending.
psignal(p, s) ==
  LET held    == s \in p_sigmask[p]
      opposed == CASE s = "STOP" -> {"CONT"} [] s = "CONT" -> {"STOP"}
                   [] OTHER -> {}
      sigs    == (p_sig[p] \ opposed) \cup {s}
      taken   == \/ /\ s = "STOP" /\ ~held
                    /\ p_stat[p] = "SSTOP" \/ (p_stat[p] = "SSLEEP" /\ p \in SSINTR)
                 \/ s = "CONT" /\ ~held /\ s \notin Caught /\ p_stat[p] = "SSTOP"
  IN  /\ p \in Users /\ p_stat[p] # "SZOMB"
      /\ p_sig' = [p_sig EXCEPT ![p] = IF taken THEN sigs \ {s} ELSE sigs]
      /\ lastStop' = CASE s = "STOP" -> lastStop \cup {p}
                       [] s = "CONT" -> lastStop \ {p}
                       [] OTHER -> lastStop
      /\ \/ /\ \/ p_stat[p] = "SRUN"
               \/ held /\ (s # "CONT" \/ p_stat[p] # "SSTOP")
            /\ UNCHANGED queues
         \/ /\ p_stat[p] = "SSTOP" /\ (~held \/ s = "CONT")
            /\ psignal_stopped(p, s)
         \/ /\ p_stat[p] = "SSLEEP" /\ ~held
            /\ psignal_sleeping(p, s)
      /\ UNCHANGED <<SLOAD, SSINTR, STIMO, curproc, p_sigmask, calls, pc,
                     frame, swapin_p, woken, expired, ret>>

-----------------------------------------------------------------------------
(* tsleep, up to its swtch.  The process is on the sleep queue, and its    *)
(* timeout is running, before CURSIG may stop it.  sleep is the case where *)
(* signals are not caught and there is no timeout.                         *)

InKernel(p) == curproc = p /\ pc[p] = "kern"

tsleep(p, chan, c, t) ==
  LET out == IF c THEN Cursig(p_sig[p], p_sigmask[p]) ELSE "none"
  IN  /\ InKernel(p)
      /\ catch' = IF c THEN catch \cup {p} ELSE catch \ {p}
      /\ timo' = IF t THEN timo \cup {p} ELSE timo \ {p}
      /\ SSINTR' = IF c THEN SSINTR \cup {p} ELSE SSINTR
      /\ calls' = IF t THEN [calls EXCEPT ![p] = @ + 1] ELSE calls
      /\ woken' = woken \ {p} /\ expired' = expired \ {p}
      /\ ret' = [ret EXCEPT ![p] = "none"]
      /\ p_sig' = IF c THEN [p_sig EXCEPT ![p] = AfterCursig(@, p_sigmask[p])]
                        ELSE p_sig
      /\ \/ /\ out = "none"
            /\ Enqueue(p, chan, "SSLEEP")
            /\ pc' = [pc EXCEPT ![p] = "slept"]
            /\ sig' = [sig EXCEPT ![p] = "none"]
            /\ curproc' = Other
         \/ /\ out = "STOP"
            /\ Enqueue(p, chan, "SSTOP")
            /\ pc' = [pc EXCEPT ![p] = "cursig1"]
            /\ sig' = [sig EXCEPT ![p] = "none"]
            /\ curproc' = Other
         \/ /\ out \in {"INT", "KILL", "CONT"}
            /\ pc' = [pc EXCEPT ![p] = "resume"]
            /\ sig' = [sig EXCEPT ![p] = out]
            /\ UNCHANGED <<queues, curproc>>
      /\ UNCHANGED <<SLOAD, STIMO, p_sigmask, lastStop, swapin_p>>

\* mutant: it does not matter whether the sleeper was awakened before
endtsleep_unchecked(p) ==
  /\ calls[p] > 0
  /\ calls' = [calls EXCEPT ![p] = @ - 1]
  /\ IF p_stat[p] = "SSLEEP" THEN setrun(p) ELSE unsleep(p)
  /\ STIMO' = STIMO \cup {p}
  /\ expired' = expired \cup {p}
  /\ UNCHANGED <<SLOAD, SSINTR, curproc, signals, pc, frame, swapin_p,
                 woken, ret>>

\* mutant: a stopped process is left on the sleep queue
endtsleep_stopped(p) ==
  /\ calls[p] > 0
  /\ calls' = [calls EXCEPT ![p] = @ - 1]
  /\ \/ /\ p_wchan[p] # NoChan /\ p_stat[p] = "SSLEEP"
        /\ setrun(p)
        /\ STIMO' = STIMO \cup {p}
        /\ expired' = expired \cup {p}
     \/ /\ p_stat[p] # "SSLEEP"
        /\ UNCHANGED <<queues, STIMO, expired>>
  /\ UNCHANGED <<SLOAD, SSINTR, curproc, signals, pc, frame, swapin_p,
                 woken, ret>>

\* The timeout of a tsleep expires.
endtsleep(p) ==
  /\ calls[p] > 0
  /\ calls' = [calls EXCEPT ![p] = @ - 1]
  /\ \/ /\ p_wchan[p] # NoChan
        /\ IF p_stat[p] = "SSLEEP" THEN setrun(p) ELSE unsleep(p)
        /\ STIMO' = STIMO \cup {p}
        /\ expired' = expired \cup {p}
     \/ /\ p_wchan[p] = NoChan
        /\ UNCHANGED <<queues, STIMO, expired>>
  /\ UNCHANGED <<SLOAD, SSINTR, curproc, signals, pc, frame, swapin_p,
                 woken, ret>>

-----------------------------------------------------------------------------
(* The process runs again.                                                 *)

\* It has returned from swtch, and is not on its way into it.
Runs(p) == curproc = p /\ p_stat[p] = "SRUN" /\ p \notin runq

Return(p, value) ==
  /\ ret' = [ret EXCEPT ![p] = value]
  /\ pc' = [pc EXCEPT ![p] = "kern"]

\* issig stops the process; swtch follows, at a priority that lets
\* interrupts in before it.
Stop(p, place) ==
  /\ p_stat' = [p_stat EXCEPT ![p] = "SSTOP"]
  /\ pc' = [pc EXCEPT ![p] = place]
  /\ UNCHANGED <<p_wchan, slpque, runq>>

\* It goes on in the first issig of tsleep, where it was stopped.
cursig1(p) ==
  LET sigs == p_sig[p] \ {"STOP"}
      out  == Cursig(sigs, p_sigmask[p])
  IN  /\ Runs(p) /\ pc[p] = "cursig1"
      /\ p_sig' = [p_sig EXCEPT ![p] = AfterCursig(sigs, p_sigmask[p])]
      /\ pc' = [pc EXCEPT ![p] = "resume"]
      /\ sig' = [sig EXCEPT ![p] = out]
      /\ catch' = IF out = "none" THEN catch \ {p} ELSE catch
      /\ UNCHANGED <<queues, SLOAD, SSINTR, STIMO, curproc, p_sigmask,
                     lastStop, calls, timo, swapin_p, woken, expired, ret>>

\* What follows the sleep: if signals are caught, and none ended it, they
\* are looked at again.
LookAgain(p) == p \in catch /\ sig[p] = "none"

Outcome(p) ==
  \/ /\ p \in STIMO /\ sig[p] = "none"
     /\ Return(p, "EWOULDBLOCK")
  \/ /\ p \notin STIMO /\ LookAgain(p)
     /\ pc' = [pc EXCEPT ![p] = "relook"]
     /\ UNCHANGED ret
  \/ /\ p \in catch /\ sig[p] # "none"
     /\ Return(p, "EINTR")
  \/ /\ p \notin catch /\ p \notin STIMO
     /\ Return(p, "0")

untimeout(p) ==
  calls' = IF calls[p] > 0 THEN [calls EXCEPT ![p] = @ - 1] ELSE calls

\* mutant: the timeout of an interrupted sleep is left running
resume_keeps_timeout(p) ==
  /\ Runs(p) /\ pc[p] \in {"slept", "resume"}
  /\ SSINTR' = SSINTR \ {p}
  /\ STIMO' = STIMO \ {p}
  /\ IF p \notin STIMO /\ p \in timo /\ sig[p] = "none"
     THEN untimeout(p) ELSE UNCHANGED calls
  /\ Outcome(p)
  /\ UNCHANGED <<queues, SLOAD, curproc, signals, frame, swapin_p, woken,
                 expired>>

\* The flags are cleared and a timeout that has not expired is cancelled.
resume(p) ==
  /\ Runs(p) /\ pc[p] \in {"slept", "resume"}
  /\ SSINTR' = SSINTR \ {p}
  /\ STIMO' = STIMO \ {p}
  /\ IF p \notin STIMO /\ p \in timo THEN untimeout(p) ELSE UNCHANGED calls
  /\ Outcome(p)
  /\ UNCHANGED <<queues, SLOAD, curproc, signals, frame, swapin_p, woken,
                 expired>>

\* The second CURSIG of tsleep.  Interrupts are let in again.
relook(p) ==
  LET out == Cursig(p_sig[p], p_sigmask[p])
  IN  /\ Runs(p) /\ pc[p] = "relook"
      /\ p_sig' = [p_sig EXCEPT ![p] = AfterCursig(@, p_sigmask[p])]
      /\ \/ /\ out = "STOP"
            /\ Stop(p, "cursig2")
            /\ UNCHANGED ret
         \/ /\ out # "STOP"
            /\ Return(p, IF out = "none" THEN "0" ELSE "EINTR")
            /\ UNCHANGED queues
      /\ UNCHANGED <<SLOAD, SSINTR, STIMO, curproc, p_sigmask, lastStop, calls,
                     frame, swapin_p, woken, expired>>

\* It goes on in the issig where it was stopped, and looks again: that of
\* tsleep's second CURSIG, or the one on the way back to user mode.
issig_continued(p) ==
  /\ Runs(p) /\ pc[p] \in {"cursig2", "usersig"}
  /\ p_sig' = [p_sig EXCEPT ![p] = @ \ {"STOP"}]
  /\ pc' = [pc EXCEPT ![p] = IF @ = "cursig2" THEN "relook" ELSE "kern"]
  /\ UNCHANGED <<queues, SLOAD, SSINTR, STIMO, curproc, p_sigmask, lastStop,
                 calls, frame, swapin_p, woken, expired, ret>>

-----------------------------------------------------------------------------
(* Outside tsleep: traps, signals on the way back to user mode, preemption *)
(* and exit.                                                               *)

trap(p) ==
  /\ curproc = p /\ pc[p] = "user"
  /\ pc' = [pc EXCEPT ![p] = "kern"]
  /\ UNCHANGED <<queues, SLOAD, SSINTR, STIMO, curproc, signals, calls, frame,
                 swapin_p, woken, expired, ret>>

\* A process changes its signal mask.
sigprocmask(p, mask) ==
  /\ InKernel(p)
  /\ mask # p_sigmask[p]
  /\ p_sigmask' = [p_sigmask EXCEPT ![p] = mask]
  /\ UNCHANGED <<queues, SLOAD, SSINTR, STIMO, curproc, p_sig, lastStop, calls,
                 pc, frame, swapin_p, woken, expired, ret>>

\* CURSIG before the return to user mode: psig runs a handler or exits.
userret(p) ==
  LET out == Cursig(p_sig[p], p_sigmask[p])
  IN  /\ InKernel(p)
      /\ \/ /\ out = "none"
            /\ pc' = [pc EXCEPT ![p] = "user"]
            /\ p_sig' = [p_sig EXCEPT ![p] = AfterCursig(@, p_sigmask[p])]
            /\ UNCHANGED <<queues, curproc>>
         \/ /\ out = "STOP"
            /\ Stop(p, "usersig")
            /\ UNCHANGED <<p_sig, curproc>>
         \/ /\ out \in Caught
            /\ p_sig' = [p_sig EXCEPT ![p] = @ \ {out}]
            /\ UNCHANGED <<queues, curproc, pc>>
         \/ /\ out \in {"INT", "KILL"} \ Caught
            /\ p_stat' = [p_stat EXCEPT ![p] = "SZOMB"]
            /\ pc' = [pc EXCEPT ![p] = "dead"]
            /\ p_sig' = [p_sig EXCEPT ![p] = {}]
            /\ curproc' = Other
            /\ UNCHANGED <<p_wchan, slpque, runq>>
      /\ UNCHANGED <<SLOAD, SSINTR, STIMO, p_sigmask, lastStop, calls, frame,
                     swapin_p, woken, expired, ret>>

\* The swtch that follows the stop in issig.
swtch_stopped(p) ==
  /\ curproc = p /\ pc[p] \in {"cursig2", "usersig"} /\ ~Runs(p)
  /\ curproc' = Other
  /\ UNCHANGED <<queues, SLOAD, SSINTR, STIMO, signals, calls, pc, frame,
                 swapin_p, woken, expired, ret>>

\* The process gives way on its return to user mode.
preempt(p) ==
  /\ InKernel(p) /\ Cursig(p_sig[p], p_sigmask[p]) = "none"
  /\ p_sig' = [p_sig EXCEPT ![p] = AfterCursig(@, p_sigmask[p])]
  /\ runq' = runq \cup {p}
  /\ curproc' = Other
  /\ UNCHANGED <<p_stat, p_wchan, slpque, SLOAD, SSINTR, STIMO, p_sigmask,
                 lastStop, calls, pc, frame, swapin_p, woken, expired, ret>>

\* The process structure is reused by a fork, and inherits the signal mask
\* of a parent outside the model; callouts are not touched.
fork(p) ==
  /\ p_stat[p] = "SZOMB"
  /\ p_stat' = [p_stat EXCEPT ![p] = "SRUN"]
  /\ runq' = runq \cup {p}
  /\ SLOAD' = SLOAD \cup {p} /\ SSINTR' = SSINTR \ {p} /\ STIMO' = STIMO \ {p}
  /\ p_sig' = [p_sig EXCEPT ![p] = {}]
  /\ lastStop' = lastStop \ {p}
  /\ pc' = [pc EXCEPT ![p] = "kern"]
  /\ ret' = [ret EXCEPT ![p] = "none"]
  /\ \E mask \in SUBSET Maskable : p_sigmask' = [p_sigmask EXCEPT ![p] = mask]
  /\ UNCHANGED <<p_wchan, slpque, curproc, calls, frame, swapin_p, woken,
                 expired>>

-----------------------------------------------------------------------------
(* Swapping.                                                               *)

\* The swapper looks for a process to bring in.  It runs at spl0: an
\* interrupt may make one runnable between the look and the sleep.
sched_scan ==
  LET out == {p \in Procs : p_stat[p] = "SRUN" /\ p \notin SLOAD}
  IN  /\ curproc = proc0 /\ pc[proc0] = "sched"
      /\ \/ /\ out = {}
            /\ pc' = [pc EXCEPT ![proc0] = "schedsleep"]
            /\ UNCHANGED swapin_p
         \/ /\ swapin_p' \in out
            /\ pc' = [pc EXCEPT ![proc0] = "swapin"]
      /\ UNCHANGED <<queues, SLOAD, SSINTR, STIMO, curproc, signals, calls,
                     frame, woken, expired, ret>>

\* There is nothing to do.
sched_sleep ==
  /\ curproc = proc0 /\ pc[proc0] = "schedsleep"
  /\ Enqueue(proc0, SwapChan, "SSLEEP")
  /\ pc' = [pc EXCEPT ![proc0] = "sched"]
  /\ curproc' = Other
  /\ UNCHANGED <<SLOAD, SSINTR, STIMO, signals, calls, frame, swapin_p, woken,
                 expired, ret>>

\* There is no room; the pageout daemon will wake the swapper.
sched_wait ==
  /\ curproc = proc0 /\ pc[proc0] = "swapin"
  /\ Enqueue(proc0, MemChan, "SSLEEP")
  /\ pc' = [pc EXCEPT ![proc0] = "sched"]
  /\ curproc' = Other
  /\ UNCHANGED <<SLOAD, SSINTR, STIMO, signals, calls, frame, swapin_p, woken,
                 expired, ret>>

\* Wiring the u-area may sleep, at spl0.
sched_fault ==
  /\ curproc = proc0 /\ pc[proc0] = "swapin"
  /\ Enqueue(proc0, MemChan, "SSLEEP")
  /\ curproc' = Other
  /\ UNCHANGED <<SLOAD, SSINTR, STIMO, signals, calls, pc, frame, swapin_p,
                 woken, expired, ret>>

sched_swapin ==
  /\ curproc = proc0 /\ pc[proc0] = "swapin"
  /\ runq' = IF p_stat[swapin_p] = "SRUN" THEN runq \cup {swapin_p} ELSE runq
  /\ SLOAD' = SLOAD \cup {swapin_p}
  /\ pc' = [pc EXCEPT ![proc0] = "sched"]
  /\ UNCHANGED <<p_stat, p_wchan, slpque, SSINTR, STIMO, curproc, signals,
                 calls, frame, swapin_p, woken, expired, ret>>

\* mutant: a runnable process is left on the run queue
swapout_queued(p) ==
  /\ curproc = Other
  /\ p \in Users \cap SLOAD /\ p_stat[p] # "SZOMB"
  /\ SLOAD' = SLOAD \ {p}
  /\ UNCHANGED <<queues, SSINTR, STIMO, curproc, signals, calls, pc, frame,
                 swapin_p, woken, expired, ret>>

\* The pageout daemon throws a process out.
swapout(p) ==
  /\ curproc = Other
  /\ p \in Users \cap SLOAD /\ p_stat[p] # "SZOMB"
  /\ SLOAD' = SLOAD \ {p}
  /\ runq' = IF p_stat[p] = "SRUN" THEN runq \ {p} ELSE runq
  /\ UNCHANGED <<p_stat, p_wchan, slpque, SSINTR, STIMO, curproc, signals,
                 calls, pc, frame, swapin_p, woken, expired, ret>>

\* mutant: the swapper is looked after only if a process waits for memory
vmmeter_idle ==
  /\ \E p \in Procs : p_wchan[p] = MemChan
  /\ wakeup(SwapChan)

\* Once a second the clock looks whether the swapper has slept for long.
vmmeter == wakeup(SwapChan)

-----------------------------------------------------------------------------
Interrupt ==
  \/ \E c \in Chans \cup {MemChan} : wakeup(c)
  \/ \E p \in Procs, s \in Sent : psignal(p, s)
  \/ \E p \in Procs : endtsleep(p)
  \/ vmmeter

sched == sched_scan \/ sched_sleep \/ sched_wait \/ sched_fault \/ sched_swapin

Sleeps(p) == \E chan \in Chans, c, t \in BOOLEAN : tsleep(p, chan, c, t)

Process(p) ==
  \/ Sleeps(p) \/ cursig1(p) \/ resume(p) \/ relook(p) \/ issig_continued(p)
  \/ trap(p) \/ userret(p) \/ swtch_stopped(p) \/ preempt(p)
  \/ \E mask \in SUBSET Maskable : sigprocmask(p, mask)

Next ==
  \/ Interrupt
  \/ sched
  \/ \E p \in Users : Process(p) \/ fork(p) \/ swapout(p)
  \/ \E p \in Procs : cpu_swtch(p)

Spec == Init /\ [][Next]_vars

\* The clock runs, so timeouts expire and the swapper is looked after; the
\* pageout daemon frees memory again and again; a process in the kernel
\* goes on, and gives way in the end; aging lets every queued process run
\* some day.  Nobody has to wake a sleeper, or to continue a stopped one.
Fairness ==
  /\ \A p \in Procs : WF_vars(endtsleep(p)) /\ SF_vars(cpu_swtch(p))
  /\ WF_vars(vmmeter) /\ WF_vars(wakeup(MemChan))
  /\ WF_vars(sched) /\ SF_vars(sched_swapin)
  /\ \A p \in Users :
       /\ WF_vars(cursig1(p) \/ resume(p) \/ relook(p) \/ issig_continued(p)
                  \/ swtch_stopped(p))
       /\ WF_vars(trap(p)) /\ WF_vars(userret(p)) /\ SF_vars(preempt(p))

FairSpec == Spec /\ Fairness

-----------------------------------------------------------------------------
\* The sleep queue holds exactly the processes with a wait channel, and a
\* process is asleep only while it is on it: whatever order wakeups,
\* timeouts, signals, stops and continues come in, something can still
\* wake every sleeper.
SleepersAwaitable ==
  /\ \A p \in Procs : p \in slpque <=> p_wchan[p] # NoChan
  /\ \A p \in Procs : p_stat[p] = "SSLEEP" => p \in slpque

\* The run queues hold exactly the processes that are runnable, in memory
\* and not running; a process that was stopped in issig and continued
\* before it reached swtch is there too.
RunnableQueued ==
  \A p \in Procs :
    /\ p # curproc => (p \in runq <=> p_stat[p] = "SRUN" /\ p \in SLOAD)
    /\ p = curproc /\ p \in runq => pc[p] \in {"cursig2", "usersig"}

\* None of the consistency panics can happen: "wakeup" (a process on a
\* sleep queue is runnable or on a run queue), "setrq" (it is already
\* there), "remrq" (it is not there) and "tsleep" (the caller is not
\* running, or is queued).
NoPanic ==
  /\ \A p \in slpque : p \notin runq /\ p_stat[p] \in {"SSLEEP", "SSTOP"}
  /\ \A p \in runq : p_stat[p] = "SRUN" /\ p \in SLOAD
  /\ \A p \in SLOAD : p_stat[p] = "SRUN" /\ p # curproc => p \in runq
  /\ \A p \in Procs : curproc = p /\ pc[p] \in {"kern", "sched", "schedsleep", "swapin"}
                      => p_stat[p] = "SRUN" /\ p \notin runq

\* No timeout outlives the tsleep that started it, and no flag of one sleep
\* is left for the next: a late endtsleep never cuts a later sleep short,
\* not even of a process that reuses the structure.
NoStaleTimeout ==
  \A p \in Procs :
    /\ calls[p] <= 1
    /\ pc[p] \notin {"slept", "cursig1", "resume"}
         => calls[p] = 0 /\ p \notin STIMO /\ p \notin SSINTR

\* A timeout and a wakeup never claim the same sleep: EWOULDBLOCK is
\* returned only if the timeout expired while nobody had awakened the
\* sleeper, and a sleeper that was awakened in time is not told so.
TimeoutJustified ==
  \A p \in Users :
    /\ ~(p \in woken /\ p \in expired)
    /\ pc[p] = "kern" /\ ret[p] = "EWOULDBLOCK" => p \in expired

\* "Returns 0 if awakened, EWOULDBLOCK if the timeout expires"
\* (kern_synch.c:267): tsleep returns 0 only after a wakeup of its channel.
ZeroMeansAwakened ==
  \A p \in Users : pc[p] = "kern" /\ ret[p] = "0" => p \in woken

\* Nobody sleeps interruptibly on a signal that it should act on: a signal
\* that arrives while the process is asleep, stopped in its sleep, or on
\* its way into it, ends the sleep.
NoSleepOnSignal ==
  \A p \in Procs :
    p_stat[p] = "SSLEEP" /\ p \in SSINTR
      => Cursig(p_sig[p], p_sigmask[p]) = "none"

\* "Stop signals with default action are processed immediately, then
\* cleared" (kern_sig.c:842): a process in user mode has not been sent a
\* stop signal since it was last continued, unless that is still pending.
StopProcessed ==
  \A p \in Users : pc[p] = "user" /\ p \in lastStop => "STOP" \in p_sig[p]

\* A sleep with a timeout ends, whether or not anyone wakes the sleeper and
\* however often it is swapped out, unless the process is stopped.
TimedSleepEnds ==
  \A p \in Users :
    pc[p] = "slept" /\ p \in timo ~> pc[p] = "kern" \/ p_stat[p] = "SSTOP"

\* The swapper brings every runnable process in, although the wakeup that
\* tells it of one may come between its look and its sleep.
SwappedIn ==
  \A p \in Users : p_stat[p] = "SRUN" /\ p \notin SLOAD ~> p \in SLOAD

-----------------------------------------------------------------------------
(* The inductive invariant.                                                *)

\* How a process is queued: asleep or stopped on the sleep queue, runnable
\* on the run queue if it is in memory, or running.
Queued(p) ==
  /\ p \in slpque <=> p_wchan[p] # NoChan
  /\ p_stat[p] = "SSLEEP" => p \in slpque
  /\ p \in slpque => p_stat[p] \in {"SSLEEP", "SSTOP"}
  /\ p \in runq => p_stat[p] = "SRUN" /\ p \in SLOAD
  /\ p # curproc /\ p_stat[p] = "SRUN" /\ p \in SLOAD => p \in runq
  /\ p = curproc => p \in SLOAD /\ p \notin slpque
                      /\ p_stat[p] \in {"SRUN", "SSTOP"}

\* Where in the kernel a process can be when it is queued so.
Placed(p) ==
  /\ p = proc0 <=> pc[p] \in {"sched", "schedsleep", "swapin"}
  /\ p = proc0 => p \in SLOAD /\ p_stat[p] \in {"SRUN", "SSLEEP"}
  /\ p # proc0 /\ p_wchan[p] # NoChan => pc[p] \in {"slept", "cursig1"}
  /\ p_stat[p] = "SSTOP" => pc[p] \in {"slept", "cursig1", "cursig2", "usersig"}
  /\ p_stat[p] = "SZOMB" <=> pc[p] = "dead"
  /\ p = curproc /\ (p_stat[p] = "SSTOP" \/ p \in runq)
       => pc[p] \in {"cursig2", "usersig"}

\* The swapper brings in a process that is runnable and out of memory.
SwappingIn ==
  pc[proc0] = "swapin" => swapin_p \notin SLOAD /\ p_stat[swapin_p] = "SRUN"

\* What a timeout can still do.
Timed(p) ==
  /\ calls[p] \in {0, 1}
  /\ pc[p] \notin {"slept", "cursig1", "resume"}
       => calls[p] = 0 /\ p \notin STIMO /\ p \notin SSINTR
  /\ p \in STIMO => calls[p] = 0 /\ p \in expired
  /\ p \notin timo => calls[p] = 0 /\ p \notin STIMO
  /\ p_wchan[p] # NoChan /\ p # proc0 => p \notin woken /\ p \notin expired
  /\ p # proc0 => ~(p \in woken /\ p \in expired)
  /\ ret[p] = "EWOULDBLOCK" => p \in expired

\* What is pending for a process that sleeps interruptibly, asleep or
\* stopped: nothing that it should act on but the stop itself.
Undisturbed(p) ==
  /\ ~({"STOP", "CONT"} \subseteq p_sig[p])
  /\ p \in slpque /\ p \in SSINTR =>
       /\ {"INT", "KILL"} \cap p_sig[p] \subseteq p_sigmask[p]
       /\ "CONT" \in Caught /\ "CONT" \in p_sig[p] => "CONT" \in p_sigmask[p]
       /\ p_stat[p] = "SSLEEP" /\ "STOP" \in p_sig[p] => "STOP" \in p_sigmask[p]

IInv == TypeOK /\ SwappingIn
        /\ \A p \in Procs : Queued(p) /\ Placed(p) /\ Timed(p) /\ Undisturbed(p)
=============================================================================
