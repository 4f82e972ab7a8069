--------------------------- MODULE KernSynchProofs ---------------------------
(* Proofs about sleeping, waking, stopping and swapping, for every process *)
(* table and every set of channels, signals and handlers.                  *)
EXTENDS KernSynch, TLAPS

ConstantFacts ==
  /\ proc0 \in Procs /\ Other \notin Procs
  /\ NoChan \notin AllChans
  /\ SwapChan \notin Chans /\ MemChan \notin Chans /\ SwapChan # MemChan
  /\ Sent \subseteq Sigs /\ Caught \subseteq {"INT", "CONT"}
  /\ Maskable \subseteq {"INT", "STOP", "CONT"}

\* The assumptions on the constants, together.
LEMMA Constants == ConstantFacts
BY Proc0InProcs, OtherFresh, NoChanFresh, KernelChans, SentSigs, CaughtSigs,
   MaskableSigs DEF ConstantFacts, AllChans, Sigs

\* The types of the variables that the queues are made of.
QueueTypes ==
  /\ p_stat \in [Procs -> Stats]
  /\ p_wchan \in [Procs -> AllChans \cup {NoChan}]
  /\ slpque \subseteq Procs /\ runq \subseteq Procs
  /\ SLOAD \subseteq Procs

\* What a step that only takes processes off the sleep queue and makes
\* sleeping or stopped ones runnable does to a process.
Released(p) ==
  /\ \/ p_stat'[p] = p_stat[p]
     \/ p_stat[p] \in {"SSLEEP", "SSTOP"} /\ p_stat'[p] = "SRUN"
  /\ p_wchan'[p] \in {p_wchan[p], NoChan}
  /\ p \in slpque' => p \in slpque /\ p_stat'[p] = p_stat[p]
                      /\ p_wchan'[p] = p_wchan[p]
  /\ p \in runq' => p \in runq \/ p_stat[p] \in {"SSLEEP", "SSTOP"}

\* Requeue, the common part of unsleep, setrun and wakeup, keeps the queues
\* in order when it is told to run every sleeper that it takes off.
LEMMA RequeueKeeps ==
  ASSUME QueueTypes, \A p \in Procs : Queued(p),
         NEW W \in SUBSET Procs, NEW R \in SUBSET W,
         \A p \in R : p_stat[p] \in {"SSLEEP", "SSTOP"},
         \A p \in W : p_stat[p] = "SSLEEP" => p \in R,
         UNCHANGED <<SLOAD, curproc>>, Requeue(W, R)
  PROVE  /\ QueueTypes'
         /\ \A p \in Procs : Queued(p)'
         /\ \A p \in Procs : Released(p)
         /\ \A p \in Procs : p \in W => p_wchan'[p] = NoChan
         /\ \A p \in Procs : p \in R => p_stat'[p] = "SRUN"
<1> DEFINE swapper == IF R \subseteq SLOAD THEN {}
                      ELSE {p \in Procs : p_wchan[p] = SwapChan}
           off == W \cup swapper
           run == R \cup {p \in swapper : p_stat[p] = "SSLEEP"}
<1>1. /\ p_wchan' = [p \in Procs |-> IF p \in off THEN NoChan ELSE p_wchan[p]]
      /\ slpque' = slpque \ off
      /\ p_stat' = [p \in Procs |-> IF p \in run THEN "SRUN" ELSE p_stat[p]]
      /\ runq' = runq \cup (run \cap SLOAD)
  BY DEF Requeue
<1>2. /\ run \subseteq off /\ off \subseteq Procs
      /\ \A p \in off : p_stat[p] = "SSLEEP" => p \in run
      /\ \A p \in run : p_stat[p] \in {"SSLEEP", "SSTOP"}
  OBVIOUS
<1>3. W \subseteq off /\ R \subseteq run
  OBVIOUS
<1> HIDE DEF off, run
<1>4. QueueTypes'
  BY <1>1, <1>2 DEF QueueTypes, Stats
<1>5. ASSUME NEW p \in Procs PROVE Queued(p)' /\ Released(p)
  BY <1>1, <1>2 DEF QueueTypes, Queued, Released, Stats
<1> QED
  BY <1>1, <1>2, <1>3, <1>4, <1>5

\* A process that unsleep takes off its sleep queue is left on no wrong queue.
LEMMA UnsleepKeeps ==
  ASSUME QueueTypes, \A p \in Procs : Queued(p), NEW p \in Procs,
         p_stat[p] # "SSLEEP", UNCHANGED <<SLOAD, curproc>>, unsleep(p)
  PROVE  /\ QueueTypes' /\ (\A q \in Procs : Queued(q)')
         /\ (\A q \in Procs : Released(q)) /\ p_wchan'[p] = NoChan
BY RequeueKeeps DEF unsleep

\* setrun puts a sleeping or stopped process on a run queue, or leaves it to
\* the swapper, and touches no other.
LEMMA SetrunKeeps ==
  ASSUME QueueTypes, \A p \in Procs : Queued(p), NEW p \in Procs,
         p_stat[p] \in {"SSLEEP", "SSTOP"}, UNCHANGED <<SLOAD, curproc>>,
         setrun(p)
  PROVE  /\ QueueTypes' /\ (\A q \in Procs : Queued(q)')
         /\ (\A q \in Procs : Released(q)) /\ p_wchan'[p] = NoChan
         /\ p_stat'[p] = "SRUN"
BY RequeueKeeps DEF setrun

\* A step that only releases processes leaves them where they can be.
LEMMA ReleasedPlaces ==
  ASSUME IInv, \A q \in Procs : Queued(q)', \A q \in Procs : Released(q),
         UNCHANGED <<pc, SLOAD, curproc, swapin_p>>
  PROVE  SwappingIn' /\ \A q \in Procs : Placed(q)'
<1>1. SwappingIn'
  BY Constants DEF IInv, SwappingIn, Released, TypeOK, ConstantFacts
<1>2. ASSUME NEW q \in Procs PROVE Placed(q)'
  BY DEF IInv, Placed, Released, Queued, TypeOK, Stats
<1> QED
  BY <1>1, <1>2

\* The types of the queues are part of the type invariant.
LEMMA TypesOfQueues == ASSUME TypeOK PROVE QueueTypes
BY DEF TypeOK, QueueTypes

-----------------------------------------------------------------------------
(* One lemma per action.                                                   *)

\* The first state satisfies the invariant.
LEMMA InitIInv == ASSUME Init PROVE IInv
<1>1. TypeOK
  BY Constants DEF Init, TypeOK, ConstantFacts, Stats, Places
<1>2. SwappingIn
  BY Constants DEF Init, SwappingIn, ConstantFacts
<1>3. ASSUME NEW p \in Procs
      PROVE  Queued(p) /\ Placed(p) /\ Timed(p) /\ Undisturbed(p)
  BY Constants DEF Init, Queued, Placed, Timed, Undisturbed, ConstantFacts
<1> QED
  BY <1>1, <1>2, <1>3 DEF IInv

\* wakeup empties the sleep queue of a channel: those asleep become runnable,
\* those stopped stay so and will run when they are continued.
LEMMA Wakeup ==
  ASSUME IInv, NEW chan \in AllChans, wakeup(chan) PROVE IInv'
<1> DEFINE W == {p \in Procs : p_wchan[p] = chan}
           R == {p \in W : p_stat[p] = "SSLEEP"}
<1>1. /\ QueueTypes' /\ (\A p \in Procs : Queued(p)')
      /\ (\A p \in Procs : Released(p))
      /\ \A p \in Procs : p \in W => p_wchan'[p] = NoChan
  <2>1. Requeue(W, R) /\ UNCHANGED <<SLOAD, curproc>>
    BY DEF wakeup, wakeup_all
  <2> QED
    BY <2>1, RequeueKeeps, TypesOfQueues DEF IInv
<1>2. woken' = woken \cup W
  BY DEF wakeup, wakeup_all
<1>3. TypeOK'
  BY <1>1, <1>2 DEF IInv, TypeOK, QueueTypes, wakeup, signals, frame
<1>4. SwappingIn' /\ \A p \in Procs : Placed(p)'
  BY <1>1, ReleasedPlaces DEF wakeup
<1>5. ASSUME NEW p \in Procs PROVE Timed(p)'
  <2>1. p \in W => p_wchan[p] # NoChan
    BY Constants DEF ConstantFacts
  <2>2. p \in W \/ (p \in woken' <=> p \in woken)
    BY <1>2
  <2> QED
    BY <1>1, <2>1, <2>2 DEF IInv, Timed, Released, wakeup, frame
<1>6. ASSUME NEW p \in Procs PROVE Undisturbed(p)'
  BY <1>1 DEF IInv, Undisturbed, Released, wakeup, signals
<1> QED
  BY <1>1, <1>3, <1>4, <1>5, <1>6 DEF IInv

\* A timeout ends the sleep it belongs to, and no other.
LEMMA Endtsleep ==
  ASSUME IInv, NEW p \in Procs, endtsleep(p) PROVE IInv'
<1>1. CASE p_wchan[p] = NoChan
  <2>1. UNCHANGED <<queues, STIMO, expired, SLOAD, SSINTR, curproc, signals,
                    pc, frame, swapin_p, woken, ret>>
        /\ calls' = [calls EXCEPT ![p] = @ - 1] /\ calls[p] > 0
    BY <1>1 DEF endtsleep
  <2>2. TypeOK'
    BY <2>1 DEF IInv, TypeOK, queues, signals, frame, Timed
  <2>3. SwappingIn'
    BY <2>1 DEF IInv, SwappingIn, queues
  <2>4. ASSUME NEW q \in Procs PROVE Queued(q)' /\ Placed(q)' /\ Undisturbed(q)'
    BY <2>1 DEF IInv, Queued, Placed, Undisturbed, queues, signals
  <2>5. ASSUME NEW q \in Procs PROVE Timed(q)'
    BY <2>1 DEF IInv, TypeOK, Timed, queues, frame
  <2> QED
    BY <2>2, <2>3, <2>4, <2>5 DEF IInv
<1>2. CASE p_wchan[p] # NoChan
  <2>1. /\ calls' = [calls EXCEPT ![p] = @ - 1] /\ calls[p] > 0
        /\ STIMO' = STIMO \cup {p} /\ expired' = expired \cup {p}
        /\ UNCHANGED <<SLOAD, SSINTR, curproc, signals, pc, frame, swapin_p,
                       woken, ret>>
        /\ IF p_stat[p] = "SSLEEP" THEN setrun(p) ELSE unsleep(p)
    BY <1>2 DEF endtsleep
  <2>2. /\ QueueTypes' /\ (\A q \in Procs : Queued(q)')
        /\ (\A q \in Procs : Released(q)) /\ p_wchan'[p] = NoChan
    BY <2>1, SetrunKeeps, UnsleepKeeps, TypesOfQueues DEF IInv
  <2>3. TypeOK'
    <3>1. calls' \in [Procs -> Nat]
      BY <2>1 DEF IInv, TypeOK
    <3> QED
      BY <2>1, <2>2, <3>1 DEF IInv, TypeOK, QueueTypes, signals, frame
  <2>4. SwappingIn' /\ \A q \in Procs : Placed(q)'
    BY <2>1, <2>2, ReleasedPlaces
  <2>5. p # proc0 /\ pc[p] \in {"slept", "cursig1"} /\ p \in timo /\ calls[p] = 1
    BY <1>2, <2>1 DEF IInv, Timed, Placed, TypeOK
  <2>6. ASSUME NEW q \in Procs PROVE Timed(q)'
    BY <1>2, <2>1, <2>2, <2>5 DEF IInv, TypeOK, Timed, Released, frame
  <2>7. ASSUME NEW q \in Procs PROVE Undisturbed(q)'
    BY <2>1, <2>2 DEF IInv, Undisturbed, Released, signals
  <2> QED
    BY <2>2, <2>3, <2>4, <2>6, <2>7 DEF IInv
<1> QED
  BY <1>1, <1>2

\* The processor is given to a queued process, which leaves its queue.
LEMMA CpuSwtch ==
  ASSUME IInv, NEW p \in Procs, cpu_swtch(p) PROVE IInv'
<1>1. TypeOK'
  BY DEF IInv, TypeOK, cpu_swtch, signals, frame
<1>2. SwappingIn'
  BY DEF IInv, SwappingIn, cpu_swtch
<1>3. ASSUME NEW q \in Procs PROVE Queued(q)'
  BY Constants DEF IInv, Queued, cpu_swtch, ConstantFacts
<1>4. ASSUME NEW q \in Procs PROVE Placed(q)'
  BY DEF IInv, Queued, Placed, cpu_swtch
<1>5. ASSUME NEW q \in Procs PROVE Timed(q)'
  BY DEF IInv, Timed, cpu_swtch, frame
<1>6. ASSUME NEW q \in Procs PROVE Undisturbed(q)'
  BY DEF IInv, Undisturbed, cpu_swtch, signals
<1> QED
  BY <1>1, <1>2, <1>3, <1>4, <1>5, <1>6 DEF IInv

\* A process that was stopped in the first CURSIG of tsleep gets on.
LEMMA Cursig1 ==
  ASSUME IInv, NEW p \in Users, cursig1(p) PROVE IInv'
<1>1. TypeOK'
  BY DEF IInv, TypeOK, cursig1, Cursig, AfterCursig, Sigs, queues, Places
<1>2. SwappingIn'
  BY DEF IInv, SwappingIn, cursig1, queues
<1>3. ASSUME NEW q \in Procs PROVE Queued(q)'
  BY DEF IInv, Queued, cursig1, queues
<1>4. ASSUME NEW q \in Procs PROVE Placed(q)'
  BY DEF IInv, Queued, Placed, cursig1, Runs, queues
<1>5. ASSUME NEW q \in Procs PROVE Timed(q)'
  BY DEF IInv, Timed, cursig1, queues
<1>6. ASSUME NEW q \in Procs PROVE Undisturbed(q)'
  BY DEF IInv, Undisturbed, cursig1, AfterCursig, queues
<1> QED
  BY <1>1, <1>2, <1>3, <1>4, <1>5, <1>6 DEF IInv

\* A process returns from swtch in tsleep: its timeout is cancelled or taken.
LEMMA Resume ==
  ASSUME IInv, NEW p \in Users, resume(p) PROVE IInv'
<1>1. TypeOK'
  BY DEF IInv, TypeOK, resume, Outcome, Return, untimeout, queues, signals,
     frame, Places
<1>2. SwappingIn'
  BY Constants DEF IInv, TypeOK, SwappingIn, resume, Outcome, Return,
     queues, ConstantFacts
<1>3. ASSUME NEW q \in Procs PROVE Queued(q)'
  BY DEF IInv, Queued, resume, queues
<1>4. ASSUME NEW q \in Procs PROVE Placed(q)'
  BY DEF IInv, TypeOK, Queued, Placed, resume, Runs, Outcome, Return, queues
<1>5. ASSUME NEW q \in Procs PROVE Timed(q)'
  BY DEF IInv, TypeOK, Timed, resume, Outcome, Return, untimeout, queues,
     frame
<1>6. ASSUME NEW q \in Procs PROVE Undisturbed(q)'
  BY DEF IInv, Undisturbed, resume, queues, signals
<1> QED
  BY <1>1, <1>2, <1>3, <1>4, <1>5, <1>6 DEF IInv

\* The second CURSIG of tsleep decides what the sleep returns.
LEMMA Relook ==
  ASSUME IInv, NEW p \in Users, relook(p) PROVE IInv'
<1>1. TypeOK'
  BY DEF IInv, TypeOK, relook, Stop, Return, AfterCursig, queues, frame,
     Places, Stats
<1>2. SwappingIn'
  BY Constants DEF IInv, TypeOK, SwappingIn, Queued, relook, Runs, Stop,
     Return, queues, ConstantFacts
<1>3. ASSUME NEW q \in Procs PROVE Queued(q)'
  BY DEF IInv, TypeOK, Queued, relook, Runs, Stop, queues
<1>4. ASSUME NEW q \in Procs PROVE Placed(q)'
  BY DEF IInv, TypeOK, Placed, relook, Stop, Return, queues
<1>5. ASSUME NEW q \in Procs PROVE Timed(q)'
  BY DEF IInv, TypeOK, Timed, relook, Stop, Return, queues, frame
<1>6. ASSUME NEW q \in Procs PROVE Undisturbed(q)'
  BY DEF IInv, TypeOK, Undisturbed, relook, Stop, AfterCursig, queues
<1> QED
  BY <1>1, <1>2, <1>3, <1>4, <1>5, <1>6 DEF IInv

\* A continued process drops the signal it stopped for.
LEMMA IssigContinued ==
  ASSUME IInv, NEW p \in Users, issig_continued(p) PROVE IInv'
<1>1. TypeOK'
  BY DEF IInv, TypeOK, issig_continued, queues, frame, Places
<1>2. SwappingIn'
  BY DEF IInv, SwappingIn, issig_continued, queues
<1>3. ASSUME NEW q \in Procs PROVE Queued(q)'
  BY DEF IInv, Queued, issig_continued, queues
<1>4. ASSUME NEW q \in Procs PROVE Placed(q)'
  BY DEF IInv, Placed, issig_continued, Runs, queues
<1>5. ASSUME NEW q \in Procs PROVE Timed(q)'
  BY DEF IInv, Timed, issig_continued, queues, frame
<1>6. ASSUME NEW q \in Procs PROVE Undisturbed(q)'
  BY DEF IInv, Undisturbed, issig_continued, queues
<1> QED
  BY <1>1, <1>2, <1>3, <1>4, <1>5, <1>6 DEF IInv

\* A process enters the kernel.
LEMMA Trap ==
  ASSUME IInv, NEW p \in Users, trap(p) PROVE IInv'
<1>1. TypeOK'
  BY DEF IInv, TypeOK, trap, queues, signals, frame, Places
<1>2. SwappingIn'
  BY DEF IInv, SwappingIn, trap, queues
<1>3. ASSUME NEW q \in Procs PROVE Queued(q)'
  BY DEF IInv, Queued, trap, queues
<1>4. ASSUME NEW q \in Procs PROVE Placed(q)'
  BY DEF IInv, Placed, trap, queues
<1>5. ASSUME NEW q \in Procs PROVE Timed(q)'
  BY DEF IInv, Timed, trap, queues, frame
<1>6. ASSUME NEW q \in Procs PROVE Undisturbed(q)'
  BY DEF IInv, Undisturbed, trap, queues, signals
<1> QED
  BY <1>1, <1>2, <1>3, <1>4, <1>5, <1>6 DEF IInv

\* Signals are unmasked only by a process that runs.
LEMMA Sigprocmask ==
  ASSUME IInv, NEW p \in Users, NEW mask \in SUBSET Maskable,
         sigprocmask(p, mask) PROVE IInv'
<1>1. TypeOK'
  BY DEF IInv, TypeOK, sigprocmask, queues, frame
<1>2. SwappingIn'
  BY DEF IInv, SwappingIn, sigprocmask, queues
<1>3. ASSUME NEW q \in Procs PROVE Queued(q)'
  BY DEF IInv, Queued, sigprocmask, queues
<1>4. ASSUME NEW q \in Procs PROVE Placed(q)'
  BY DEF IInv, Placed, sigprocmask, queues
<1>5. ASSUME NEW q \in Procs PROVE Timed(q)'
  BY DEF IInv, Timed, sigprocmask, queues, frame
<1>6. ASSUME NEW q \in Procs PROVE Undisturbed(q)'
  BY DEF IInv, Timed, Undisturbed, sigprocmask, InKernel, queues
<1> QED
  BY <1>1, <1>2, <1>3, <1>4, <1>5, <1>6 DEF IInv

\* On its way out of the kernel a process acts on its signals.
LEMMA Userret ==
  ASSUME IInv, NEW p \in Users, userret(p) PROVE IInv'
<1>1. TypeOK'
  BY DEF IInv, TypeOK, userret, Stop, AfterCursig, queues, frame, Places,
     Stats
<1>2. SwappingIn'
  BY Constants DEF IInv, TypeOK, SwappingIn, Queued, userret, InKernel,
     Stop, queues, ConstantFacts
<1>3. ASSUME NEW q \in Procs PROVE Queued(q)'
  BY Constants DEF IInv, TypeOK, Queued, Placed, userret, InKernel, Stop,
     queues, ConstantFacts
<1>4. ASSUME NEW q \in Procs PROVE Placed(q)'
  BY Constants DEF IInv, TypeOK, Placed, userret, InKernel, Stop, queues,
     ConstantFacts
<1>5. ASSUME NEW q \in Procs PROVE Timed(q)'
  BY DEF IInv, TypeOK, Timed, userret, InKernel, Stop, queues, frame
<1>6. ASSUME NEW q \in Procs PROVE Undisturbed(q)'
  BY DEF IInv, TypeOK, Undisturbed, userret, Stop, AfterCursig, queues
<1> QED
  BY <1>1, <1>2, <1>3, <1>4, <1>5, <1>6 DEF IInv

\* A process that has stopped gives up the processor.
LEMMA SwtchStopped ==
  ASSUME IInv, NEW p \in Users, swtch_stopped(p) PROVE IInv'
<1>1. TypeOK'
  BY DEF IInv, TypeOK, swtch_stopped, queues, signals, frame
<1>2. SwappingIn'
  BY DEF IInv, SwappingIn, swtch_stopped, queues
<1>3. ASSUME NEW q \in Procs PROVE Queued(q)'
  BY Constants DEF IInv, Queued, swtch_stopped, Runs, queues, ConstantFacts
<1>4. ASSUME NEW q \in Procs PROVE Placed(q)'
  BY Constants DEF IInv, Placed, swtch_stopped, queues, ConstantFacts
<1>5. ASSUME NEW q \in Procs PROVE Timed(q)'
  BY DEF IInv, Timed, swtch_stopped, queues, frame
<1>6. ASSUME NEW q \in Procs PROVE Undisturbed(q)'
  BY DEF IInv, Undisturbed, swtch_stopped, queues, signals
<1> QED
  BY <1>1, <1>2, <1>3, <1>4, <1>5, <1>6 DEF IInv

\* A running process goes back to its run queue.
LEMMA Preempt ==
  ASSUME IInv, NEW p \in Users, preempt(p) PROVE IInv'
<1>1. TypeOK'
  BY DEF IInv, TypeOK, preempt, Users, AfterCursig, frame
<1>2. SwappingIn'
  BY DEF IInv, SwappingIn, preempt
<1>3. ASSUME NEW q \in Procs PROVE Queued(q)'
  BY Constants DEF IInv, Queued, Placed, preempt, InKernel, ConstantFacts
<1>4. ASSUME NEW q \in Procs PROVE Placed(q)'
  BY Constants DEF IInv, Placed, preempt, ConstantFacts
<1>5. ASSUME NEW q \in Procs PROVE Timed(q)'
  BY DEF IInv, Timed, preempt, frame
<1>6. ASSUME NEW q \in Procs PROVE Undisturbed(q)'
  BY DEF IInv, Undisturbed, preempt, AfterCursig
<1> QED
  BY <1>1, <1>2, <1>3, <1>4, <1>5, <1>6 DEF IInv

\* A new process starts runnable and in memory.
LEMMA Fork ==
  ASSUME IInv, NEW p \in Users, fork(p) PROVE IInv'
<1>1. TypeOK'
  BY DEF IInv, TypeOK, fork, Users, frame, Places, Stats
<1>2. SwappingIn'
  BY DEF IInv, SwappingIn, fork
<1>3. ASSUME NEW q \in Procs PROVE Queued(q)'
  BY DEF IInv, TypeOK, Queued, fork
<1>4. ASSUME NEW q \in Procs PROVE Placed(q)'
  BY DEF IInv, TypeOK, Queued, Placed, fork
<1>5. ASSUME NEW q \in Procs PROVE Timed(q)'
  BY DEF IInv, Placed, Timed, fork, frame
<1>6. ASSUME NEW q \in Procs PROVE Undisturbed(q)'
  BY DEF IInv, Undisturbed, fork
<1> QED
  BY <1>1, <1>2, <1>3, <1>4, <1>5, <1>6 DEF IInv

\* The swapper looks for a process to bring in.
LEMMA SchedScan ==
  ASSUME IInv, sched_scan PROVE IInv'
<1>1. TypeOK'
  BY DEF IInv, TypeOK, sched_scan, queues, signals, frame, Places
<1>2. SwappingIn'
  BY DEF IInv, TypeOK, SwappingIn, sched_scan, queues
<1>3. ASSUME NEW q \in Procs PROVE Queued(q)'
  BY DEF IInv, Queued, sched_scan, queues
<1>4. ASSUME NEW q \in Procs PROVE Placed(q)'
  BY DEF IInv, TypeOK, Placed, sched_scan, queues
<1>5. ASSUME NEW q \in Procs PROVE Timed(q)'
  BY DEF IInv, TypeOK, Timed, sched_scan, queues, frame
<1>6. ASSUME NEW q \in Procs PROVE Undisturbed(q)'
  BY DEF IInv, Undisturbed, sched_scan, queues, signals
<1> QED
  BY <1>1, <1>2, <1>3, <1>4, <1>5, <1>6 DEF IInv

\* The swapper found none and goes to sleep, awaitable like any other.
LEMMA SchedSleep ==
  ASSUME IInv, sched_sleep PROVE IInv'
<1>1. TypeOK'
  BY Constants DEF IInv, TypeOK, sched_sleep, Enqueue, AllChans, signals,
     frame, Places, Stats, ConstantFacts
<1>2. SwappingIn'
  BY DEF SwappingIn, sched_sleep
<1>3. ASSUME NEW q \in Procs PROVE Queued(q)'
  BY Constants DEF IInv, TypeOK, Queued, Placed, sched_sleep, Enqueue,
     AllChans, ConstantFacts
<1>4. ASSUME NEW q \in Procs PROVE Placed(q)'
  BY Constants DEF IInv, Placed, sched_sleep, Enqueue, ConstantFacts
<1>5. ASSUME NEW q \in Procs PROVE Timed(q)'
  BY DEF IInv, Timed, sched_sleep, Enqueue, frame
<1>6. ASSUME NEW q \in Procs PROVE Undisturbed(q)'
  BY DEF IInv, Timed, Undisturbed, sched_sleep, Enqueue, signals
<1> QED
  BY <1>1, <1>2, <1>3, <1>4, <1>5, <1>6 DEF IInv

\* The swapper has no room and sleeps until some is freed.
LEMMA SchedWait ==
  ASSUME IInv, sched_wait PROVE IInv'
<1>1. TypeOK'
  BY Constants DEF IInv, TypeOK, sched_wait, Enqueue, AllChans, signals,
     frame, Places, Stats, ConstantFacts
<1>2. SwappingIn'
  BY DEF IInv, TypeOK, SwappingIn, sched_wait, Enqueue
<1>3. ASSUME NEW q \in Procs PROVE Queued(q)'
  BY Constants DEF IInv, TypeOK, Queued, Placed, sched_wait, Enqueue,
     AllChans, ConstantFacts
<1>4. ASSUME NEW q \in Procs PROVE Placed(q)'
  BY Constants DEF IInv, Placed, sched_wait, Enqueue, ConstantFacts
<1>5. ASSUME NEW q \in Procs PROVE Timed(q)'
  BY DEF IInv, Timed, sched_wait, Enqueue, frame
<1>6. ASSUME NEW q \in Procs PROVE Undisturbed(q)'
  BY DEF IInv, Timed, Undisturbed, sched_wait, Enqueue, signals
<1> QED
  BY <1>1, <1>2, <1>3, <1>4, <1>5, <1>6 DEF IInv

\* The swapper sleeps for the pages of the process it has chosen.
LEMMA SchedFault ==
  ASSUME IInv, sched_fault PROVE IInv'
<1>1. TypeOK'
  BY Constants DEF IInv, TypeOK, sched_fault, Enqueue, AllChans, signals,
     frame, Stats, ConstantFacts
<1>2. SwappingIn'
  BY DEF IInv, TypeOK, SwappingIn, Placed, sched_fault, Enqueue
<1>3. ASSUME NEW q \in Procs PROVE Queued(q)'
  BY Constants DEF IInv, TypeOK, Queued, Placed, sched_fault, Enqueue,
     AllChans, ConstantFacts
<1>4. ASSUME NEW q \in Procs PROVE Placed(q)'
  BY Constants DEF IInv, Placed, sched_fault, Enqueue, ConstantFacts
<1>5. ASSUME NEW q \in Procs PROVE Timed(q)'
  BY DEF IInv, Timed, sched_fault, Enqueue, frame
<1>6. ASSUME NEW q \in Procs PROVE Undisturbed(q)'
  BY DEF IInv, Timed, Undisturbed, sched_fault, Enqueue, signals
<1> QED
  BY <1>1, <1>2, <1>3, <1>4, <1>5, <1>6 DEF IInv

\* A process that is brought in is queued if it is still runnable.
LEMMA SchedSwapin ==
  ASSUME IInv, sched_swapin PROVE IInv'
<1>1. TypeOK'
  BY DEF IInv, TypeOK, sched_swapin, signals, frame, Places
<1>2. SwappingIn'
  BY Constants DEF IInv, TypeOK, SwappingIn, sched_swapin, ConstantFacts
<1>3. ASSUME NEW q \in Procs PROVE Queued(q)'
  BY DEF IInv, Queued, sched_swapin
<1>4. ASSUME NEW q \in Procs PROVE Placed(q)'
  BY DEF IInv, SwappingIn, Placed, sched_swapin
<1>5. ASSUME NEW q \in Procs PROVE Timed(q)'
  BY DEF IInv, Timed, sched_swapin, frame
<1>6. ASSUME NEW q \in Procs PROVE Undisturbed(q)'
  BY DEF IInv, Undisturbed, sched_swapin, signals
<1> QED
  BY <1>1, <1>2, <1>3, <1>4, <1>5, <1>6 DEF IInv

\* A process that is swapped out leaves its run queue.
LEMMA Swapout ==
  ASSUME IInv, NEW p \in Users, swapout(p) PROVE IInv'
<1>1. TypeOK'
  BY DEF IInv, TypeOK, swapout, signals, frame
<1>2. SwappingIn'
  BY DEF IInv, SwappingIn, swapout
<1>3. ASSUME NEW q \in Procs PROVE Queued(q)'
  BY Constants DEF IInv, Queued, swapout, ConstantFacts
<1>4. ASSUME NEW q \in Procs PROVE Placed(q)'
  BY DEF IInv, Placed, swapout, Users
<1>5. ASSUME NEW q \in Procs PROVE Timed(q)'
  BY DEF IInv, Timed, swapout, frame
<1>6. ASSUME NEW q \in Procs PROVE Undisturbed(q)'
  BY DEF IInv, Undisturbed, swapout, signals
<1> QED
  BY <1>1, <1>2, <1>3, <1>4, <1>5, <1>6 DEF IInv

\* A stuttering step changes nothing.
LEMMA Stutter ==
  ASSUME IInv, UNCHANGED vars PROVE IInv'
<1>1. TypeOK'
  BY DEF IInv, TypeOK, vars, queues, signals, frame
<1>2. SwappingIn'
  BY DEF IInv, SwappingIn, vars, queues
<1>3. ASSUME NEW q \in Procs PROVE Queued(q)'
  BY DEF IInv, Queued, vars, queues
<1>4. ASSUME NEW q \in Procs PROVE Placed(q)'
  BY DEF IInv, Placed, vars, queues
<1>5. ASSUME NEW q \in Procs PROVE Timed(q)'
  BY DEF IInv, Timed, vars, queues, frame
<1>6. ASSUME NEW q \in Procs PROVE Undisturbed(q)'
  BY DEF IInv, Undisturbed, vars, queues, signals
<1> QED
  BY <1>1, <1>2, <1>3, <1>4, <1>5, <1>6 DEF IInv

\* A signal leaves the process queued as it is, lets it sleep on, releases
\* it, or stops it.
LEMMA Psignal ==
  ASSUME IInv, NEW p \in Procs, NEW s \in Sent, psignal(p, s) PROVE IInv'
<1>1. /\ p \in Users /\ s \in Sigs
      /\ UNCHANGED <<SLOAD, SSINTR, STIMO, curproc, p_sigmask, calls, pc,
                     frame, swapin_p, woken, expired, ret>>
  BY Constants DEF psignal, ConstantFacts
<1>2. p_sig' \in [Procs -> SUBSET Sigs] /\ lastStop' \subseteq Procs
  <2>1. p_sig' \in [Procs -> SUBSET Sigs]
    BY <1>1 DEF IInv, TypeOK, psignal
  <2>2. lastStop' \subseteq Procs
    BY <1>1 DEF IInv, TypeOK, psignal
  <2> QED
    BY <2>1, <2>2
<1>3. /\ \A q \in Procs : q # p => p_sig'[q] = p_sig[q]
      /\ ~({"STOP", "CONT"} \subseteq p_sig'[p])
      /\ p_sig'[p] \subseteq p_sig[p] \cup {s}
      /\ s \in p_sig'[p] /\ s = "STOP" =>
           \/ s \in p_sigmask[p]
           \/ p_stat[p] # "SSTOP" /\ (p_stat[p] # "SSLEEP" \/ p \notin SSINTR)
      /\ s = "CONT" => "STOP" \notin p_sig'[p]
      /\ s = "STOP" => "CONT" \notin p_sig'[p]
  <2>1. p_sig[p] \subseteq Sigs /\ ~({"STOP", "CONT"} \subseteq p_sig[p])
    BY DEF IInv, TypeOK, Undisturbed
  <2> QED
    BY <2>1 DEF IInv, TypeOK, psignal
<1>4. CASE UNCHANGED queues
  <2>1. TypeOK' /\ SwappingIn'
    BY <1>1, <1>2, <1>4 DEF IInv, TypeOK, SwappingIn, queues, frame
  <2>2. ASSUME NEW q \in Procs PROVE Queued(q)' /\ Placed(q)' /\ Timed(q)'
    BY <1>1, <1>4 DEF IInv, Queued, Placed, Timed, queues, frame
  <2>3. ASSUME NEW q \in Procs PROVE Undisturbed(q)'
    <3>1. CASE p \in slpque /\ p \in SSINTR
      <4>1. p_stat[p] \in {"SSLEEP", "SSTOP"} /\ p_wchan[p] # NoChan
        BY <3>1 DEF IInv, Queued
      <4>2. p_wchan'[p] # NoChan /\ p_stat'[p] = p_stat[p]
        BY <4>1, <1>4 DEF queues
      <4>3. ~setrun(p) /\ ~unsleep(p)
        BY <4>2 DEF setrun, unsleep, Requeue
      <4>4. s \in p_sigmask[p] \/ (s = "STOP" /\ p_stat[p] = "SSTOP")
        BY <4>1, <4>2, <4>3, <3>1 DEF psignal, psignal_stopped, psignal_sleeping,
                                     IInv, TypeOK
      <4> QED
        BY <1>1, <1>3, <1>4, <4>4 DEF IInv, Undisturbed, queues
    <3>2. CASE ~(p \in slpque /\ p \in SSINTR)
      BY <1>1, <1>3, <1>4, <3>2 DEF IInv, Undisturbed, queues
    <3> QED
      BY <3>1, <3>2
  <2> QED
    BY <2>1, <2>2, <2>3 DEF IInv
<1>5. CASE /\ p_stat[p] = "SSTOP" /\ s = "CONT" /\ p_wchan[p] # NoChan
           /\ s \notin Caught \ p_sigmask[p]
           /\ p_stat' = [p_stat EXCEPT ![p] = "SSLEEP"]
           /\ UNCHANGED <<p_wchan, slpque, runq>>
  <2>1. TypeOK'
    BY <1>1, <1>2, <1>5 DEF IInv, TypeOK, frame, Stats
  <2>2. SwappingIn'
    BY <1>1, <1>5 DEF IInv, TypeOK, SwappingIn
  <2>3. ASSUME NEW q \in Procs PROVE Queued(q)' /\ Placed(q)'
    BY <1>1, <1>5 DEF IInv, TypeOK, Queued, Placed, Users
  <2>4. ASSUME NEW q \in Procs PROVE Timed(q)'
    BY <1>1, <1>5 DEF IInv, Timed, frame
  <2>5. ASSUME NEW q \in Procs PROVE Undisturbed(q)'
    BY <1>1, <1>3, <1>5 DEF IInv, TypeOK, Undisturbed
  <2> QED
    BY <2>1, <2>2, <2>3, <2>4, <2>5 DEF IInv
<1>6. CASE /\ p_stat[p] = "SSLEEP" /\ s = "STOP" /\ p \in SSINTR
           /\ p_stat' = [p_stat EXCEPT ![p] = "SSTOP"]
           /\ UNCHANGED <<p_wchan, slpque, runq>>
  <2>1. TypeOK'
    BY <1>1, <1>2, <1>6 DEF IInv, TypeOK, frame, Stats
  <2>2. SwappingIn'
    BY <1>1, <1>6 DEF IInv, TypeOK, SwappingIn
  <2>3. ASSUME NEW q \in Procs PROVE Queued(q)' /\ Placed(q)'
    BY <1>1, <1>6 DEF IInv, TypeOK, Queued, Placed, Users
  <2>4. ASSUME NEW q \in Procs PROVE Timed(q)'
    BY <1>1, <1>6 DEF IInv, Timed, frame
  <2>5. ASSUME NEW q \in Procs PROVE Undisturbed(q)'
    BY <1>1, <1>3, <1>6 DEF IInv, TypeOK, Undisturbed
  <2> QED
    BY <2>1, <2>2, <2>3, <2>4, <2>5 DEF IInv
<1>7. CASE \/ p_stat[p] \in {"SSLEEP", "SSTOP"} /\ setrun(p)
           \/ p_stat[p] = "SSTOP" /\ unsleep(p)
  <2>1. /\ QueueTypes' /\ (\A q \in Procs : Queued(q)')
        /\ (\A q \in Procs : Released(q)) /\ p_wchan'[p] = NoChan
    BY <1>1, <1>7, SetrunKeeps, UnsleepKeeps, TypesOfQueues DEF IInv
  <2>2. TypeOK'
    BY <1>1, <1>2, <2>1 DEF IInv, TypeOK, QueueTypes, frame
  <2>3. SwappingIn' /\ \A q \in Procs : Placed(q)'
    BY <1>1, <2>1, ReleasedPlaces
  <2>4. ASSUME NEW q \in Procs PROVE Timed(q)'
    BY <1>1, <2>1 DEF IInv, Timed, Released, frame
  <2>5. ASSUME NEW q \in Procs PROVE Undisturbed(q)'
    BY <1>1, <1>3, <2>1 DEF IInv, Undisturbed, Released, Queued
  <2> QED
    BY <2>1, <2>2, <2>3, <2>4, <2>5 DEF IInv
<1> QED
  BY <1>4, <1>5, <1>6, <1>7 DEF psignal, psignal_stopped, psignal_sleeping

\* The sleeper is queued, or stopped on the queue, or it goes on with a
\* signal at once.
LEMMA Tsleep ==
  ASSUME IInv, NEW p \in Users, NEW chan \in Chans, NEW c \in BOOLEAN,
         NEW t \in BOOLEAN, tsleep(p, chan, c, t)
  PROVE  IInv'
<1> DEFINE out == IF c THEN Cursig(p_sig[p], p_sigmask[p]) ELSE "none"
<1>1. /\ curproc = p /\ pc[p] = "kern" /\ p \in Procs /\ p # proc0
      /\ calls[p] = 0 /\ p \notin STIMO /\ p \notin SSINTR
      /\ p_stat[p] = "SRUN" /\ p \notin runq /\ p \in SLOAD
      /\ chan \in AllChans /\ chan # NoChan
  BY Constants DEF tsleep, InKernel, Users, IInv, Timed, Placed, Queued,
                   ConstantFacts, AllChans
<1>2. /\ catch' = (IF c THEN catch \cup {p} ELSE catch \ {p})
      /\ timo' = (IF t THEN timo \cup {p} ELSE timo \ {p})
      /\ SSINTR' = (IF c THEN SSINTR \cup {p} ELSE SSINTR)
      /\ calls' = (IF t THEN [calls EXCEPT ![p] = @ + 1] ELSE calls)
      /\ woken' = woken \ {p} /\ expired' = expired \ {p}
      /\ ret' = [ret EXCEPT ![p] = "none"]
      /\ p_sig' = (IF c THEN [p_sig EXCEPT ![p] = AfterCursig(@, p_sigmask[p])]
                        ELSE p_sig)
      /\ UNCHANGED <<SLOAD, STIMO, p_sigmask, lastStop, swapin_p>>
  BY DEF tsleep
<1>3. \/ /\ out \in {"none", "STOP"}
         /\ Enqueue(p, chan, IF out = "none" THEN "SSLEEP" ELSE "SSTOP")
         /\ pc' = [pc EXCEPT ![p] = IF out = "none" THEN "slept" ELSE "cursig1"]
         /\ sig' = [sig EXCEPT ![p] = "none"]
         /\ curproc' = Other
      \/ /\ pc' = [pc EXCEPT ![p] = "resume"]
         /\ sig' = [sig EXCEPT ![p] = out] /\ out \in Sigs
         /\ UNCHANGED <<queues, curproc>>
  BY DEF tsleep, Sigs
<1>4. TypeOK'
  <2>1. p_sig' \in [Procs -> SUBSET Sigs] /\ calls' \in [Procs -> Nat]
    BY <1>1, <1>2 DEF IInv, TypeOK, AfterCursig
  <2> HIDE DEF out
  <2>2. p_stat' \in [Procs -> Stats] /\ p_wchan' \in [Procs -> AllChans \cup {NoChan}]
        /\ slpque' \subseteq Procs /\ runq' \subseteq Procs
    BY <1>1, <1>3 DEF IInv, TypeOK, Enqueue, queues, Stats
  <2>3. pc' \in [Procs -> Places] /\ sig' \in [Procs -> Sigs \cup {"none"}]
        /\ curproc' \in Procs \cup {Other}
    BY <1>1, <1>3 DEF IInv, TypeOK, Places
  <2>4. catch' \subseteq Procs /\ timo' \subseteq Procs /\ SSINTR' \subseteq Procs
        /\ woken' \subseteq Procs /\ expired' \subseteq Procs
    BY <1>1, <1>2 DEF IInv, TypeOK
  <2> QED
    BY <1>1, <1>2, <2>1, <2>2, <2>3, <2>4 DEF IInv, TypeOK
<1>5. ASSUME NEW q \in Procs PROVE Undisturbed(q)'
  <2>1. ~({"STOP", "CONT"} \subseteq p_sig'[q])
    BY <1>2 DEF IInv, TypeOK, Undisturbed, AfterCursig
  <2>2. CASE q = p
    <3>1. p \in slpque' => \/ out = "none" /\ p_stat'[p] = "SSLEEP"
                           \/ out = "STOP" /\ p_stat'[p] = "SSTOP"
      <4> HIDE DEF out
      <4>1. p \notin slpque /\ p_stat \in [Procs -> Stats]
        BY <1>1 DEF IInv, TypeOK, Queued
      <4>2. p \in slpque' => /\ out \in {"none", "STOP"}
                             /\ Enqueue(p, chan, IF out = "none" THEN "SSLEEP" ELSE "SSTOP")
        BY <1>3, <4>1 DEF queues
      <4>3. p \in slpque' =>
              p_stat' = [p_stat EXCEPT ![p] = IF out = "none" THEN "SSLEEP" ELSE "SSTOP"]
        BY <4>2 DEF Enqueue
      <4> QED
        BY <1>1, <4>1, <4>2, <4>3
    <3>2. p \in SSINTR' => c
      BY <1>1, <1>2
    <3>3. c => p_sig'[p] \subseteq p_sig[p]
      BY <1>1, <1>2 DEF AfterCursig, IInv, TypeOK
    <3> QED
      BY <1>2, <2>1, <2>2, <3>1, <3>2, <3>3 DEF Undisturbed, Cursig, IInv
  <2>3. CASE q # p
    BY <1>1, <1>2, <1>3, <2>3 DEF IInv, TypeOK, Undisturbed, Enqueue, queues
  <2> QED
    BY <2>2, <2>3
<1> HIDE DEF out
<1>6. SwappingIn'
  BY <1>1, <1>2, <1>3, Constants
     DEF IInv, TypeOK, SwappingIn, Enqueue, queues, ConstantFacts
<1>7. ASSUME NEW q \in Procs PROVE Queued(q)'
  BY <1>1, <1>2, <1>3, Constants
     DEF IInv, TypeOK, Queued, Enqueue, queues, ConstantFacts
<1>8. ASSUME NEW q \in Procs PROVE Placed(q)'
  BY <1>1, <1>2, <1>3, Constants
     DEF IInv, TypeOK, Placed, Queued, Enqueue, queues, ConstantFacts
<1>9. ASSUME NEW q \in Procs PROVE Timed(q)'
  BY <1>1, <1>2, <1>3 DEF IInv, TypeOK, Timed, Enqueue, queues
<1> QED
  BY <1>4, <1>5, <1>6, <1>7, <1>8, <1>9 DEF IInv

-----------------------------------------------------------------------------
\* Every step of the kernel keeps the invariant.
LEMMA NextIInv == ASSUME IInv, [Next]_vars PROVE IInv'
<1>1. CASE Interrupt
  BY <1>1, Wakeup, Psignal, Endtsleep DEF Interrupt, vmmeter, AllChans
<1>2. CASE sched
  BY <1>2, SchedScan, SchedSleep, SchedWait, SchedFault, SchedSwapin DEF sched
<1>3. ASSUME NEW p \in Users, Process(p) PROVE IInv'
  BY <1>3, Tsleep, Cursig1, Resume, Relook, IssigContinued, Trap, Userret,
     SwtchStopped, Preempt, Sigprocmask DEF Process, Sleeps
<1>4. ASSUME NEW p \in Users, fork(p) \/ swapout(p) PROVE IInv'
  BY <1>4, Fork, Swapout
<1>5. ASSUME NEW p \in Procs, cpu_swtch(p) PROVE IInv'
  BY <1>5, CpuSwtch
<1>6. CASE UNCHANGED vars
  BY <1>6, Stutter
<1> QED
  BY <1>1, <1>2, <1>3, <1>4, <1>5, <1>6 DEF Next

\* The inductive invariant holds in every state the kernel reaches, for any
\* process table, channels, handlers and masks.
THEOREM Invariance == Spec => []IInv
BY InitIInv, NextIInv, PTL DEF Spec

\* The state keeps its types; the callouts of a process are never fewer
\* than zero.
THEOREM TypeCorrect == Spec => []TypeOK
<1>1. IInv => TypeOK
  BY DEF IInv
<1> QED
  BY <1>1, Invariance, PTL

\* tsleep, wakeup, endtsleep, psignal and issig between them never leave a
\* sleeper where nothing can wake it.
THEOREM Awaitable == Spec => []SleepersAwaitable
<1>1. IInv => SleepersAwaitable
  BY DEF IInv, Queued, SleepersAwaitable
<1> QED
  BY <1>1, Invariance, PTL

\* The run queues are exactly the processes that cpu_swtch may resume.
THEOREM Runnable == Spec => []RunnableQueued
<1>1. IInv => RunnableQueued
  BY DEF IInv, Queued, Placed, RunnableQueued
<1> QED
  BY <1>1, Invariance, PTL

\* The panics of wakeup, setrun, setrq, remrq and tsleep are unreachable.
THEOREM PanicFree == Spec => []NoPanic
<1>1. IInv => NoPanic
  BY Constants DEF IInv, TypeOK, Queued, Placed, NoPanic, ConstantFacts
<1> QED
  BY <1>1, Invariance, PTL

\* A callout of endtsleep never outlives the sleep that started it.
THEOREM TimeoutsCancelled == Spec => []NoStaleTimeout
<1>1. IInv => NoStaleTimeout
  BY DEF IInv, Timed, NoStaleTimeout
<1> QED
  BY <1>1, Invariance, PTL

\* A wakeup and a timeout never claim the same sleep.
THEOREM TimeoutsJustified == Spec => []TimeoutJustified
<1>1. IInv => TimeoutJustified
  BY DEF IInv, Timed, TimeoutJustified, Users
<1> QED
  BY <1>1, Invariance, PTL

\* Nobody stays in an interruptible sleep with a signal to act on.
THEOREM SignalsHeeded == Spec => []NoSleepOnSignal
<1>1. ASSUME IInv, NEW p \in Procs, p_stat[p] = "SSLEEP", p \in SSINTR
      PROVE  Cursig(p_sig[p], p_sigmask[p]) = "none"
  BY <1>1 DEF IInv, Queued, Undisturbed, Cursig
<1>2. IInv => NoSleepOnSignal
  BY <1>1 DEF NoSleepOnSignal
<1> QED
  BY <1>2, Invariance, PTL
=============================================================================
