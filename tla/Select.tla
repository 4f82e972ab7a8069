------------------------------- MODULE Select -------------------------------
(***************************************************************************)
(* select (kern/sys_generic.c) over socket buffers (soo_select in          *)
(* kern/sys_socket.c, sowakeup in kern/uipc_socket2.c).                    *)
(*                                                                         *)
(* A select in progress is not preempted by other processes (curproc)      *)
(* until it sleeps, but data may arrive, and the clock may tick, between   *)
(* any two descriptors it scans.  A socket buffer records one process that *)
(* selects it (si_pid) and whether there are more (SI_COLL); a process     *)
(* that is still scanning is told by way of SSEL, or of the count nselcoll *)
(* of wakeups after a collision.  Of that count only a difference is kept: *)
(* missed holds the processes whose ncoll is no longer nselcoll.           *)
(***************************************************************************)
EXTENDS Integers, FiniteSets

CONSTANTS
  Procs, Files,  \* processes, and the socket buffers of their descriptors
  Closed,        \* descriptors that name no file
  Timeouts,      \* the timeouts given to select, in ticks
  NoProc, Never

ASSUME ClosedFiles   == Closed \subseteq Files
ASSUME TimeoutsNat   == Timeouts \subseteq Nat
ASSUME NoProcFresh   == NoProc \notin Procs
ASSUME NeverFresh    == Never \notin Nat

VARIABLES
  ready,                \* the socket buffers with data
  si_pid, SI_COLL, SB_SEL,
  SSEL, missed,
  pc, sel, todo, found, \* a select: its descriptors, those to scan, any ready?
  atv, timo, due,       \* the ticks left to its deadline, its interval, and the
                        \* ticks left until its sleep times out
  selwait,              \* the processes with p_wchan = &selwait
  STIMO, stopped,
  curproc

select == <<SSEL, missed, pc, sel, todo, found, atv, timo>>
record == <<si_pid, SI_COLL, SB_SEL>>
sleep  == <<due, selwait, STIMO, stopped>>
vars   == <<ready, record, select, sleep, curproc>>

TypeOK ==
  /\ ready \subseteq Files
  /\ si_pid \in [Files -> Procs \cup {NoProc}]
  /\ SI_COLL \subseteq Files /\ SB_SEL \subseteq Files
  /\ SSEL \subseteq Procs /\ missed \subseteq Procs
  /\ pc \in [Procs -> {"user", "scan", "check", "tsleep"}]
  /\ sel \in [Procs -> SUBSET Files] /\ todo \in [Procs -> SUBSET Files]
  /\ found \subseteq Procs
  /\ atv \in [Procs -> Nat \cup {Never}]
  /\ timo \in [Procs -> Nat] /\ due \in [Procs -> Nat \cup {Never}]
  /\ selwait \subseteq Procs /\ STIMO \subseteq Procs /\ stopped \subseteq Procs
  /\ curproc \in Procs \cup {NoProc}

Init ==
  /\ ready = {}
  /\ si_pid = [f \in Files |-> NoProc] /\ SI_COLL = {} /\ SB_SEL = {}
  /\ SSEL = {} /\ missed = {}
  /\ pc = [p \in Procs |-> "user"]
  /\ sel = [p \in Procs |-> {}] /\ todo = [p \in Procs |-> {}]
  /\ found = {}
  /\ atv = [p \in Procs |-> Never] /\ timo = [p \in Procs |-> 0]
  /\ due = [p \in Procs |-> Never]
  /\ selwait = {} /\ STIMO = {} /\ stopped = {}
  /\ curproc = NoProc

-----------------------------------------------------------------------------
Runs(p, place) ==
  /\ pc[p] = place /\ p \notin selwait \cup stopped
  /\ curproc \in {NoProc, p}

\* The label retry of select, for the descriptors in fs.
retry(p, fs) ==
  /\ missed' = missed \ {p} /\ SSEL' = SSEL \cup {p}
  /\ pc' = [pc EXCEPT ![p] = "scan"]
  /\ todo' = [todo EXCEPT ![p] = fs] /\ found' = found \ {p}
  /\ curproc' = p

\* The label done.
done(p) ==
  /\ SSEL' = SSEL \ {p} /\ missed' = missed \ {p}
  /\ pc' = [pc EXCEPT ![p] = "user"]
  /\ sel' = [sel EXCEPT ![p] = {}] /\ todo' = [todo EXCEPT ![p] = {}]
  /\ found' = found \ {p}
  /\ atv' = [atv EXCEPT ![p] = Never] /\ timo' = [timo EXCEPT ![p] = 0]
  /\ curproc' = NoProc

\* select is called for the descriptors in fs, with a timeout or none.
Call(p, fs, tv) ==
  /\ Runs(p, "user") /\ curproc = NoProc
  /\ sel' = [sel EXCEPT ![p] = fs]
  /\ atv' = [atv EXCEPT ![p] = IF tv = Never THEN Never ELSE tv]
  /\ timo' = [timo EXCEPT ![p] = IF tv = Never THEN 0 ELSE tv]
  /\ retry(p, fs)
  /\ UNCHANGED <<ready, record, sleep>>

\* selrecord: another process is asleep in select for f already.
collides(p, f) == si_pid[f] # p /\ si_pid[f] \in selwait

selrecord(p, f) ==
  /\ SI_COLL' = IF collides(p, f) THEN SI_COLL \cup {f} ELSE SI_COLL
  /\ si_pid' = IF collides(p, f) THEN si_pid ELSE [si_pid EXCEPT ![f] = p]

\* It keeps the network out while it looks and records.
soo_select(p, f) ==
  \/ /\ f \in ready
     /\ found' = found \cup {p}
     /\ UNCHANGED record
  \/ /\ f \notin ready
     /\ selrecord(p, f)
     /\ SB_SEL' = SB_SEL \cup {f}
     /\ UNCHANGED found

\* selscan, one descriptor.
selscan(p) ==
  /\ Runs(p, "scan")
  /\ \E f \in todo[p] \ Closed :
       /\ todo' = [todo EXCEPT ![p] = @ \ {f}]
       /\ soo_select(p, f)
  /\ UNCHANGED <<ready, SSEL, missed, pc, sel, atv, timo, sleep, curproc>>

\* mutant: a scan that has got under way skips what is not open
isBad_first(p) == todo[p] = sel[p] /\ todo[p] \cap Closed # {}

isBad(p) == todo[p] \cap Closed # {}

\* A descriptor that is not open ends the select: EBADF.
BadDescriptor(p) ==
  /\ Runs(p, "scan") /\ isBad(p)
  /\ done(p)
  /\ UNCHANGED <<ready, record, sleep>>

Scanned(p) ==
  /\ Runs(p, "scan") /\ todo[p] = {}
  /\ \/ p \in found /\ done(p)
     \/ /\ p \notin found
        /\ pc' = [pc EXCEPT ![p] = "check"]
        /\ UNCHANGED <<SSEL, missed, sel, todo, found, atv, timo, curproc>>
  /\ UNCHANGED <<ready, record, sleep>>

\* mutant: the mark is not looked at again before the sleep
mustRetry_coll(p) == p \in missed

\* Something happened while p was scanning.
mustRetry(p) == p \notin SSEL \/ p \in missed

\* mutant: the deadline is not looked at
Expired_never(p) == FALSE

Expired(p) == atv[p] = 0

\* At splhigh: give up, scan again, or sleep.  timo is what it was at first.
Check(p) ==
  /\ Runs(p, "check")
  /\ \/ Expired(p) /\ done(p) /\ UNCHANGED sleep
     \/ /\ ~Expired(p) /\ mustRetry(p)
        /\ retry(p, sel[p])
        /\ UNCHANGED <<sel, atv, timo, sleep>>
     \/ /\ ~Expired(p) /\ ~mustRetry(p)
        /\ SSEL' = SSEL \ {p}
        /\ selwait' = selwait \cup {p}
        /\ due' = [due EXCEPT ![p] = IF timo[p] = 0 THEN Never ELSE timo[p]]
        /\ pc' = [pc EXCEPT ![p] = "tsleep"]
        /\ curproc' = NoProc
        /\ UNCHANGED <<missed, sel, todo, found, atv, timo, STIMO, stopped>>
  /\ UNCHANGED <<ready, record>>

\* tsleep returns, with EWOULDBLOCK after a timeout.
Awoken(p) ==
  /\ Runs(p, "tsleep") /\ curproc = NoProc
  /\ \/ p \in STIMO /\ done(p)
     \/ p \notin STIMO /\ retry(p, sel[p]) /\ UNCHANGED <<sel, atv, timo>>
  /\ STIMO' = STIMO \ {p}
  /\ UNCHANGED <<ready, record, due, selwait, stopped>>

\* A signal ends the sleep and the select: EINTR.
Interrupted(p) ==
  /\ pc[p] = "tsleep" /\ p \in selwait \ stopped /\ curproc = NoProc
  /\ done(p)
  /\ selwait' = selwait \ {p} /\ due' = [due EXCEPT ![p] = Never]
  /\ UNCHANGED <<ready, record, STIMO, stopped>>

\* A process is stopped in its sleep, and continued; it may have left the
\* queue meanwhile.
Stop(p) ==
  /\ p \in selwait \ stopped /\ stopped' = stopped \cup {p}
  /\ UNCHANGED <<ready, record, select, due, selwait, STIMO, curproc>>

Continue(p) ==
  /\ p \in stopped /\ stopped' = stopped \ {p}
  /\ UNCHANGED <<ready, record, select, due, selwait, STIMO, curproc>>

-----------------------------------------------------------------------------
collision(f) == f \in SI_COLL

\* selwakeup for f.  A stopped process leaves the queue (unsleep) as well.
selwakeup(f) ==
  LET p == si_pid[f]
  IN  /\ si_pid' = [si_pid EXCEPT ![f] = NoProc]
      /\ SI_COLL' = SI_COLL \ {f}
      /\ missed' = IF collision(f) THEN {q \in Procs : pc[q] \in {"scan", "check"}} ELSE missed
      /\ selwait' = IF collision(f) THEN {} ELSE selwait \ {p}
      /\ SSEL' = IF p \in selwait THEN SSEL ELSE SSEL \ {p}
      /\ due' = [q \in Procs |-> IF q \in selwait' THEN due[q] ELSE Never]

\* Data arrive; sowakeup if someone selects.
Arrive(f) ==
  /\ f \notin Closed
  /\ ready' = ready \cup {f}
  /\ IF f \in SB_SEL
     THEN selwakeup(f) /\ SB_SEL' = SB_SEL \ {f}
     ELSE UNCHANGED <<si_pid, SI_COLL, missed, selwait, SSEL, due, SB_SEL>>
  /\ UNCHANGED <<pc, sel, todo, found, atv, timo, STIMO, stopped, curproc>>

\* Some process reads what has arrived.
Consume(f) ==
  /\ curproc = NoProc /\ f \in ready
  /\ ready' = ready \ {f}
  /\ UNCHANGED <<record, select, sleep, curproc>>

Less(n) == IF n \in {0, Never} THEN n ELSE n - 1

\* The clock ticks; sleeps time out (endtsleep).
Tick ==
  LET late == {p \in selwait : due[p] = 1}
  IN  /\ atv' = [p \in Procs |-> Less(atv[p])]
      /\ due' = [p \in Procs |-> IF p \in late THEN Never ELSE Less(due[p])]
      /\ selwait' = selwait \ late /\ STIMO' = STIMO \cup late
      /\ UNCHANGED <<ready, record, SSEL, missed, pc, sel, todo, found, timo, stopped, curproc>>

Step(p) ==
  selscan(p) \/ BadDescriptor(p) \/ Scanned(p) \/ Check(p) \/ Awoken(p)

Next ==
  \/ \E p \in Procs, fs \in SUBSET Files, tv \in Timeouts \cup {Never} : Call(p, fs, tv)
  \/ \E p \in Procs : Step(p) \/ Interrupted(p) \/ Stop(p) \/ Continue(p)
  \/ \E f \in Files : Arrive(f) \/ Consume(f)
  \/ Tick

\* A process that is ready again and again gets the processor, and the clock
\* does not stop.
Fairness == WF_vars(Tick) /\ \A p \in Procs : SF_vars(Step(p))

Spec == Init /\ [][Next]_vars /\ Fairness
-----------------------------------------------------------------------------
\* No process sleeps in select while one of its descriptors is ready: not when
\* data arrive between the scan of a descriptor and the sleep, nor when several
\* processes select the same descriptor and come and go.
NoMissedEvent == \A p \in selwait : sel[p] \cap ready = {}

\* selwakeup for f will find p.
Findable(p, f) ==
  f \in SB_SEL /\ si_pid[f] # NoProc /\ (si_pid[f] = p \/ f \in SI_COLL)

\* Whoever sleeps in select will be found by selwakeup for each of its
\* descriptors, although si_pid has room for one process and is overwritten.
Recorded ==
  \A p \in selwait, f \in Files :
    f \in sel[p] => Findable(p, f)

\* A select with a timeout returns, whatever else happens on its descriptors,
\* unless the process is stopped.
TimeoutReturns ==
  \A p \in Procs : (atv[p] # Never) ~> (pc[p] = "user" \/ p \in stopped)

\* A select returns if from some time on there is always a descriptor of its
\* set ready, however often other events make it scan again.
SelectReturns ==
  \A p \in Procs : (sel[p] \cap ready # {})
                    ~> (sel[p] \cap ready = {} \/ p \in stopped)
-----------------------------------------------------------------------------
\* What the proofs add to the properties.  The processor is not taken from a
\* process that scans, and who has scanned everything has found nothing.
OneScans ==
  \A p \in Procs :
    /\ pc[p] \in {"scan", "check"} => curproc = p
    /\ pc[p] = "check" => todo[p] = {} /\ p \notin found
    /\ p \in selwait => pc[p] = "tsleep"

\* A process that scans, has found nothing ready and has not been told of an
\* event since it began, is recorded for all that it has scanned, and nothing of
\* that is ready: this is what makes the look at SSEL and nselcoll enough.
Scanning ==
  \A p \in Procs :
    pc[p] \in {"scan", "check"} /\ p \in SSEL \ (missed \cup found) =>
      \A f \in sel[p] \ todo[p] : f \notin ready /\ Findable(p, f)

IInv == TypeOK /\ NoMissedEvent /\ Recorded /\ OneScans /\ Scanning
=============================================================================
