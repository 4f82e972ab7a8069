---------------------------- MODULE SelectProofs ----------------------------
(* Proofs about select, for any processes, descriptors and timeouts. *)
EXTENDS Select, TLAPS

\* The assumptions on the constants, together.
LEMMA Constants ==
  /\ Closed \subseteq Files /\ Timeouts \subseteq Nat
  /\ NoProc \notin Procs /\ Never \notin Nat
BY ClosedFiles, TimeoutsNat, NoProcFresh, NeverFresh

\* Nobody sleeps or scans when the system starts.
LEMMA InitIInv == Init => IInv
BY Constants DEF Init, IInv, TypeOK, NoMissedEvent, Recorded, OneScans, Scanning

\* One tick less is again a number of ticks.
LEMMA LessTicks ==
  ASSUME NEW n \in Nat \cup {Never} PROVE Less(n) \in Nat \cup {Never}
BY Constants DEF Less

\* The label done keeps the invariant: whoever gets there is not asleep.
LEMMA Done ==
  ASSUME IInv, NEW p \in Procs, p \notin selwait, done(p), curproc \in {NoProc, p},
         UNCHANGED <<ready, record, due, selwait, stopped>>, STIMO' \subseteq STIMO
  PROVE  IInv'
<1> USE DEF IInv, done, record
<1>1. TypeOK'
  BY Constants DEF TypeOK
<1>2. NoMissedEvent' /\ Recorded'
  BY DEF TypeOK, NoMissedEvent, Recorded, Findable
<1>3. OneScans'
  BY Constants DEF TypeOK, OneScans
<1>4. Scanning'
  BY DEF TypeOK, OneScans, Scanning, Findable
<1> QED
  BY <1>1, <1>2, <1>3, <1>4

\* So does the label retry, with nothing scanned yet.
LEMMA Retry ==
  ASSUME IInv, NEW p \in Procs, p \notin selwait, NEW fs \in SUBSET Files,
         retry(p, fs), curproc \in {NoProc, p}, sel'[p] = fs,
         sel' \in [Procs -> SUBSET Files], \A q \in Procs \ {p} : sel'[q] = sel[q],
         atv' \in [Procs -> Nat \cup {Never}], timo' \in [Procs -> Nat],
         UNCHANGED <<ready, record, due, selwait, stopped>>, STIMO' \subseteq STIMO
  PROVE  IInv'
<1> USE DEF IInv, retry, record
<1>1. TypeOK'
  BY DEF TypeOK
<1>2. NoMissedEvent' /\ Recorded'
  BY DEF TypeOK, NoMissedEvent, Recorded, Findable
<1>3. OneScans'
  BY Constants DEF TypeOK, OneScans
<1>4. Scanning'
  BY DEF TypeOK, OneScans, Scanning, Findable
<1> QED
  BY <1>1, <1>2, <1>3, <1>4

\* select starts to scan.
LEMMA CallKeeps ==
  ASSUME IInv, NEW p \in Procs, NEW fs \in SUBSET Files,
         NEW tv \in Timeouts \cup {Never}, Call(p, fs, tv)
  PROVE  IInv'
<1>1. /\ p \notin selwait /\ retry(p, fs) /\ curproc \in {NoProc, p}
      /\ UNCHANGED <<ready, record, due, selwait, stopped>> /\ STIMO' \subseteq STIMO
  BY DEF Call, Runs, sleep
<1>2. /\ sel'[p] = fs /\ sel' \in [Procs -> SUBSET Files]
      /\ \A q \in Procs \ {p} : sel'[q] = sel[q]
      /\ atv' \in [Procs -> Nat \cup {Never}] /\ timo' \in [Procs -> Nat]
  BY Constants DEF Call, IInv, TypeOK
<1> QED
  BY <1>1, <1>2, Retry

\* selscan finds a descriptor ready, or records the process for it.  The
\* process that was recorded before is asleep, and the collision is noted, or
\* it will scan again.
LEMMA SelscanKeeps ==
  ASSUME IInv, NEW p \in Procs, selscan(p)
  PROVE  IInv'
<1> USE DEF IInv
<1>1. PICK f \in todo[p] \ Closed :
        todo' = [todo EXCEPT ![p] = @ \ {f}] /\ soo_select(p, f)
  BY DEF selscan
<1>2. /\ UNCHANGED <<ready, SSEL, missed, pc, sel, atv, timo, curproc>>
      /\ UNCHANGED <<due, selwait, STIMO, stopped>>
      /\ pc[p] = "scan" /\ p \notin selwait
  BY DEF selscan, Runs, sleep
<1>3. CASE f \in ready /\ found' = found \cup {p} /\ UNCHANGED record
  <2> USE <1>1, <1>2, <1>3 DEF record
  <2>1. TypeOK'
    BY DEF TypeOK
  <2>2. NoMissedEvent' /\ Recorded'
    BY DEF NoMissedEvent, Recorded, Findable
  <2>3. OneScans'
    BY DEF TypeOK, OneScans
  <2>4. Scanning'
    BY Constants DEF TypeOK, OneScans, Scanning, Findable
  <2> QED
    BY <2>1, <2>2, <2>3, <2>4
<1>4. CASE /\ f \notin ready /\ selrecord(p, f)
           /\ SB_SEL' = SB_SEL \cup {f} /\ UNCHANGED found
  <2> USE <1>1, <1>2, <1>4 DEF selrecord, collides
  <2>1. TypeOK'
    BY DEF TypeOK
  <2>2. ASSUME NEW q \in Procs, NEW g \in Files, Findable(q, g),
               q \in selwait \/ q = p
        PROVE  Findable(q, g)'
    BY <2>2, Constants DEF TypeOK, Findable
  <2>3. Findable(p, f)'
    BY Constants DEF TypeOK, Findable
  <2>4. NoMissedEvent' /\ Recorded'
    BY <2>2 DEF TypeOK, NoMissedEvent, Recorded
  <2>5. OneScans'
    BY DEF TypeOK, OneScans
  <2>6. Scanning'
    <3> SUFFICES ASSUME NEW q \in Procs, pc[q] \in {"scan", "check"},
                        q \in SSEL \ (missed \cup found),
                        NEW g \in sel[q] \ todo'[q]
                 PROVE  g \notin ready /\ Findable(q, g)'
      BY DEF Scanning
    <3>1. q = p
      BY DEF OneScans
    <3>2. CASE g = f
      BY <2>3, <3>1, <3>2
    <3>3. CASE g # f
      <4>1. g \in sel[q] \ todo[q] /\ g \in Files
        BY <3>1, <3>3 DEF TypeOK
      <4> QED
        BY <2>2, <3>1, <4>1 DEF Scanning
    <3> QED
      BY <3>2, <3>3
  <2> QED
    BY <2>1, <2>4, <2>5, <2>6
<1> QED
  BY <1>1, <1>3, <1>4 DEF soo_select

\* select returns for a descriptor that is not open.
LEMMA BadDescriptorKeeps ==
  ASSUME IInv, NEW p \in Procs, BadDescriptor(p) PROVE IInv'
BY Done DEF BadDescriptor, Runs, sleep

\* The scan ends: select returns, or goes on to look for events.
LEMMA ScannedKeeps ==
  ASSUME IInv, NEW p \in Procs, Scanned(p) PROVE IInv'
<1>1. CASE done(p)
  BY <1>1, Done DEF Scanned, Runs, sleep
<1>2. CASE /\ p \notin found
           /\ pc' = [pc EXCEPT ![p] = "check"]
           /\ UNCHANGED <<SSEL, missed, sel, todo, found, atv, timo, curproc>>
  <2> USE <1>2 DEF IInv
  <2>1. /\ UNCHANGED <<ready, si_pid, SI_COLL, SB_SEL>>
        /\ UNCHANGED <<due, selwait, STIMO, stopped>>
        /\ pc[p] = "scan" /\ todo[p] = {} /\ p \notin selwait
    BY DEF Scanned, Runs, sleep, record
  <2>2. TypeOK'
    BY <2>1 DEF TypeOK
  <2>3. NoMissedEvent' /\ Recorded'
    BY <2>1 DEF NoMissedEvent, Recorded, Findable
  <2>4. OneScans'
    BY <2>1 DEF TypeOK, OneScans
  <2>5. Scanning'
    BY <2>1 DEF TypeOK, Scanning, Findable
  <2> QED
    BY <2>2, <2>3, <2>4, <2>5
<1> QED
  BY <1>1, <1>2 DEF Scanned

\* The look at SSEL and nselcoll before the sleep.
LEMMA CheckKeeps ==
  ASSUME IInv, NEW p \in Procs, Check(p) PROVE IInv'
<1>1. /\ pc[p] = "check" /\ p \notin selwait /\ curproc \in {NoProc, p}
      /\ UNCHANGED <<ready, record>>
  BY DEF Check, Runs
<1>2. CASE done(p) /\ UNCHANGED sleep
  BY <1>1, <1>2, Done DEF sleep
<1>3. CASE retry(p, sel[p]) /\ UNCHANGED <<sel, atv, timo, sleep>>
  <2>1. /\ sel[p] \in SUBSET Files
        /\ sel \in [Procs -> SUBSET Files]
        /\ atv \in [Procs -> Nat \cup {Never}] /\ timo \in [Procs -> Nat]
    BY DEF IInv, TypeOK
  <2> QED
    BY <1>1, <1>3, <2>1, Retry DEF sleep
<1>4. CASE /\ ~mustRetry(p)
           /\ SSEL' = SSEL \ {p}
           /\ selwait' = selwait \cup {p}
           /\ due' = [due EXCEPT ![p] = IF timo[p] = 0 THEN Never ELSE timo[p]]
           /\ pc' = [pc EXCEPT ![p] = "tsleep"]
           /\ curproc' = NoProc
           /\ UNCHANGED <<missed, sel, todo, found, atv, timo, STIMO, stopped>>
  <2> USE <1>1, <1>4 DEF IInv, record
  <2>1. TypeOK'
    BY DEF TypeOK
  <2>2. \A f \in sel[p] : f \notin ready /\ Findable(p, f)
    BY DEF mustRetry, OneScans, Scanning
  <2>3. NoMissedEvent' /\ Recorded'
    BY <2>2 DEF NoMissedEvent, Recorded, Findable
  <2>4. OneScans'
    BY Constants DEF TypeOK, OneScans
  <2>5. Scanning'
    BY Constants DEF TypeOK, OneScans, Scanning, Findable
  <2> QED
    BY <2>1, <2>3, <2>4, <2>5
<1> QED
  BY <1>2, <1>3, <1>4 DEF Check

\* tsleep returns.
LEMMA AwokenKeeps ==
  ASSUME IInv, NEW p \in Procs, Awoken(p) PROVE IInv'
<1>1. /\ p \notin selwait /\ curproc \in {NoProc, p} /\ STIMO' \subseteq STIMO
      /\ UNCHANGED <<ready, record, due, selwait, stopped>>
  BY DEF Awoken, Runs
<1>2. CASE done(p)
  BY <1>1, <1>2, Done
<1>3. CASE retry(p, sel[p]) /\ UNCHANGED <<sel, atv, timo>>
  <2>1. /\ sel[p] \in SUBSET Files
        /\ sel \in [Procs -> SUBSET Files]
        /\ atv \in [Procs -> Nat \cup {Never}] /\ timo \in [Procs -> Nat]
    BY DEF IInv, TypeOK
  <2> QED
    BY <1>1, <1>3, <2>1, Retry
<1> QED
  BY <1>2, <1>3 DEF Awoken

\* A signal ends a sleep; the record of the process stays where it is.
LEMMA InterruptedKeeps ==
  ASSUME IInv, NEW p \in Procs, Interrupted(p) PROVE IInv'
<1> USE DEF IInv, Interrupted, done, record
<1>1. TypeOK'
  BY Constants DEF TypeOK
<1>2. NoMissedEvent' /\ Recorded'
  BY DEF TypeOK, NoMissedEvent, Recorded, Findable
<1>3. OneScans'
  BY Constants DEF TypeOK, OneScans
<1>4. Scanning'
  BY DEF TypeOK, Scanning, Findable
<1> QED
  BY <1>1, <1>2, <1>3, <1>4

\* A stop, its end, a read of what has arrived and a stutter leave alone what
\* select relies on; a read waits until nobody scans.
LEMMA QuietKeeps ==
  ASSUME IInv, stopped' \subseteq Procs, ready' \subseteq ready,
         UNCHANGED <<record, select, due, selwait, STIMO, curproc>>
  PROVE  IInv'
<1> USE DEF IInv, record, select
<1>1. TypeOK'
  BY DEF TypeOK
<1>2. NoMissedEvent' /\ Recorded'
  BY DEF NoMissedEvent, Recorded, Findable
<1>3. OneScans' /\ Scanning'
  BY DEF OneScans, Scanning, Findable
<1> QED
  BY <1>1, <1>2, <1>3

\* Data arrive, and selwakeup tells everybody who sleeps for them or has
\* scanned them: by si_pid, or after a collision all there are.
LEMMA ArriveKeeps ==
  ASSUME IInv, NEW f \in Files, Arrive(f) PROVE IInv'
<1> USE DEF IInv
<1>1. /\ ready' = ready \cup {f}
      /\ UNCHANGED <<pc, sel, todo, found, atv, timo, STIMO, stopped, curproc>>
  BY DEF Arrive
<1>2. CASE f \notin SB_SEL
  <2>1. UNCHANGED <<si_pid, SI_COLL, missed, selwait, SSEL, due, SB_SEL>>
    BY <1>2 DEF Arrive
  <2> USE <1>1, <1>2, <2>1
  <2>2. TypeOK'
    BY DEF TypeOK
  <2>3. NoMissedEvent' /\ Recorded'
    BY DEF TypeOK, NoMissedEvent, Recorded, Findable
  <2>4. OneScans' /\ Scanning'
    BY DEF OneScans, Scanning, Findable
  <2> QED
    BY <2>2, <2>3, <2>4
<1>3. CASE f \in SB_SEL
  <2>1. selwakeup(f) /\ SB_SEL' = SB_SEL \ {f}
    BY <1>3 DEF Arrive
  <2> USE <1>1, <1>3, <2>1 DEF selwakeup, collision
  <2>2. TypeOK'
    BY DEF TypeOK
  <2>3. selwait' \subseteq selwait /\ SSEL' \subseteq SSEL
    OBVIOUS
  <2>4. ASSUME NEW q \in Procs, NEW g \in Files \ {f}, Findable(q, g)
        PROVE  Findable(q, g)'
    BY <2>4 DEF TypeOK, Findable
  <2>5. ASSUME NEW q \in Procs, Findable(q, f)
        PROVE  /\ q \notin selwait'
               /\ pc[q] \in {"scan", "check"} => q \in missed' \/ q \notin SSEL'
    BY <2>5 DEF Findable, OneScans
  <2>6. NoMissedEvent' /\ Recorded'
    BY <2>3, <2>4, <2>5 DEF TypeOK, NoMissedEvent, Recorded
  <2>7. OneScans'
    BY <2>3 DEF OneScans
  <2>8. \A q \in Procs : pc[q] \in {"scan", "check"} /\ q \notin missed'
                           => q \notin missed
    OBVIOUS
  <2>9. Scanning'
    BY <2>3, <2>4, <2>5, <2>8 DEF TypeOK, Scanning
  <2> QED
    BY <2>2, <2>6, <2>7, <2>9
<1> QED
  BY <1>2, <1>3

\* A tick only ends sleeps.
LEMMA TickKeeps == ASSUME IInv, Tick PROVE IInv'
<1> USE DEF IInv
<1>1. /\ UNCHANGED <<ready, record, SSEL, missed, pc, sel, todo, found, timo,
                     stopped, curproc>>
      /\ selwait' \subseteq selwait
      /\ STIMO' \subseteq STIMO \cup selwait
  BY DEF Tick
<1>2. atv' \in [Procs -> Nat \cup {Never}] /\ due' \in [Procs -> Nat \cup {Never}]
  BY LessTicks DEF Tick, TypeOK
<1>3. TypeOK'
  BY <1>1, <1>2 DEF TypeOK, record
<1>4. NoMissedEvent' /\ Recorded'
  BY <1>1 DEF NoMissedEvent, Recorded, Findable, record
<1>5. OneScans' /\ Scanning'
  BY <1>1 DEF OneScans, Scanning, Findable, record
<1> QED
  BY <1>3, <1>4, <1>5

\* Every step keeps the invariant.
LEMMA NextIInv == ASSUME IInv, [Next]_vars PROVE IInv'
<1>1. ASSUME NEW p \in Procs, Step(p) \/ Interrupted(p) PROVE IInv'
  BY <1>1, SelscanKeeps, BadDescriptorKeeps, ScannedKeeps, CheckKeeps,
     AwokenKeeps, InterruptedKeeps DEF Step
<1>2. ASSUME NEW p \in Procs, Stop(p) \/ Continue(p) PROVE IInv'
  <2>1. stopped' \subseteq Procs /\ ready' \subseteq ready
    BY <1>2 DEF Stop, Continue, IInv, TypeOK
  <2> QED
    BY <1>2, <2>1, QuietKeeps DEF Stop, Continue
<1>3. ASSUME NEW f \in Files, Consume(f) PROVE IInv'
  <2>1. stopped' \subseteq Procs /\ ready' \subseteq ready
    BY <1>3 DEF Consume, sleep, IInv, TypeOK
  <2> QED
    BY <1>3, <2>1, QuietKeeps DEF Consume, sleep
<1>4. CASE UNCHANGED vars
  <2>1. stopped' \subseteq Procs /\ ready' \subseteq ready
    BY <1>4 DEF vars, sleep, IInv, TypeOK
  <2> QED
    BY <1>4, <2>1, QuietKeeps DEF vars, sleep
<1> QED
  BY <1>1, <1>2, <1>3, <1>4, CallKeeps, ArriveKeeps, TickKeeps DEF Next

\* The inductive invariant holds in every state, for any number of processes
\* that select any descriptors.
THEOREM Invariance == Spec => []IInv
BY InitIInv, NextIInv, PTL DEF Spec

\* The state keeps its types.
THEOREM TypeCorrect == Spec => []TypeOK
<1>1. IInv => TypeOK
  BY DEF IInv
<1> QED
  BY <1>1, Invariance, PTL

\* selscan, selrecord and selwakeup between them lose no event: nobody sleeps
\* in select while a descriptor of its set is ready.
THEOREM EventsSeen == Spec => []NoMissedEvent
<1>1. IInv => NoMissedEvent
  BY DEF IInv
<1> QED
  BY <1>1, Invariance, PTL

\* One si_pid and one SI_COLL for each socket buffer are enough to find every
\* process that sleeps for it.
THEOREM SleepersRecorded == Spec => []Recorded
<1>1. IInv => Recorded
  BY DEF IInv
<1> QED
  BY <1>1, Invariance, PTL
=============================================================================
