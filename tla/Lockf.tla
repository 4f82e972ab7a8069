-------------------------------- MODULE Lockf --------------------------------
(***************************************************************************)
(* Advisory locks on one file: lf_setlock, lf_clearlock, lf_getblock,      *)
(* lf_findoverlap, lf_addblock, lf_split and lf_wakelock of                *)
(* ufs/ufs/ufs_lockf.c, called by ufs_advlock.                             *)
(*                                                                         *)
(* The list of the inode is a sequence of lock structures.  The requests   *)
(* that wait for a lock are chained through lf_block, starting at the      *)
(* lock; lf_next of a waiting request is the lock that blocked it (on the  *)
(* inode's list the same field is the link, which the sequence stands      *)
(* for).  A structure that is freed keeps its lf_block until it is         *)
(* allocated again; the rest of it may be read as anything.                *)
(*                                                                         *)
(* Offsets are small, and -1 is the end of the file, as in the code.  A    *)
(* request that may not wait and is blocked changes nothing, and is left   *)
(* out; so is lf_getlock, which only reads.  An owner is a process or,     *)
(* for flock, an open file, with one request at a time.                    *)
(***************************************************************************)
EXTENDS Integers, Sequences, FiniteSets, SequencesExt

CONSTANTS
  Procs,           \* the owners of locks
  Flocks,          \* those that use flock, and lock the whole file
  Locks,           \* bound: the lock structures in memory
  NOLOCKF,
  MaxOff,          \* bound: the largest offset in a request
  Requested,       \* bound: the types of the locks that are asked for
  maxlockdepth,    \* how far deadlock detection looks
  Interruptible,   \* signals interrupt a process that waits for a lock
  Continuable,     \* SIGCONT makes the tsleep of such a process return 0
  MallocSleeps     \* malloc may sleep, where M_WAITOK lets it

ASSUME FlocksProcs == Flocks \subseteq Procs
ASSUME NotALock    == NOLOCKF \notin Locks
ASSUME TypesAsked  == Requested \subseteq {"F_RDLCK", "F_WRLCK"}
ASSUME BoundsNat   == MaxOff \in Nat /\ maxlockdepth \in Nat
ASSUME Switches    == {Interruptible, Continuable, MallocSleeps} \subseteq BOOLEAN

VARIABLES
  i_lockf,    \* the locks on the file, in the order of the list
  lf,         \* owner, type and range of every lock structure
  lf_block,   \* the next request in the chain of those that wait
  lf_next,    \* the lock that a waiting request remembers to have blocked it
  state,      \* what each process is doing
  req,        \* the structure of its request
  system      \* whether the system still runs

vars == <<i_lockf, lf, lf_block, lf_next, state, req, system>>

EOF      == -1
Types    == {"F_RDLCK", "F_WRLCK"}
States   == {"idle", "sleeping", "awakened", "interrupted",
             "splitting_lock", "splitting_unlock"}
Outcomes == {"runs", "panic: lost lock", "spins", "memory corrupted"}

Ranges(p) == IF p \in Flocks THEN {<<0, EOF>>}
             ELSE {r \in (0..MaxOff) \X (EOF..MaxOff) : r[2] = EOF \/ r[1] <= r[2]}

Lock(p, t, r) == [lf_id |-> p, lf_type |-> t, lf_start |-> r[1], lf_end |-> r[2]]
Free          == Lock(NOLOCKF, "F_UNLCK", <<0, EOF>>)

\* what a lock structure may hold
Structs == [lf_id : Procs \cup {NOLOCKF}, lf_type : Types \cup {"F_UNLCK"},
            lf_start : 0..MaxOff + 1, lf_end : EOF..MaxOff]

TypeOK ==
  /\ i_lockf \in Seq(Locks) /\ IsInjective(i_lockf)
  /\ lf \in [Locks -> Structs]
  /\ lf_block \in [Locks -> Locks \cup {NOLOCKF}]
  /\ lf_next \in [Locks -> Locks \cup {NOLOCKF}]
  /\ state \in [Procs -> States]
  /\ req \in [Procs -> Locks \cup {NOLOCKF}]
  /\ system \in Outcomes

Init ==
  /\ i_lockf = <<>>
  /\ lf = [k \in Locks |-> Free]
  /\ lf_block = [k \in Locks |-> NOLOCKF]
  /\ lf_next = [k \in Locks |-> NOLOCKF]
  /\ state = [p \in Procs |-> "idle"]
  /\ req = [p \in Procs |-> NOLOCKF]
  /\ system = "runs"

Requests == {req[p] : p \in Procs} \ {NOLOCKF}
InUse    == ToSet(i_lockf) \cup Requests

Least(S) == CHOOSE k \in S : \A j \in S : k <= j

-----------------------------------------------------------------------------
(* Chains of blocked requests.                                             *)

\* The requests that the pointers of block lead to from k: what every set
\* has that has the first and is closed under block.
Blocked(block, k) ==
  LET linked == {block[j] : j \in Locks} \ {NOLOCKF}
      closed == {S \in SUBSET linked :
                   {block[j] : j \in S \cup {k}} \subseteq S \cup {NOLOCKF}}
  IN  {b \in linked : \A S \in closed : b \in S}

\* Where the chain of k ends: nowhere, if it closes on itself.
Ends(block, k) == {e \in {k} \cup Blocked(block, k) : block[e] = NOLOCKF}

\* What the routines work on: the list, the structures and their pointers,
\* the requests that have been awakened, and whether the system still runs.
File == [list |-> i_lockf, lf |-> lf, block |-> lf_block, next |-> lf_next,
         woken |-> {}, system |-> system]

\* Add the chain that starts with b at the end of the chain of k.  The walk
\* never ends if the chain closes on itself.
lf_addblock(F, k, b) ==
  LET ends == Ends(F.block, k)
  IN  CASE b = NOLOCKF              -> F
        [] b # NOLOCKF /\ ends = {} -> [F EXCEPT !.system = "spins"]
        [] b # NOLOCKF /\ ends # {} -> [F EXCEPT !.block[CHOOSE e \in ends : TRUE] = b]

\* mutant: waiters for a lock held for reading are forgotten.
lf_wakelock_writers(F, k) ==
  IF F.lf[k].lf_type = "F_RDLCK" THEN F
  ELSE [F EXCEPT !.woken = @ \cup Blocked(F.block, k), !.block[k] = NOLOCKF]

\* mutant: the lock still points to those it has awakened.
lf_wakelock_keeping(F, k) ==
  [F EXCEPT !.woken = @ \cup Blocked(F.block, k)]

\* Awaken the chain of k and undo it.  What is no longer a request when
\* this writes to it is memory of somebody else.
lf_wakelock(F, k) ==
  LET woken == Blocked(F.block, k)
  IN  [F EXCEPT !.block = [j \in Locks |-> IF j \in woken \cup {k} THEN NOLOCKF ELSE @[j]],
                !.next = [j \in Locks |-> IF j \in woken THEN NOLOCKF ELSE @[j]],
                !.woken = @ \cup woken,
                !.system = IF woken \subseteq Requests THEN @ ELSE "memory corrupted"]

-----------------------------------------------------------------------------
(* The list of locks.                                                      *)

\* How the lock l lies to the range of k; the comment in lf_findoverlap
\* numbers the cases.  One of them always applies, so its panic is out of
\* reach.
ovcase(l, k) ==
  IF \/ l.lf_end # EOF /\ k.lf_start > l.lf_end
     \/ k.lf_end # EOF /\ l.lf_start > k.lf_end THEN 0
  ELSE IF l.lf_start = k.lf_start /\ l.lf_end = k.lf_end THEN 1
  ELSE IF l.lf_start <= k.lf_start /\ k.lf_end # EOF
          /\ (l.lf_end >= k.lf_end \/ l.lf_end = EOF) THEN 2
  ELSE IF k.lf_start <= l.lf_start
          /\ (k.lf_end = EOF \/ (l.lf_end # EOF /\ k.lf_end >= l.lf_end)) THEN 3
  ELSE IF l.lf_start < k.lf_start THEN 4
  ELSE 5

\* The search among the owner's own locks, from place i: where it ends, and
\* the case there.  It gives up at the first lock beyond the range.
findoverlap_self(F, i, k) ==
  LET l(j) == F.lf[F.list[j]]
      hits == {j \in i..Len(F.list) :
                 /\ l(j).lf_id = k.lf_id
                 /\ ovcase(l(j), k) # 0 \/ (k.lf_end # EOF /\ l(j).lf_start > k.lf_end)}
  IN  IF hits = {} THEN [at |-> Len(F.list) + 1, case |-> 0]
      ELSE [at |-> Least(hits), case |-> ovcase(l(Least(hits)), k)]

\* The first lock of another owner that conflicts.
lf_getblock(F, k) ==
  LET hits == {j \in DOMAIN F.list :
                 LET l == F.lf[F.list[j]]
                 IN  /\ l.lf_id # k.lf_id /\ ovcase(l, k) # 0
                     /\ "F_WRLCK" \in {l.lf_type, k.lf_type}}
  IN  IF hits = {} THEN NOLOCKF ELSE F.list[Least(hits)]

\* mutant: the rest starts at the last byte of the range, not after it.
lf_split_late(F, j, k, mid, spare) ==
  LET o == F.list[j]
      two == F.lf[o].lf_end = k.lf_end
  IN  [F EXCEPT !.list = SubSeq(@, 1, j) \o mid \o (IF two THEN <<>> ELSE <<spare>>)
                           \o SubSeq(@, j + 1, Len(@)),
                !.lf = [i \in Locks |->
                          CASE i = o -> [@[o] EXCEPT !.lf_end = k.lf_start - 1]
                            [] i = spare /\ ~ two -> [@[o] EXCEPT !.lf_start = k.lf_end]
                            [] OTHER -> @[i]]]

\* Cut the range of k out of the lock at place j, and put the structures of
\* mid in the gap.  The rest, if there is one, is a new lock that blocks
\* nobody; spare is the memory for it.
lf_split(F, j, k, mid, spare) ==
  LET o    == F.list[j]
      head == [F EXCEPT !.lf[o].lf_end = k.lf_start - 1]
      rest == [F.lf[o] EXCEPT !.lf_start = k.lf_end + 1]
      tail == IF F.lf[o].lf_end = k.lf_end THEN <<>> ELSE <<spare>>
  IN  [head EXCEPT !.list = SubSeq(@, 1, j) \o mid \o tail \o SubSeq(@, j + 1, Len(@)),
                   !.lf = IF tail = <<>> THEN @ ELSE [@ EXCEPT ![spare] = rest],
                   !.block = IF tail = <<>> THEN @ ELSE [@ EXCEPT ![spare] = NOLOCKF]]

\* lf_split calls malloc when three pieces are made.
Splits(F, k) ==
  LET hit == findoverlap_self(F, 1, k)
      l   == F.lf[F.list[hit.at]]
  IN  /\ hit.case = 2 /\ l.lf_type # k.lf_type
      /\ l.lf_start # k.lf_start /\ l.lf_end # k.lf_end

-----------------------------------------------------------------------------
(* The loops of lf_setlock and lf_clearlock over the overlaps of a range.  *)
(* A turn is what the next one starts from: the file, the place to search  *)
(* from and whether the lock has still to be put on the list.  There are   *)
(* no more turns than locks on the list, and one: each leaves less of the  *)
(* list to be searched.                                                    *)

Going(F, i, link) == [file |-> F, at |-> i, link |-> link, more |-> TRUE]
Done(F)           == [file |-> F, at |-> 1, link |-> FALSE, more |-> FALSE]

\* lf_setlock, once nothing blocks the request n: it takes the place of what
\* it overlaps of the owner's lock at place j, which is case c.
link_at(F, link, j, c, n, spare) ==
  LET k == F.lf[n]
      o == F.list[j]
      l == F.lf[o]
      downgrade == k.lf_type = "F_RDLCK" /\ l.lf_type = "F_WRLCK"
      Put(G) == IF link THEN [G EXCEPT !.list = InsertAt(@, j, n)] ELSE G
  IN  CASE c = 0 -> Done(Put(F))
        [] c = 1 -> Done([IF downgrade THEN lf_wakelock(F, o) ELSE F
                            EXCEPT !.lf[o].lf_type = k.lf_type])
        [] c = 2 /\ l.lf_type = k.lf_type -> Done(F)
        [] c = 2 /\ l.lf_type # k.lf_type /\ l.lf_start = k.lf_start ->
             Done(lf_wakelock([F EXCEPT !.list = InsertAt(@, j, n),
                                        !.lf[o].lf_start = k.lf_end + 1], o))
        [] c = 2 /\ l.lf_type # k.lf_type /\ l.lf_start # k.lf_start ->
             Done(lf_wakelock(lf_split(F, j, k, <<n>>, spare), o))
        [] c = 3 ->
             LET G == IF downgrade THEN lf_wakelock(F, o)
                      ELSE lf_addblock([F EXCEPT !.block[n] = F.block[o]], n, F.block[n])
             IN  IF link THEN Going([G EXCEPT !.list[j] = n], j + 1, FALSE)
                 ELSE Going([G EXCEPT !.list = RemoveAt(@, j)], j, FALSE)
        [] c = 4 ->
             Going(lf_wakelock([F EXCEPT !.list = InsertAt(@, j + 1, n),
                                         !.lf[o].lf_end = k.lf_start - 1], o),
                   j + 2, FALSE)
        [] c = 5 ->
             Done(lf_wakelock(Put([F EXCEPT !.lf[o].lf_start = k.lf_end + 1]), o))

link_turn(x, n, spare) ==
  LET hit == findoverlap_self(x.file, x.at, x.file.lf[n])
  IN  IF x.more THEN link_at(x.file, x.link, hit.at, hit.case, n, spare) ELSE x

link_lock(F, n, spare) ==
  LET turn[t \in 0..Len(F.list) + 1] ==
        IF t = 0 THEN Going(F, 1, TRUE) ELSE link_turn(turn[t - 1], n, spare)
  IN  turn[Len(F.list) + 1].file

\* lf_clearlock: the range of k is taken out of the owner's lock at place j.
unlink_at(F, j, c, k, spare) ==
  LET o == F.list[j]
      l == F.lf[o]
      G == lf_wakelock(F, o)
  IN  CASE c = 0 -> Done(F)
        [] c = 1 -> Done([G EXCEPT !.list = RemoveAt(@, j)])
        [] c = 2 /\ l.lf_start = k.lf_start ->
             Done([G EXCEPT !.lf[o].lf_start = k.lf_end + 1])
        [] c = 2 /\ l.lf_start # k.lf_start -> Done(lf_split(G, j, k, <<>>, spare))
        [] c = 3 -> Going([G EXCEPT !.list = RemoveAt(@, j)], j, FALSE)
        [] c = 4 -> Going([G EXCEPT !.lf[o].lf_end = k.lf_start - 1], j + 1, FALSE)
        [] c = 5 -> Done([G EXCEPT !.lf[o].lf_start = k.lf_end + 1])

\* mutant: the loop ends with the first overlap.
unlink_turn_once(x, k, spare) ==
  LET hit == findoverlap_self(x.file, x.at, k)
  IN  IF x.more THEN Done(unlink_at(x.file, hit.at, hit.case, k, spare).file) ELSE x

unlink_turn(x, k, spare) ==
  LET hit == findoverlap_self(x.file, x.at, k)
  IN  IF x.more THEN unlink_at(x.file, hit.at, hit.case, k, spare) ELSE x

unlink_range(F, k, spare) ==
  LET turn[t \in 0..Len(F.list) + 1] ==
        IF t = 0 THEN Going(F, 1, FALSE) ELSE unlink_turn(turn[t - 1], k, spare)
  IN  turn[Len(F.list) + 1].file

-----------------------------------------------------------------------------
(* The steps.  F is what the routines leave, s what p then does, n the     *)
(* structure of its request.                                               *)

Becomes(p, F, s, n) ==
  LET live == ToSet(F.list) \cup {IF q = p THEN n ELSE req[q] : q \in Procs}
      kept == live \cup {F.next[k] : k \in live \ ({NOLOCKF} \cup ToSet(F.list))}
  IN  /\ i_lockf' = F.list
      /\ lf' = [k \in Locks |-> IF k \in live THEN F.lf[k] ELSE Free]
      /\ lf_block' = [k \in Locks |-> IF k \in kept THEN F.block[k] ELSE NOLOCKF]
      /\ lf_next' = [k \in Locks |-> IF k \in live \ ToSet(F.list) THEN F.next[k] ELSE NOLOCKF]
      /\ state' = [q \in Procs |->
                     CASE q = p -> s
                       [] q # p /\ state[q] = "sleeping" /\ req[q] \in F.woken -> "awakened"
                       [] OTHER -> state[q]]
      /\ req' = [req EXCEPT ![p] = n]
      /\ system' = F.system

\* malloc fills the structure n with the request k.
malloc(n, k) ==
  [File EXCEPT !.lf[n] = k, !.block[n] = NOLOCKF, !.next[n] = NOLOCKF]

\* The memory for the third piece of a split, if there is one.
Spares(F, k, used) == IF Splits(F, k) THEN Locks \ used ELSE {NOLOCKF}

\* What the search for a deadlock may report, for the request n that is
\* blocked by the lock b: it follows what the sleepers remember, d steps
\* at most.  A structure that has been freed may say anything.
closes_cycle(F, n) ==
  LET wb(b) == F.next[req[F.lf[b].lf_id]]
      search[d \in 0..maxlockdepth] == [b \in InUse \cup {n} |->
        IF d = 0 \/ state[F.lf[b].lf_id] # "sleeping" THEN {FALSE}
        ELSE IF wb(b) \notin InUse \cup {n} THEN BOOLEAN
        ELSE IF F.lf[wb(b)].lf_id \in Flocks THEN {FALSE}
        ELSE IF F.lf[wb(b)].lf_id = F.lf[n].lf_id THEN {TRUE}
        ELSE search[d - 1][wb(b)]]
  IN  search

\* mutant: the search ends before its first step.
deadlock_short(F, n, b) ==
  IF {F.lf[n].lf_id, F.lf[b].lf_id} \cap Flocks # {} THEN {FALSE}
  ELSE closes_cycle(F, n)[0][b]

deadlock(F, n, b) ==
  IF {F.lf[n].lf_id, F.lf[b].lf_id} \cap Flocks # {} THEN {FALSE}
  ELSE closes_cycle(F, n)[maxlockdepth][b]

\* mutant: a flock request for writing keeps the shared lock while it waits.
Block_keeping(p, F, n, b) ==
  Becomes(p, lf_addblock([F EXCEPT !.next[n] = b], b, n), "sleeping", n)

\* Wait for the lock b.  A flock request for writing first gives up what
\* its owner has.
Block(p, F, n, b) ==
  LET drops == p \in Flocks /\ F.lf[n].lf_type = "F_WRLCK"
      G     == IF drops THEN unlink_range(F, F.lf[n], NOLOCKF) ELSE F
  IN  Becomes(p, lf_addblock([G EXCEPT !.next[n] = b], b, n), "sleeping", n)

\* One turn of the loop of lf_setlock.
Attempt(p, F, n) ==
  LET b == lf_getblock(F, F.lf[n])
  IN  \/ /\ b = NOLOCKF
         /\ \E spare \in Spares(F, F.lf[n], InUse \cup {n}) :
              Becomes(p, link_lock(F, n, spare), "idle", NOLOCKF)
      \/ /\ b = NOLOCKF /\ MallocSleeps /\ Splits(F, F.lf[n])
         /\ Becomes(p, F, "splitting_lock", n)
      \/ /\ b # NOLOCKF /\ TRUE \in deadlock(F, n, b)
         /\ Becomes(p, F, "idle", NOLOCKF)                     \* EDEADLK
      \/ /\ b # NOLOCKF /\ FALSE \in deadlock(F, n, b)
         /\ Block(p, F, n, b)

lf_setlock(p, t, r) ==
  /\ state[p] = "idle"
  /\ \E n \in Locks \ InUse : Attempt(p, malloc(n, Lock(p, t, r)), n)

\* tsleep has returned 0.
retry(p) ==
  /\ state[p] = "awakened"
  /\ Attempt(p, File, req[p])

\* The structure of the unlock request is freed before this returns, and
\* stands among the others only while malloc sleeps.
lf_clearlock(p, r) ==
  LET k == Lock(p, "F_UNLCK", r)
  IN  /\ state[p] = "idle"
      /\ \/ \E spare \in Spares(File, k, InUse) :
              Becomes(p, unlink_range(File, k, spare), "idle", NOLOCKF)
         \/ /\ MallocSleeps /\ Splits(File, k)
            /\ LET o == i_lockf[findoverlap_self(File, 1, k).at]
               IN  \E n \in Locks \ InUse :
                     Becomes(p, lf_wakelock(malloc(n, k), o), "splitting_unlock", n)

\* malloc returns to lf_split.
malloc_wakes(p) ==
  /\ state[p] \in {"splitting_lock", "splitting_unlock"}
  /\ LET n   == req[p]
         hit == findoverlap_self(File, 1, lf[n])
         o   == i_lockf[hit.at]
     IN  \E spare \in Locks \ InUse :
           \/ /\ state[p] = "splitting_lock"
              /\ Becomes(p, lf_wakelock(lf_split(File, hit.at, lf[n], <<n>>, spare), o),
                         "idle", NOLOCKF)
           \/ /\ state[p] = "splitting_unlock"
              /\ Becomes(p, lf_split(File, hit.at, lf[n], <<>>, spare), "idle", NOLOCKF)

\* A signal reaches a process that waits, or that was awakened and has not
\* run yet: tsleep is going to return an error, or 0 for SIGCONT.
psignal(p) ==
  \/ /\ Interruptible /\ state[p] \in {"sleeping", "awakened"}
     /\ state' = [state EXCEPT ![p] = "interrupted"]
     /\ UNCHANGED <<i_lockf, lf, lf_block, lf_next, req, system>>
  \/ /\ Continuable /\ state[p] = "sleeping"
     /\ state' = [state EXCEPT ![p] = "awakened"]
     /\ UNCHANGED <<i_lockf, lf, lf_block, lf_next, req, system>>

\* Take the request n out of the chain, behind k.
unblock(k, n) == [File EXCEPT !.block[k] = lf_block[n]]

\* tsleep has returned an error: the request takes itself off the chain
\* that starts where it remembers.
lf_interrupted(p) ==
  /\ state[p] = "interrupted"
  /\ LET n      == req[p]
         start  == lf_next[n]
         walk   == IF start = NOLOCKF THEN {} ELSE {start} \cup Blocked(lf_block, start)
         before == {k \in walk : lf_block[k] = n}
     IN  \/ \E k \in before :
              Becomes(p, unblock(k, n), "idle", NOLOCKF)
         \/ /\ before = {} \/ start \notin InUse
            /\ Becomes(p, [File EXCEPT !.system = "panic: lost lock"], "interrupted", n)

Next ==
  /\ system = "runs"
  /\ \E p \in Procs :
       \/ \E t \in Requested, r \in Ranges(p) : lf_setlock(p, t, r)
       \/ \E r \in Ranges(p) : lf_clearlock(p, r)
       \/ retry(p)
       \/ malloc_wakes(p)
       \/ psignal(p)
       \/ lf_interrupted(p)

Spec == Init /\ [][Next]_vars

-----------------------------------------------------------------------------
Overlap(k, l)   == ovcase(lf[k], lf[l]) # 0
Conflict(k, l)  == /\ lf[k].lf_id # lf[l].lf_id /\ Overlap(k, l)
                   /\ "F_WRLCK" \in {lf[k].lf_type, lf[l].lf_type}
Sleepers        == {p \in Procs : state[p] = "sleeping"}
Holds(k)        == Blocked(lf_block, k)

\* The locks of one owner are disjoint and stand on the list in the order
\* of their ranges: lf_findoverlap gives up at the first one beyond the
\* request (ufs_lockf.c:491), so whatever sequence of sets, splits and
\* clears came before, no overlap may hide behind it.
OwnLocksOrdered ==
  \A i, j \in DOMAIN i_lockf :
    LET a == lf[i_lockf[i]]
        b == lf[i_lockf[j]]
    IN  /\ a.lf_end = EOF \/ a.lf_start <= a.lf_end
        /\ i < j /\ a.lf_id = b.lf_id => a.lf_end # EOF /\ a.lf_end < b.lf_start

Proper(l) == l.lf_id \in Procs /\ (l.lf_end = EOF \/ l.lf_start <= l.lf_end)

\* A process between two steps of a request has a structure of its own, not
\* on the list, that holds the request, for flock the whole file.
RequestsOwned ==
  \A p \in Procs :
    /\ state[p] = "idle" <=> req[p] = NOLOCKF
    /\ req[p] # NOLOCKF =>
         LET k == lf[req[p]]
         IN  /\ k.lf_id = p /\ Proper(k) /\ req[p] \notin ToSet(i_lockf)
             /\ p \in Flocks => k.lf_start = 0 /\ k.lf_end = EOF
             /\ k.lf_type = "F_UNLCK" <=> state[p] = "splitting_unlock"

\* What is on the list is a lock of some owner.
LocksHeld ==
  \A k \in ToSet(i_lockf) : Proper(lf[k]) /\ lf[k].lf_type \in Types

\* The lock that is split while malloc sleeps still contains the request,
\* on both sides.
SplitPending ==
  \A p \in Procs : state[p] \in {"splitting_lock", "splitting_unlock"} =>
    \E o \in ToSet(i_lockf) :
      LET k == lf[req[p]]
      IN  /\ lf[o].lf_id = p /\ lf[o].lf_start < k.lf_start /\ k.lf_end # EOF
          /\ lf[o].lf_end = EOF \/ k.lf_end < lf[o].lf_end

\* Why the locks stay ordered: the inductive invariant, of any environment.
IInv == TypeOK /\ RequestsOwned /\ LocksHeld /\ OwnLocksOrdered /\ SplitPending

\* A process that sleeps in lf_setlock is on the chain of exactly one lock
\* of the list, and that lock stands in its way: whatever the owner of the
\* lock split, merged, downgraded or cleared since, the sleeper was either
\* awakened or moved along.  (lf_wakelock is the only thing to awaken it.)
NoLostSleeper ==
  \A p \in Sleepers :
    \E k \in ToSet(i_lockf) :
      /\ req[p] \in Holds(k) /\ Conflict(req[p], k)
      /\ \A j \in ToSet(i_lockf) \ {k} : req[p] \notin Holds(j)

\* Every chain ends, and holds only requests of processes that wait.
ChainsSound ==
  /\ system # "memory corrupted" /\ system # "spins"
  /\ \A k \in ToSet(i_lockf) :
       /\ Ends(lf_block, k) # {}
       /\ Holds(k) \subseteq Requests

WaitsFor == {w \in Sleepers \X Sleepers :
               \E k \in ToSet(i_lockf) : lf[k].lf_id = w[2] /\ req[w[1]] \in Holds(k)}

\* Sleepers that all wait for sleepers of the set.
DeadlockedSet(S) == S # {} /\ \A p \in S : \E q \in S : <<p, q>> \in WaitsFor

\* No set of processes waits for each other.
NoDeadlock == ~ \E S \in SUBSET Sleepers : DeadlockedSet(S)

\* Deadlock detection is complete as long as what a sleeper remembers is
\* the lock it waits for: among processes that wait for each other there is
\* one whose lock was replaced by a larger one of the same owner (case 3 of
\* lf_setlock, which hands over the chain and frees the lock).
DeadlockOnlyIfReplaced ==
  \A S \in SUBSET Sleepers :
    DeadlockedSet(S) => \E p \in S : lf_next[req[p]] \notin ToSet(i_lockf)
                                    \/ req[p] \notin Holds(lf_next[req[p]])

\* No two locks on the list conflict ("No blocks!!", ufs_lockf.c:176): what
\* lf_setlock has found not to be blocked is not blocked when it is linked.
NoConflict == \A k, l \in ToSet(i_lockf) : ~ Conflict(k, l)

\* The panic of lf_setlock is never reached (ufs_lockf.c:172).
NoLostLock == system # "panic: lost lock"

-----------------------------------------------------------------------------
(* The bytes that each owner has locked; the last stands for all beyond    *)
(* the offsets of requests.                                                *)
Bytes == 0..MaxOff + 1

own ==
  [p \in Procs |-> [b \in Bytes |->
     LET over == {k \in ToSet(i_lockf) :
                    /\ lf[k].lf_id = p /\ lf[k].lf_start <= b
                    /\ lf[k].lf_end = EOF \/ b <= lf[k].lf_end}
     IN  IF over = {} THEN "F_UNLCK" ELSE lf[CHOOSE k \in over : TRUE].lf_type]]

B == INSTANCE ByteLocks

\* The bytes in the range of a request.
Span(k) == {b \in Bytes : k.lf_start <= b /\ (k.lf_end = EOF \/ b <= k.lf_end)}

\* What a step of p does when it works on the request k.  If p goes on to
\* wait, it is for all of k.
Answers(p, k) ==
  /\ B!Request(p, Span(k), k.lf_type)
  /\ state'[p] # "idle" => lf'[req'[p]] = k

\* While a request waits it stays what it was.
RequestsKept ==
  \A p \in Procs : state[p] # "idle" /\ state'[p] # "idle" => lf'[req'[p]] = lf[req[p]]

EachAnswers ==
  /\ RequestsKept
  /\ \A p \in Procs :
       /\ \A t \in Requested, r \in Ranges(p) : lf_setlock(p, t, r) => Answers(p, Lock(p, t, r))
       /\ \A r \in Ranges(p) : lf_clearlock(p, r) => Answers(p, Lock(p, "F_UNLCK", r))
       /\ retry(p) => Answers(p, lf[req[p]])
       /\ psignal(p) \/ lf_interrupted(p) => UNCHANGED own

\* The list of locks implements locking of bytes.  A step that works on a
\* request answers that request: if no byte of its range is locked against
\* it, it sets the whole range to its type and leaves every other byte of
\* every owner as it was, however the range lies to the owner's locks; and
\* if one is, it sets nothing.  A request that waits and is tried again is
\* still the one that was made, and nothing else touches a byte.
ImplementsByteLocks == B!Spec /\ [][EachAnswers]_vars
=============================================================================
