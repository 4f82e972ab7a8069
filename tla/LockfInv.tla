------------------------------ MODULE LockfInv ------------------------------
(* What the proofs about advisory locks say of the list, the chains and    *)
(* the steps of Lockf: the inductive invariants of flock owners (FlockInv) *)
(* and of the chains (ChainInv), which are proved beside IInv, and the     *)
(* notions they are made of.                                               *)
EXTENDS Lockf

-----------------------------------------------------------------------------
(* Structures and lists.                                                   *)

\* The last byte of a range; the byte after the offsets stands for the rest.
Hi(l) == IF l.lf_end = EOF THEN MaxOff + 1 ELSE l.lf_end

\* a lies before b, if they have the same owner.
Clear(a, b) == a.lf_id = b.lf_id => Hi(a) < b.lf_start

\* The locks of each owner are in order, x aside.
Ord(q, f, x) ==
  \A i, j \in 1..Len(q) : i < j /\ q[i] # x /\ q[j] # x => Clear(f[q[i]], f[q[j]])

Held == {l \in Structs : Proper(l) /\ l.lf_type \in Types}

Pointers == [Locks -> Locks \cup {NOLOCKF}]

IsFile(F) ==
  /\ DOMAIN F = {"list", "lf", "block", "next", "woken", "system"}
  /\ F.block \in Pointers /\ F.next \in Pointers
  /\ F.woken \subseteq Locks /\ F.system \in Outcomes

Covers(l, b) == l.lf_start <= b /\ b <= Hi(l)

\* p has locked b with type t.
Has(S, f, p, b, t) == \E c \in S : f[c].lf_id = p /\ Covers(f[c], b) /\ f[c].lf_type = t

\* From the locks S to T, which of the structures are new or of the owner of k,
\* and no byte outside the range of k is locked in another way.
Rel(S, f, T, g, k, n, spare) ==
  /\ T \subseteq S \cup {n, spare}
  /\ \A c \in Locks : (c \notin S \/ c = n) /\ c # spare => g[c] = f[c]
  /\ \A c \in S : f[c].lf_id # k.lf_id => c \in T /\ g[c] = f[c]
  /\ \A c \in T : g[c].lf_id = k.lf_id \/ (c \in S /\ g[c] = f[c])
  /\ \A b \in Int, t \in Types :
       ~ Covers(k, b) => (Has(T, g, k.lf_id, b, t) <=> Has(S, f, k.lf_id, b, t))

LockList(L, f) ==
  /\ L \in Seq(Locks) /\ IsInjective(L) /\ f \in [Locks -> Structs]
  /\ \A c \in ToSet(L) : f[c] \in Held

\* The whole range of k is locked.
Locked(L, f, k) ==
  \E c \in ToSet(L) : /\ f[c].lf_id = k.lf_id /\ f[c].lf_type = k.lf_type
                      /\ f[c].lf_start <= k.lf_start /\ Hi(k) <= Hi(f[c])

\* What the loop of lf_setlock leaves: the range of k is locked, and no byte
\* outside it in another way than in the locks M with the contents e.
Linked(M, e, L, f, n, k, spare) ==
  /\ LockList(L, f) /\ Ord(L, f, NOLOCKF) /\ f[n] = k /\ Locked(L, f, k)
  /\ Rel(ToSet(M), e, ToSet(L), f, k, n, spare)

\* The owner has nothing left in the range.
Cleared(L, f, k) ==
  \A c \in ToSet(L) : f[c].lf_id = k.lf_id => Hi(f[c]) < k.lf_start \/ Hi(k) < f[c].lf_start

\* What the loop of lf_clearlock leaves: the range of k is free.
Unlinked(M, e, L, f, k, spare) ==
  /\ LockList(L, f) /\ Ord(L, f, NOLOCKF) /\ Cleared(L, f, k)
  /\ Rel(ToSet(M), e, ToSet(L), f, k, NOLOCKF, spare)

-----------------------------------------------------------------------------
(* What a routine and a step do to the list.                               *)

\* The locks of the owners other than p, and their requests, are as they were.
Others(p, L, f) ==
  /\ \A q \in Procs \ {p} : req[q] # NOLOCKF => req[q] \notin ToSet(L) /\ f[req[q]] = lf[req[q]]
  /\ \A c \in ToSet(i_lockf) : lf[c].lf_id # p => c \in ToSet(L) /\ f[c] = lf[c]
  /\ \A c \in ToSet(L) : f[c].lf_id = p \/ (c \in ToSet(i_lockf) /\ f[c] = lf[c])

\* The range of k lies inside that of l, with something left on both sides.
Encloses(l, k) ==
  /\ l.lf_id = k.lf_id /\ l.lf_start < k.lf_start /\ k.lf_end # EOF
  /\ l.lf_end = EOF \/ k.lf_end < l.lf_end

\* The structure n holds the request of p, which is going to be in state s.
Asks(p, L, f, s, n) ==
  /\ n \in Locks /\ n \notin ToSet(L) /\ f[n].lf_id = p /\ Proper(f[n])
  /\ p \in Flocks => f[n].lf_start = 0 /\ f[n].lf_end = EOF
  /\ f[n].lf_type = "F_UNLCK" <=> s = "splitting_unlock"
  /\ s \in {"splitting_lock", "splitting_unlock"} => \E o \in ToSet(L) : Encloses(f[o], f[n])

\* What Becomes needs to keep the invariant.
Fits(p, F, s, n) ==
  /\ IsFile(F) /\ LockList(F.list, F.lf) /\ Ord(F.list, F.lf, NOLOCKF) /\ Others(p, F.list, F.lf)
  /\ s \in States /\ (s = "idle" <=> n = NOLOCKF)
  /\ n # NOLOCKF => Asks(p, F.list, F.lf, s, n)

\* A routine starts from the locks on the list, with the request n of p.
Starts(p, F, n) ==
  /\ IsFile(F) /\ F.list = i_lockf /\ LockList(i_lockf, F.lf) /\ Ord(i_lockf, F.lf, NOLOCKF)
  /\ \A c \in ToSet(i_lockf) : F.lf[c] = lf[c]
  /\ Others(p, F.list, F.lf)
  /\ \A q \in Procs \ {p} : req[q] # n \/ n = NOLOCKF
  /\ n # NOLOCKF => /\ n \in Locks /\ n \notin ToSet(i_lockf) /\ Proper(F.lf[n]) /\ F.lf[n].lf_id = p
                    /\ p \in Flocks => F.lf[n].lf_start = 0 /\ F.lf[n].lf_end = EOF

\* Nothing of the others stands in the way of k.
Unopposed(k) ==
  \A c \in ToSet(i_lockf) : lf[c].lf_id # k.lf_id /\ ovcase(lf[c], k) # 0 =>
    "F_WRLCK" \notin {lf[c].lf_type, k.lf_type}

\* A range that p may ask for.
Wants(p, k) ==
  /\ k \in Structs /\ Proper(k) /\ k.lf_id = p
  /\ p \in Flocks => k.lf_start = 0 /\ k.lf_end = EOF

Same(F) == F.list = i_lockf /\ \A c \in ToSet(i_lockf) : F.lf[c] = lf[c]

\* The range of k is free, or locked, and all else is as it was.
Frees(F, k) ==
  \E e, spare : /\ \A c \in ToSet(i_lockf) : e[c] = lf[c]
                /\ Unlinked(i_lockf, e, F.list, F.lf, k, spare)

Takes(F, k) ==
  \E e, n, spare : /\ k \in Held /\ \A c \in ToSet(i_lockf) : e[c] = lf[c]
                   /\ Linked(i_lockf, e, F.list, F.lf, n, k, spare)

\* What a step of p does to the list: nothing, or it frees the range of a
\* request, or takes it.  An owner that uses flock, and goes to sleep with its
\* locks, asks for reading.
Moves(p, F, s, n) ==
  /\ Fits(p, F, s, n) /\ Becomes(p, F, s, n)
  /\ s \in {"splitting_lock", "splitting_unlock"} => MallocSleeps
  /\ \/ /\ Same(F)
        /\ s = "sleeping" /\ p \in Flocks =>
             \E k : Wants(p, k) /\ k.lf_type = "F_RDLCK" /\ ~ Unopposed(k)
     \/ \E k : Wants(p, k) /\ Frees(F, k)
     \/ \E k : /\ Wants(p, k) /\ Takes(F, k) /\ s = "idle"
               /\ Unopposed(k) \/ state[p] = "splitting_lock"

\* What a step of p that works on the request k does to the list, as long as
\* malloc does not sleep.  If p goes on to wait, k stands in m.
Serves(p, F, k, m) ==
  /\ \/ k.lf_type = "F_UNLCK" /\ Frees(F, k)
     \/ k.lf_type # "F_UNLCK" /\ Unopposed(k) /\ Takes(F, k)
     \/ k.lf_type = "F_WRLCK" /\ ~ Unopposed(k) /\ p \in Flocks /\ Frees(F, k)
     \/ /\ k.lf_type # "F_UNLCK" /\ ~ Unopposed(k) /\ Same(F)
        /\ p \in Flocks => k.lf_type # "F_WRLCK"
     \/ MallocSleeps
  /\ m # NOLOCKF => F.lf[m] = k

\* The request n of p is for a lock.
Tries(p, F, n) ==
  Starts(p, F, n) /\ n # NOLOCKF /\ F.lf[n].lf_type # "F_UNLCK"

\* own, for any list.
Own(L, f) ==
  [p \in Procs |-> [b \in Bytes |->
     LET over == {k \in ToSet(L) :
                    /\ f[k].lf_id = p /\ f[k].lf_start <= b
                    /\ f[k].lf_end = EOF \/ b <= f[k].lf_end}
     IN  IF over = {} THEN "F_UNLCK" ELSE f[CHOOSE k \in over : TRUE].lf_type]]

ByteIs(v, S, f, p, b) ==
  v \in Types \cup {"F_UNLCK"} /\ \A t \in Types : v = t <=> Has(S, f, p, b, t)

Ranged(k) == {b \in Bytes : Covers(k, b)}

SetBytes(o, p, R, t) == [o EXCEPT ![p] = [b \in Bytes |-> IF b \in R THEN t ELSE @[b]]]

BytesAre(L, f, p, R, t) ==
  /\ \A q \in Procs \ {p}, b \in Bytes : Own(L, f)[q][b] = own[q][b]
  /\ \A b \in Bytes : Own(L, f)[p][b] = IF b \in R THEN t ELSE own[p][b]

NoSplitting == \A p \in Procs : state[p] \notin {"splitting_lock", "splitting_unlock"}

-----------------------------------------------------------------------------
(* Owners that use flock.                                                  *)

\* Every lock is of the whole file, so the first byte tells all; who sleeps
\* has nothing.
WholeFile == \A c \in ToSet(i_lockf) : lf[c].lf_start = 0 /\ lf[c].lf_end = EOF

Peace == \A p, q \in Procs : p # q => B!Compatible(own[p][0], own[q][0])

EmptyHanded == \A p \in Procs : state[p] = "sleeping" => own[p][0] = "F_UNLCK"

FlockInv == IInv /\ WholeFile /\ Peace /\ EmptyHanded

-----------------------------------------------------------------------------
(* The chains, by the lock each request waits for and its place.           *)

\* Those whose requests are on a chain: they sleep, or are going to take
\* themselves off it.  A process that was awakened and then interrupted no
\* longer remembers a lock.
Waiters == {q \in Procs : \/ state[q] = "sleeping"
                          \/ state[q] = "interrupted" /\ lf_next[req[q]] # NOLOCKF}

Waiting == {req[q] : q \in Waiters}

\* The lock b stands in the way of the request a.
Opposed(a, b) ==
  a.lf_id # b.lf_id /\ ovcase(a, b) # 0 /\ "F_WRLCK" \in {a.lf_type, b.lf_type}

\* The requests W stand on chains that start at the locks H, each behind just
\* one other; root is where the chain of a request starts, rank grows along
\* the chain.  The lock at the start is in the way of all that follow, and,
\* where waits are interrupted, is the one they remember.
Chained(block, next, H, W, e, root, rank, top) ==
  /\ top \in Nat /\ root \in [W -> H] /\ rank \in [W -> 0..top]
  /\ W \cap H = {} /\ NOLOCKF \notin W
  /\ \A w \in W : \E v \in H \cup W : block[v] = w
  /\ \A u, v \in H \cup W : block[u] = block[v] /\ block[u] \in W => u = v
  /\ \A v \in H \cup W : block[v] \in W \cup {NOLOCKF}
  /\ \A h \in H : block[h] \in W => root[block[h]] = h
  /\ \A v \in W : block[v] \in W => root[block[v]] = root[v] /\ rank[v] < rank[block[v]]
  /\ \A w \in W : Opposed(e[w], e[root[w]]) /\ (Interruptible => next[w] = root[w])

Chains(block, next, H, W, e) ==
  \E root, rank, top : Chained(block, next, H, W, e, root, rank, top)

\* The file F in a step of the owner of n: the locks H, which hold e, have the
\* chains of those that wait and have not been awakened in this step; nothing
\* is behind n before it is on the list.
Queued(F, n, H, e) ==
  /\ IsFile(F) /\ F.system = "runs" /\ H \subseteq Locks
  /\ n \notin Waiting /\ Waiting \subseteq Requests /\ Requests \subseteq Locks
  /\ (Requests \ {n}) \cap H = {} /\ F.woken \subseteq Waiting
  /\ \A w \in Requests \ {n} :
       /\ w \in F.woken => F.block[w] = NOLOCKF /\ F.next[w] = NOLOCKF
       /\ w \notin F.woken => F.next[w] = lf_next[w]
       /\ w \notin Waiting => F.block[w] = lf_block[w]
  /\ n \in Locks \ H => F.block[n] = NOLOCKF
  /\ Chains(F.block, F.next, H, Waiting \ F.woken, e)

\* Who has a request and is on no chain has nothing behind it, and remembers
\* no lock.
Awake ==
  \A q \in Procs : req[q] # NOLOCKF /\ q \notin Waiters =>
    lf_block[req[q]] = NOLOCKF /\ lf_next[req[q]] = NOLOCKF

\* Where signals interrupt waits, only whole files are locked; elsewhere malloc
\* does not sleep.
Setting ==
  \/ Flocks = Procs /\ WholeFile
  \/ ~ Interruptible /\ ~ MallocSleeps

\* Only a signal interrupts a wait.
Uninterrupted == ~ Interruptible => \A q \in Procs : state[q] # "interrupted"

ChainInv ==
  /\ Chains(lf_block, lf_next, ToSet(i_lockf), Waiting, lf)
  /\ Awake /\ system \in {"runs", "panic: lost lock"}

\* What a step leaves: F has the chains of those that will wait, V.
Rests(p, F, s, n, V) ==
  /\ Fits(p, F, s, n) /\ Becomes(p, F, s, n) /\ F.system \in {"runs", "panic: lost lock"}
  /\ F.woken \subseteq {req[q] : q \in Waiters \ {p}}
  /\ \A q \in Procs \ {p} : req[q] # NOLOCKF =>
       /\ req[q] \in F.woken => F.block[req[q]] = NOLOCKF /\ F.next[req[q]] = NOLOCKF
       /\ req[q] \notin F.woken => F.next[req[q]] = lf_next[req[q]]
       /\ q \notin Waiters => F.block[req[q]] = NOLOCKF
  /\ n # NOLOCKF => \/ s = "sleeping"
                    \/ s = "interrupted" /\ (F.next[n] = NOLOCKF => F.block[n] = NOLOCKF)
  /\ V = ({req[q] : q \in Waiters \ {p}} \ F.woken)
           \cup (IF s = "sleeping" \/ (s = "interrupted" /\ F.next[n] # NOLOCKF) THEN {n} ELSE {})
  /\ Chains(F.block, F.next, ToSet(F.list), V, F.lf)

\* The request n is of p, or new, or there is none.
NoOthers(p, n) == \A q \in Procs \ {p} : req[q] # NOLOCKF => req[q] # n

\* Where a routine starts from, with the request n of p: the chains as they are.
Begins(p, F, n) ==
  /\ Starts(p, F, n) /\ NoOthers(p, n) /\ Queued(F, n, ToSet(F.list), F.lf)
  /\ n # NOLOCKF => \A w \in Waiting : F.lf[w] = lf[w]
=============================================================================
