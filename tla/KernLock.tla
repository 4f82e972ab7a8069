------------------------------ MODULE KernLock ------------------------------
(***************************************************************************)
(* The sleep lock of the virtual memory system (vm/kern_lock.c): many      *)
(* readers or one writer, upgrade and downgrade, and recursive acquisition *)
(* by one distinguished thread.  It protects every vm_map.                 *)
(*                                                                         *)
(* The kernel is built for one processor (NCPUS is 1 in vm/lock.h) and is  *)
(* not preempted, so a routine runs without interference from its call, or *)
(* from its return out of thread_sleep, to its return or to its next       *)
(* thread_sleep.  Each such stretch is one action.  simple_lock is empty   *)
(* and lock_wait_time is 0 in that build; can_sleep is TRUE for the only   *)
(* lock the kernel initialises (vm_map.c:265).                             *)
(***************************************************************************)
EXTENDS Naturals, FiniteSets

CONSTANTS
  Threads,               \* the processes that use the lock
  NoThread,              \* the (char *)-1 of l->thread
  MaxDepth               \* bound on the recursive acquisitions of one thread

ASSUME ThreadsFinite == IsFiniteSet(Threads)
ASSUME NoThreadFresh == NoThread \notin Threads
ASSUME MaxDepthNat   == MaxDepth \in Nat

VARIABLES
  \* struct lock
  want_write, want_upgrade, waiting, read_count, thread, recursion_depth,
  \* where each thread is, and which ones are asleep on the lock
  pc, asleep,
  \* what the callers have been granted: the base hold of each thread, and
  \* the read holds the recursive thread has taken on top of it
  hold, rec_reads

lockFields == <<want_write, want_upgrade, waiting, read_count, thread,
                recursion_depth>>
vars == <<lockFields, pc, asleep, hold, rec_reads>>

Places == {"run", "want_write", "drain", "read", "upgrade"}
Holds  == {"none", "read", "write", "upgraded"}

TypeOK ==
  /\ want_write \in BOOLEAN
  /\ want_upgrade \in BOOLEAN
  /\ waiting \in BOOLEAN
  /\ read_count \in Nat
  /\ thread \in Threads \cup {NoThread}
  /\ recursion_depth \in 0..MaxDepth
  /\ pc \in [Threads -> Places]
  /\ asleep \subseteq Threads
  /\ hold \in [Threads -> Holds]
  /\ rec_reads \in 0..MaxDepth

Init ==
  /\ want_write = FALSE
  /\ want_upgrade = FALSE
  /\ waiting = FALSE
  /\ read_count = 0
  /\ thread = NoThread
  /\ recursion_depth = 0
  /\ pc = [t \in Threads |-> "run"]
  /\ asleep = {}
  /\ hold = [t \in Threads |-> "none"]
  /\ rec_reads = 0

-----------------------------------------------------------------------------
(* Sleeping on the lock (a sleeper has been granted nothing), returning to *)
(* the caller with a hold, and waking every sleeper.                       *)

\* mutant: the sleeper does not record that it waits
thread_sleep_unannounced(t, place) ==
  /\ asleep' = asleep \cup {t}
  /\ pc' = [pc EXCEPT ![t] = place]
  /\ hold' = [hold EXCEPT ![t] = "none"]
  /\ UNCHANGED waiting

thread_sleep(t, place) ==
  /\ waiting' = TRUE
  /\ asleep' = asleep \cup {t}
  /\ pc' = [pc EXCEPT ![t] = place]
  /\ hold' = [hold EXCEPT ![t] = "none"]

Granted(t, h) ==
  /\ pc' = [pc EXCEPT ![t] = "run"]
  /\ hold' = [hold EXCEPT ![t] = h]
  /\ UNCHANGED <<waiting, asleep>>

thread_wakeup ==
  /\ waiting' = FALSE
  /\ asleep' = IF waiting THEN {} ELSE asleep

\* t is running and is not inside the package
Running(t) == pc[t] = "run"

\* t has been awakened, or has yet to sleep, at the given loop
Resumes(t, place) == pc[t] = place /\ t \notin asleep

-----------------------------------------------------------------------------
(* lock_write.  The want_write bit is taken first and then the readers and *)
(* the upgrader drain.                                                     *)

\* mutant: the writer waits for the readers but not for the upgrader
drain_readers_only(t) ==
  \/ read_count # 0 /\ thread_sleep(t, "drain")
  \/ read_count = 0 /\ Granted(t, "write")

drain(t) ==
  \/ /\ read_count # 0 \/ want_upgrade
     /\ thread_sleep(t, "drain")
  \/ /\ read_count = 0 /\ ~want_upgrade
     /\ Granted(t, "write")

take_want_write(t) ==
  \/ /\ want_write
     /\ thread_sleep(t, "want_write")
     /\ UNCHANGED want_write
  \/ /\ ~want_write
     /\ want_write' = TRUE
     /\ drain(t)

lock_write(t) ==
  /\ Running(t) /\ hold[t] = "none"
  /\ take_want_write(t)
  /\ UNCHANGED <<want_upgrade, read_count, thread, recursion_depth, rec_reads>>

lock_write_resume(t) ==
  /\ \/ Resumes(t, "want_write") /\ take_want_write(t)
     \/ Resumes(t, "drain") /\ drain(t) /\ UNCHANGED want_write
  /\ UNCHANGED <<want_upgrade, read_count, thread, recursion_depth, rec_reads>>

\* The recursive holder is let through at once by every routine; only
\* the caller can know whether its base hold is still for writing.  The
\* one caller that downgrades it makes every copy before (the first pass of
\* vm_map_pageable, vm_map.c:1193), so that its faults only read the map.
MayWriteRecursively(t) ==
  /\ Running(t) /\ thread = t
  /\ hold[t] = "write"
  /\ recursion_depth < MaxDepth

lock_write_recursive(t) ==
  /\ MayWriteRecursively(t)
  /\ recursion_depth' = recursion_depth + 1
  /\ UNCHANGED <<want_write, want_upgrade, waiting, read_count, thread,
                 pc, asleep, hold, rec_reads>>

\* mutant: the upgrader, which has left the reader count, is overlooked
lock_try_write_past_upgrade(t) ==
  /\ Running(t) /\ hold[t] = "none"
  /\ ~want_write /\ read_count = 0
  /\ want_write' = TRUE
  /\ Granted(t, "write")
  /\ UNCHANGED <<want_upgrade, read_count, thread, recursion_depth, rec_reads>>

lock_try_write(t) ==
  /\ Running(t) /\ hold[t] = "none"
  /\ ~want_write /\ ~want_upgrade /\ read_count = 0
  /\ want_write' = TRUE
  /\ Granted(t, "write")
  /\ UNCHANGED <<want_upgrade, read_count, thread, recursion_depth, rec_reads>>

-----------------------------------------------------------------------------
(* lock_read.                                                              *)

\* mutant: readers join the readers that a writer waits for
take_read_barging(t) ==
  LET mayJoin == read_count # 0 /\ thread = NoThread
  IN  \/ /\ want_upgrade \/ (want_write /\ ~mayJoin)
         /\ thread_sleep(t, "read")
         /\ UNCHANGED read_count
      \/ /\ ~want_upgrade /\ (~want_write \/ mayJoin)
         /\ read_count' = read_count + 1
         /\ Granted(t, "read")

take_read(t) ==
  \/ /\ want_write \/ want_upgrade
     /\ thread_sleep(t, "read")
     /\ UNCHANGED read_count
  \/ /\ ~want_write /\ ~want_upgrade
     /\ read_count' = read_count + 1
     /\ Granted(t, "read")

lock_read(t) ==
  /\ Running(t) /\ hold[t] = "none"
  /\ take_read(t)
  /\ UNCHANGED <<want_write, want_upgrade, thread, recursion_depth, rec_reads>>

lock_read_resume(t) ==
  /\ Resumes(t, "read")
  /\ take_read(t)
  /\ UNCHANGED <<want_write, want_upgrade, thread, recursion_depth, rec_reads>>

lock_read_recursive(t) ==
  /\ Running(t) /\ thread = t /\ rec_reads < MaxDepth
  /\ read_count' = read_count + 1
  /\ rec_reads' = rec_reads + 1
  /\ UNCHANGED <<want_write, want_upgrade, waiting, thread, recursion_depth,
                 pc, asleep, hold>>

lock_try_read(t) ==
  /\ Running(t) /\ hold[t] = "none"
  /\ ~want_write /\ ~want_upgrade
  /\ read_count' = read_count + 1
  /\ Granted(t, "read")
  /\ UNCHANGED <<want_write, want_upgrade, thread, recursion_depth, rec_reads>>

-----------------------------------------------------------------------------
(* Upgrade.  A second upgrader loses its read hold and is told so; its     *)
(* departure may be what the first one waits for.                          *)

await_readers(t, readers) ==
  \/ readers # 0 /\ thread_sleep(t, "upgrade")
  \/ readers = 0 /\ Granted(t, "upgraded")

MayUpgrade(t) == Running(t) /\ hold[t] = "read" /\ thread # t

\* mutant: the upgrade that fails keeps its place in the reader count
lock_read_to_write_leak(t) ==
  /\ MayUpgrade(t)
  /\ \/ /\ ~want_upgrade
        /\ want_upgrade' = TRUE
        /\ read_count' = read_count - 1
        /\ await_readers(t, read_count - 1)
     \/ /\ want_upgrade
        /\ hold' = [hold EXCEPT ![t] = "none"]
        /\ thread_wakeup
        /\ UNCHANGED <<want_upgrade, read_count, pc>>
  /\ UNCHANGED <<want_write, thread, recursion_depth, rec_reads>>

lock_read_to_write(t) ==
  /\ MayUpgrade(t)
  /\ read_count' = read_count - 1
  /\ \/ /\ ~want_upgrade
        /\ want_upgrade' = TRUE
        /\ await_readers(t, read_count - 1)
     \/ /\ want_upgrade
        /\ hold' = [hold EXCEPT ![t] = "none"]
        /\ thread_wakeup
        /\ UNCHANGED <<want_upgrade, pc>>
  /\ UNCHANGED <<want_write, thread, recursion_depth, rec_reads>>

lock_read_to_write_resume(t) ==
  /\ Resumes(t, "upgrade")
  /\ await_readers(t, read_count)
  /\ UNCHANGED <<want_write, want_upgrade, read_count, thread,
                 recursion_depth, rec_reads>>

lock_read_to_write_recursive(t) ==
  /\ MayWriteRecursively(t) /\ rec_reads > 0
  /\ read_count' = read_count - 1
  /\ rec_reads' = rec_reads - 1
  /\ recursion_depth' = recursion_depth + 1
  /\ UNCHANGED <<want_write, want_upgrade, waiting, thread, pc, asleep, hold>>

\* The failing call keeps its read hold and changes nothing.
lock_try_read_to_write(t) ==
  /\ MayUpgrade(t)
  /\ ~want_upgrade
  /\ want_upgrade' = TRUE
  /\ read_count' = read_count - 1
  /\ await_readers(t, read_count - 1)
  /\ UNCHANGED <<want_write, thread, recursion_depth, rec_reads>>

-----------------------------------------------------------------------------
(* Release.  lock_done is not told what is being released and infers it    *)
(* from the fields, in this order.                                         *)

\* A caller releases what it was granted; the recursive thread first ends
\* the recursion (vm_map.c:1173, 1279) before it releases its base hold.
MayRelease(t) ==
  /\ Running(t)
  /\ IF thread = t THEN rec_reads > 0 \/ recursion_depth > 0
                   ELSE hold[t] # "none"

\* what the caller gives up: one recursive hold, or its base hold
DropReadHold(t) ==
  IF thread = t /\ rec_reads > 0
  THEN rec_reads' = rec_reads - 1 /\ UNCHANGED hold
  ELSE hold' = [hold EXCEPT ![t] = "none"] /\ UNCHANGED rec_reads

lock_done(t) ==
  /\ MayRelease(t)
  /\ \/ /\ read_count # 0
        /\ read_count' = read_count - 1
        /\ DropReadHold(t)
        /\ UNCHANGED <<recursion_depth, want_upgrade, want_write>>
     \/ /\ read_count = 0 /\ recursion_depth # 0
        /\ recursion_depth' = recursion_depth - 1
        /\ UNCHANGED <<read_count, want_upgrade, want_write, hold, rec_reads>>
     \/ /\ read_count = 0 /\ recursion_depth = 0
        /\ want_upgrade' = FALSE
        /\ want_write' = (want_write /\ want_upgrade)
        /\ hold' = [hold EXCEPT ![t] = "none"]
        /\ UNCHANGED <<read_count, recursion_depth, rec_reads>>
  /\ thread_wakeup
  /\ UNCHANGED <<thread, pc>>

lock_write_to_read(t) ==
  /\ Running(t)
  /\ read_count' = read_count + 1
  /\ \/ /\ recursion_depth # 0 /\ thread = t /\ rec_reads < MaxDepth
        /\ recursion_depth' = recursion_depth - 1
        /\ rec_reads' = rec_reads + 1
        /\ UNCHANGED <<want_upgrade, want_write, hold>>
     \/ /\ recursion_depth = 0 /\ hold[t] \in {"write", "upgraded"}
        /\ want_upgrade' = FALSE
        /\ want_write' = (want_write /\ want_upgrade)
        /\ hold' = [hold EXCEPT ![t] = "read"]
        /\ UNCHANGED <<recursion_depth, rec_reads>>
  /\ thread_wakeup
  /\ UNCHANGED <<thread, pc>>

-----------------------------------------------------------------------------
(* Recursion is switched on by a thread that holds the lock for writing    *)
(* and off by the same thread; lock_clear_recursive has no effect while a  *)
(* recursive write hold remains.                                           *)

lock_set_recursive(t) ==
  /\ Running(t) /\ hold[t] = "write" /\ thread # t
  /\ thread' = t
  /\ UNCHANGED <<want_write, want_upgrade, waiting, read_count,
                 recursion_depth, pc, asleep, hold, rec_reads>>

lock_clear_recursive(t) ==
  /\ Running(t) /\ thread = t /\ rec_reads = 0
  /\ recursion_depth = 0
  /\ thread' = NoThread
  /\ UNCHANGED <<want_write, want_upgrade, waiting, read_count,
                 recursion_depth, pc, asleep, hold, rec_reads>>

-----------------------------------------------------------------------------
Resume(t) == \/ lock_write_resume(t)
             \/ lock_read_resume(t)
             \/ lock_read_to_write_resume(t)

Next ==
  \E t \in Threads :
    \/ lock_write(t) \/ lock_write_recursive(t) \/ lock_try_write(t)
    \/ lock_read(t) \/ lock_read_recursive(t) \/ lock_try_read(t)
    \/ lock_read_to_write(t) \/ lock_read_to_write_recursive(t)
    \/ lock_try_read_to_write(t)
    \/ lock_done(t) \/ lock_write_to_read(t)
    \/ lock_set_recursive(t) \/ lock_clear_recursive(t)
    \/ Resume(t)

Spec == Init /\ [][Next]_vars

\* The scheduler runs every runnable process, a thread that holds the lock
\* releases it, and no thread stays in the recursive section for ever,
\* however many recursive holds it takes and releases there.
Fairness ==
  \A t \in Threads : /\ WF_vars(Resume(t))
                     /\ SF_vars(lock_done(t))
                     /\ []<>(thread # t)

FairSpec == Spec /\ Fairness

-----------------------------------------------------------------------------
\* t has been told that it may write
MayWrite(t) == hold[t] \in {"write", "upgraded"}
               \/ (thread = t /\ recursion_depth > 0)

\* t has been told that it may at least read
MayRead(t) == hold[t] # "none" \/ (thread = t /\ rec_reads > 0)

\* No thread holds the lock in any mode while another one may write: the
\* bits that lock_write, lock_read and the upgrade test are set and cleared
\* in an order that keeps readers, the writer and the upgrader apart,
\* although lock_done has to guess which kind of hold it releases.
MutualExclusion ==
  \A t, u \in Threads : t # u /\ MayWrite(t) => ~MayWrite(u) /\ ~MayRead(u)

\* the threads whose base hold is for reading
ReadersOf(h) == {t \in Threads : h[t] = "read"}

\* The reader count is exactly what the callers hold, across upgrades that
\* fail, downgrades and recursive holds: lock_done never decrements it for
\* a write hold and never leaves it behind.
ReadCountExact ==
  read_count = Cardinality(ReadersOf(hold)) + rec_reads

\* Nobody sleeps on the lock unless some other thread holds it, or is
\* runnable inside the package, and the waiting flag is set so that the
\* next release wakes the sleepers: no wakeup is lost.
NoLostWakeup ==
  asleep # {} =>
    /\ waiting
    /\ \E t \in Threads \ asleep : MayRead(t) \/ pc[t] # "run"

\* A thread that owns want_write or want_upgrade gets the lock: later
\* readers and writers wait for it, and every release wakes it.
OwnerAcquires ==
  \A t \in Threads : /\ pc[t] = "drain" ~> hold[t] = "write"
                     /\ pc[t] = "upgrade" ~> hold[t] = "upgraded"

\* The mode a thread holds the lock in.  A thread that waits for its upgrade
\* to be granted is still a reader in the eyes of its caller: it must find
\* what it protects as it left it.
Mode(t) == IF MayWrite(t) THEN "exclusive"
           ELSE IF MayRead(t) \/ pc[t] = "upgrade" THEN "shared"
           ELSE "none"

RW == INSTANCE RWLock WITH mode <- [t \in Threads |-> Mode(t)]

\* The lock implements a readers/writer lock whose upgrade is atomic: no
\* writer gets in while lock_read_to_write waits for the other readers,
\* although the reader count no longer includes the upgrader.
ImplementsRWLock == RW!Spec

-----------------------------------------------------------------------------
(* The inductive invariant behind the safety properties.                   *)

\* want_write and want_upgrade each have exactly one owner while set
OwnsWrite(t)   == pc[t] = "drain" \/ hold[t] = "write"
OwnsUpgrade(t) == pc[t] = "upgrade" \/ hold[t] = "upgraded"

WriteOwned ==
  /\ want_write <=> \E t \in Threads : OwnsWrite(t)
  /\ \A t, u \in Threads : OwnsWrite(t) /\ OwnsWrite(u) => t = u

UpgradeOwned ==
  /\ want_upgrade <=> \E t \in Threads : OwnsUpgrade(t)
  /\ \A t, u \in Threads : OwnsUpgrade(t) /\ OwnsUpgrade(u) => t = u

\* a thread inside the package has been granted nothing, and an exclusive
\* holder is alone; no upgrade is under way against a writer
Exclusion ==
  /\ \A t \in Threads : pc[t] # "run" => hold[t] = "none"
  /\ \A t, u \in Threads :
       t # u /\ hold[t] \in {"write", "upgraded"} => hold[u] = "none"
  /\ \A t, u \in Threads : hold[t] = "write" => ~OwnsUpgrade(u)

\* recursive holds stand on the base hold of the recursive thread
RecursionOwned ==
  /\ thread = NoThread => rec_reads = 0 /\ recursion_depth = 0
  /\ thread # NoThread => hold[thread] \in {"read", "write"}
  /\ recursion_depth > 0 => hold[thread] = "write"

\* what each sleeper waits for has not happened yet
Blocked(t) ==
  /\ pc[t] # "run"
  /\ pc[t] = "want_write" => want_write
  /\ pc[t] = "drain" => read_count # 0 \/ want_upgrade
  /\ pc[t] = "read" => want_write \/ want_upgrade
  /\ pc[t] = "upgrade" => read_count # 0

SleepersBlocked ==
  /\ asleep # {} => waiting
  /\ \A t \in asleep : Blocked(t)

IInv == /\ TypeOK /\ WriteOwned /\ UpgradeOwned /\ Exclusion
        /\ RecursionOwned /\ SleepersBlocked /\ ReadCountExact
=============================================================================
