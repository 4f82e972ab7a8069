--------------------------- MODULE KernLockProofs ---------------------------
(***************************************************************************)
(* Proofs about the sleep lock, for any finite set of threads and any      *)
(* depth of recursion, under the discipline the kernel's callers keep: a   *)
(* thread that has downgraded its base hold asks for no recursive write.   *)
(***************************************************************************)
EXTENDS KernLock, FiniteSetTheorems, TLAPS

(* Counting the readers.                                                   *)

\* The readers are finitely many, and none are counted when there are none.
LEMMA ReadersFinite ==
  ASSUME NEW h
  PROVE  /\ IsFiniteSet(ReadersOf(h))
         /\ Cardinality(ReadersOf(h)) \in Nat
         /\ Cardinality(ReadersOf(h)) = 0 <=> ReadersOf(h) = {}
<1>1. IsFiniteSet(ReadersOf(h))
  BY ThreadsFinite, FS_Subset DEF ReadersOf
<1>2. QED
  BY <1>1, FS_CardinalityType, FS_EmptySet

\* Granting a read hold adds one to the number of readers.
LEMMA ReaderGained ==
  ASSUME NEW h \in [Threads -> Holds], NEW t \in Threads, h[t] # "read"
  PROVE  Cardinality(ReadersOf([h EXCEPT ![t] = "read"]))
           = Cardinality(ReadersOf(h)) + 1
<1>1. ReadersOf([h EXCEPT ![t] = "read"]) = ReadersOf(h) \cup {t}
  BY DEF ReadersOf
<1>2. t \notin ReadersOf(h)
  BY DEF ReadersOf
<1>3. QED
  BY <1>1, <1>2, ReadersFinite, FS_AddElement

\* Giving a read hold up, for whatever else, subtracts one.
LEMMA ReaderLost ==
  ASSUME NEW h \in [Threads -> Holds], NEW t \in Threads, h[t] = "read",
         NEW g, g # "read"
  PROVE  Cardinality(ReadersOf([h EXCEPT ![t] = g]))
           = Cardinality(ReadersOf(h)) - 1
<1>1. ReadersOf([h EXCEPT ![t] = g]) = ReadersOf(h) \ {t}
  BY DEF ReadersOf
<1>2. t \in ReadersOf(h)
  BY DEF ReadersOf
<1>3. QED
  BY <1>1, <1>2, ReadersFinite, FS_RemoveElement

\* A change between two holds that are not for reading changes no count.
LEMMA ReaderKept ==
  ASSUME NEW h \in [Threads -> Holds], NEW t \in Threads, h[t] # "read",
         NEW g, g # "read"
  PROVE  ReadersOf([h EXCEPT ![t] = g]) = ReadersOf(h)
BY DEF ReadersOf

\* Somebody holds the lock for reading when the count is positive; two
\* readers count for two; an exclusive holder leaves only recursive reads.
ReaderFacts ==
  /\ read_count >= rec_reads
  /\ read_count # 0 => (\E t \in Threads : hold[t] = "read") \/ rec_reads > 0
  /\ \A t \in Threads : hold[t] = "read" => read_count > rec_reads
  /\ \A t, u \in Threads :
       t # u /\ hold[t] = "read" /\ hold[u] = "read" => read_count > 1
  /\ \A t \in Threads :
       hold[t] \in {"write", "upgraded"} => read_count = rec_reads

\* The facts about the count follow from its exactness.
LEMMA ReaderExists ==
  ASSUME IInv
  PROVE  ReaderFacts
<1>1. /\ Cardinality(ReadersOf(hold)) \in Nat
      /\ Cardinality(ReadersOf(hold)) = 0 <=> ReadersOf(hold) = {}
  BY ReadersFinite
<1>2. /\ read_count = Cardinality(ReadersOf(hold)) + rec_reads
      /\ rec_reads \in Nat /\ read_count \in Nat
      /\ hold \in [Threads -> Holds]
  BY MaxDepthNat DEF IInv, TypeOK, ReadCountExact
<1>3. /\ read_count >= rec_reads
      /\ read_count # 0 => ReadersOf(hold) # {} \/ rec_reads > 0
      /\ ReadersOf(hold) # {} => read_count > rec_reads
      /\ ReadersOf(hold) = {} => read_count = rec_reads
  BY <1>1, <1>2
<1>4. ASSUME NEW t \in Threads, NEW u \in Threads,
             t # u, hold[t] = "read", hold[u] = "read"
      PROVE  read_count > 1
  <2> DEFINE others == ReadersOf([hold EXCEPT ![t] = "none"])
  <2>1. Cardinality(others) = Cardinality(ReadersOf(hold)) - 1
    BY <1>2, <1>4, ReaderLost
  <2>2. u \in others
    BY <1>2, <1>4 DEF ReadersOf
  <2>3. Cardinality(others) \in Nat /\ Cardinality(others) # 0
    BY <2>2, ReadersFinite
  <2>4. QED
    BY <2>1, <2>3, <1>1, <1>2
<1>5. ASSUME NEW t \in Threads, hold[t] \in {"write", "upgraded"}
      PROVE  ReadersOf(hold) = {}
  BY <1>5 DEF IInv, Exclusion, ReadersOf
<1>6. QED
  BY <1>3, <1>4, <1>5 DEF ReadersOf, ReaderFacts

-----------------------------------------------------------------------------
(* Preservation of the inductive invariant, one lemma per routine.         *)

\* lock_write keeps the invariant.
LEMMA LockWrite ==
  ASSUME IInv, NEW t \in Threads, lock_write(t)
  PROVE  IInv'
<1>0. ReaderFacts
  BY ReaderExists
<1>1. ReadCountExact'
  <2>1. /\ hold[t] # "read"
        /\ \/ hold' = [hold EXCEPT ![t] = "none"]
           \/ hold' = [hold EXCEPT ![t] = "write"]
        /\ UNCHANGED <<read_count, rec_reads>>
    BY DEF IInv, TypeOK, lock_write, take_want_write, drain, thread_sleep, Granted, Running
  <2>2. ReadersOf(hold') = ReadersOf(hold)
    BY <2>1, ReaderKept DEF IInv, TypeOK
  <2>3. QED
    BY <2>1, <2>2 DEF IInv, ReadCountExact
<1> USE MaxDepthNat, NoThreadFresh DEF IInv, TypeOK, ReaderFacts, Holds, Places,
     lock_write, take_want_write, drain, thread_sleep,
     Granted, Running
<1>2. TypeOK'
  <2>1. /\ read_count' \in Nat
        /\ recursion_depth' \in 0..MaxDepth /\ rec_reads' \in 0..MaxDepth
    BY <1>0 DEF ReadCountExact
  <2>2. QED
    BY <2>1
<1>3. WriteOwned'
  BY <1>0 DEF WriteOwned, OwnsWrite, Exclusion, RecursionOwned
<1>4. UpgradeOwned'
  BY <1>0 DEF UpgradeOwned, OwnsUpgrade, Exclusion
<1>5. Exclusion'
  BY <1>0 DEF WriteOwned, UpgradeOwned, OwnsWrite, OwnsUpgrade, Exclusion
<1>6. RecursionOwned'
  BY <1>0 DEF RecursionOwned, Exclusion, ReadCountExact
<1>7. SleepersBlocked'
  BY <1>0 DEF SleepersBlocked, Blocked, WriteOwned, UpgradeOwned, OwnsWrite,
              OwnsUpgrade, Exclusion
<1>8. QED
  BY <1>1, <1>2, <1>3, <1>4, <1>5, <1>6, <1>7

\* lock_write_resume keeps the invariant.
LEMMA LockWriteResume ==
  ASSUME IInv, NEW t \in Threads, lock_write_resume(t)
  PROVE  IInv'
<1>0. ReaderFacts
  BY ReaderExists
<1>1. ReadCountExact'
  <2>1. /\ hold[t] # "read"
        /\ \/ hold' = [hold EXCEPT ![t] = "none"]
           \/ hold' = [hold EXCEPT ![t] = "write"]
        /\ UNCHANGED <<read_count, rec_reads>>
    BY DEF IInv, TypeOK, Exclusion, lock_write_resume, take_want_write, drain,
       thread_sleep, Granted, Resumes
  <2>2. ReadersOf(hold') = ReadersOf(hold)
    BY <2>1, ReaderKept DEF IInv, TypeOK
  <2>3. QED
    BY <2>1, <2>2 DEF IInv, ReadCountExact
<1> USE MaxDepthNat, NoThreadFresh DEF IInv, TypeOK, ReaderFacts, Holds, Places,
     lock_write_resume, take_want_write, drain,
     thread_sleep, Granted, Resumes
<1>2. TypeOK'
  <2>1. /\ read_count' \in Nat
        /\ recursion_depth' \in 0..MaxDepth /\ rec_reads' \in 0..MaxDepth
    BY <1>0 DEF ReadCountExact
  <2>2. QED
    BY <2>1
<1>3. WriteOwned'
  BY <1>0 DEF WriteOwned, OwnsWrite, Exclusion, RecursionOwned
<1>4. UpgradeOwned'
  BY <1>0 DEF UpgradeOwned, OwnsUpgrade, Exclusion
<1>5. Exclusion'
  BY <1>0 DEF WriteOwned, UpgradeOwned, OwnsWrite, OwnsUpgrade, Exclusion
<1>6. RecursionOwned'
  BY <1>0 DEF RecursionOwned, Exclusion, ReadCountExact
<1>7. SleepersBlocked'
  BY <1>0 DEF SleepersBlocked, Blocked, WriteOwned, UpgradeOwned, OwnsWrite,
              OwnsUpgrade, Exclusion
<1>8. QED
  BY <1>1, <1>2, <1>3, <1>4, <1>5, <1>6, <1>7

\* lock_write_recursive keeps the invariant.
LEMMA LockWriteRecursive ==
  ASSUME IInv, NEW t \in Threads, lock_write_recursive(t)
  PROVE  IInv'
<1>0. ReaderFacts
  BY ReaderExists
<1>1. ReadCountExact'
  BY MaxDepthNat
  DEF IInv, TypeOK, ReadCountExact,
     lock_write_recursive, MayWriteRecursively,
     Running
<1> USE MaxDepthNat, NoThreadFresh DEF IInv, TypeOK, ReaderFacts, Holds, Places,
     lock_write_recursive, MayWriteRecursively,
     Running
<1>2. TypeOK'
  <2>1. /\ read_count' \in Nat
        /\ recursion_depth' \in 0..MaxDepth /\ rec_reads' \in 0..MaxDepth
    BY <1>0 DEF ReadCountExact
  <2>2. QED
    BY <2>1
<1>3. WriteOwned'
  BY <1>0 DEF WriteOwned, OwnsWrite, Exclusion, RecursionOwned
<1>4. UpgradeOwned'
  BY <1>0 DEF UpgradeOwned, OwnsUpgrade, Exclusion
<1>5. Exclusion'
  BY <1>0 DEF WriteOwned, UpgradeOwned, OwnsWrite, OwnsUpgrade, Exclusion
<1>6. RecursionOwned'
  BY <1>0 DEF RecursionOwned, Exclusion, ReadCountExact
<1>7. SleepersBlocked'
  BY <1>0 DEF SleepersBlocked, Blocked, WriteOwned, UpgradeOwned, OwnsWrite,
              OwnsUpgrade, Exclusion
<1>8. QED
  BY <1>1, <1>2, <1>3, <1>4, <1>5, <1>6, <1>7

\* lock_try_write keeps the invariant.
LEMMA LockTryWrite ==
  ASSUME IInv, NEW t \in Threads, lock_try_write(t)
  PROVE  IInv'
<1>0. ReaderFacts
  BY ReaderExists
<1>1. ReadCountExact'
  <2>1. /\ hold[t] # "read"
        /\ \/ hold' = [hold EXCEPT ![t] = "none"]
           \/ hold' = [hold EXCEPT ![t] = "write"]
        /\ UNCHANGED <<read_count, rec_reads>>
    BY DEF IInv, TypeOK, lock_try_write, Granted, Running
  <2>2. ReadersOf(hold') = ReadersOf(hold)
    BY <2>1, ReaderKept DEF IInv, TypeOK
  <2>3. QED
    BY <2>1, <2>2 DEF IInv, ReadCountExact
<1> USE MaxDepthNat, NoThreadFresh DEF IInv, TypeOK, ReaderFacts, Holds, Places,
     lock_try_write, Granted, Running
<1>2. TypeOK'
  <2>1. /\ read_count' \in Nat
        /\ recursion_depth' \in 0..MaxDepth /\ rec_reads' \in 0..MaxDepth
    BY <1>0 DEF ReadCountExact
  <2>2. QED
    BY <2>1
<1>3. WriteOwned'
  BY <1>0 DEF WriteOwned, OwnsWrite, Exclusion, RecursionOwned
<1>4. UpgradeOwned'
  BY <1>0 DEF UpgradeOwned, OwnsUpgrade, Exclusion
<1>5. Exclusion'
  BY <1>0 DEF WriteOwned, UpgradeOwned, OwnsWrite, OwnsUpgrade, Exclusion
<1>6. RecursionOwned'
  BY <1>0 DEF RecursionOwned, Exclusion, ReadCountExact
<1>7. SleepersBlocked'
  BY <1>0 DEF SleepersBlocked, Blocked, WriteOwned, UpgradeOwned, OwnsWrite,
              OwnsUpgrade, Exclusion
<1>8. QED
  BY <1>1, <1>2, <1>3, <1>4, <1>5, <1>6, <1>7

\* lock_read keeps the invariant.
LEMMA LockRead ==
  ASSUME IInv, NEW t \in Threads, lock_read(t)
  PROVE  IInv'
<1>0. ReaderFacts
  BY ReaderExists
<1>1. ReadCountExact'
  BY ReaderKept, ReaderGained, ReadersFinite, MaxDepthNat
  DEF IInv, TypeOK, ReadCountExact,
     lock_read, take_read, thread_sleep, Granted, Running
<1> USE MaxDepthNat, NoThreadFresh DEF IInv, TypeOK, ReaderFacts, Holds, Places,
     lock_read, take_read, thread_sleep, Granted, Running
<1>2. TypeOK'
  <2>1. /\ read_count' \in Nat
        /\ recursion_depth' \in 0..MaxDepth /\ rec_reads' \in 0..MaxDepth
    BY <1>0 DEF ReadCountExact
  <2>2. QED
    BY <2>1
<1>3. WriteOwned'
  BY <1>0 DEF WriteOwned, OwnsWrite, Exclusion, RecursionOwned
<1>4. UpgradeOwned'
  BY <1>0 DEF UpgradeOwned, OwnsUpgrade, Exclusion
<1>5. Exclusion'
  BY <1>0 DEF WriteOwned, UpgradeOwned, OwnsWrite, OwnsUpgrade, Exclusion
<1>6. RecursionOwned'
  BY <1>0 DEF RecursionOwned, Exclusion, ReadCountExact
<1>7. SleepersBlocked'
  BY <1>0 DEF SleepersBlocked, Blocked, WriteOwned, UpgradeOwned, OwnsWrite,
              OwnsUpgrade, Exclusion
<1>8. QED
  BY <1>1, <1>2, <1>3, <1>4, <1>5, <1>6, <1>7

\* lock_read_resume keeps the invariant.
LEMMA LockReadResume ==
  ASSUME IInv, NEW t \in Threads, lock_read_resume(t)
  PROVE  IInv'
<1>0. ReaderFacts
  BY ReaderExists
<1>1. ReadCountExact'
  BY ReaderKept, ReaderGained, ReadersFinite, MaxDepthNat
  DEF IInv, TypeOK, ReadCountExact, Exclusion,
     lock_read_resume, take_read, thread_sleep,
     Granted, Resumes
<1> USE MaxDepthNat, NoThreadFresh DEF IInv, TypeOK, ReaderFacts, Holds, Places,
     lock_read_resume, take_read, thread_sleep,
     Granted, Resumes
<1>2. TypeOK'
  <2>1. /\ read_count' \in Nat
        /\ recursion_depth' \in 0..MaxDepth /\ rec_reads' \in 0..MaxDepth
    BY <1>0 DEF ReadCountExact
  <2>2. QED
    BY <2>1
<1>3. WriteOwned'
  BY <1>0 DEF WriteOwned, OwnsWrite, Exclusion, RecursionOwned
<1>4. UpgradeOwned'
  BY <1>0 DEF UpgradeOwned, OwnsUpgrade, Exclusion
<1>5. Exclusion'
  BY <1>0 DEF WriteOwned, UpgradeOwned, OwnsWrite, OwnsUpgrade, Exclusion
<1>6. RecursionOwned'
  BY <1>0 DEF RecursionOwned, Exclusion, ReadCountExact
<1>7. SleepersBlocked'
  BY <1>0 DEF SleepersBlocked, Blocked, WriteOwned, UpgradeOwned, OwnsWrite,
              OwnsUpgrade, Exclusion
<1>8. QED
  BY <1>1, <1>2, <1>3, <1>4, <1>5, <1>6, <1>7

\* lock_read_recursive keeps the invariant.
LEMMA LockReadRecursive ==
  ASSUME IInv, NEW t \in Threads, lock_read_recursive(t)
  PROVE  IInv'
<1>0. ReaderFacts
  BY ReaderExists
<1>1. ReadCountExact'
  BY ReadersFinite, MaxDepthNat
  DEF IInv, TypeOK, ReadCountExact,
     lock_read_recursive, Running
<1> USE MaxDepthNat, NoThreadFresh DEF IInv, TypeOK, ReaderFacts, Holds, Places,
     lock_read_recursive, Running
<1>2. TypeOK'
  <2>1. /\ read_count' \in Nat
        /\ recursion_depth' \in 0..MaxDepth /\ rec_reads' \in 0..MaxDepth
    BY <1>0 DEF ReadCountExact
  <2>2. QED
    BY <2>1
<1>3. WriteOwned'
  BY <1>0 DEF WriteOwned, OwnsWrite, Exclusion, RecursionOwned
<1>4. UpgradeOwned'
  BY <1>0 DEF UpgradeOwned, OwnsUpgrade, Exclusion
<1>5. Exclusion'
  BY <1>0 DEF WriteOwned, UpgradeOwned, OwnsWrite, OwnsUpgrade, Exclusion
<1>6. RecursionOwned'
  BY <1>0 DEF RecursionOwned, Exclusion, ReadCountExact
<1>7. SleepersBlocked'
  BY <1>0 DEF SleepersBlocked, Blocked, WriteOwned, UpgradeOwned, OwnsWrite,
              OwnsUpgrade, Exclusion
<1>8. QED
  BY <1>1, <1>2, <1>3, <1>4, <1>5, <1>6, <1>7

\* lock_try_read keeps the invariant.
LEMMA LockTryRead ==
  ASSUME IInv, NEW t \in Threads, lock_try_read(t)
  PROVE  IInv'
<1>0. ReaderFacts
  BY ReaderExists
<1>1. ReadCountExact'
  <2>1. /\ hold[t] # "read" /\ hold' = [hold EXCEPT ![t] = "read"]
        /\ read_count' = read_count + 1 /\ UNCHANGED rec_reads
    BY DEF IInv, TypeOK, lock_try_read, Granted, Running
  <2>2. Cardinality(ReadersOf(hold')) = Cardinality(ReadersOf(hold)) + 1
    BY <2>1, ReaderGained DEF IInv, TypeOK
  <2>3. QED
    BY <2>1, <2>2, ReadersFinite, MaxDepthNat DEF IInv, TypeOK, ReadCountExact
<1> USE MaxDepthNat, NoThreadFresh DEF IInv, TypeOK, ReaderFacts, Holds, Places,
     lock_try_read, Granted, Running
<1>2. TypeOK'
  <2>1. /\ read_count' \in Nat
        /\ recursion_depth' \in 0..MaxDepth /\ rec_reads' \in 0..MaxDepth
    BY <1>0 DEF ReadCountExact
  <2>2. QED
    BY <2>1
<1>3. WriteOwned'
  BY <1>0 DEF WriteOwned, OwnsWrite, Exclusion, RecursionOwned
<1>4. UpgradeOwned'
  BY <1>0 DEF UpgradeOwned, OwnsUpgrade, Exclusion
<1>5. Exclusion'
  BY <1>0 DEF WriteOwned, UpgradeOwned, OwnsWrite, OwnsUpgrade, Exclusion
<1>6. RecursionOwned'
  BY <1>0 DEF RecursionOwned, Exclusion, ReadCountExact
<1>7. SleepersBlocked'
  BY <1>0 DEF SleepersBlocked, Blocked, WriteOwned, UpgradeOwned, OwnsWrite,
              OwnsUpgrade, Exclusion
<1>8. QED
  BY <1>1, <1>2, <1>3, <1>4, <1>5, <1>6, <1>7

\* lock_read_to_write keeps the invariant.
LEMMA LockReadToWrite ==
  ASSUME IInv, NEW t \in Threads, lock_read_to_write(t)
  PROVE  IInv'
<1>0. ReaderFacts
  BY ReaderExists
<1>1. ReadCountExact'
  <2>1. /\ hold[t] = "read"
        /\ \/ hold' = [hold EXCEPT ![t] = "none"]
           \/ hold' = [hold EXCEPT ![t] = "upgraded"]
        /\ read_count' = read_count - 1 /\ UNCHANGED rec_reads
    BY DEF lock_read_to_write, MayUpgrade, await_readers, thread_sleep, thread_wakeup,
       Granted, Running
  <2>2. Cardinality(ReadersOf(hold')) = Cardinality(ReadersOf(hold)) - 1
    BY <2>1, ReaderLost DEF IInv, TypeOK
  <2>3. QED
    BY <2>1, <2>2, ReadersFinite, MaxDepthNat DEF IInv, TypeOK, ReadCountExact
<1> USE MaxDepthNat, NoThreadFresh DEF IInv, TypeOK, ReaderFacts, Holds, Places,
     lock_read_to_write, MayUpgrade, await_readers,
     thread_sleep, thread_wakeup, Granted, Running
<1>2. TypeOK'
  <2>1. /\ read_count' \in Nat
        /\ recursion_depth' \in 0..MaxDepth /\ rec_reads' \in 0..MaxDepth
    BY <1>0 DEF ReadCountExact
  <2>2. QED
    BY <2>1
<1>3. WriteOwned'
  BY <1>0 DEF WriteOwned, OwnsWrite, Exclusion, RecursionOwned
<1>4. UpgradeOwned'
  BY <1>0 DEF UpgradeOwned, OwnsUpgrade, Exclusion
<1>5. Exclusion'
  BY <1>0 DEF WriteOwned, UpgradeOwned, OwnsWrite, OwnsUpgrade, Exclusion
<1>6. RecursionOwned'
  BY <1>0 DEF RecursionOwned, Exclusion, ReadCountExact
<1>7. SleepersBlocked'
  BY <1>0 DEF SleepersBlocked, Blocked, WriteOwned, UpgradeOwned, OwnsWrite,
              OwnsUpgrade, Exclusion
<1>8. QED
  BY <1>1, <1>2, <1>3, <1>4, <1>5, <1>6, <1>7

\* lock_read_to_write_resume keeps the invariant.
LEMMA LockReadToWriteResume ==
  ASSUME IInv, NEW t \in Threads, lock_read_to_write_resume(t)
  PROVE  IInv'
<1>0. ReaderFacts
  BY ReaderExists
<1>1. ReadCountExact'
  <2>1. /\ hold[t] # "read"
        /\ \/ hold' = [hold EXCEPT ![t] = "none"]
           \/ hold' = [hold EXCEPT ![t] = "upgraded"]
        /\ UNCHANGED <<read_count, rec_reads>>
    BY DEF IInv, TypeOK, Exclusion, lock_read_to_write_resume, await_readers,
       thread_sleep, Granted, Resumes
  <2>2. ReadersOf(hold') = ReadersOf(hold)
    BY <2>1, ReaderKept DEF IInv, TypeOK
  <2>3. QED
    BY <2>1, <2>2 DEF IInv, ReadCountExact
<1> USE MaxDepthNat, NoThreadFresh DEF IInv, TypeOK, ReaderFacts, Holds, Places,
     lock_read_to_write_resume, await_readers,
     thread_sleep, Granted, Resumes
<1>2. TypeOK'
  <2>1. /\ read_count' \in Nat
        /\ recursion_depth' \in 0..MaxDepth /\ rec_reads' \in 0..MaxDepth
    BY <1>0 DEF ReadCountExact
  <2>2. QED
    BY <2>1
<1>3. WriteOwned'
  BY <1>0 DEF WriteOwned, OwnsWrite, Exclusion, RecursionOwned
<1>4. UpgradeOwned'
  BY <1>0 DEF UpgradeOwned, OwnsUpgrade, Exclusion
<1>5. Exclusion'
  BY <1>0 DEF WriteOwned, UpgradeOwned, OwnsWrite, OwnsUpgrade, Exclusion
<1>6. RecursionOwned'
  BY <1>0 DEF RecursionOwned, Exclusion, ReadCountExact
<1>7. SleepersBlocked'
  BY <1>0 DEF SleepersBlocked, Blocked, WriteOwned, UpgradeOwned, OwnsWrite,
              OwnsUpgrade, Exclusion
<1>8. QED
  BY <1>1, <1>2, <1>3, <1>4, <1>5, <1>6, <1>7

\* lock_read_to_write_recursive keeps the invariant.
LEMMA LockReadToWriteRecursive ==
  ASSUME IInv, NEW t \in Threads, lock_read_to_write_recursive(t)
  PROVE  IInv'
<1>0. ReaderFacts
  BY ReaderExists
<1>1. ReadCountExact'
  BY ReadersFinite, MaxDepthNat
  DEF IInv, TypeOK, ReadCountExact,
     lock_read_to_write_recursive,
     MayWriteRecursively, Running
<1> USE MaxDepthNat, NoThreadFresh DEF IInv, TypeOK, ReaderFacts, Holds, Places,
     lock_read_to_write_recursive,
     MayWriteRecursively, Running
<1>2. TypeOK'
  <2>1. /\ read_count' \in Nat
        /\ recursion_depth' \in 0..MaxDepth /\ rec_reads' \in 0..MaxDepth
    BY <1>0 DEF ReadCountExact
  <2>2. QED
    BY <2>1
<1>3. WriteOwned'
  BY <1>0 DEF WriteOwned, OwnsWrite, Exclusion, RecursionOwned
<1>4. UpgradeOwned'
  BY <1>0 DEF UpgradeOwned, OwnsUpgrade, Exclusion
<1>5. Exclusion'
  BY <1>0 DEF WriteOwned, UpgradeOwned, OwnsWrite, OwnsUpgrade, Exclusion
<1>6. RecursionOwned'
  BY <1>0 DEF RecursionOwned, Exclusion, ReadCountExact
<1>7. SleepersBlocked'
  BY <1>0 DEF SleepersBlocked, Blocked, WriteOwned, UpgradeOwned, OwnsWrite,
              OwnsUpgrade, Exclusion
<1>8. QED
  BY <1>1, <1>2, <1>3, <1>4, <1>5, <1>6, <1>7

\* lock_try_read_to_write keeps the invariant.
LEMMA LockTryReadToWrite ==
  ASSUME IInv, NEW t \in Threads, lock_try_read_to_write(t)
  PROVE  IInv'
<1>0. ReaderFacts
  BY ReaderExists
<1>1. ReadCountExact'
  <2>1. /\ hold[t] = "read"
        /\ \/ hold' = [hold EXCEPT ![t] = "none"]
           \/ hold' = [hold EXCEPT ![t] = "upgraded"]
        /\ read_count' = read_count - 1 /\ UNCHANGED rec_reads
    BY DEF lock_try_read_to_write, MayUpgrade, await_readers, thread_sleep, Granted, Running
  <2>2. Cardinality(ReadersOf(hold')) = Cardinality(ReadersOf(hold)) - 1
    BY <2>1, ReaderLost DEF IInv, TypeOK
  <2>3. QED
    BY <2>1, <2>2, ReadersFinite, MaxDepthNat DEF IInv, TypeOK, ReadCountExact
<1> USE MaxDepthNat, NoThreadFresh DEF IInv, TypeOK, ReaderFacts, Holds, Places,
     lock_try_read_to_write, MayUpgrade,
     await_readers, thread_sleep, Granted, Running
<1>2. TypeOK'
  <2>1. /\ read_count' \in Nat
        /\ recursion_depth' \in 0..MaxDepth /\ rec_reads' \in 0..MaxDepth
    BY <1>0 DEF ReadCountExact
  <2>2. QED
    BY <2>1
<1>3. WriteOwned'
  BY <1>0 DEF WriteOwned, OwnsWrite, Exclusion, RecursionOwned
<1>4. UpgradeOwned'
  BY <1>0 DEF UpgradeOwned, OwnsUpgrade, Exclusion
<1>5. Exclusion'
  BY <1>0 DEF WriteOwned, UpgradeOwned, OwnsWrite, OwnsUpgrade, Exclusion
<1>6. RecursionOwned'
  BY <1>0 DEF RecursionOwned, Exclusion, ReadCountExact
<1>7. SleepersBlocked'
  BY <1>0 DEF SleepersBlocked, Blocked, WriteOwned, UpgradeOwned, OwnsWrite,
              OwnsUpgrade, Exclusion
<1>8. QED
  BY <1>1, <1>2, <1>3, <1>4, <1>5, <1>6, <1>7

\* lock_done keeps the invariant.
LEMMA LockDone ==
  ASSUME IInv, NEW t \in Threads, lock_done(t)
  PROVE  IInv'
<1>0. ReaderFacts
  BY ReaderExists
\* what lock_done infers from the fields is what the caller holds
<1>1. /\ read_count # 0 =>
           \/ thread = t /\ rec_reads > 0
           \/ thread # t /\ hold[t] = "read"
      /\ read_count = 0 /\ recursion_depth = 0 =>
           /\ thread # t /\ rec_reads = 0
           /\ hold[t] \in {"write", "upgraded"}
  BY <1>0, MaxDepthNat, NoThreadFresh
  DEF IInv, TypeOK, ReaderFacts, Holds, lock_done, MayRelease, Running,
      Exclusion, RecursionOwned
<1>2. ReadCountExact'
  <2>1. CASE read_count # 0 /\ thread = t
    <3>1. /\ UNCHANGED hold
          /\ read_count' = read_count - 1 /\ rec_reads' = rec_reads - 1
      BY <1>1, <2>1 DEF lock_done, DropReadHold
    <3>2. QED
      BY <3>1, ReadersFinite, MaxDepthNat DEF IInv, TypeOK, ReadCountExact
  <2>2. CASE read_count # 0 /\ thread # t
    <3>1. /\ hold[t] = "read" /\ hold' = [hold EXCEPT ![t] = "none"]
          /\ read_count' = read_count - 1 /\ UNCHANGED rec_reads
      BY <1>1, <2>2 DEF lock_done, DropReadHold
    <3>2. Cardinality(ReadersOf(hold')) = Cardinality(ReadersOf(hold)) - 1
      BY <3>1, ReaderLost DEF IInv, TypeOK
    <3>3. QED
      BY <3>1, <3>2, ReadersFinite, MaxDepthNat
      DEF IInv, TypeOK, ReadCountExact
  <2>3. CASE read_count = 0 /\ recursion_depth # 0
    BY <2>3 DEF IInv, ReadCountExact, lock_done
  <2>4. CASE read_count = 0 /\ recursion_depth = 0
    <3>1. /\ hold[t] # "read" /\ hold' = [hold EXCEPT ![t] = "none"]
          /\ UNCHANGED <<read_count, rec_reads>>
      BY <1>1, <2>4 DEF lock_done
    <3>2. ReadersOf(hold') = ReadersOf(hold)
      BY <3>1, ReaderKept DEF IInv, TypeOK
    <3>3. QED
      BY <3>1, <3>2 DEF IInv, ReadCountExact
  <2>5. QED
    BY <2>1, <2>2, <2>3, <2>4
<1> USE MaxDepthNat, NoThreadFresh DEF IInv, TypeOK, Holds, Places,
     lock_done, DropReadHold, thread_wakeup
<1>3. TypeOK'
  <2>1. /\ read_count' \in Nat
        /\ recursion_depth' \in 0..MaxDepth /\ rec_reads' \in 0..MaxDepth
    BY <1>1
  <2>2. QED
    BY <2>1
<1>4. WriteOwned'
  BY <1>1 DEF WriteOwned, UpgradeOwned, OwnsWrite, OwnsUpgrade, Exclusion,
              MayRelease, Running
<1>5. UpgradeOwned'
  BY <1>1 DEF UpgradeOwned, OwnsUpgrade, Exclusion, MayRelease, Running
<1>6. Exclusion'
  BY <1>1 DEF Exclusion, OwnsUpgrade, MayRelease, Running
<1>7. RecursionOwned'
  BY <1>1 DEF RecursionOwned
<1>8. SleepersBlocked'
  BY <1>1 DEF SleepersBlocked, Blocked
<1>9. QED
  BY <1>2, <1>3, <1>4, <1>5, <1>6, <1>7, <1>8

LEMMA LockWriteToRead ==
  ASSUME IInv, NEW t \in Threads, lock_write_to_read(t)
  PROVE  IInv'
<1>0. ReaderFacts
  BY ReaderExists
<1>1. ReadCountExact'
  BY ReaderGained, ReadersFinite, MaxDepthNat
  DEF IInv, TypeOK, ReadCountExact,
     lock_write_to_read, thread_wakeup, Running
<1> USE MaxDepthNat, NoThreadFresh DEF IInv, TypeOK, ReaderFacts, Holds, Places,
     lock_write_to_read, thread_wakeup, Running
<1>2. TypeOK'
  <2>1. /\ read_count' \in Nat
        /\ recursion_depth' \in 0..MaxDepth /\ rec_reads' \in 0..MaxDepth
    BY <1>0 DEF ReadCountExact
  <2>2. QED
    BY <2>1
<1>3. WriteOwned'
  BY <1>0 DEF WriteOwned, UpgradeOwned, OwnsWrite, OwnsUpgrade,
              Exclusion, RecursionOwned
<1>4. UpgradeOwned'
  BY <1>0 DEF UpgradeOwned, OwnsUpgrade, Exclusion
<1>5. Exclusion'
  BY <1>0 DEF WriteOwned, UpgradeOwned, OwnsWrite, OwnsUpgrade, Exclusion
<1>6. RecursionOwned'
  BY <1>0 DEF RecursionOwned, Exclusion, ReadCountExact
<1>7. SleepersBlocked'
  BY <1>0 DEF SleepersBlocked, Blocked, WriteOwned, UpgradeOwned, OwnsWrite,
              OwnsUpgrade, Exclusion
<1>8. QED
  BY <1>1, <1>2, <1>3, <1>4, <1>5, <1>6, <1>7

\* lock_set_recursive keeps the invariant.
LEMMA LockSetRecursive ==
  ASSUME IInv, NEW t \in Threads, lock_set_recursive(t)
  PROVE  IInv'
<1>0. ReaderFacts
  BY ReaderExists
<1>1. ReadCountExact'
  BY MaxDepthNat
  DEF IInv, TypeOK, ReadCountExact,
     lock_set_recursive, Running
<1> USE MaxDepthNat, NoThreadFresh DEF IInv, TypeOK, ReaderFacts, Holds, Places,
     lock_set_recursive, Running
<1>2. TypeOK'
  <2>1. /\ read_count' \in Nat
        /\ recursion_depth' \in 0..MaxDepth /\ rec_reads' \in 0..MaxDepth
    BY <1>0 DEF ReadCountExact
  <2>2. QED
    BY <2>1
<1>3. WriteOwned'
  BY <1>0 DEF WriteOwned, OwnsWrite, Exclusion, RecursionOwned
<1>4. UpgradeOwned'
  BY <1>0 DEF UpgradeOwned, OwnsUpgrade, Exclusion
<1>5. Exclusion'
  BY <1>0 DEF WriteOwned, UpgradeOwned, OwnsWrite, OwnsUpgrade, Exclusion
<1>6. RecursionOwned'
  BY <1>0 DEF RecursionOwned, Exclusion, ReadCountExact
<1>7. SleepersBlocked'
  BY <1>0 DEF SleepersBlocked, Blocked, WriteOwned, UpgradeOwned, OwnsWrite,
              OwnsUpgrade, Exclusion
<1>8. QED
  BY <1>1, <1>2, <1>3, <1>4, <1>5, <1>6, <1>7

\* lock_clear_recursive keeps the invariant.
LEMMA LockClearRecursive ==
  ASSUME IInv, NEW t \in Threads, lock_clear_recursive(t)
  PROVE  IInv'
<1>0. ReaderFacts
  BY ReaderExists
<1>1. ReadCountExact'
  BY MaxDepthNat
  DEF IInv, TypeOK, ReadCountExact,
     lock_clear_recursive, Running
<1> USE MaxDepthNat, NoThreadFresh DEF IInv, TypeOK, ReaderFacts, Holds, Places,
     lock_clear_recursive, Running
<1>2. TypeOK'
  <2>1. /\ read_count' \in Nat
        /\ recursion_depth' \in 0..MaxDepth /\ rec_reads' \in 0..MaxDepth
    BY <1>0 DEF ReadCountExact
  <2>2. QED
    BY <2>1
<1>3. WriteOwned'
  BY <1>0 DEF WriteOwned, OwnsWrite, Exclusion, RecursionOwned
<1>4. UpgradeOwned'
  BY <1>0 DEF UpgradeOwned, OwnsUpgrade, Exclusion
<1>5. Exclusion'
  BY <1>0 DEF WriteOwned, UpgradeOwned, OwnsWrite, OwnsUpgrade, Exclusion
<1>6. RecursionOwned'
  BY <1>0 DEF RecursionOwned, Exclusion, ReadCountExact
<1>7. SleepersBlocked'
  BY <1>0 DEF SleepersBlocked, Blocked, WriteOwned, UpgradeOwned, OwnsWrite,
              OwnsUpgrade, Exclusion
<1>8. QED
  BY <1>1, <1>2, <1>3, <1>4, <1>5, <1>6, <1>7

-----------------------------------------------------------------------------
(* The invariant, and what it implies.                                     *)

\* The initial lock satisfies the invariant.
LEMMA InitIInv == Init => IInv
<1> SUFFICES ASSUME Init PROVE IInv
  OBVIOUS
<1>1. ReadCountExact
  <2>1. ReadersOf(hold) = {}
    BY DEF Init, ReadersOf
  <2>2. QED
    BY <2>1, FS_EmptySet DEF Init, ReadCountExact
<1>2. TypeOK
  <2>1. 0 \in 0..MaxDepth /\ 0 \in Nat
    BY MaxDepthNat
  <2>2. pc \in [Threads -> Places] /\ hold \in [Threads -> Holds]
    BY DEF Init, Places, Holds
  <2>3. QED
    BY <2>1, <2>2 DEF Init, TypeOK
<1>3. QED
  BY <1>1, <1>2
  DEF Init, IInv, WriteOwned, UpgradeOwned, OwnsWrite,
      OwnsUpgrade, Exclusion, RecursionOwned, SleepersBlocked

\* Every step keeps the invariant.
LEMMA NextIInv ==
  ASSUME IInv, [Next]_vars
  PROVE  IInv'
<1>1. CASE Next
  BY <1>1, LockWrite, LockWriteResume, LockWriteRecursive, LockTryWrite,
     LockRead, LockReadResume, LockReadRecursive, LockTryRead,
     LockReadToWrite, LockReadToWriteResume, LockReadToWriteRecursive,
     LockTryReadToWrite, LockDone, LockWriteToRead, LockSetRecursive,
     LockClearRecursive
  DEF Next, Resume
<1>2. CASE UNCHANGED vars
  BY <1>2 DEF vars, lockFields, IInv, TypeOK, WriteOwned, UpgradeOwned,
     OwnsWrite, OwnsUpgrade, Exclusion, RecursionOwned, SleepersBlocked,
     Blocked, ReadCountExact
<1>3. QED
  BY <1>1, <1>2

\* The invariant holds in every reachable state.
THEOREM Invariance == Spec => []IInv
BY InitIInv, NextIInv, PTL DEF Spec

\* The fields of the lock, the sleepers and the holds keep their types; in
\* particular the reader count never goes below zero.
THEOREM TypeCorrect == Spec => []TypeOK
<1>1. IInv => TypeOK
  BY DEF IInv
<1>2. QED
  BY <1>1, Invariance, PTL

\* The reader count is what the callers hold.
THEOREM CountExact == Spec => []ReadCountExact
<1>1. IInv => ReadCountExact
  BY DEF IInv
<1>2. QED
  BY <1>1, Invariance, PTL

\* Whoever may write is alone.
THEOREM Exclusive == Spec => []MutualExclusion
<1>1. IInv => MutualExclusion
  BY NoThreadFresh, MaxDepthNat
  DEF IInv, TypeOK, Holds, Exclusion, RecursionOwned, MutualExclusion,
      MayWrite, MayRead
<1>2. QED
  BY <1>1, Invariance, PTL

\* A sleeper always has somebody to wait for, who is not asleep on the lock.
THEOREM NoneLost == Spec => []NoLostWakeup
<1>1. ASSUME IInv PROVE NoLostWakeup
  <2> DEFINE Mover(u) == u \in Threads \ asleep /\ (MayRead(u) \/ pc[u] # "run")
  <2>0. ReaderFacts
    BY <1>1, ReaderExists
  <2> USE <1>1, MaxDepthNat, NoThreadFresh DEF IInv, TypeOK, Places, Holds
  \* a reader is a mover
  <2>1. ASSUME read_count # 0 PROVE \E u : Mover(u)
    <3>1. \E u \in Threads : hold[u] # "none"
      BY <2>0, <2>1 DEF ReaderFacts, RecursionOwned
    <3>2. QED
      BY <3>1 DEF MayRead, SleepersBlocked, Blocked, Exclusion
  \* the owner of want_upgrade is a mover, or waits for a reader
  <2>2. ASSUME want_upgrade PROVE \E u : Mover(u)
    <3>1. PICK u \in Threads : OwnsUpgrade(u)
      BY <2>2 DEF UpgradeOwned
    <3>2. CASE u \in asleep
      BY <3>1, <3>2, <2>1 DEF OwnsUpgrade, SleepersBlocked, Blocked, Exclusion
    <3>3. CASE u \notin asleep
      BY <3>1, <3>3 DEF OwnsUpgrade, MayRead
    <3>4. QED
      BY <3>2, <3>3
  \* the owner of want_write is a mover, or waits for one of those
  <2>3. ASSUME want_write PROVE \E u : Mover(u)
    <3>1. PICK u \in Threads : OwnsWrite(u)
      BY <2>3 DEF WriteOwned
    <3>2. CASE u \in asleep
      BY <3>1, <3>2, <2>1, <2>2 DEF OwnsWrite, SleepersBlocked, Blocked, Exclusion
    <3>3. CASE u \notin asleep
      BY <3>1, <3>3 DEF OwnsWrite, MayRead
    <3>4. QED
      BY <3>2, <3>3
  <2>4. ASSUME NEW t \in asleep PROVE \E u : Mover(u)
    BY <2>1, <2>2, <2>3, <2>4 DEF SleepersBlocked, Blocked
  <2>5. QED
    BY <2>4 DEF NoLostWakeup, SleepersBlocked
<1>2. QED
  BY <1>1, Invariance, PTL

-----------------------------------------------------------------------------
(* Refinement of the abstract readers/writer lock.                         *)

AllCompatible ==
  \A t, u \in Threads : t # u => RW!Compatible(Mode(t), Mode(u))

\* The modes that two threads hold at the same time are compatible.
LEMMA ModesCompatible == IInv => AllCompatible
BY NoThreadFresh, MaxDepthNat
DEF IInv, TypeOK, Holds, Exclusion, RecursionOwned, UpgradeOwned, OwnsUpgrade,
    Mode, MayWrite, MayRead, RW!Compatible, AllCompatible

\* A routine changes the mode of its caller only.
LEMMA OneModeChanges ==
  ASSUME IInv, Next
  PROVE  \E t \in Threads : \A u \in Threads \ {t} : Mode(u)' = Mode(u)
<1>1. PICK t \in Threads :
        \/ lock_write(t) \/ lock_write_recursive(t) \/ lock_try_write(t)
        \/ lock_read(t) \/ lock_read_recursive(t) \/ lock_try_read(t)
        \/ lock_read_to_write(t) \/ lock_read_to_write_recursive(t)
        \/ lock_try_read_to_write(t)
        \/ lock_done(t) \/ lock_write_to_read(t)
        \/ lock_set_recursive(t) \/ lock_clear_recursive(t)
        \/ Resume(t)
  BY DEF Next
<1> SUFFICES ASSUME NEW u \in Threads \ {t} PROVE Mode(u)' = Mode(u)
  OBVIOUS
<1> USE DEF IInv, TypeOK
\* the base hold and the place of the others are left alone
<1>2. hold'[u] = hold[u] /\ pc'[u] = pc[u]
  <2>1. CASE lock_write(t) \/ lock_try_write(t) \/ lock_write_resume(t)
    BY <2>1 DEF lock_write, lock_try_write, lock_write_resume,
       take_want_write, drain, thread_sleep, Granted
  <2>2. CASE lock_read(t) \/ lock_try_read(t) \/ lock_read_resume(t)
    BY <2>2 DEF lock_read, lock_try_read, lock_read_resume, take_read,
       thread_sleep, Granted
  <2>3. CASE \/ lock_read_to_write(t) \/ lock_try_read_to_write(t)
             \/ lock_read_to_write_resume(t)
    BY <2>3 DEF lock_read_to_write, lock_try_read_to_write,
       lock_read_to_write_resume, await_readers, thread_sleep, Granted
  <2>4. CASE lock_done(t) \/ lock_write_to_read(t)
    BY <2>4 DEF lock_done, lock_write_to_read, DropReadHold
  <2>5. CASE \/ lock_write_recursive(t) \/ lock_read_recursive(t)
             \/ lock_read_to_write_recursive(t)
             \/ lock_set_recursive(t) \/ lock_clear_recursive(t)
    BY <2>5 DEF lock_write_recursive, lock_read_recursive,
       lock_read_to_write_recursive, lock_set_recursive, lock_clear_recursive
  <2>6. QED
    BY <1>1, <2>1, <2>2, <2>3, <2>4, <2>5 DEF Resume
\* and so are the recursive holds, unless they are the caller's
<1>3. \/ UNCHANGED <<thread, recursion_depth, rec_reads>>
      \/ thread # u /\ thread' # u
  <2>1. CASE lock_done(t)
    BY <2>1, NoThreadFresh DEF lock_done, MayRelease, DropReadHold, Running,
       Exclusion, RecursionOwned, Holds
  <2>2. CASE lock_write_to_read(t)
    BY <2>2 DEF lock_write_to_read
  <2>3. CASE \/ lock_write_recursive(t) \/ lock_read_recursive(t)
             \/ lock_read_to_write_recursive(t) \/ lock_clear_recursive(t)
    BY <2>3, NoThreadFresh DEF lock_write_recursive, lock_read_recursive,
       lock_read_to_write_recursive, lock_clear_recursive, MayWriteRecursively
  <2>4. CASE lock_set_recursive(t)
    BY <2>4, NoThreadFresh DEF lock_set_recursive, Exclusion, RecursionOwned
  <2>5. CASE \/ lock_write(t) \/ lock_try_write(t) \/ lock_read(t)
             \/ lock_try_read(t) \/ lock_read_to_write(t)
             \/ lock_try_read_to_write(t) \/ Resume(t)
    BY <2>5 DEF lock_write, lock_try_write, lock_read, lock_try_read,
       lock_read_to_write, lock_try_read_to_write, Resume, lock_write_resume,
       lock_read_resume, lock_read_to_write_resume
  <2>6. QED
    BY <1>1, <2>1, <2>2, <2>3, <2>4, <2>5
<1>4. QED
  BY <1>2, <1>3 DEF Mode, MayWrite, MayRead

\* The sleep lock implements the abstract readers/writer lock, the atomic
\* upgrade included.
THEOREM Refinement == Spec => ImplementsRWLock
<1> DEFINE modes == [t \in Threads |-> Mode(t)]
<1>1. Init => RW!Init
  BY NoThreadFresh DEF Init, RW!Init, Mode, MayWrite, MayRead
<1>2. ASSUME IInv, [Next]_vars PROVE [RW!Next]_modes
  <2>1. CASE UNCHANGED vars
    BY <2>1 DEF vars, lockFields, Mode, MayWrite, MayRead
  <2>2. CASE Next
    <3>1. PICK t \in Threads : \A u \in Threads \ {t} : Mode(u)' = Mode(u)
      BY <1>2, <2>2, OneModeChanges
    <3>2. AllCompatible'
      <4>1. IInv'
        BY <1>2, NextIInv
      <4>2. QED
        BY <4>1, ModesCompatible, PTL
    <3>3. RW!Change(t, Mode(t)')
      BY <3>1, <3>2 DEF RW!Change, AllCompatible
    <3>4. Mode(t)' \in RW!Modes
      BY DEF Mode, MayWrite, MayRead, RW!Modes
    <3>5. QED
      BY <3>3, <3>4 DEF RW!Next
  <2>3. QED
    BY <1>2, <2>1, <2>2
<1>3. QED
  BY <1>1, <1>2, Invariance, PTL DEF Spec, RW!Spec, ImplementsRWLock
=============================================================================
