--------------------------- MODULE BufCacheProofs ---------------------------
(* Proofs about the buffer cache, for any number of processes, buffers, files *)
(* and devices.                                                               *)
EXTENDS BufCache, FiniteSetTheorems, TLAPS

\* The assumptions on the constants, together.
LEMMA Constants ==
  /\ \A x \in Blocks : vnode(x) \in Vnodes
  /\ \A v \in Vnodes : AnyOf(v) \in Blocks /\ vnode(AnyOf(v)) = v
  /\ Locked \subseteq Vnodes
  /\ NoBlk \notin Blocks /\ NoBuf \notin Bufs /\ NoProc \notin Procs
<1>1. \A x \in Blocks : vnode(x) \in Vnodes
  BY BlocksPairs DEF vnode
<1>2. \A v \in Vnodes : AnyOf(v) \in Blocks /\ vnode(AnyOf(v)) = v
  BY VnodesUsed DEF vnode, AnyOf
<1> QED
  BY <1>1, <1>2, LockedSet, NoBlkFresh, NoBufFresh, NoProcFresh

\* At first all buffers are free and belong to no vnode.
LEMMA InitIInv == Init => IInv
<1> SUFFICES ASSUME Init PROVE IInv
  OBVIOUS
<1> USE Constants DEF Init
<1>1. TypeOK
  BY DEF TypeOK, Flags, Places, Fates
<1>2. /\ BusyMeansOwned
      /\ \A p \in Procs : Placed(p) /\ \A b \in Bufs : Keeps(p, b)
      /\ \A b \in Bufs : Sound(b)
  BY DEF BusyMeansOwned, Busy, Holds, Placed, Keeps, Sound
<1>3. OutputCounted
  <2>1. \A v \in Vnodes : Writes(v) = {}
    BY DEF Writes
  <2> QED
    BY <2>1, FS_EmptySet DEF OutputCounted
<1>4. LockExcludes /\ StillMissing /\ OneBufferPerBlock /\ Latest
  BY DEF LockExcludes, Active, StillMissing, OneBufferPerBlock, Latest
<1>5. WriteEnded /\ SavedFirst /\ NothingForgotten /\ FsyncDurable
  BY DEF WriteEnded, SavedFirst, NothingForgotten, FsyncDurable
<1>6. NoLostSleeper /\ StaleOnlyAfterError
  BY DEF NoLostSleeper, StaleOnlyAfterError
<1> QED
  BY <1>1, <1>2, <1>3, <1>4, <1>5, <1>6 DEF IInv

-----------------------------------------------------------------------------
\* What brelse does keeps its types.
LEMMA BrelseTypes ==
  ASSUME TypeOK, NEW b \in Bufs, NEW f \in SUBSET Flags, b_blk[b] \in Blocks,
         NEW disk \in SUBSET Blocks, NEW woken, brelse(b, f, disk, woken)
  PROVE  /\ b_flags' \in [Bufs -> SUBSET Flags]
         /\ b_blk' \in [Bufs -> Blocks \cup {NoBlk}]
         /\ bfreelist' \subseteq Bufs /\ freewanted' \in BOOLEAN
         /\ dirtyblk' \subseteq Bufs /\ asleep' \subseteq Procs
         /\ current' \subseteq Bufs /\ stored' \subseteq Blocks
<1>1. b_flags' \in [Bufs -> SUBSET Flags]
  BY DEF TypeOK, brelse, Flags
<1>2. b_blk' \in [Bufs -> Blocks \cup {NoBlk}]
  BY DEF TypeOK, brelse
<1>3. freewanted' \in BOOLEAN
  BY Zenon DEF brelse
<1>4. dirtyblk' \subseteq Bufs
  BY DEF TypeOK, brelse, reassignbuf
<1>5. bfreelist' \subseteq Bufs /\ asleep' \subseteq Procs
  BY DEF TypeOK, brelse, Wakes
<1>6. current' \subseteq Bufs /\ stored' \subseteq Blocks
  BY DEF TypeOK, brelse
<1> QED
  BY <1>1, <1>2, <1>3, <1>4, <1>5, <1>6

\* v_numoutput stays right when the writes of the driver stay what they are,
LEMMA SameWrites ==
  ASSUME OutputCounted, UNCHANGED v_numoutput, \A v \in Vnodes : Writes(v)' = Writes(v)
  PROVE  OutputCounted'
BY DEF OutputCounted

\* when the driver gets one more and v_numoutput is incremented,
LEMMA OneWriteMore ==
  ASSUME IInv, NEW b \in Bufs, b \notin io, b_blk[b] \in Blocks,
         io' = io \cup {b}, UNCHANGED b_blk, isOutput(b_flags'[b]),
         \A c \in io : isOutput(b_flags'[c]) <=> isOutput(b_flags[c]),
         v_numoutput' = [v_numoutput EXCEPT ![vnode(b_blk[b])] = @ + 1]
  PROVE  OutputCounted' /\ v_numoutput' \in [Vnodes -> Nat]
<1> DEFINE v == vnode(b_blk[b])
<1>1. v \in Vnodes
  BY Constants
<1>2. Writes(v)' = Writes(v) \cup {b} /\ b \notin Writes(v)
  BY DEF Writes
<1>3. \A w \in Vnodes \ {v} : Writes(w)' = Writes(w)
  BY DEF Writes
<1>4. IsFiniteSet(Writes(v))
  BY FiniteBufs, FS_Subset DEF Writes, IInv, TypeOK
<1>5. Cardinality(Writes(v)') = Cardinality(Writes(v)) + 1
  BY <1>2, <1>4, FS_AddElement
<1> QED
  BY <1>1, <1>3, <1>5 DEF IInv, TypeOK, OutputCounted

\* and when a write ends and v_numoutput is decremented, which is not zero then.
LEMMA OneWriteLess ==
  ASSUME IInv, NEW b \in io, isOutput(b_flags[b]), b_blk[b] \in Blocks,
         NEW v \in Vnodes, v = vnode(b_blk[b]),
         io' = io \ {b}, \A c \in io \ {b} : b_blk'[c] = b_blk[c],
         \A c \in io \ {b} : isOutput(b_flags'[c]) <=> isOutput(b_flags[c]),
         v_numoutput' = [v_numoutput EXCEPT ![v] = @ - 1]
  PROVE  /\ OutputCounted' /\ v_numoutput' \in [Vnodes -> Nat]
         /\ v_numoutput[v] # 0
<1>1. b \in Writes(v)
  BY DEF Writes
<1>2. Writes(v)' = Writes(v) \ {b}
  BY DEF Writes
<1>3. \A w \in Vnodes \ {v} : Writes(w)' = Writes(w)
  BY DEF Writes
<1>4. IsFiniteSet(Writes(v))
  BY FiniteBufs, FS_Subset DEF Writes, IInv, TypeOK
<1>5. Cardinality(Writes(v)') = Cardinality(Writes(v)) - 1
  BY <1>1, <1>2, <1>4, FS_RemoveElement
<1>6. Cardinality(Writes(v)) \in Nat /\ Cardinality(Writes(v)) # 0
  BY <1>1, <1>4, FS_CardinalityType, FS_EmptySet
<1>7. v_numoutput[v] = Cardinality(Writes(v)) /\ v_numoutput[v] - 1 \in Nat
  BY <1>6 DEF IInv, OutputCounted
<1>8. v_numoutput' \in [Vnodes -> Nat]
  BY <1>7 DEF IInv, TypeOK
<1>9. OutputCounted'
  BY <1>3, <1>5, <1>7 DEF IInv, TypeOK, OutputCounted
<1> QED
  BY <1>6, <1>7, <1>8, <1>9

-----------------------------------------------------------------------------
\* The places of a process that holds its buffer.
Holding == {"has", "modified", "biowait", "bwrite"}

\* p, which holds no buffer, goes on and touches no buffer.
Quiet(p) ==
  /\ UNCHANGED <<cache, v_numoutput, io, data>> /\ VBWAIT \subseteq VBWAIT'
  /\ p \notin asleep /\ asleep' \subseteq asleep \cup {p}
  /\ curproc \in {NoProc, p}
  /\ \A q \in Procs \ {p} : /\ pc'[q] = pc[q] /\ op'[q] = op[q]
                            /\ blk'[q] = blk[q] /\ bp'[q] = bp[q]
  /\ pc[p] \notin Holding /\ pc'[p] \notin Holding

\* Such a step keeps the invariant if p is then where it may be: with what it
\* has searched for, with the lock, asleep with a mark, or after the output.
LEMMA QuietKeeps ==
  ASSUME IInv, TypeOK', NEW p \in Procs, Quiet(p), Placed(p)',
         p \in asleep' => Marked(p)',
         pc'[p] # "idle" => \/ pc[p] # "idle" /\ blk'[p] = blk[p]
                            \/ \A q \in Active : vp(q) = vp(p)' => vp(p)' \notin Locked,
         pc'[p] = "found" => b_blk[bp'[p]] = blk'[p],
         pc'[p] = "getnewbuf" => \A b \in Bufs : b_blk[b] # blk'[p],
         (pc'[p] = "synced" \/ (pc'[p] = "inval" /\ op'[p] = "inval_save"))
           /\ vp(p)' \in Locked
           => \A x \in Blocks : vnode(x) = vp(p)' => x \in stored
  PROVE  IInv'
<1> USE DEF IInv, Quiet, cache, data
<1>1. \A q \in Procs, b \in Bufs :
        /\ Holds(q, b)' <=> Holds(q, b)
        /\ Holds(q, b) => q # p
  BY DEF Holds, Holding
<1>2. BusyMeansOwned'
  BY <1>1 DEF BusyMeansOwned, Busy
<1>3. ASSUME NEW q \in Procs PROVE Placed(q)'
  BY Constants DEF TypeOK, Placed, vp
<1>4. ASSUME NEW q \in Procs, NEW b \in Bufs PROVE Keeps(q, b)'
  BY <1>1 DEF Keeps
<1>5. ASSUME NEW b \in Bufs PROVE Sound(b)'
  BY DEF Sound, Busy
<1>6. LockExcludes'
  BY DEF LockExcludes, Active, vp
<1>7. OutputCounted'
  <2>1. \A v \in Vnodes : Writes(v)' = Writes(v)
    BY DEF Writes
  <2> QED
    BY <2>1, SameWrites
<1>8. StillMissing' /\ OneBufferPerBlock' /\ Latest'
  BY DEF StillMissing, OneBufferPerBlock, Latest, vp
<1>9. WriteEnded' /\ SavedFirst' /\ FsyncDurable'
  <2>1. pc'[p] = "inval" => vp(p)' \in Locked
    BY DEF Placed
  <2> QED
    BY <2>1 DEF WriteEnded, SavedFirst, FsyncDurable, vp, Holding
<1>10. NothingForgotten'
  <2>1. \A b \in Bufs : ToBeWritten(b) => ToBeWritten(b)'
    BY <1>1 DEF ToBeWritten, Holds, Holding
  <2> QED
    BY <2>1 DEF TypeOK, NothingForgotten
<1>11. NoLostSleeper'
  BY DEF TypeOK, NoLostSleeper, Marked, vp
<1>12. StaleOnlyAfterError'
  BY DEF StaleOnlyAfterError
<1> QED
  BY <1>2, <1>3, <1>4, <1>5, <1>6, <1>7, <1>8, <1>9, <1>10, <1>11, <1>12

\* A call of bread, of the read-ahead or of getblk, with its search.
LEMMA CallBlockKeeps ==
  ASSUME IInv, NEW p \in Procs, NEW o \in BlockCalls, NEW x \in Blocks, CallBlock(p, o, x)
  PROVE  IInv'
<1> USE DEF IInv, CallBlock, MayCall, Runs, Search
<1>1. TypeOK'
  BY DEF TypeOK, Places, BlockCalls, cache, output, data
<1>2. Quiet(p)
  BY DEF TypeOK, Quiet, Holding, output
<1>3. Placed(p)'
  BY DEF TypeOK, Placed, BlockCalls
<1> QED
  BY <1>1, <1>2, <1>3, QuietKeeps DEF TypeOK, vp

\* A call of fsync or vinvalbuf.
LEMMA CallVnodeKeeps ==
  ASSUME IInv, NEW p \in Procs, NEW o \in VnodeCalls, NEW v \in Vnodes, CallVnode(p, o, v)
  PROVE  IInv'
<1> USE Constants DEF IInv, CallVnode, MayCall, Runs
<1>1. TypeOK'
  BY DEF TypeOK, Places, VnodeCalls, cache, output, data
<1>2. Quiet(p)
  BY DEF TypeOK, Quiet, Holding, output
<1>3. Placed(p)'
  BY DEF TypeOK, Placed, vp
<1> QED
  BY <1>1, <1>2, <1>3, QuietKeeps DEF TypeOK, vp

\* The search of getblk after a sleep.
LEMMA GetblkKeeps ==
  ASSUME IInv, NEW p \in Procs, getblk(p) PROVE IInv'
<1> USE DEF IInv, getblk, Runs, Search
<1>1. TypeOK'
  BY DEF TypeOK, Places, cache, output, data
<1>2. Quiet(p)
  BY DEF TypeOK, Quiet, Holding, output
<1>3. Placed(p)'
  BY DEF TypeOK, Placed, vp
<1> QED
  BY <1>1, <1>2, <1>3, QuietKeeps DEF TypeOK, vp

\* With no output under way and no dirty buffers, all of a locked file is on the
\* disk: nobody else can hold a buffer of it.
LEMMA OutputDone ==
  ASSUME IInv, NEW p \in Procs, pc[p] \in {"fsync", "output"}, vp(p) \in Locked,
         v_numoutput[vp(p)] = 0, ~Dirty(vp(p)), NEW x \in Blocks, vnode(x) = vp(p)
  PROVE  x \in stored
<1> USE DEF IInv
<1> SUFFICES ASSUME x \notin stored PROVE FALSE
  OBVIOUS
<1>1. PICK b \in current : b_blk[b] = x /\ ToBeWritten(b)
  BY DEF NothingForgotten
<1>2. b \in Bufs
  BY DEF TypeOK
<1>3. b \notin dirtyblk
  BY <1>1, <1>2, Constants DEF Dirty, DirtyOf, BufsOf
<1>4. ~(b \in io /\ isOutput(b_flags[b]))
  <2>1. vp(p) \in Vnodes
    BY Constants
  <2>2. IsFiniteSet(Writes(vp(p))) /\ Cardinality(Writes(vp(p))) = 0
    BY <2>1, FiniteBufs, FS_Subset DEF OutputCounted, Writes, TypeOK
  <2>3. Writes(vp(p)) = {}
    BY <2>2, FS_EmptySet
  <2> QED
    BY <1>1, <2>3 DEF Writes
<1>5. ASSUME NEW q \in Procs, Holds(q, b) PROVE FALSE
  BY <1>1, <1>2, <1>5 DEF LockExcludes, Active, vp, Keeps, Holds
<1> QED
  BY <1>1, <1>3, <1>4, <1>5 DEF ToBeWritten

\* fsync waits for output, looks again, or has done its work.
LEMMA AwaitOutputKeeps ==
  ASSUME IInv, NEW p \in Procs, AwaitOutput(p) PROVE IInv'
<1> USE DEF IInv, AwaitOutput, Flushed, Runs
<1>1. pc[p] \in {"fsync", "output"} /\ blk[p] \in Blocks /\ vp(p) \in Vnodes
  BY Constants DEF Placed, vp
<1>2. TypeOK'
  BY <1>1 DEF TypeOK, Places, Fates, cache, procs, data, Goes, Sleeps
<1>3. /\ Quiet(p) /\ blk' = blk /\ op' = op
      /\ pc'[p] \in {"fsync", "output", "synced"}
  BY <1>1 DEF TypeOK, Quiet, Holding, Goes, Sleeps, procs
<1>4. Placed(p)'
  BY <1>1, <1>3 DEF Placed, vp
<1>5. p \in asleep' => Marked(p)'
  BY <1>1, <1>3 DEF TypeOK, Marked, Goes, Sleeps, OutputPending, vp, procs, cache
<1>6. pc'[p] = "synced" => v_numoutput[vp(p)] = 0 /\ ~Dirty(vp(p))
  BY <1>1 DEF TypeOK, Goes, OutputPending, procs
<1> QED
  BY <1>1, <1>2, <1>3, <1>4, <1>5, <1>6, OutputDone, QuietKeeps DEF vp

\* fsync returns, or vinvalbuf goes on to the buffers.
LEMMA SyncedKeeps ==
  ASSUME IInv, NEW p \in Procs, Synced(p) PROVE IInv'
<1> USE DEF IInv, Synced, Runs, Returns, Goes
<1>1. TypeOK'
  BY DEF TypeOK, Places, cache, output, data
<1>2. Quiet(p)
  BY DEF TypeOK, Quiet, Holding, output
<1>3. Placed(p)'
  BY DEF TypeOK, Placed, vp
<1> QED
  BY <1>1, <1>2, <1>3, QuietKeeps DEF TypeOK, FsyncDurable, vp

\* fsync with MNT_NOWAIT returns, and so does vinvalbuf when it is done.
LEMMA ReturnKeeps ==
  ASSUME IInv, NEW p \in Procs, Returns(p), pc[p] \notin Holding, p \notin asleep,
         curproc \in {NoProc, p}, UNCHANGED <<asleep, cache, output, data, system>>
  PROVE  IInv'
<1> USE DEF IInv, Returns
<1>1. TypeOK'
  BY DEF TypeOK, Places, cache, output, data
<1>2. Quiet(p)
  BY DEF TypeOK, Quiet, Holding, output
<1>3. Placed(p)'
  BY DEF TypeOK, Placed
<1> QED
  BY <1>1, <1>2, <1>3, QuietKeeps DEF TypeOK

\* The holder changes the contents: it has the lock of a file, and the only
\* buffer of the block.
LEMMA ModifyKeeps ==
  ASSUME IInv, NEW p \in Procs, Modify(p)
  PROVE  IInv'
<1> USE Constants DEF IInv, Modify, Modified, Goes, Runs, cache, output, procs, data
<1>1. TypeOK'
  <2>1. bp[p] \in Bufs
    BY DEF Placed
  <2> QED
    BY <2>1 DEF TypeOK, Places
<1>2. BusyMeansOwned'
  BY DEF TypeOK, BusyMeansOwned, Busy, Holds, Sound, Placed
<1>3. ASSUME NEW y \in Procs PROVE Placed(y)'
  BY DEF TypeOK, Placed, vp
<1>4. ASSUME NEW y \in Procs, NEW c \in Bufs PROVE Keeps(y, c)'
  BY DEF TypeOK, BusyMeansOwned, Busy, Holds, Sound, Placed, Keeps, isOutput
<1>5. ASSUME NEW c \in Bufs PROVE Sound(c)'
  BY DEF TypeOK, BusyMeansOwned, Busy, Holds, Sound, Placed, Keeps, isOutput
<1>6. LockExcludes'
  BY DEF TypeOK, LockExcludes, Active, vp
<1>7. OutputCounted'
  BY DEF TypeOK, OutputCounted, Writes, isOutput, BusyMeansOwned, Busy, Sound
<1>8. StillMissing' /\ OneBufferPerBlock'
  BY DEF TypeOK, StillMissing, OneBufferPerBlock, vp, LockExcludes, Active, Placed
<1>9. Latest'
  BY DEF TypeOK, Latest, OneBufferPerBlock, BusyMeansOwned, Busy, Placed, vp,
     Keeps, Holds, StillMissing
<1>10. WriteEnded' /\ SavedFirst' /\ FsyncDurable'
  BY DEF TypeOK, WriteEnded, SavedFirst, FsyncDurable, vp, Placed, LockExcludes,
     Active, Holds, Keeps, BusyMeansOwned, Sound, Busy
<1>11. NothingForgotten'
  BY DEF TypeOK, NothingForgotten, ToBeWritten, isOutput, Holds, BusyMeansOwned, Keeps,
     Sound, Busy, Placed
<1>12. NoLostSleeper'
  BY DEF TypeOK, NoLostSleeper, Marked, vp, OnBuf, OnFreelist, OnOutput, Placed
<1>13. StaleOnlyAfterError'
  BY DEF TypeOK, StaleOnlyAfterError, Placed
<1> QED
  BY <1>1, <1>2, <1>3, <1>4, <1>5, <1>6, <1>7,
     <1>8, <1>9, <1>10, <1>11, <1>12, <1>13

\* bawrite by the holder, who gives the buffer to the driver.
LEMMA AsyncWriteKeeps ==
  ASSUME IInv, NEW p \in Procs, AsyncWrite(p)
  PROVE  IInv'
<1> USE Constants DEF IInv, AsyncWrite, bawrite, bremfree, Returns, reassignbuf, Runs,
        cache, output, procs, data
<1>0. /\ bp[p] \in Bufs /\ b_blk[bp[p]] \in Blocks /\ bp[p] \notin io
      /\ isOutput(b_flags'[bp[p]])
      /\ \A c \in io : isOutput(b_flags'[c]) <=> isOutput(b_flags[c])
  BY DEF TypeOK, Placed, Keeps, Holds, isOutput
<1>1. TypeOK'
  BY <1>0, OneWriteMore DEF TypeOK, Flags, Places
<1>2. BusyMeansOwned'
  BY DEF TypeOK, BusyMeansOwned, Busy, Holds, Sound, Placed
<1>3. ASSUME NEW y \in Procs PROVE Placed(y)'
  BY DEF TypeOK, Placed, vp
<1>4. ASSUME NEW y \in Procs, NEW c \in Bufs PROVE Keeps(y, c)'
  BY DEF TypeOK, BusyMeansOwned, Busy, Holds, Sound, Placed, Keeps, isOutput
<1>5. ASSUME NEW c \in Bufs PROVE Sound(c)'
  BY DEF TypeOK, BusyMeansOwned, Busy, Holds, Sound, Placed, Keeps, isOutput
<1>6. LockExcludes'
  BY DEF TypeOK, LockExcludes, Active, vp
<1>7. OutputCounted'
  BY <1>0, OneWriteMore
<1>8. StillMissing' /\ OneBufferPerBlock'
  BY DEF TypeOK, StillMissing, OneBufferPerBlock, vp, LockExcludes, Active, Placed
<1>9. Latest'
  BY DEF TypeOK, Latest, OneBufferPerBlock, BusyMeansOwned, Busy, Placed, vp,
     Keeps, Holds, StillMissing
<1>10. WriteEnded' /\ SavedFirst' /\ FsyncDurable'
  BY DEF TypeOK, WriteEnded, SavedFirst, FsyncDurable, vp, Placed, LockExcludes,
     Active, Holds, Keeps, BusyMeansOwned, Sound, Busy
<1>11. NothingForgotten'
  BY DEF TypeOK, NothingForgotten, ToBeWritten, isOutput, Holds, BusyMeansOwned, Keeps,
     Sound, Busy, Placed
<1>12. NoLostSleeper'
  BY DEF TypeOK, NoLostSleeper, Marked, vp, OnBuf, OnFreelist, OnOutput, Placed
<1>13. StaleOnlyAfterError'
  BY DEF TypeOK, StaleOnlyAfterError, Placed
<1> QED
  BY <1>1, <1>2, <1>3, <1>4, <1>5, <1>6, <1>7,
     <1>8, <1>9, <1>10, <1>11, <1>12, <1>13

\* bwrite: the holder sleeps until the driver is done.
LEMMA BwriteKeeps ==
  ASSUME IInv, NEW p \in Procs, bwrite(p)
  PROVE  IInv'
<1> USE Constants DEF IInv, bwrite, Goes, Sleeps, Runs, cache, output, procs, data
<1>0. /\ bp[p] \in Bufs /\ b_blk[bp[p]] \in Blocks /\ bp[p] \notin io
      /\ b_blk[bp[p]] = blk[p] /\ isOutput(b_flags'[bp[p]])
      /\ \A c \in io : isOutput(b_flags'[c]) <=> isOutput(b_flags[c])
  BY DEF TypeOK, Placed, Keeps, Holds, isOutput
<1>1. TypeOK'
  BY <1>0, OneWriteMore DEF TypeOK, Flags, Places, vp
<1>2. BusyMeansOwned'
  BY DEF TypeOK, BusyMeansOwned, Busy, Holds, Sound, Placed
<1>3. ASSUME NEW y \in Procs PROVE Placed(y)'
  BY DEF TypeOK, Placed, vp
<1>4. ASSUME NEW y \in Procs, NEW c \in Bufs PROVE Keeps(y, c)'
  BY DEF TypeOK, BusyMeansOwned, Busy, Holds, Sound, Placed, Keeps, isOutput
<1>5. ASSUME NEW c \in Bufs PROVE Sound(c)'
  BY DEF TypeOK, BusyMeansOwned, Busy, Holds, Sound, Placed, Keeps, isOutput
<1>6. LockExcludes'
  BY DEF TypeOK, LockExcludes, Active, vp
<1>7. OutputCounted'
  BY <1>0, OneWriteMore DEF vp
<1>8. StillMissing' /\ OneBufferPerBlock'
  BY DEF TypeOK, StillMissing, OneBufferPerBlock, vp, LockExcludes, Active, Placed
<1>9. Latest'
  BY DEF TypeOK, Latest, OneBufferPerBlock, BusyMeansOwned, Busy, Placed, vp,
     Keeps, Holds, StillMissing
<1>10. WriteEnded' /\ SavedFirst' /\ FsyncDurable'
  BY DEF TypeOK, WriteEnded, SavedFirst, FsyncDurable, vp, Placed, LockExcludes,
     Active, Holds, Keeps, BusyMeansOwned, Sound, Busy
<1>11. NothingForgotten'
  BY DEF TypeOK, NothingForgotten, ToBeWritten, isOutput, Holds, BusyMeansOwned, Keeps,
     Sound, Busy, Placed
<1>12. NoLostSleeper'
  BY DEF TypeOK, NoLostSleeper, Marked, vp, OnBuf, OnFreelist, OnOutput, Placed
<1>13. StaleOnlyAfterError'
  BY DEF TypeOK, StaleOnlyAfterError, Placed
<1> QED
  BY <1>1, <1>2, <1>3, <1>4, <1>5, <1>6, <1>7,
     <1>8, <1>9, <1>10, <1>11, <1>12, <1>13

\* brelse by the holder.  What has to be written is marked B_DELWRI by then, has
\* been written, or is given up after an error.
LEMMA HolderReleases ==
  ASSUME IInv, NEW p \in Procs, NEW b \in Bufs, Holds(p, b), p \notin asleep, b \notin io,
         curproc \in {NoProc, p}, NEW f \in SUBSET Flags,
         f \in {b_flags[b], b_flags[b] \cup {"B_DELWRI", "B_DONE"}},
         pc[p] = "modified" => "B_DELWRI" \in f,
         brelse(b, f, stored, {}), Returns(p), UNCHANGED <<output, system>>
  PROVE  IInv'
<1> USE Constants DEF IInv, Returns, brelse, invalid, reassignbuf, Wakes, freed, Runs,
        cache, output, procs, data
<1>0. b_blk[b] \in Blocks /\ b_blk[b] = blk[p] /\ bp[p] = b
  BY DEF Placed, Keeps, Holds
<1>1. TypeOK'
  <2> HIDE DEF brelse
  <2>1. stored \in SUBSET Blocks
    BY DEF TypeOK
  <2> QED
    BY <1>0, <2>1, BrelseTypes DEF TypeOK, Places
<1>2. BusyMeansOwned'
  BY DEF TypeOK, BusyMeansOwned, Busy, Holds, Sound, Placed
<1>3. ASSUME NEW y \in Procs PROVE Placed(y)'
  BY DEF TypeOK, Placed, vp
<1>4. ASSUME NEW y \in Procs, NEW c \in Bufs PROVE Keeps(y, c)'
  BY DEF TypeOK, BusyMeansOwned, Busy, Holds, Sound, Placed, Keeps, isOutput
<1>5. ASSUME NEW c \in Bufs PROVE Sound(c)'
  BY DEF TypeOK, BusyMeansOwned, Busy, Holds, Sound, Placed, Keeps, isOutput
<1>6. LockExcludes'
  BY DEF TypeOK, LockExcludes, Active, vp
<1>7. OutputCounted'
  <2>1. \A v \in Vnodes : Writes(v)' = Writes(v)
    BY DEF TypeOK, Writes, isOutput, Sound, BusyMeansOwned, Busy
  <2> QED
    BY <2>1, SameWrites
<1>8. StillMissing' /\ OneBufferPerBlock'
  BY DEF TypeOK, StillMissing, OneBufferPerBlock, vp, LockExcludes, Active, Placed
<1>9. Latest'
  BY DEF TypeOK, Latest, OneBufferPerBlock, BusyMeansOwned, Busy, Placed, vp,
     Keeps, Holds, StillMissing
<1>10. WriteEnded' /\ SavedFirst' /\ FsyncDurable'
  BY DEF TypeOK, WriteEnded, SavedFirst, FsyncDurable, vp, Placed, LockExcludes,
     Active, Holds, Keeps, BusyMeansOwned, Sound, Busy
<1>11. NothingForgotten'
  <2> SUFFICES ASSUME NEW x \in Blocks, vnode(x) \in Locked, x \notin stored'
               PROVE  \E c \in current' : b_blk'[c] = x /\ ToBeWritten(c)'
    BY DEF NothingForgotten
  <2>1. x \notin stored
    BY DEF TypeOK
  <2>2. PICK c \in current : b_blk[c] = x /\ ToBeWritten(c)
    BY <2>1 DEF NothingForgotten
  <2>3. c \in Bufs
    BY DEF TypeOK
  <2>4. CASE c = b
    <3>1. "B_ERROR" \notin f /\ "B_INVAL" \notin f
      BY <1>0, <2>2, <2>4 DEF Sound
    <3>2. "B_DELWRI" \in f
      BY <1>0, <2>1, <2>2, <2>4, <3>1 DEF ToBeWritten, WriteEnded, BusyMeansOwned, Holds, vp
    <3>3. c \in current' /\ b_blk'[c] = x
      BY <2>2, <2>4, <3>1
    <3>4. "B_DELWRI" \in b_flags'[c] /\ c \in dirtyblk'
      BY <2>4, <3>1, <3>2 DEF TypeOK
    <3> QED
      BY <3>3, <3>4 DEF ToBeWritten
  <2>5. CASE c # b
    <3>1. \A q \in Procs : Holds(q, c) => Holds(q, c)' /\ pc'[q] = pc[q]
      BY <1>0, <2>5 DEF TypeOK, Holds
    <3>2. c \in current' /\ b_blk'[c] = x /\ b_flags'[c] = b_flags[c]
      BY <2>2, <2>3, <2>5 DEF TypeOK
    <3> QED
      BY <2>2, <2>5, <3>1, <3>2 DEF ToBeWritten
  <2> QED
    BY <2>4, <2>5
<1>12. NoLostSleeper'
  BY DEF TypeOK, NoLostSleeper, Marked, vp, OnBuf, OnFreelist, OnOutput, Placed
<1>13. StaleOnlyAfterError'
  BY DEF TypeOK, StaleOnlyAfterError, Placed
<1> QED
  BY <1>1, <1>2, <1>3, <1>4, <1>5, <1>6, <1>7,
     <1>8, <1>9, <1>10, <1>11, <1>12, <1>13

\* getblk and vinvalbuf mark a busy buffer B_WANTED and sleep.
LEMMA SleepsForBuffer ==
  ASSUME IInv, NEW p \in Procs, NEW b \in Bufs, Busy(b), p \notin asleep,
         curproc \in {NoProc, p}, NEW place,
         UNCHANGED <<b_blk, bfreelist, freewanted, dirtyblk, output, data, system>>,
         \/ place = "getblk" /\ pc[p] = "found"
         \/ place = "inval" /\ pc[p] = "inval",
         b_flags' = [b_flags EXCEPT ![b] = @ \cup {"B_WANTED"}],
         Goes(p, place, b, NoProc), Sleeps(p)
  PROVE  IInv'
<1> USE Constants DEF IInv, Goes, Sleeps, cache, output, procs, data
<1>1. TypeOK'
  BY DEF TypeOK, Flags, Places, Fates, BlockCalls, VnodeCalls
<1>2. BusyMeansOwned'
  BY DEF TypeOK, BusyMeansOwned, Busy, Holds, Sound, Placed
<1>3. ASSUME NEW y \in Procs PROVE Placed(y)'
  BY DEF TypeOK, Placed, vp
<1>4. ASSUME NEW y \in Procs, NEW c \in Bufs PROVE Keeps(y, c)'
  BY DEF TypeOK, BusyMeansOwned, Busy, Holds, Sound, Placed, Keeps, isOutput
<1>5. ASSUME NEW c \in Bufs PROVE Sound(c)'
  BY DEF TypeOK, BusyMeansOwned, Busy, Holds, Sound, Placed, Keeps, isOutput
<1>6. LockExcludes'
  BY DEF TypeOK, LockExcludes, Active, vp
<1>7. OutputCounted'
  <2>1. \A v \in Vnodes : Writes(v)' = Writes(v)
    BY DEF TypeOK, Writes, isOutput, Sound, BusyMeansOwned, Busy
  <2> QED
    BY <2>1, SameWrites
<1>8. StillMissing' /\ OneBufferPerBlock'
  BY DEF TypeOK, StillMissing, OneBufferPerBlock, vp, LockExcludes, Active, Placed
<1>9. Latest'
  BY DEF TypeOK, Latest, OneBufferPerBlock, BusyMeansOwned, Busy, Placed, vp,
     Keeps, Holds, StillMissing
<1>10. WriteEnded' /\ SavedFirst' /\ FsyncDurable'
  BY DEF TypeOK, WriteEnded, SavedFirst, FsyncDurable, vp, Placed, LockExcludes,
     Active, Holds, Keeps, BusyMeansOwned, Sound, Busy
<1>11. NothingForgotten'
  BY DEF TypeOK, NothingForgotten, ToBeWritten, isOutput, Holds, BusyMeansOwned, Keeps,
     Sound, Busy, Placed
<1>12. NoLostSleeper'
  BY DEF TypeOK, NoLostSleeper, Marked, vp, BusyMeansOwned, Busy
<1>13. StaleOnlyAfterError'
  BY DEF TypeOK, StaleOnlyAfterError, Placed
<1> QED
  BY <1>1, <1>2, <1>3, <1>4, <1>5, <1>6, <1>7,
     <1>8, <1>9, <1>10, <1>11, <1>12, <1>13

\* getnewbuf and fsync write a buffer from the free list.
LEMMA FreeBufferWritten ==
  ASSUME IInv, NEW p \in Procs, NEW b \in bfreelist, b_blk[b] # NoBlk, p \notin asleep,
         curproc \in {NoProc, p}, bawrite(b), pc[p] \in {"getnewbuf", "fsync"},
         Goes(p, pc[p], NoBuf, AfterStrategy(p, b)), UNCHANGED <<asleep, data, system>>
  PROVE  IInv'
<1> USE Constants DEF IInv, bawrite, bremfree, Goes, reassignbuf, AfterStrategy, cache,
        output, procs, data
<1>0. /\ b \in Bufs /\ b_blk[b] \in Blocks /\ b \notin io
      /\ isOutput(b_flags'[b])
      /\ \A c \in io : isOutput(b_flags'[c]) <=> isOutput(b_flags[c])
  BY DEF TypeOK, Sound, BusyMeansOwned, Busy, isOutput
<1>1. TypeOK'
  BY <1>0, OneWriteMore DEF TypeOK, Flags, Places
<1>2. BusyMeansOwned'
  BY DEF TypeOK, BusyMeansOwned, Busy, Holds, Sound, Placed
<1>3. ASSUME NEW y \in Procs PROVE Placed(y)'
  BY DEF TypeOK, Placed, vp
<1>4. ASSUME NEW y \in Procs, NEW c \in Bufs PROVE Keeps(y, c)'
  BY DEF TypeOK, BusyMeansOwned, Busy, Holds, Sound, Placed, Keeps, isOutput
<1>5. ASSUME NEW c \in Bufs PROVE Sound(c)'
  BY DEF TypeOK, BusyMeansOwned, Busy, Holds, Sound, Placed, Keeps, isOutput
<1>6. LockExcludes'
  BY DEF TypeOK, LockExcludes, Active, vp
<1>7. OutputCounted'
  BY <1>0, OneWriteMore
<1>8. StillMissing' /\ OneBufferPerBlock'
  BY DEF TypeOK, StillMissing, OneBufferPerBlock, vp, LockExcludes, Active, Placed
<1>9. Latest'
  BY DEF TypeOK, Latest, OneBufferPerBlock, BusyMeansOwned, Busy, Placed, vp,
     Keeps, Holds, StillMissing
<1>10. WriteEnded' /\ SavedFirst' /\ FsyncDurable'
  BY DEF TypeOK, WriteEnded, SavedFirst, FsyncDurable, vp, Placed, LockExcludes,
     Active, Holds, Keeps, BusyMeansOwned, Sound, Busy
<1>11. NothingForgotten'
  BY DEF TypeOK, NothingForgotten, ToBeWritten, isOutput, Holds, BusyMeansOwned, Keeps,
     Sound, Busy, Placed
<1>12. NoLostSleeper'
  BY DEF TypeOK, NoLostSleeper, Marked, vp, OnBuf, OnFreelist, OnOutput, Placed
<1>13. StaleOnlyAfterError'
  BY DEF TypeOK, StaleOnlyAfterError, Placed
<1> QED
  BY <1>1, <1>2, <1>3, <1>4, <1>5, <1>6, <1>7,
     <1>8, <1>9, <1>10, <1>11, <1>12, <1>13

\* getblk takes a free buffer: that of its block or, in getnewbuf, any that need
\* not be written first.
Takes(p, b, f) ==
  /\ p \notin asleep /\ curproc \in {NoProc, p}
  /\ b \in bfreelist /\ b_blk' = [b_blk EXCEPT ![b] = blk[p]]
  /\ \/ /\ pc[p] = "found" /\ b_blk[b] = blk[p] /\ f = b_flags[b] \cup {"B_BUSY"}
     \/ pc[p] = "getnewbuf" /\ "B_DELWRI" \notin b_flags[b] /\ f = {"B_BUSY"}
  /\ bremfree(b)
  /\ UNCHANGED <<freewanted, dirtyblk, v_numoutput, VBWAIT, system>>

\* bread finds valid contents, and of a file these are the latest.
LEMMA GotValid ==
  ASSUME IInv, NEW p \in Procs, NEW b \in Bufs, NEW f \in SUBSET Flags, Takes(p, b, f),
         valid(f), b_flags' = [b_flags EXCEPT ![b] = f],
         Goes(p, "has", b, NoProc),
         UNCHANGED <<io, asleep, data>>
  PROVE  IInv'
<1> USE Constants DEF IInv, valid, Goes, Takes, bremfree, cache, output, procs, data
<1>0. blk[p] \in Blocks /\ b_blk[b] = blk[p] /\ UNCHANGED b_blk
  BY DEF Placed, TypeOK
<1>1. TypeOK'
  BY DEF TypeOK, Flags, Places, Fates, BlockCalls, VnodeCalls
<1>2. BusyMeansOwned'
  BY DEF TypeOK, BusyMeansOwned, Busy, Holds, Sound, Placed
<1>3. ASSUME NEW y \in Procs PROVE Placed(y)'
  BY DEF TypeOK, Placed, vp
<1>4. ASSUME NEW y \in Procs, NEW c \in Bufs PROVE Keeps(y, c)'
  BY DEF TypeOK, BusyMeansOwned, Busy, Holds, Sound, Placed, Keeps, isOutput
<1>5. ASSUME NEW c \in Bufs PROVE Sound(c)'
  BY DEF TypeOK, BusyMeansOwned, Busy, Holds, Sound, Placed, Keeps, isOutput
<1>6. LockExcludes'
  BY DEF TypeOK, LockExcludes, Active, vp
<1>7. OutputCounted'
  <2>1. \A v \in Vnodes : Writes(v)' = Writes(v)
    BY <1>0 DEF TypeOK, Writes, isOutput, Sound, BusyMeansOwned, Busy
  <2> QED
    BY <2>1, SameWrites
<1>8. StillMissing' /\ OneBufferPerBlock'
  BY DEF TypeOK, StillMissing, OneBufferPerBlock, vp, LockExcludes, Active, Placed
<1>9. Latest'
  BY DEF TypeOK, Latest, OneBufferPerBlock, BusyMeansOwned, Busy, Placed, vp,
     Keeps, Holds, StillMissing
<1>10. WriteEnded' /\ SavedFirst' /\ FsyncDurable'
  BY DEF TypeOK, WriteEnded, SavedFirst, FsyncDurable, vp, Placed, LockExcludes,
     Active, Holds, Keeps, BusyMeansOwned, Sound, Busy
<1>11. NothingForgotten'
  BY DEF TypeOK, NothingForgotten, ToBeWritten, isOutput, Holds, BusyMeansOwned, Keeps,
     Sound, Busy, Placed
<1>12. NoLostSleeper'
  BY DEF TypeOK, NoLostSleeper, Marked, vp, OnBuf, OnFreelist, OnOutput, Placed
<1>13. StaleOnlyAfterError'
  BY DEF TypeOK, StaleOnlyAfterError, Placed
<1> QED
  BY <1>1, <1>2, <1>3, <1>4, <1>5, <1>6, <1>7,
     <1>8, <1>9, <1>10, <1>11, <1>12, <1>13

\* A caller of getblk fills the buffer.
LEMMA GotToFill ==
  ASSUME IInv, NEW p \in Procs, NEW b \in Bufs, NEW f \in SUBSET Flags, Takes(p, b, f),
         b_flags' = [b_flags EXCEPT ![b] = f], Modified(b, blk[p]),
         Goes(p, "modified", b, NoProc),
         UNCHANGED <<io, asleep>>
  PROVE  IInv'
<1> USE Constants DEF IInv, Modified, Goes, Takes, bremfree, cache, output, procs, data
<1>0. blk[p] \in Blocks
  BY DEF Placed
<1>1. TypeOK'
  BY DEF TypeOK, Flags, Places, Fates, BlockCalls, VnodeCalls
<1>2. BusyMeansOwned'
  BY DEF TypeOK, BusyMeansOwned, Busy, Holds, Sound, Placed
<1>3. ASSUME NEW y \in Procs PROVE Placed(y)'
  BY DEF TypeOK, Placed, vp
<1>4. ASSUME NEW y \in Procs, NEW c \in Bufs PROVE Keeps(y, c)'
  BY DEF TypeOK, BusyMeansOwned, Busy, Holds, Sound, Placed, Keeps, isOutput
<1>5. ASSUME NEW c \in Bufs PROVE Sound(c)'
  BY DEF TypeOK, BusyMeansOwned, Busy, Holds, Sound, Placed, Keeps, isOutput
<1>6. LockExcludes'
  BY DEF TypeOK, LockExcludes, Active, vp
<1>7. OutputCounted'
  <2>1. \A v \in Vnodes : Writes(v)' = Writes(v)
    BY <1>0 DEF TypeOK, Writes, isOutput, Sound, BusyMeansOwned, Busy
  <2> QED
    BY <2>1, SameWrites
<1>8. StillMissing' /\ OneBufferPerBlock'
  BY DEF TypeOK, StillMissing, OneBufferPerBlock, vp, LockExcludes, Active, Placed
<1>9. Latest'
  BY DEF TypeOK, Latest, OneBufferPerBlock, BusyMeansOwned, Busy, Placed, vp,
     Keeps, Holds, StillMissing
<1>10. WriteEnded' /\ SavedFirst' /\ FsyncDurable'
  BY DEF TypeOK, WriteEnded, SavedFirst, FsyncDurable, vp, Placed, LockExcludes,
     Active, Holds, Keeps, BusyMeansOwned, Sound, Busy
<1>11. NothingForgotten'
  BY DEF TypeOK, NothingForgotten, ToBeWritten, isOutput, Holds, BusyMeansOwned, Keeps,
     Sound, Busy, Placed
<1>12. NoLostSleeper'
  BY DEF TypeOK, NoLostSleeper, Marked, vp, BusyMeansOwned, Busy
<1>13. StaleOnlyAfterError'
  BY DEF TypeOK, StaleOnlyAfterError, Placed
<1> QED
  BY <1>1, <1>2, <1>3, <1>4, <1>5, <1>6, <1>7,
     <1>8, <1>9, <1>10, <1>11, <1>12, <1>13

\* bread and the read-ahead start to read.  What they read of a file is the
\* latest: a block that is not on the disk has a buffer that need not be read.
LEMMA GotToRead ==
  ASSUME IInv, NEW p \in Procs, NEW b \in Bufs, NEW f \in SUBSET Flags, Takes(p, b, f),
         ~valid(f), NEW e \in SUBSET {"B_ASYNC"},
         b_flags' = [b_flags EXCEPT ![b] = f \cup {"B_READ"} \cup e], io' = io \cup {b},
         current' = (current \ {b}) \cup {c \in {b} : blk[p] \in stored},
         UNCHANGED stored,
         \/ e = {} /\ Goes(p, "biowait", b, NoProc) /\ Sleeps(p)
         \/ e = {"B_ASYNC"} /\ Returns(p) /\ UNCHANGED asleep
  PROVE  IInv'
<1> USE Constants DEF IInv, valid, Goes, Returns, Sleeps, Takes, bremfree, cache, output,
        procs, data
<1>0. blk[p] \in Blocks
  BY DEF Placed
<1>00. ASSUME vp(p) \in Locked PROVE blk[p] \in stored
  <2> SUFFICES ASSUME blk[p] \notin stored PROVE FALSE
    OBVIOUS
  <2>1. PICK c \in current : b_blk[c] = blk[p] /\ ToBeWritten(c)
    BY <1>0, <1>00 DEF NothingForgotten, vp
  <2>2. c = b /\ pc[p] = "found"
    BY <1>00, <2>1 DEF TypeOK, OneBufferPerBlock, StillMissing, vp, Placed
  <2> QED
    BY <2>1, <2>2 DEF ToBeWritten, BusyMeansOwned, Busy, Sound
<1>1. TypeOK'
  <2>1. b_flags' \in [Bufs -> SUBSET Flags] /\ b_blk' \in [Bufs -> Blocks \cup {NoBlk}]
    BY <1>0 DEF TypeOK, Flags
  <2>2. pc' \in [Procs -> Places] /\ asleep' \subseteq Procs
    BY DEF TypeOK, Places
  <2>3. /\ op' \in [Procs -> BlockCalls \cup VnodeCalls \cup {"none"}]
        /\ blk' \in [Procs -> Blocks \cup {NoBlk}]
        /\ bp' \in [Procs -> Bufs \cup {NoBuf}]
        /\ curproc' \in Procs \cup {NoProc}
    BY DEF TypeOK
  <2>4. io' \subseteq Bufs /\ current' \subseteq Bufs /\ bfreelist' \subseteq Bufs
    BY DEF TypeOK
  <2> QED
    BY <2>1, <2>2, <2>3, <2>4 DEF TypeOK
<1>2. BusyMeansOwned'
  <2>1. ~Busy(b) /\ "B_ASYNC" \notin b_flags[b] /\ \A q \in Procs : ~Holds(q, b)
    BY DEF BusyMeansOwned
  <2>2. ASSUME NEW c \in Bufs \ {b}
        PROVE  /\ b_flags'[c] = b_flags[c]
               /\ c \in bfreelist' <=> c \in bfreelist
               /\ \A q \in Procs : Holds(q, c)' <=> Holds(q, c)
    BY DEF TypeOK, Holds
  <2>3. /\ Busy(b)' /\ b \notin bfreelist'
        /\ "B_ASYNC" \in b_flags'[b] <=> e = {"B_ASYNC"}
        /\ \A q \in Procs : Holds(q, b)' <=> q = p /\ e = {}
    BY <2>1 DEF TypeOK, Busy, Holds
  <2> QED
    BY <2>2, <2>3 DEF BusyMeansOwned, Busy
<1>3. ASSUME NEW y \in Procs PROVE Placed(y)'
  BY DEF TypeOK, Placed, vp
<1>4. ASSUME NEW y \in Procs, NEW c \in Bufs PROVE Keeps(y, c)'
  BY DEF TypeOK, BusyMeansOwned, Busy, Holds, Sound, Placed, Keeps, isOutput
<1>5. ASSUME NEW c \in Bufs PROVE Sound(c)'
  BY DEF TypeOK, BusyMeansOwned, Busy, Holds, Sound, Placed, Keeps, isOutput
<1>6. LockExcludes'
  BY DEF TypeOK, LockExcludes, Active, vp
<1>7. OutputCounted'
  <2>1. \A v \in Vnodes : Writes(v)' = Writes(v)
    BY <1>0 DEF TypeOK, Writes, isOutput, Sound, BusyMeansOwned, Busy
  <2> QED
    BY <2>1, SameWrites
<1>8. StillMissing' /\ OneBufferPerBlock'
  BY DEF TypeOK, StillMissing, OneBufferPerBlock, vp, LockExcludes, Active, Placed
<1>9. Latest'
  BY <1>0, <1>00 DEF TypeOK, Latest, vp
<1>10. WriteEnded' /\ SavedFirst' /\ FsyncDurable'
  <2>1. WriteEnded'
    <3>1. ASSUME NEW q \in Procs, pc[q] = "bwrite" PROVE q # p /\ bp[q] \in Bufs \ {b}
      BY <3>1 DEF Placed, BusyMeansOwned, Busy, Holds
    <3> QED
      BY <3>1 DEF TypeOK, WriteEnded, vp
  <2>2. SavedFirst' /\ FsyncDurable'
    BY DEF TypeOK, SavedFirst, FsyncDurable, vp
  <2> QED
    BY <2>1, <2>2
<1>11. NothingForgotten'
  BY DEF TypeOK, NothingForgotten, ToBeWritten, isOutput, Holds, BusyMeansOwned, Keeps,
     Sound, Busy, Placed
<1>12. NoLostSleeper'
  <2>1. ASSUME NEW y \in asleep', y # p PROVE Marked(y)'
    <3>1. y \in asleep /\ y \in Procs /\ Marked(y)
      BY <2>1 DEF TypeOK, NoLostSleeper
    <3>2. pc'[y] = pc[y] /\ bp'[y] = bp[y] /\ blk'[y] = blk[y]
      BY <2>1, <3>1 DEF TypeOK
    <3>3. UNCHANGED <<v_numoutput, VBWAIT>>
      OBVIOUS
    <3> QED
      BY <3>1, <3>2, <3>3 DEF TypeOK, Marked, vp, BusyMeansOwned, Busy
  <2>2. ASSUME p \in asleep' PROVE Marked(p)'
    BY <2>2 DEF TypeOK, Marked
  <2> QED
    BY <2>1, <2>2 DEF NoLostSleeper
<1>13. StaleOnlyAfterError'
  BY DEF TypeOK, StaleOnlyAfterError, Placed
<1> QED
  BY <1>1, <1>2, <1>3, <1>4, <1>5, <1>6, <1>7,
     <1>8, <1>9, <1>10, <1>11, <1>12, <1>13

\* getblk has its buffer: valid, to be read, or to be filled.
LEMMA GotKeeps ==
  ASSUME IInv, NEW p \in Procs, NEW b \in Bufs, NEW f \in SUBSET Flags,
         Takes(p, b, f), Got(p, b, f)
  PROVE  IInv'
<1>1. CASE /\ op[p] = "bread" /\ valid(f)
           /\ b_flags' = [b_flags EXCEPT ![b] = f]
           /\ Goes(p, "has", b, NoProc)
           /\ UNCHANGED <<io, asleep, data>>
  BY <1>1, GotValid
<1>2. CASE /\ op[p] # "getblk" /\ ~valid(f)
           /\ b_flags' = [b_flags EXCEPT ![b] =
                f \cup {"B_READ"} \cup {e \in {"B_ASYNC"} : op[p] = "breada"}]
           /\ io' = io \cup {b}
           /\ current' = (current \ {b}) \cup {c \in {b} : blk[p] \in stored}
           /\ IF op[p] = "bread" THEN Goes(p, "biowait", b, NoProc) /\ Sleeps(p)
                                 ELSE Returns(p) /\ UNCHANGED asleep
           /\ UNCHANGED stored
  <2>1. CASE op[p] = "bread"
    <3>1. {e \in {"B_ASYNC"} : op[p] = "breada"} = {}
      BY <2>1
    <3> QED
      BY <1>2, <2>1, <3>1, GotToRead
  <2>2. CASE op[p] # "bread"
    <3>1. {e \in {"B_ASYNC"} : op[p] = "breada"} = {"B_ASYNC"}
      BY <1>2, <2>2 DEF IInv, Takes, Placed, BlockCalls
    <3> QED
      BY <1>2, <2>2, <3>1, GotToRead
  <2> QED
    BY <2>1, <2>2
<1>3. CASE /\ op[p] = "getblk"
           /\ b_flags' = [b_flags EXCEPT ![b] = f]
           /\ Modified(b, blk[p])
           /\ Goes(p, "modified", b, NoProc)
           /\ UNCHANGED <<io, asleep>>
  BY <1>3, GotToFill
<1> QED
  BY <1>1, <1>2, <1>3 DEF Got

\* getnewbuf sleeps when there is no free buffer.
LEMMA SleepsForAny ==
  ASSUME IInv, NEW p \in Procs, pc[p] = "getnewbuf", p \notin asleep,
         curproc \in {NoProc, p}, bfreelist = {}, freewanted' = TRUE, Sleeps(p),
         Goes(p, "getnewbuf", NoBuf, NoProc),
         UNCHANGED <<b_flags, b_blk, bfreelist, dirtyblk, output, data, system>>
  PROVE  IInv'
<1> USE Constants DEF IInv, Goes, Sleeps, output, data
<1>1. TypeOK'
  BY DEF TypeOK, Flags, Places, Fates, BlockCalls, VnodeCalls
<1>2. BusyMeansOwned'
  BY DEF TypeOK, BusyMeansOwned, Busy, Holds, Sound, Placed
<1>3. ASSUME NEW y \in Procs PROVE Placed(y)'
  BY DEF TypeOK, Placed, vp
<1>4. ASSUME NEW y \in Procs, NEW c \in Bufs PROVE Keeps(y, c)'
  BY DEF TypeOK, BusyMeansOwned, Busy, Holds, Sound, Placed, Keeps
<1>5. ASSUME NEW c \in Bufs PROVE Sound(c)'
  BY DEF TypeOK, BusyMeansOwned, Busy, Holds, Sound, Placed, Keeps
<1>6. LockExcludes'
  BY DEF TypeOK, LockExcludes, Active, vp
<1>7. OutputCounted'
  <2>1. \A v \in Vnodes : Writes(v)' = Writes(v)
    BY DEF Writes
  <2> QED
    BY <2>1, SameWrites
<1>8. StillMissing' /\ OneBufferPerBlock'
  BY DEF TypeOK, StillMissing, OneBufferPerBlock, vp, LockExcludes, Active, Placed
<1>9. Latest'
  BY DEF TypeOK, Latest, OneBufferPerBlock, BusyMeansOwned, Busy, Placed, vp,
     Keeps, Holds, StillMissing
<1>10. WriteEnded' /\ SavedFirst' /\ FsyncDurable'
  BY DEF TypeOK, WriteEnded, SavedFirst, FsyncDurable, vp, Placed, LockExcludes,
     Active, Holds, Keeps, BusyMeansOwned, Sound, Busy
<1>11. NothingForgotten'
  BY DEF TypeOK, NothingForgotten, ToBeWritten, isOutput, Holds, BusyMeansOwned, Keeps,
     Sound, Busy, Placed
<1>12. NoLostSleeper'
  BY DEF TypeOK, NoLostSleeper, Marked, vp, OnBuf, OnFreelist, OnOutput, Placed
<1>13. StaleOnlyAfterError'
  BY DEF TypeOK, StaleOnlyAfterError, Placed
<1> QED
  BY <1>1, <1>2, <1>3, <1>4, <1>5, <1>6, <1>7,
     <1>8, <1>9, <1>10, <1>11, <1>12, <1>13

\* biowait returns to the caller of bread.
LEMMA ReadKeeps ==
  ASSUME IInv, NEW p \in Procs, pc[p] = "biowait", p \notin asleep,
         curproc \in {NoProc, p}, bp[p] \notin io, Goes(p, "has", bp[p], NoProc),
         UNCHANGED <<asleep, cache, output, data, system>>
  PROVE  IInv'
<1> USE Constants DEF IInv, Goes, cache, output, data
<1>1. TypeOK'
  BY DEF TypeOK, Flags, Places, Fates, BlockCalls, VnodeCalls
<1>2. BusyMeansOwned'
  BY DEF TypeOK, BusyMeansOwned, Busy, Holds, Sound, Placed
<1>3. ASSUME NEW y \in Procs PROVE Placed(y)'
  BY DEF TypeOK, Placed, vp
<1>4. ASSUME NEW y \in Procs, NEW c \in Bufs PROVE Keeps(y, c)'
  BY DEF TypeOK, BusyMeansOwned, Busy, Holds, Sound, Placed, Keeps
<1>5. ASSUME NEW c \in Bufs PROVE Sound(c)'
  BY DEF TypeOK, BusyMeansOwned, Busy, Holds, Sound, Placed, Keeps
<1>6. LockExcludes'
  BY DEF TypeOK, LockExcludes, Active, vp
<1>7. OutputCounted'
  <2>1. \A v \in Vnodes : Writes(v)' = Writes(v)
    BY DEF Writes
  <2> QED
    BY <2>1, SameWrites
<1>8. StillMissing' /\ OneBufferPerBlock'
  BY DEF TypeOK, StillMissing, OneBufferPerBlock, vp, LockExcludes, Active, Placed
<1>9. Latest'
  BY DEF TypeOK, Latest, OneBufferPerBlock, BusyMeansOwned, Busy, Placed, vp,
     Keeps, Holds, StillMissing
<1>10. WriteEnded' /\ SavedFirst' /\ FsyncDurable'
  BY DEF TypeOK, WriteEnded, SavedFirst, FsyncDurable, vp, Placed, LockExcludes,
     Active, Holds, Keeps, BusyMeansOwned, Sound, Busy
<1>11. NothingForgotten'
  BY DEF TypeOK, NothingForgotten, ToBeWritten, isOutput, Holds, BusyMeansOwned, Keeps,
     Sound, Busy, Placed
<1>12. NoLostSleeper'
  BY DEF TypeOK, NoLostSleeper, Marked, vp, OnBuf, OnFreelist, OnOutput, Placed
<1>13. StaleOnlyAfterError'
  BY DEF TypeOK, StaleOnlyAfterError, Placed
<1> QED
  BY <1>1, <1>2, <1>3, <1>4, <1>5, <1>6, <1>7,
     <1>8, <1>9, <1>10, <1>11, <1>12, <1>13

\* The kernel may stop.
LEMMA HaltKeeps ==
  ASSUME IInv, system' \in Fates, UNCHANGED <<cache, output, procs, data>>
  PROVE  IInv'
<1> USE DEF IInv, cache, output, procs, data
<1>1. TypeOK'
  BY DEF TypeOK
<1>2. \A v \in Vnodes : Writes(v)' = Writes(v)
  BY DEF Writes
<1>3. /\ BusyMeansOwned'
      /\ \A p \in Procs : Placed(p)' /\ \A b \in Bufs : Keeps(p, b)'
      /\ \A b \in Bufs : Sound(b)'
  BY DEF BusyMeansOwned, Busy, Holds, Placed, vp, Keeps, Sound
<1>4. LockExcludes' /\ OutputCounted' /\ StillMissing' /\ OneBufferPerBlock' /\ Latest'
  BY <1>2, SameWrites DEF LockExcludes, Active, vp, StillMissing, OneBufferPerBlock, Latest
<1>5. WriteEnded' /\ SavedFirst' /\ NothingForgotten' /\ FsyncDurable'
  BY DEF WriteEnded, SavedFirst, FsyncDurable, vp, NothingForgotten, ToBeWritten, Holds
<1>6. NoLostSleeper' /\ StaleOnlyAfterError'
  BY DEF NoLostSleeper, Marked, vp, StaleOnlyAfterError
<1> QED
  BY <1>1, <1>3, <1>4, <1>5, <1>6

\* What biodone does to the counts and to the disk.  The disk gets the latest
\* contents of a file's block, or keeps what it has.
LEMMA BiodoneFacts ==
  ASSUME IInv, NEW b \in Bufs, NEW failed \in BOOLEAN, biodone(b, failed)
  PROVE  /\ b \in io /\ b_blk[b] \in Blocks /\ Busy(b)
         /\ b_flags[b] \cap {"B_DONE", "B_INVAL"} = {}
         /\ io' = io \ {b} /\ UNCHANGED <<pc, op, blk, bp, curproc, system>>
         /\ OutputCounted' /\ v_numoutput' \in [Vnodes -> Nat]
         /\ VBWAIT' \subseteq VBWAIT /\ asleep' \subseteq asleep
         /\ \A y \in asleep' : pc[y] = "output" /\ vp(y) \in VBWAIT /\ blk[y] \in Blocks
               => vp(y) \in VBWAIT' /\ (v_numoutput[vp(y)] # 0 => v_numoutput'[vp(y)] # 0)
         /\ stored' \subseteq Blocks
         /\ \A x \in stored : vnode(x) \in Locked => x \in stored'
         /\ vnode(b_blk[b]) \in Locked /\ isOutput(b_flags[b]) /\ ~failed
               => b_blk[b] \in stored'
<1> USE Constants DEF IInv
<1> DEFINE f == b_flags[b] \cup {"B_DONE"} \cup {e \in {"B_ERROR"} : failed}
           x == b_blk[b]
           disk == CASE failed \/ ~isOutput(f) -> stored
                     [] b \in current -> stored \cup {x}
                     [] OTHER -> stored \ {x}
           woken == IF isOutput(f) THEN vwakeup(vnode(x)) ELSE {}
<1>1. /\ b \in io /\ b_blk[b] \in Blocks /\ Busy(b)
      /\ b_flags[b] \cap {"B_DONE", "B_INVAL"} = {}
  BY DEF biodone, Sound, TypeOK
<1>2. isOutput(f) <=> isOutput(b_flags[b])
  BY DEF isOutput
<1>3. /\ io' = io \ {b} /\ UNCHANGED <<pc, op, blk, bp, curproc, system>>
      /\ v_numoutput' = IF isOutput(f) THEN [v_numoutput EXCEPT ![vnode(x)] = @ - 1]
                                      ELSE v_numoutput
      /\ VBWAIT' = IF isOutput(f) /\ v_numoutput[vnode(x)] = 1 THEN VBWAIT \ {vnode(x)}
                                                            ELSE VBWAIT
  BY DEF biodone
<1>4. \/ brelse(b, f \ {"B_READ"}, disk, woken)
      \/ /\ b_flags' = [b_flags EXCEPT ![b] = f \ {"B_WANTED", "B_READ"}]
         /\ Wakes(OnBuf(b) \cup woken) /\ stored' = disk /\ UNCHANGED b_blk
  BY DEF biodone
<1> HIDE DEF f, x, disk, woken
<1>5. \A c \in Bufs \ {b} : b_flags'[c] = b_flags[c] /\ b_blk'[c] = b_blk[c]
  BY <1>4 DEF TypeOK, brelse
<1>6. asleep' \subseteq asleep \ woken
  BY <1>4 DEF brelse, Wakes
<1>7. disk \subseteq stored' /\ stored' \subseteq disk \cup {x}
  BY <1>4 DEF brelse, x
<1>8. /\ \A y \in stored : vnode(y) \in Locked => y \in disk
      /\ vnode(x) \in Locked /\ isOutput(f) /\ ~failed => x \in disk
      /\ disk \subseteq Blocks /\ x \in Blocks
  <2>1. vnode(x) \in Locked => b \in current
    BY <1>1 DEF Latest, x
  <2> QED
    BY <1>1, <2>1 DEF TypeOK, disk, x
<1>9. /\ OutputCounted' /\ v_numoutput' \in [Vnodes -> Nat]
      /\ isOutput(f) => v_numoutput[vnode(x)] # 0
  <2>1. CASE isOutput(f)
    <3>1. PICK v \in Vnodes : v = vnode(b_blk[b])
      BY <1>1
    <3>2. /\ v_numoutput' = [v_numoutput EXCEPT ![v] = @ - 1] /\ v = vnode(x)
          /\ isOutput(b_flags[b])
      BY <1>2, <1>3, <2>1, <3>1 DEF x
    <3>3. /\ \A c \in io \ {b} : b_blk'[c] = b_blk[c]
          /\ \A c \in io \ {b} : isOutput(b_flags'[c]) <=> isOutput(b_flags[c])
      BY <1>5 DEF TypeOK
    <3> QED
      BY <1>1, <1>3, <3>1, <3>2, <3>3, OneWriteLess
  <2>2. CASE ~isOutput(f)
    <3>1. \A v \in Vnodes : Writes(v)' = Writes(v)
      BY <1>2, <1>3, <1>5, <2>2 DEF Writes, TypeOK
    <3> QED
      BY <1>3, <2>2, <3>1, SameWrites DEF TypeOK
  <2> QED
    BY <2>1, <2>2
<1>10. ASSUME NEW y \in asleep', pc[y] = "output", vp(y) \in VBWAIT, blk[y] \in Blocks
       PROVE  vp(y) \in VBWAIT' /\ (v_numoutput[vp(y)] # 0 => v_numoutput'[vp(y)] # 0)
  <2>1. vp(y) \in Vnodes /\ y \in asleep \ woken
    BY <1>6, <1>10 DEF vp
  <2>2. CASE isOutput(f) /\ vp(y) = vnode(x)
    <3>1. v_numoutput[vnode(x)] # 1
      BY <1>10, <2>1, <2>2 DEF woken, vwakeup, OnOutput
    <3> QED
      BY <1>3, <1>9, <1>10, <2>1, <2>2, <3>1 DEF TypeOK
  <2>3. CASE ~(isOutput(f) /\ vp(y) = vnode(x))
    BY <1>3, <1>10, <2>1, <2>3 DEF TypeOK
  <2> QED
    BY <2>2, <2>3
<1>11. VBWAIT' \subseteq VBWAIT /\ asleep' \subseteq asleep
  BY <1>3, <1>6
<1> QED
  BY <1>1, <1>2, <1>3, <1>7, <1>8, <1>9, <1>10, <1>11 DEF x

\* biodone of what nobody waits for: the buffer is released, and what a failed
\* write held is given up.
LEMMA BiodoneAsync ==
  ASSUME IInv, NEW b \in Bufs, NEW failed \in BOOLEAN, biodone(b, failed),
         "B_ASYNC" \in b_flags[b]
  PROVE  IInv'
<1> USE Constants DEF IInv
<1> DEFINE err == failed \/ "B_ERROR" \in b_flags[b]
<1>1. \A q \in Procs : ~Holds(q, b)
  BY DEF BusyMeansOwned
<1>2. /\ b \in io /\ b_blk[b] \in Blocks /\ Busy(b)
      /\ b_flags[b] \cap {"B_DONE", "B_INVAL"} = {}
      /\ io' = io \ {b} /\ UNCHANGED <<pc, op, blk, bp, curproc, system>>
      /\ OutputCounted' /\ v_numoutput' \in [Vnodes -> Nat]
      /\ VBWAIT' \subseteq VBWAIT /\ asleep' \subseteq asleep
      /\ \A y \in asleep' : pc[y] = "output" /\ vp(y) \in VBWAIT /\ blk[y] \in Blocks
            => vp(y) \in VBWAIT' /\ (v_numoutput[vp(y)] # 0 => v_numoutput'[vp(y)] # 0)
      /\ stored' \subseteq Blocks
      /\ \A x \in stored : vnode(x) \in Locked => x \in stored'
      /\ vnode(b_blk[b]) \in Locked /\ isOutput(b_flags[b]) /\ ~failed
            => b_blk[b] \in stored'
  BY BiodoneFacts
<1>3. /\ bfreelist' = bfreelist \cup {b} /\ freewanted' = FALSE
      /\ b_flags' \in [Bufs -> SUBSET Flags]
      /\ \A c \in Bufs \ {b} : b_flags'[c] = b_flags[c]
      /\ b_flags'[b] \cap {"B_BUSY", "B_ASYNC"} = {}
      /\ "B_DELWRI" \in b_flags'[b] => b \in dirtyblk'
      /\ dirtyblk \ {b} \subseteq dirtyblk' /\ dirtyblk' \subseteq dirtyblk \cup {b}
      /\ "B_WANTED" \in b_flags[b] => asleep' \cap OnBuf(b) = {}
      /\ freewanted => asleep' \cap OnFreelist = {}
      /\ err => /\ b_blk' = [b_blk EXCEPT ![b] = NoBlk] /\ current' = current \ {b}
                /\ "B_DELWRI" \notin b_flags'[b] /\ "B_ERROR" \in b_flags'[b]
                /\ b \in current => b_blk[b] \in stored'
      /\ ~err => /\ UNCHANGED <<b_blk, current>> /\ "B_INVAL" \notin b_flags'[b]
                 /\ "B_DELWRI" \in b_flags[b] => "B_DELWRI" \in b_flags'[b]
  <2> DEFINE g == (b_flags[b] \cup {"B_DONE"} \cup {e \in {"B_ERROR"} : failed}) \ {"B_READ"}
  <2>1. PICK disk, woken : brelse(b, g, disk, woken)
    BY DEF biodone
  <2>2. g \in SUBSET Flags /\ (invalid(g) <=> err) /\ ("B_ERROR" \in g <=> err)
    BY <1>2 DEF invalid, TypeOK, Flags
  <2>3. b_flags' \in [Bufs -> SUBSET Flags]
    BY <2>1, <2>2 DEF brelse, TypeOK, Flags
  <2>4. "B_INVAL" \notin g /\ (b_flags[b] \cap {"B_DELWRI", "B_WANTED"} \subseteq g)
    BY <1>2
  <2> HIDE DEF g, err
  <2>5. /\ bfreelist' = bfreelist \cup {b} /\ freewanted' = FALSE
        /\ \A c \in Bufs \ {b} : b_flags'[c] = b_flags[c]
        /\ b_flags'[b] \cap {"B_BUSY", "B_ASYNC"} = {}
        /\ "B_DELWRI" \in b_flags'[b] => b \in dirtyblk'
        /\ dirtyblk \ {b} \subseteq dirtyblk' /\ dirtyblk' \subseteq dirtyblk \cup {b}
    BY <2>1 DEF brelse, TypeOK, reassignbuf
  <2>6. /\ "B_WANTED" \in b_flags[b] => asleep' \cap OnBuf(b) = {}
        /\ freewanted => asleep' \cap OnFreelist = {}
    BY <2>1, <2>4 DEF brelse, Wakes, freed
  <2>7. CASE err
    BY <2>1, <2>2, <2>3, <2>5, <2>6, <2>7 DEF brelse, TypeOK
  <2>8. CASE ~err
    BY <2>1, <2>2, <2>3, <2>4, <2>5, <2>6, <2>8 DEF brelse, TypeOK
  <2> QED
    BY <2>7, <2>8
<1>0. ASSUME NEW c \in Bufs, b_blk'[c] # NoBlk
      PROVE  b_blk'[c] = b_blk[c] /\ (c \in current => c \in current')
  BY <1>0, <1>3 DEF TypeOK
<1> HIDE DEF err
<1>4. TypeOK'
  <2>1. b_blk' \in [Bufs -> Blocks \cup {NoBlk}] /\ current' \subseteq Bufs
    BY <1>3 DEF TypeOK
  <2>2. dirtyblk' \subseteq Bufs /\ bfreelist' \subseteq Bufs
    BY <1>3 DEF TypeOK
  <2> QED
    BY <1>2, <1>3, <2>1, <2>2 DEF TypeOK
<1>5. BusyMeansOwned'
  BY <1>1, <1>2, <1>3 DEF TypeOK, BusyMeansOwned, Busy, Holds
<1>6. ASSUME NEW y \in Procs PROVE Placed(y)'
  BY <1>2, <1>3 DEF TypeOK, Placed, vp
<1>7. ASSUME NEW y \in Procs, NEW c \in Bufs PROVE Keeps(y, c)'
  BY <1>1, <1>2, <1>3 DEF TypeOK, Holds, Keeps, isOutput
<1>8. ASSUME NEW c \in Bufs PROVE Sound(c)'
  BY <1>1, <1>2, <1>3 DEF TypeOK, BusyMeansOwned, Busy, Sound
<1>9. LockExcludes'
  BY <1>2 DEF LockExcludes, Active, vp
<1>10. StillMissing' /\ OneBufferPerBlock' /\ Latest'
  <2>1. Latest'
    BY <1>0 DEF Latest
  <2> QED
    BY <1>0, <1>2, <2>1 DEF StillMissing, OneBufferPerBlock, vp, Placed
<1>11. WriteEnded' /\ SavedFirst' /\ FsyncDurable'
  <2>1. \A q \in Procs : pc[q] = "bwrite" => bp[q] \in Bufs \ {b}
    BY <1>1 DEF Holds, Placed
  <2>2. WriteEnded'
    BY <1>2, <1>3, <2>1 DEF TypeOK, WriteEnded, vp, Placed
  <2>3. SavedFirst' /\ FsyncDurable'
    BY <1>2 DEF SavedFirst, FsyncDurable, vp, Placed
  <2> QED
    BY <2>2, <2>3
<1>12. NothingForgotten'
  <2> SUFFICES ASSUME NEW x \in Blocks, vnode(x) \in Locked, x \notin stored'
               PROVE  \E c \in current' : b_blk'[c] = x /\ ToBeWritten(c)'
    BY DEF NothingForgotten
  <2>1. x \notin stored
    BY <1>2
  <2>2. PICK c \in current : b_blk[c] = x /\ ToBeWritten(c)
    BY <2>1 DEF NothingForgotten
  <2>3. CASE c = b
    <3>1. ~err /\ ~failed
      BY <1>3, <2>2, <2>3 DEF err
    <3>2. ~isOutput(b_flags[b])
      BY <1>2, <2>2, <2>3, <3>1
    <3>3. "B_DELWRI" \in b_flags[b]
      BY <1>1, <2>2, <2>3, <3>2 DEF ToBeWritten
    <3> QED
      BY <1>3, <2>2, <2>3, <3>1, <3>3 DEF ToBeWritten
  <2>4. CASE c # b
    <3>1. c \in Bufs /\ \A q \in Procs : Holds(q, c) => Holds(q, c)'
      BY <1>2, <2>2 DEF TypeOK, Holds
    <3>2. c \in current' /\ b_blk'[c] = x
      BY <1>3, <2>2, <2>4, <3>1 DEF TypeOK
    <3>3. ToBeWritten(c)'
      BY <1>2, <1>3, <2>2, <2>4, <3>1 DEF ToBeWritten
    <3> QED
      BY <3>2, <3>3
  <2> QED
    BY <2>3, <2>4
<1>13. NoLostSleeper'
  <2>1. ASSUME NEW y \in asleep' PROVE Marked(y)'
    <3>1. y \in asleep /\ Marked(y) /\ y \in Procs /\ Placed(y)
      BY <1>2, <2>1 DEF NoLostSleeper, TypeOK
    <3>2. pc[y] \in {"getblk", "inval"} => bp[y] \in Bufs \ {b}
      BY <1>3, <2>1, <3>1 DEF Marked, OnBuf, Placed
    <3>3. pc[y] \in {"biowait", "bwrite"} => bp[y] # b
      BY <1>1, <3>1 DEF Holds
    <3>4. pc[y] # "getnewbuf"
      BY <1>3, <2>1, <3>1 DEF Marked, OnFreelist
    <3> QED
      BY <1>2, <1>3, <2>1, <3>1, <3>2, <3>3, <3>4 DEF Marked, Placed, vp
  <2> QED
    BY <2>1 DEF NoLostSleeper
<1>14. StaleOnlyAfterError'
  <2>1. ASSUME NEW y \in Procs, pc[y] = "found", b_blk'[bp[y]] # blk[y]
        PROVE  "B_ERROR" \in b_flags'[bp[y]]
    <3>1. CASE bp[y] = b /\ err
      BY <1>3, <3>1
    <3>2. CASE ~(bp[y] = b /\ err)
      <4>1. b_blk'[bp[y]] = b_blk[bp[y]]
        BY <1>3, <2>1, <3>2 DEF TypeOK, Placed
      <4> QED
        BY <1>3, <2>1, <3>2, <4>1 DEF StaleOnlyAfterError, Placed, err
    <3> QED
      BY <3>1, <3>2
  <2> QED
    BY <1>2, <2>1 DEF StaleOnlyAfterError
<1> QED
  BY <1>2, <1>4, <1>5, <1>6, <1>7, <1>8, <1>9, <1>10, <1>11, <1>12, <1>13, <1>14

\* biodone of what its holder waits for.
LEMMA BiodoneSync ==
  ASSUME IInv, NEW b \in Bufs, NEW failed \in BOOLEAN, biodone(b, failed),
         "B_ASYNC" \notin b_flags[b]
  PROVE  IInv'
<1> USE Constants DEF IInv
<1>1. \E q \in Procs : Holds(q, b)
  BY BiodoneFacts DEF BusyMeansOwned
<1>2. /\ b \in io /\ b_blk[b] \in Blocks /\ Busy(b)
      /\ b_flags[b] \cap {"B_DONE", "B_INVAL"} = {}
      /\ io' = io \ {b} /\ UNCHANGED <<pc, op, blk, bp, curproc, system>>
      /\ OutputCounted' /\ v_numoutput' \in [Vnodes -> Nat]
      /\ VBWAIT' \subseteq VBWAIT /\ asleep' \subseteq asleep
      /\ \A y \in asleep' : pc[y] = "output" /\ vp(y) \in VBWAIT /\ blk[y] \in Blocks
            => vp(y) \in VBWAIT' /\ (v_numoutput[vp(y)] # 0 => v_numoutput'[vp(y)] # 0)
      /\ stored' \subseteq Blocks
      /\ \A x \in stored : vnode(x) \in Locked => x \in stored'
      /\ vnode(b_blk[b]) \in Locked /\ isOutput(b_flags[b]) /\ ~failed
            => b_blk[b] \in stored'
  BY BiodoneFacts
<1>3. /\ UNCHANGED <<b_blk, bfreelist, freewanted, dirtyblk, current>>
      /\ b_flags' \in [Bufs -> SUBSET Flags]
      /\ \A c \in Bufs \ {b} : b_flags'[c] = b_flags[c]
      /\ b_flags'[b] \cap {"B_ASYNC", "B_INVAL"} = {} /\ "B_BUSY" \in b_flags'[b]
      /\ "B_DELWRI" \in b_flags'[b] <=> "B_DELWRI" \in b_flags[b]
      /\ failed \/ "B_ERROR" \in b_flags[b] => "B_ERROR" \in b_flags'[b]
      /\ asleep' \cap OnBuf(b) = {}
  <2>1. PICK woken :
          /\ b_flags' = [b_flags EXCEPT ![b] =
               (b_flags[b] \cup {"B_DONE"} \cup {e \in {"B_ERROR"} : failed})
                 \ {"B_WANTED", "B_READ"}]
          /\ Wakes(OnBuf(b) \cup woken)
          /\ UNCHANGED <<b_blk, bfreelist, freewanted, dirtyblk, current>>
    BY DEF biodone
  <2> QED
    BY <1>2, <2>1 DEF Busy, TypeOK, Flags, Wakes
<1>4. TypeOK'
  BY <1>2, <1>3 DEF TypeOK
<1>5. BusyMeansOwned'
  BY <1>1, <1>2, <1>3 DEF TypeOK, BusyMeansOwned, Busy, Holds
<1>6. ASSUME NEW y \in Procs PROVE Placed(y)'
  BY <1>2, <1>3 DEF TypeOK, Placed, vp
<1>7. ASSUME NEW y \in Procs, NEW c \in Bufs PROVE Keeps(y, c)'
  BY <1>1, <1>2, <1>3 DEF TypeOK, Holds, Keeps, isOutput
<1>8. ASSUME NEW c \in Bufs PROVE Sound(c)'
  BY <1>1, <1>2, <1>3 DEF TypeOK, BusyMeansOwned, Busy, Sound
<1>9. LockExcludes'
  BY <1>2 DEF LockExcludes, Active, vp
<1>10. StillMissing' /\ OneBufferPerBlock' /\ Latest'
  BY <1>1, <1>2, <1>3 DEF TypeOK, StillMissing, OneBufferPerBlock, vp, Latest
<1>11. WriteEnded' /\ SavedFirst' /\ FsyncDurable'
  <2>1. WriteEnded'
    <3> SUFFICES ASSUME NEW q \in Procs, pc[q] = "bwrite", vp(q) \in Locked, bp[q] \notin io'
                 PROVE  "B_ERROR" \in b_flags'[bp[q]] \/ blk[q] \in stored'
      BY <1>2 DEF WriteEnded, vp
    <3>1. CASE bp[q] = b
      <4>1. b_blk[b] = blk[q]
        BY <3>1 DEF Keeps, Holds
      <4> QED
        BY <1>2, <1>3, <3>1, <4>1 DEF Sound, Keeps, Holds, vp
    <3>2. CASE bp[q] # b
      BY <1>2, <1>3, <3>2 DEF WriteEnded, Placed, vp
    <3> QED
      BY <3>1, <3>2
  <2>2. SavedFirst' /\ FsyncDurable'
    BY <1>2 DEF SavedFirst, FsyncDurable, vp, Placed
  <2> QED
    BY <2>1, <2>2
<1>12. NothingForgotten'
  <2> SUFFICES ASSUME NEW x \in Blocks, vnode(x) \in Locked, x \notin stored'
               PROVE  \E c \in current' : b_blk'[c] = x /\ ToBeWritten(c)'
    BY DEF NothingForgotten
  <2>1. x \notin stored
    BY <1>2
  <2>2. PICK c \in current : b_blk[c] = x /\ ToBeWritten(c)
    BY <2>1 DEF NothingForgotten
  <2>3. c \in Bufs /\ \A q \in Procs : Holds(q, c) => Holds(q, c)'
    BY <1>2, <2>2 DEF TypeOK, Holds
  <2>4. ToBeWritten(c)'
    <3>1. CASE c = b
      <4>1. isOutput(b_flags[b]) => \E q \in Procs : Holds(q, b)' /\ pc'[q] = "bwrite"
        BY <1>1, <1>2, <2>3, <3>1 DEF Keeps
      <4> QED
        BY <1>2, <1>3, <2>2, <2>3, <3>1, <4>1 DEF ToBeWritten
    <3>2. CASE c # b
      BY <1>2, <1>3, <2>2, <2>3, <3>2 DEF ToBeWritten
    <3> QED
      BY <3>1, <3>2
  <2> QED
    BY <1>3, <2>2, <2>4
<1>13. NoLostSleeper'
  <2>1. ASSUME NEW y \in asleep' PROVE Marked(y)'
    <3>1. y \in asleep /\ Marked(y) /\ y \in Procs /\ Placed(y)
      BY <1>2, <2>1 DEF NoLostSleeper, TypeOK
    <3>2. bp[y] # b
      BY <1>3, <2>1, <3>1 DEF OnBuf
    <3> QED
      BY <1>2, <1>3, <2>1, <3>1, <3>2 DEF Marked, Placed, vp
  <2> QED
    BY <2>1 DEF NoLostSleeper
<1>14. StaleOnlyAfterError'
  BY <1>2, <1>3 DEF TypeOK, StaleOnlyAfterError, Placed
<1> QED
  BY <1>2, <1>4, <1>5, <1>6, <1>7, <1>8, <1>9, <1>10, <1>11, <1>12, <1>13, <1>14

\* vinvalbuf.
LEMMA VinvalbufFrees ==
  ASSUME IInv, NEW p \in Procs, Runs(p, "inval"), NEW b \in BufsOf(vp(p)), ~Busy(b),
         brelse(b, b_flags[b] \cup {"B_INVAL"},
                stored \cup {x \in {b_blk[b]} : op[p] = "inval"}, {}),
         Goes(p, "inval", NoBuf, p), UNCHANGED <<output, system>>
  PROVE  IInv'
<1> USE Constants DEF IInv, Goes, Runs, output
<1>1. /\ b \in Bufs /\ b_blk[b] \in Blocks /\ vnode(b_blk[b]) = vp(p) /\ vp(p) \in Locked
      /\ b \in bfreelist /\ b \notin io /\ \A q \in Procs : ~Holds(q, b)
  BY DEF BufsOf, TypeOK, Placed, BusyMeansOwned, Sound
<1>2. /\ b_flags' = [b_flags EXCEPT ![b] = {"B_INVAL"} \cup (b_flags[b] \cap {"B_ERROR"})]
      /\ b_blk' = [b_blk EXCEPT ![b] = NoBlk]
      /\ dirtyblk' = dirtyblk \ {b} /\ current' = current \ {b}
      /\ bfreelist' = bfreelist /\ asleep' \subseteq asleep
      /\ freewanted => asleep' \cap OnFreelist = {}
      /\ stored \subseteq stored'
      /\ op[p] = "inval" => b_blk[b] \in stored'
  BY <1>1 DEF brelse, invalid, reassignbuf, Wakes, freed
<1>3. TypeOK'
  <2>1. /\ b_flags[b] \cup {"B_INVAL"} \in SUBSET Flags
        /\ stored \cup {x \in {b_blk[b]} : op[p] = "inval"} \in SUBSET Blocks
    BY <1>1 DEF TypeOK, Flags
  <2> QED
    BY <1>1, <2>1, BrelseTypes DEF TypeOK, Places
<1>4. BusyMeansOwned'
  BY <1>1, <1>2 DEF TypeOK, BusyMeansOwned, Busy, Holds
<1>5. ASSUME NEW y \in Procs PROVE Placed(y)'
  BY <1>2 DEF TypeOK, Placed, vp
<1>6. ASSUME NEW y \in Procs, NEW c \in Bufs PROVE Keeps(y, c)'
  BY <1>1, <1>2 DEF TypeOK, Holds, Keeps, isOutput
<1>7. ASSUME NEW c \in Bufs PROVE Sound(c)'
  BY <1>1, <1>2 DEF TypeOK, Busy, Sound
<1>8. LockExcludes'
  BY DEF TypeOK, LockExcludes, Active, vp
<1>9. OutputCounted'
  <2>1. \A v \in Vnodes : Writes(v)' = Writes(v)
    BY <1>1, <1>2 DEF TypeOK, Writes
  <2> QED
    BY <2>1, SameWrites
<1>10. StillMissing' /\ OneBufferPerBlock' /\ Latest'
  BY <1>1, <1>2 DEF TypeOK, StillMissing, OneBufferPerBlock, vp, Latest, Placed
<1>11. WriteEnded' /\ SavedFirst' /\ FsyncDurable'
  <2>1. \A q \in Procs : pc[q] = "bwrite" => bp[q] # b
    BY <1>1 DEF Holds
  <2> QED
    BY <1>2, <2>1 DEF TypeOK, WriteEnded, SavedFirst, FsyncDurable, vp, Placed
<1>12. NothingForgotten'
  <2> SUFFICES ASSUME NEW x \in Blocks, vnode(x) \in Locked, x \notin stored'
               PROVE  \E c \in current' : b_blk'[c] = x /\ ToBeWritten(c)'
    BY DEF NothingForgotten
  <2>1. x \notin stored
    BY <1>2
  <2>2. PICK c \in current : b_blk[c] = x /\ ToBeWritten(c)
    BY <2>1 DEF NothingForgotten
  <2>3. c # b
    BY <1>1, <1>2, <2>1, <2>2 DEF SavedFirst, Placed
  <2>4. \A q \in Procs : Holds(q, c) /\ pc[q] \in {"modified", "bwrite"}
                           => Holds(q, c)' /\ pc'[q] = pc[q]
    BY DEF TypeOK, Holds
  <2>5. ToBeWritten(c)'
    BY <1>2, <2>2, <2>3, <2>4 DEF TypeOK, ToBeWritten
  <2> QED
    BY <1>2, <2>2, <2>3, <2>5 DEF TypeOK
<1>13. NoLostSleeper'
  <2>1. ASSUME NEW y \in asleep' PROVE Marked(y)'
    <3>1. Marked(y) /\ y \in Procs /\ y # p
      BY <1>2, <2>1 DEF NoLostSleeper, TypeOK
    <3>2. pc[y] \in {"getblk", "inval"} => bp[y] # b
      BY <3>1 DEF Marked, Busy
    <3>3. pc[y] # "getnewbuf"
      BY <1>1, <3>1 DEF Marked
    <3> QED
      BY <1>2, <3>1, <3>2, <3>3 DEF TypeOK, Marked, Placed, vp
  <2> QED
    BY <2>1 DEF NoLostSleeper
<1>14. StaleOnlyAfterError'
  BY DEF TypeOK, StaleOnlyAfterError, Placed
<1> QED
  BY <1>3, <1>4, <1>5, <1>6, <1>7, <1>8, <1>9, <1>10, <1>11, <1>12, <1>13, <1>14

-----------------------------------------------------------------------------
\* getblk claims the buffer it found, or sleeps for it.
LEMMA ClaimKeeps ==
  ASSUME IInv, NEW p \in Procs, claim(p) PROVE IInv'
<1> DEFINE b == bp[p]
           f == b_flags[b] \cup {"B_BUSY"}
<1>1. /\ pc[p] = "found" /\ p \notin asleep /\ curproc \in {NoProc, p}
      /\ b \in Bufs /\ f \in SUBSET Flags
  BY DEF IInv, claim, Runs, Placed, TypeOK, Flags
<1>2. CASE Busy(b)
  BY <1>1, <1>2, SleepsForBuffer DEF claim
<1>3. CASE ~Busy(b) /\ b_blk[b] = blk[p]
  <2>1. Got(p, b, f) /\ UNCHANGED b_blk
    BY <1>3 DEF claim
  <2>2. b_blk' = [b_blk EXCEPT ![b] = blk[p]] /\ b \in bfreelist
    BY <1>1, <1>3, <2>1 DEF IInv, TypeOK, BusyMeansOwned
  <2>3. Takes(p, b, f)
    BY <1>1, <1>3, <2>1, <2>2 DEF Got, Takes
  <2> QED
    BY <1>1, <2>1, <2>3, GotKeeps
<1>4. CASE ~Busy(b) /\ b_blk[b] # blk[p]
  BY <1>4, HaltKeeps DEF claim, Fates
<1> QED
  BY <1>2, <1>3, <1>4

\* getnewbuf sleeps for a buffer, writes one or takes one.
LEMMA GetnewbufKeeps ==
  ASSUME IInv, NEW p \in Procs, getnewbuf(p) PROVE IInv'
<1>1. pc[p] = "getnewbuf" /\ p \notin asleep /\ curproc \in {NoProc, p}
  BY DEF getnewbuf, Runs
<1>2. CASE /\ bfreelist = {}
           /\ freewanted' = TRUE /\ Sleeps(p)
           /\ Goes(p, "getnewbuf", NoBuf, NoProc)
           /\ UNCHANGED <<b_flags, b_blk, bfreelist, dirtyblk, output, data, system>>
  BY <1>1, <1>2, SleepsForAny
<1>3. ASSUME NEW b \in bfreelist, mustWrite(b), bawrite(b),
             Goes(p, "getnewbuf", NoBuf, AfterStrategy(p, b)),
             UNCHANGED <<asleep, data, system>>
      PROVE  IInv'
  <2>1. b_blk[b] # NoBlk
    BY <1>3 DEF IInv, TypeOK, Sound, mustWrite
  <2> QED
    BY <1>1, <1>3, <2>1, FreeBufferWritten
<1>4. ASSUME NEW b \in bfreelist, ~mustWrite(b), Got(p, b, {"B_BUSY"}),
             b_blk' = [b_blk EXCEPT ![b] = blk[p]]
      PROVE  IInv'
  <2>1. b \in Bufs /\ {"B_BUSY"} \in SUBSET Flags
    BY DEF IInv, TypeOK, Flags
  <2>2. Takes(p, b, {"B_BUSY"})
    BY <1>1, <1>4 DEF Got, Takes, mustWrite
  <2> QED
    BY <1>4, <2>1, <2>2, GotKeeps
<1> QED
  BY <1>2, <1>3, <1>4 DEF getnewbuf

\* The caller of bread gets the buffer, or gives it back after an error.
LEMMA BiowaitKeeps ==
  ASSUME IInv, NEW p \in Procs, biowait(p) PROVE IInv'
<1> DEFINE b == bp[p]
<1>1. /\ pc[p] = "biowait" /\ p \notin asleep /\ curproc \in {NoProc, p}
      /\ b \in Bufs /\ b \notin io /\ Holds(p, b) /\ b_flags[b] \in SUBSET Flags
  BY DEF IInv, biowait, Runs, Placed, Sound, Holds, TypeOK
<1>2. CASE Goes(p, "has", b, NoProc) /\ UNCHANGED <<asleep, cache, output, data, system>>
  BY <1>1, <1>2, ReadKeeps
<1>3. CASE brelse(b, b_flags[b], stored, {}) /\ Returns(p) /\ UNCHANGED <<output, system>>
  BY <1>1, <1>3, HolderReleases
<1> QED
  BY <1>2, <1>3 DEF biowait

\* The holder gives the buffer back: brelse, bdwrite, and the end of bwrite.
LEMMA ReleaseKeeps ==
  ASSUME IInv, NEW p \in Procs, Release(p) \/ bdwrite(p) \/ Written(p) PROVE IInv'
<1> DEFINE b == bp[p]
<1>1. /\ pc[p] \in {"has", "modified", "bwrite"} /\ p \notin asleep /\ curproc \in {NoProc, p}
      /\ b \in Bufs /\ b \notin io /\ Holds(p, b)
  BY DEF IInv, Release, bdwrite, Written, Runs, Placed, Keeps, Sound, Holds
<1>2. b_flags[b] \in SUBSET Flags /\ b_flags[b] \cup {"B_DELWRI", "B_DONE"} \in SUBSET Flags
  BY <1>1 DEF IInv, TypeOK, Flags
<1>3. CASE Release(p) \/ Written(p)
  BY <1>1, <1>2, <1>3, HolderReleases DEF Release, Written, Runs
<1>4. CASE bdwrite(p)
  BY <1>1, <1>2, <1>4, HolderReleases DEF bdwrite
<1> QED
  BY <1>3, <1>4

\* fsync writes a dirty buffer that nobody holds.
LEMMA FlushKeeps ==
  ASSUME IInv, NEW p \in Procs, Flush(p) PROVE IInv'
<1>1. PICK b \in DirtyOf(vp(p)) :
        /\ ~Busy(b) /\ bawrite(b)
        /\ Goes(p, "fsync", NoBuf, AfterStrategy(p, b))
  BY DEF Flush
<1>2. b \in bfreelist /\ b_blk[b] # NoBlk
  BY <1>1 DEF IInv, BusyMeansOwned, DirtyOf, BufsOf
<1> QED
  BY <1>1, <1>2, FreeBufferWritten DEF Flush, Runs

\* vinvalbuf sleeps for a buffer, frees one, or returns.
LEMMA VinvalbufKeeps ==
  ASSUME IInv, NEW p \in Procs, vinvalbuf(p) PROVE IInv'
<1>1. /\ Runs(p, "inval") /\ pc[p] = "inval" /\ p \notin asleep
      /\ curproc \in {NoProc, p} /\ UNCHANGED <<output, system>>
  BY DEF vinvalbuf, Runs
<1>2. ASSUME NEW b \in BufsOf(vp(p)), Busy(b),
             b_flags' = [b_flags EXCEPT ![b] = @ \cup {"B_WANTED"}],
             Goes(p, "inval", b, NoProc), Sleeps(p),
             UNCHANGED <<b_blk, bfreelist, freewanted, dirtyblk, data>>
      PROVE  IInv'
  <2>1. b \in Bufs
    BY DEF BufsOf
  <2> QED
    BY <1>1, <1>2, <2>1, SleepsForBuffer
<1>3. ASSUME NEW b \in BufsOf(vp(p)), ~Busy(b),
             brelse(b, b_flags[b] \cup {"B_INVAL"},
                    stored \cup {x \in {b_blk[b]} : op[p] = "inval"}, {}),
             Goes(p, "inval", NoBuf, p)
      PROVE  IInv'
  BY <1>1, <1>3, VinvalbufFrees
<1>4. CASE Returns(p) /\ UNCHANGED <<asleep, cache, data>>
  BY <1>1, <1>4, ReturnKeeps DEF Holding
<1> QED
  BY <1>2, <1>3, <1>4 DEF vinvalbuf

\* Every step keeps the invariant.
LEMMA NextIInv == ASSUME IInv, [Next]_vars PROVE IInv'
<1>1. ASSUME NEW p \in Procs, Step(p) PROVE IInv'
  <2>1. CASE FlushNoWait(p)
    BY <2>1, ReturnKeeps DEF FlushNoWait, Flushed, Runs, Holding
  <2> QED
    BY <1>1, <2>1, GetblkKeeps, ClaimKeeps, GetnewbufKeeps, BiowaitKeeps, ReleaseKeeps,
       ModifyKeeps, AsyncWriteKeeps, BwriteKeeps, FlushKeeps, AwaitOutputKeeps,
       SyncedKeeps, VinvalbufKeeps DEF Step
<1>2. ASSUME NEW b \in Bufs, NEW failed \in BOOLEAN, biodone(b, failed) PROVE IInv'
  BY <1>2, BiodoneAsync, BiodoneSync
<1>3. CASE UNCHANGED vars
  BY <1>3, HaltKeeps DEF IInv, TypeOK, vars
<1> QED
  BY <1>1, <1>2, <1>3, CallBlockKeeps, CallVnodeKeeps DEF Next, Halted

\* The inductive invariant holds in every state, for any number of processes,
\* buffers and blocks, with input and output that may fail or not.
THEOREM Invariance == Spec => []IInv
BY InitIInv, NextIInv, PTL DEF Spec

\* The state keeps its types; v_numoutput is never negative (the panic of vwakeup).
THEOREM TypeCorrect == Spec => []TypeOK
<1>1. IInv => TypeOK
  BY DEF IInv
<1> QED
  BY <1>1, Invariance, PTL

\* A buffer is free, with one holder, or with the driver, as B_BUSY says.
THEOREM OwnedWhenBusy == Spec => []BusyMeansOwned
<1>1. IInv => BusyMeansOwned
  BY DEF IInv
<1> QED
  BY <1>1, Invariance, PTL

\* getblk never gives two buffers to one block of a file, although getnewbuf may
\* sleep after the search.
THEOREM SingleBuffer == Spec => []OneBufferPerBlock
<1>1. IInv => OneBufferPerBlock
  BY DEF IInv
<1> QED
  BY <1>1, Invariance, PTL

\* bread of a file returns what was last written to it.
THEOREM ReadsAreLatest == Spec => []ReadsLatest
<1>1. IInv => ReadsLatest
  BY Constants DEF IInv, ReadsLatest, Latest, Placed, Keeps, Holds, vp
<1> QED
  BY <1>1, Invariance, PTL

\* No contents of a file are lost between the buffers and the disk.
THEOREM WritesKept == Spec => []NothingForgotten
<1>1. IInv => NothingForgotten
  BY DEF IInv
<1> QED
  BY <1>1, Invariance, PTL

\* When fsync with MNT_WAIT has ended, the file is on the disk.
THEOREM FsyncIsDurable == Spec => []FsyncDurable
<1>1. IInv => FsyncDurable
  BY DEF IInv
<1> QED
  BY <1>1, Invariance, PTL

\* No wakeup of the buffer cache is lost.
THEOREM SleepersMarked == Spec => []NoLostSleeper
<1>1. IInv => NoLostSleeper
  BY DEF IInv
<1> QED
  BY <1>1, Invariance, PTL

\* Without I/O errors, what getblk found is still its block at splbio.
THEOREM StaleAfterError == Spec => []StaleOnlyAfterError
<1>1. IInv => StaleOnlyAfterError
  BY DEF IInv
<1> QED
  BY <1>1, Invariance, PTL
=============================================================================
