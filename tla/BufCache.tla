------------------------------ MODULE BufCache ------------------------------
(***************************************************************************)
(* The buffer cache (kern/vfs_bio.c) with the buffer lists of vnodes       *)
(* (kern/vfs_subr.c) and the flushing of a vnode (spec_fsync).             *)
(*                                                                         *)
(* A process runs alone until it may sleep: curproc is the one that has    *)
(* yet to.  The completion of input and output (biodone) is an interrupt   *)
(* and comes between any two steps, also between the search of getblk and  *)
(* the splbio under which it claims what it found ("found").               *)
(*                                                                         *)
(* Buffers have one size, so that allocbuf has nothing to do, and which    *)
(* of the free buffers getnewbuf takes is left open.  Contents are kept as *)
(* whether they are the latest of the block.                               *)
(***************************************************************************)
EXTENDS Naturals, FiniteSets

CONSTANTS
  Procs, Bufs,
  Vnodes,
  Blocks,      \* the blocks in use: pairs of a vnode and a block number
  Locked,      \* the vnodes that callers lock around their calls (files); no
               \* lock covers the blocks of a device
  NoBlk, NoBuf, NoProc,
  IOErrors     \* may input and output fail?

ASSUME FiniteBufs  == IsFiniteSet(Bufs)
ASSUME BlocksPairs == Blocks \subseteq Vnodes \X Nat
ASSUME VnodesUsed  == \A v \in Vnodes : \E x \in Blocks : x[1] = v
ASSUME LockedSet   == Locked \subseteq Vnodes
ASSUME NoBlkFresh  == NoBlk \notin Blocks
ASSUME NoBufFresh  == NoBuf \notin Bufs
ASSUME NoProcFresh == NoProc \notin Procs
ASSUME ErrorsBool  == IOErrors \in BOOLEAN

VARIABLES
  b_flags,     \* the flags of each buffer
  b_blk,       \* its b_vp and b_lblkno, NoBlk when b_vp is NULL
  bfreelist,   \* the buffers on the LRU and AGE lists
  freewanted,  \* B_WANTED of bfreelist[0]
  dirtyblk,    \* the buffers on the v_dirtyblkhd of their vnode
  v_numoutput, \* writes in progress, per vnode
  VBWAIT,      \* the vnodes with that flag
  io,          \* the buffers that the driver has
  pc, op,      \* where each process is, and what it was called for
  blk, bp,     \* its block (a vnode and a number) and its buffer
  asleep,      \* the processes that sleep there
  curproc,     \* the process that has not slept yet, if any
  current,     \* the buffers that hold the latest contents of their block
  stored,      \* the blocks whose latest contents are on the disk
  system       \* "runs", or what has become of the kernel

cache  == <<b_flags, b_blk, bfreelist, freewanted, dirtyblk>>
output == <<v_numoutput, VBWAIT, io>>
procs  == <<pc, op, blk, bp, asleep, curproc>>
data   == <<current, stored>>
vars   == <<cache, output, procs, data, system>>

Flags  == {"B_READ", "B_DONE", "B_ERROR", "B_BUSY", "B_WANTED", "B_ASYNC",
           "B_DELWRI", "B_INVAL"}
Places == {"idle", "getblk", "found", "getnewbuf", "biowait", "bwrite", "has", "modified",
           "fsync", "output", "synced", "inval"}
BlockCalls == {"bread", "breada", "getblk"}
VnodeCalls == {"fsync", "fsync_nowait", "inval", "inval_save"}
Fates  == {"runs", "stale buffer", "spins"}

TypeOK ==
  /\ b_flags \in [Bufs -> SUBSET Flags]
  /\ b_blk \in [Bufs -> Blocks \cup {NoBlk}]
  /\ bfreelist \subseteq Bufs /\ freewanted \in BOOLEAN
  /\ dirtyblk \subseteq Bufs
  /\ v_numoutput \in [Vnodes -> Nat]
  /\ VBWAIT \subseteq Vnodes /\ io \subseteq Bufs
  /\ pc \in [Procs -> Places] /\ op \in [Procs -> BlockCalls \cup VnodeCalls \cup {"none"}]
  /\ blk \in [Procs -> Blocks \cup {NoBlk}]
  /\ bp \in [Procs -> Bufs \cup {NoBuf}]
  /\ asleep \subseteq Procs /\ curproc \in Procs \cup {NoProc}
  /\ current \subseteq Bufs /\ stored \subseteq Blocks
  /\ system \in Fates

Init ==
  /\ b_flags = [b \in Bufs |-> {"B_INVAL"}]
  /\ b_blk = [b \in Bufs |-> NoBlk]
  /\ bfreelist = Bufs /\ freewanted = FALSE
  /\ dirtyblk = {}
  /\ v_numoutput = [v \in Vnodes |-> 0]
  /\ VBWAIT = {} /\ io = {}
  /\ pc = [p \in Procs |-> "idle"] /\ op = [p \in Procs |-> "none"]
  /\ blk = [p \in Procs |-> NoBlk]
  /\ bp = [p \in Procs |-> NoBuf]
  /\ asleep = {} /\ curproc = NoProc
  /\ current = {} /\ stored = Blocks
  /\ system = "runs"

-----------------------------------------------------------------------------
vnode(x)   == x[1]
vp(p)      == vnode(blk[p])
AnyOf(v)   == CHOOSE x \in Blocks : vnode(x) = v  \* stands for v where x is of no interest
BufsOf(v)  == {b \in Bufs : b_blk[b] # NoBlk /\ vnode(b_blk[b]) = v}
DirtyOf(v) == BufsOf(v) \cap dirtyblk
Busy(b)    == "B_BUSY" \in b_flags[b]
Active     == {p \in Procs : pc[p] # "idle"}

\* Who sleeps on a buffer, for a free buffer, for the output of a vnode.
OnBuf(b)    == {p \in asleep : bp[p] = b}
OnFreelist  == {p \in asleep : pc[p] = "getnewbuf"}
OnOutput(v) == {p \in asleep : pc[p] = "output" /\ vp(p) = v}

\* p can take the next step at a place.
Runs(p, place) ==
  /\ system = "runs" /\ pc[p] = place
  /\ p \notin asleep /\ curproc \in {NoProc, p}

\* p goes on at a place with a buffer or none, after a possible sleep or at
\* once.
Goes(p, place, b, cur) ==
  /\ pc' = [pc EXCEPT ![p] = place]
  /\ bp' = [bp EXCEPT ![p] = b]
  /\ curproc' = cur
  /\ UNCHANGED <<op, blk>>

\* p is done; the vnode is unlocked.
Returns(p) ==
  /\ pc' = [pc EXCEPT ![p] = "idle"] /\ op' = [op EXCEPT ![p] = "none"]
  /\ blk' = [blk EXCEPT ![p] = NoBlk] /\ bp' = [bp EXCEPT ![p] = NoBuf]
  /\ curproc' = NoProc

Wakes(ps)  == asleep' = asleep \ ps
Sleeps(p)  == asleep' = asleep \cup {p}

-----------------------------------------------------------------------------
\* mutant: a buffer that was written behind is dropped as well
invalid_async(f) == f \cap {"B_ERROR", "B_INVAL", "B_ASYNC"} # {}

\* brelse: the contents are not worth keeping.
invalid(f) == f \cap {"B_ERROR", "B_INVAL"} # {}

\* reassignbuf: the buffers on dirty lists once b, with flags f, is on the list
\* it belongs to.
reassignbuf(b, f) ==
  IF "B_DELWRI" \in f THEN dirtyblk \cup {b} ELSE dirtyblk \ {b}

bremfree(b) == bfreelist' = bfreelist \ {b}

\* mutant: nobody who waits for a free buffer is told
freed_silent == {}

\* Those that brelse wakes because some buffer is free.
freed == IF freewanted THEN OnFreelist ELSE {}

\* brelse of b, which has the flags f by then, when the processes in woken are
\* awake already and the disk has the latest contents of the blocks in disk.
\* A buffer that is not valid leaves its vnode (brelvp), with what it held: of
\* a write that failed, the contents are given up.  Its other flags are dropped
\* here rather than in getnewbuf, and B_READ when the read is done.
brelse(b, f, disk, woken) ==
  LET kept == IF invalid(f) THEN {"B_INVAL"} \cup (f \cap {"B_ERROR"}) ELSE f
  IN  /\ b_flags' = [b_flags EXCEPT ![b] = kept \ {"B_WANTED", "B_BUSY", "B_ASYNC"}]
      /\ b_blk' = IF invalid(f) THEN [b_blk EXCEPT ![b] = NoBlk] ELSE b_blk
      /\ dirtyblk' = reassignbuf(b, kept)
      /\ current' = IF invalid(f) THEN current \ {b} ELSE current
      /\ stored' = disk \cup
                     {x \in {b_blk[b]} : "B_ERROR" \in f /\ b \in current}
      /\ bfreelist' = bfreelist \cup {b}
      /\ freewanted' = FALSE
      /\ Wakes(woken \cup freed \cup (IF "B_WANTED" \in f THEN OnBuf(b) ELSE {}))

\* bwrite of a buffer with B_ASYNC, from the free list or held: to the driver
\* and, if it was dirty, back to the clean list.
bawrite(b) ==
  LET f == b_flags[b] \ {"B_READ", "B_DONE", "B_ERROR", "B_DELWRI"}
  IN  /\ b_flags' = [b_flags EXCEPT ![b] = f \cup {"B_ASYNC", "B_BUSY"}]
      /\ dirtyblk' = reassignbuf(b, f)
      /\ v_numoutput' = [v_numoutput EXCEPT ![vnode(b_blk[b])] = @ + 1]
      /\ io' = io \cup {b}
      /\ bremfree(b)
      /\ UNCHANGED <<b_blk, freewanted, VBWAIT>>

\* Writing a file's block may sleep, to find out where it is (ufs_strategy);
\* a disk driver does not.
AfterStrategy(p, b) == IF vnode(b_blk[b]) \in Locked THEN NoProc ELSE p

\* mutant: any buffer found will do
valid_any(f) == TRUE

\* bread: the buffer needs no reading.
valid(f) == f \cap {"B_DONE", "B_DELWRI"} # {}

\* New contents for block x, in buffer b.
Modified(b, x) ==
  /\ current' = {c \in current : b_blk[c] # x} \cup {b}
  /\ stored' = stored \ {x}

\* p has the buffer b with flags f, for the block it asked getblk for.  bread
\* and the read-ahead of breadn read it unless it is valid; other callers of
\* getblk fill it.
Got(p, b, f) ==
  /\ \/ /\ op[p] = "bread" /\ valid(f)
        /\ b_flags' = [b_flags EXCEPT ![b] = f]
        /\ Goes(p, "has", b, NoProc)
        /\ UNCHANGED <<io, asleep, data>>
     \/ /\ op[p] # "getblk" /\ ~valid(f)
        /\ b_flags' = [b_flags EXCEPT ![b] =
             f \cup {"B_READ"} \cup {e \in {"B_ASYNC"} : op[p] = "breada"}]
        /\ io' = io \cup {b}
        /\ current' = (current \ {b}) \cup {c \in {b} : blk[p] \in stored}
        /\ IF op[p] = "bread" THEN Goes(p, "biowait", b, NoProc) /\ Sleeps(p)
                              ELSE Returns(p) /\ UNCHANGED asleep
        /\ UNCHANGED stored
     \/ /\ op[p] = "getblk"
        /\ b_flags' = [b_flags EXCEPT ![b] = f]
        /\ Modified(b, blk[p])
        /\ Goes(p, "modified", b, NoProc)
        /\ UNCHANGED <<io, asleep>>
  /\ bremfree(b)
  /\ UNCHANGED <<freewanted, dirtyblk, v_numoutput, VBWAIT, system>>

-----------------------------------------------------------------------------
\* mutant: a buffer that another process has does not count
Search_free(p, x) ==
  /\ \/ \E b \in Bufs : /\ b_blk[b] = x
                        /\ pc' = [pc EXCEPT ![p] = "found"]
                        /\ bp' = [bp EXCEPT ![p] = b]
     \/ /\ \A b \in Bufs : b_blk[b] # x \/ Busy(b)
        /\ pc' = [pc EXCEPT ![p] = "getnewbuf"]
        /\ bp' = [bp EXCEPT ![p] = NoBuf]
  /\ curproc' = p

\* The search of the hash chain in getblk.
Search(p, x) ==
  /\ \/ \E b \in Bufs : /\ b_blk[b] = x
                        /\ pc' = [pc EXCEPT ![p] = "found"]
                        /\ bp' = [bp EXCEPT ![p] = b]
     \/ /\ \A b \in Bufs : b_blk[b] # x
        /\ pc' = [pc EXCEPT ![p] = "getnewbuf"]
        /\ bp' = [bp EXCEPT ![p] = NoBuf]
  /\ curproc' = p

\* Callers lock a file.
MayCall(p, v) == Runs(p, "idle") /\ (v \in Locked => \A q \in Active : vp(q) # v)

\* p calls for a block.  breadn reads ahead what is not in core.  (Its own block
\* is taken to be in core, and is a call of bread afterwards; if it is not, the
\* code reads it first and holds the buffer while it gets the other.)
CallBlock(p, o, x) ==
  /\ MayCall(p, vnode(x))
  /\ o = "breada" => \A b \in Bufs : b_blk[b] # x
  /\ op' = [op EXCEPT ![p] = o] /\ blk' = [blk EXCEPT ![p] = x]
  /\ Search(p, x)
  /\ UNCHANGED <<asleep, cache, output, data, system>>

\* p calls fsync or vinvalbuf; the latter only with the vnode locked.
CallVnode(p, o, v) ==
  /\ MayCall(p, v)
  /\ o \in {"inval", "inval_save"} => v \in Locked
  /\ op' = [op EXCEPT ![p] = o] /\ blk' = [blk EXCEPT ![p] = AnyOf(v)]
  /\ pc' = [pc EXCEPT ![p] = IF o = "inval" THEN "inval" ELSE "fsync"]
  /\ UNCHANGED <<bp, asleep, curproc, cache, output, data, system>>

\* getblk searches again after a sleep.
getblk(p) ==
  /\ Runs(p, "getblk")
  /\ Search(p, blk[p])
  /\ UNCHANGED <<op, blk, asleep, cache, output, data, system>>

\* getblk: what it does with the buffer found, at splbio.  The buffer may have
\* been released since, as invalid; getblk takes it all the same.
claim(p) ==
  LET b == bp[p]
  IN  /\ Runs(p, "found")
      /\ \/ /\ Busy(b)
            /\ b_flags' = [b_flags EXCEPT ![b] = @ \cup {"B_WANTED"}]
            /\ Goes(p, "getblk", b, NoProc) /\ Sleeps(p)
            /\ UNCHANGED <<b_blk, bfreelist, freewanted, dirtyblk, output, data, system>>
         \/ /\ ~Busy(b) /\ b_blk[b] = blk[p]
            /\ Got(p, b, b_flags[b] \cup {"B_BUSY"})
            /\ UNCHANGED b_blk
         \/ /\ ~Busy(b) /\ b_blk[b] # blk[p]
            /\ system' = "stale buffer"
            /\ UNCHANGED <<cache, output, procs, data>>

\* mutant: a buffer is reused whatever it holds
mustWrite_not(b) == FALSE

\* getnewbuf: the buffer must be written before it is used for another block.
mustWrite(b) == "B_DELWRI" \in b_flags[b]

\* getnewbuf, one turn of its loop, and the assignment of the buffer to the
\* block: getblk does not look again whether another process has done so.
getnewbuf(p) ==
  /\ Runs(p, "getnewbuf")
  /\ \/ /\ bfreelist = {}
        /\ freewanted' = TRUE /\ Sleeps(p)
        /\ Goes(p, "getnewbuf", NoBuf, NoProc)
        /\ UNCHANGED <<b_flags, b_blk, bfreelist, dirtyblk, output, data, system>>
     \/ \E b \in bfreelist :
          /\ mustWrite(b)
          /\ bawrite(b)
          /\ Goes(p, "getnewbuf", NoBuf, AfterStrategy(p, b))
          /\ UNCHANGED <<asleep, data, system>>
     \/ \E b \in bfreelist :
          /\ ~mustWrite(b)
          /\ b_blk' = [b_blk EXCEPT ![b] = blk[p]]
          /\ Got(p, b, {"B_BUSY"})

\* biowait has found B_DONE; with an error, the caller of bread gives the
\* buffer back.
biowait(p) ==
  LET b == bp[p]
  IN  /\ Runs(p, "biowait") /\ "B_DONE" \in b_flags[b]
      /\ \/ /\ "B_ERROR" \notin b_flags[b]
            /\ Goes(p, "has", b, NoProc)
            /\ UNCHANGED <<asleep, cache, data>>
         \/ /\ "B_ERROR" \in b_flags[b]
            /\ brelse(b, b_flags[b], stored, {}) /\ Returns(p)
      /\ UNCHANGED <<output, system>>

\* The caller of bread gives the buffer back as it is.
Release(p) ==
  /\ Runs(p, "has")
  /\ brelse(bp[p], b_flags[bp[p]], stored, {}) /\ Returns(p)
  /\ UNCHANGED <<output, system>>

\* It changes the contents, which are then the latest, and will write them.
Modify(p) ==
  /\ Runs(p, "has")
  /\ Modified(bp[p], blk[p])
  /\ Goes(p, "modified", bp[p], NoProc)
  /\ UNCHANGED <<asleep, cache, output, system>>

bdwrite(p) ==
  /\ Runs(p, "modified")
  /\ brelse(bp[p], b_flags[bp[p]] \cup {"B_DELWRI", "B_DONE"}, stored, {})
  /\ Returns(p)
  /\ UNCHANGED <<output, system>>

\* bawrite by the holder.
AsyncWrite(p) ==
  /\ Runs(p, "modified")
  /\ bawrite(bp[p]) /\ Returns(p)
  /\ UNCHANGED <<asleep, data, system>>

\* bwrite without B_ASYNC: the buffer stays on the dirty list until the write
\* is done and the process runs again.
bwrite(p) ==
  LET b == bp[p]
  IN  /\ Runs(p, "modified")
      /\ b_flags' = [b_flags EXCEPT ![b] =
           @ \ {"B_READ", "B_DONE", "B_ERROR", "B_DELWRI"}]
      /\ v_numoutput' = [v_numoutput EXCEPT ![vp(p)] = @ + 1]
      /\ io' = io \cup {b}
      /\ Goes(p, "bwrite", b, NoProc) /\ Sleeps(p)
      /\ UNCHANGED <<b_blk, bfreelist, freewanted, dirtyblk, VBWAIT, data, system>>

Written(p) ==
  /\ Runs(p, "bwrite") /\ "B_DONE" \in b_flags[bp[p]]
  /\ brelse(bp[p], b_flags[bp[p]], stored, {}) /\ Returns(p)
  /\ UNCHANGED <<output, system>>

-----------------------------------------------------------------------------
isOutput(f) == "B_READ" \notin f

\* Those that vwakeup wakes at the end of the last write to v.
vwakeup(v) == IF v_numoutput[v] = 1 /\ v \in VBWAIT THEN OnOutput(v) ELSE {}

\* biodone, with vwakeup for a write.
biodone(b, failed) ==
  LET f     == b_flags[b] \cup {"B_DONE"} \cup {e \in {"B_ERROR"} : failed}
      x     == b_blk[b]
      v     == vnode(x)
      out   == isOutput(f)
      disk  == CASE failed \/ ~out -> stored
                 [] b \in current  -> stored \cup {x}
                 [] OTHER          -> stored \ {x}
      woken == IF out THEN vwakeup(v) ELSE {}
  IN  /\ system = "runs" /\ b \in io
      /\ failed => IOErrors
      /\ io' = io \ {b}
      /\ v_numoutput' = IF out THEN [v_numoutput EXCEPT ![v] = @ - 1] ELSE v_numoutput
      /\ VBWAIT' = IF out /\ v_numoutput[v] = 1 THEN VBWAIT \ {v} ELSE VBWAIT
      /\ \/ "B_ASYNC" \in f /\ brelse(b, f \ {"B_READ"}, disk, woken)
         \/ /\ "B_ASYNC" \notin f
            /\ b_flags' = [b_flags EXCEPT ![b] = f \ {"B_WANTED", "B_READ"}]
            /\ Wakes(OnBuf(b) \cup woken)
            /\ stored' = disk
            /\ UNCHANGED <<b_blk, bfreelist, freewanted, dirtyblk, current>>
      /\ UNCHANGED <<pc, op, blk, bp, curproc, system>>

-----------------------------------------------------------------------------
\* fsync: all dirty buffers that nobody holds are written, one a step.
Flush(p) ==
  /\ Runs(p, "fsync")
  /\ \E b \in DirtyOf(vp(p)) : /\ ~Busy(b) /\ bawrite(b)
                               /\ Goes(p, "fsync", NoBuf, AfterStrategy(p, b))
  /\ UNCHANGED <<asleep, data, system>>

Flushed(p) ==
  \/ Runs(p, "fsync") /\ \A b \in DirtyOf(vp(p)) : Busy(b)
  \/ Runs(p, "output")

\* With MNT_NOWAIT that was all.
FlushNoWait(p) ==
  /\ Flushed(p) /\ op[p] = "fsync_nowait"
  /\ Returns(p)
  /\ UNCHANGED <<asleep, cache, output, data, system>>

\* mutant: off by one
OutputPending_one(v) == v_numoutput[v] > 1

OutputPending(v) == v_numoutput[v] # 0

\* mutant: the wrong list is looked at
Dirty_clean(v) == BufsOf(v) # {}

\* v_dirtyblkhd is not NULL.
Dirty(v) == DirtyOf(v) # {}

AllHeld(v) == DirtyOf(v) # {} /\ \A b \in DirtyOf(v) : Busy(b)

\* With MNT_WAIT it waits for the output, and looks for dirty buffers again.
\* When all of those are held, the loop at splbio has no end.
AwaitOutput(p) ==
  LET v == vp(p)
  IN  /\ Flushed(p) /\ op[p] # "fsync_nowait"
      /\ \/ /\ OutputPending(v)
            /\ VBWAIT' = VBWAIT \cup {v}
            /\ Goes(p, "output", NoBuf, NoProc) /\ Sleeps(p)
            /\ UNCHANGED system
         \/ /\ ~OutputPending(v) /\ ~Dirty(v)
            /\ Goes(p, "synced", NoBuf, p)
            /\ UNCHANGED <<VBWAIT, asleep, system>>
         \/ /\ ~OutputPending(v) /\ Dirty(v) /\ ~AllHeld(v)
            /\ Goes(p, "fsync", NoBuf, p)
            /\ UNCHANGED <<VBWAIT, asleep, system>>
         \/ /\ ~OutputPending(v) /\ AllHeld(v)
            /\ system' = "spins"
            /\ UNCHANGED <<VBWAIT, procs>>
      /\ UNCHANGED <<cache, v_numoutput, io, data>>

Synced(p) ==
  /\ Runs(p, "synced")
  /\ \/ op[p] = "fsync" /\ Returns(p)
     \/ op[p] = "inval_save" /\ Goes(p, "inval", NoBuf, p)
  /\ UNCHANGED <<asleep, cache, output, data, system>>

\* vinvalbuf, one buffer a step: it waits for one that is held, and makes the
\* others invalid; without V_SAVE that gives up what was not written.
vinvalbuf(p) ==
  /\ Runs(p, "inval")
  /\ \/ \E b \in BufsOf(vp(p)) :
          /\ Busy(b)
          /\ b_flags' = [b_flags EXCEPT ![b] = @ \cup {"B_WANTED"}]
          /\ Goes(p, "inval", b, NoProc) /\ Sleeps(p)
          /\ UNCHANGED <<b_blk, bfreelist, freewanted, dirtyblk, data>>
     \/ \E b \in BufsOf(vp(p)) :
          /\ ~Busy(b)
          /\ brelse(b, b_flags[b] \cup {"B_INVAL"},
                    stored \cup {x \in {b_blk[b]} : op[p] = "inval"}, {})
          /\ Goes(p, "inval", NoBuf, p)
     \/ /\ BufsOf(vp(p)) = {}
        /\ Returns(p)
        /\ UNCHANGED <<asleep, cache, data>>
  /\ UNCHANGED <<output, system>>

\* The kernel has stopped.
Halted == system # "runs" /\ UNCHANGED vars

Step(p) ==
  \/ getblk(p) \/ claim(p) \/ getnewbuf(p) \/ biowait(p) \/ Written(p)
  \/ Release(p) \/ Modify(p) \/ bdwrite(p) \/ AsyncWrite(p) \/ bwrite(p)
  \/ Flush(p) \/ FlushNoWait(p) \/ AwaitOutput(p) \/ Synced(p) \/ vinvalbuf(p)

Next ==
  \/ \E p \in Procs, o \in BlockCalls, x \in Blocks : CallBlock(p, o, x)
  \/ \E p \in Procs, o \in VnodeCalls, v \in Vnodes : CallVnode(p, o, v)
  \/ \E p \in Procs : Step(p)
  \/ \E b \in Bufs, failed \in BOOLEAN : biodone(b, failed)
  \/ Halted

\* A process that is ready again and again gets the processor, and the driver
\* completes what it was given.
Fairness ==
  /\ \A p \in Procs : SF_vars(Step(p))
  /\ \A b \in Bufs : WF_vars(\E failed \in BOOLEAN : biodone(b, failed))

Spec == Init /\ [][Next]_vars /\ Fairness

-----------------------------------------------------------------------------
Holds(p, b) == bp[p] = b /\ pc[p] \in {"has", "modified", "biowait", "bwrite"}

\* A buffer is on a free list, held by one process, or with the driver alone
\* (B_ASYNC), and B_BUSY tells (bremfree, brelse and the claims of getblk,
\* getnewbuf, spec_fsync and vinvalbuf under splbio).
BusyMeansOwned ==
  \A b \in Bufs :
    /\ Busy(b) <=> b \notin bfreelist
    /\ Busy(b) <=> "B_ASYNC" \in b_flags[b] \/ \E p \in Procs : Holds(p, b)
    /\ \A p, q \in Procs : Holds(p, b) /\ Holds(q, b) => p = q
    /\ \A p \in Procs : Holds(p, b) => "B_ASYNC" \notin b_flags[b]

\* Two buffers are never assigned to one block of a file: the vnode lock keeps
\* other processes out while getblk sleeps in getnewbuf.
OneBufferPerBlock ==
  \A b, c \in Bufs : b_blk[b] = b_blk[c] /\ b_blk[b] # NoBlk /\ b # c
                      => vnode(b_blk[b]) \notin Locked

\* The same of every block, those of devices included, as the comment on
\* getblk has it.
OneBufferPerAnyBlock ==
  \A b, c \in Bufs : b_blk[b] = b_blk[c] /\ b_blk[b] # NoBlk => b = c

\* What bread returns of a file is the latest that was written to it, from
\* whatever mixture of cache hits, delayed writes, write-behind and read-ahead.
ReadsLatest ==
  \A p \in Procs : pc[p] = "has" /\ vp(p) \in Locked
                    => bp[p] \in current

\* Its contents are on their way to the disk: marked B_DELWRI and on the dirty
\* list, where fsync finds it, being written, or about to be by its holder.
ToBeWritten(b) ==
  \/ "B_DELWRI" \in b_flags[b] /\ b \in dirtyblk
  \/ b \in io /\ isOutput(b_flags[b])
  \/ \E p \in Procs : Holds(p, b) /\ pc[p] \in {"modified", "bwrite"}

\* Contents of a file that are not on the disk yet are in a buffer that will be
\* written.
NothingForgotten ==
  \A x \in Blocks : vnode(x) \in Locked /\ x \notin stored =>
    \E b \in current : b_blk[b] = x /\ ToBeWritten(b)

\* After fsync with MNT_WAIT every block of the file is on the disk, save what a
\* failed write gave up.
FsyncDurable ==
  \A p \in Procs : pc[p] = "synced" /\ vp(p) \in Locked
                    => \A x \in Blocks : vnode(x) = vp(p) => x \in stored

\* A sleeper has left the mark that gets it woken.
Marked(p) ==
  /\ pc[p] \in {"getblk", "inval", "biowait", "bwrite", "getnewbuf", "output"}
  /\ pc[p] \in {"getblk", "inval"} => {"B_BUSY", "B_WANTED"} \subseteq b_flags[bp[p]]
  /\ pc[p] \in {"biowait", "bwrite"} => bp[p] \in io
  /\ pc[p] = "getnewbuf" => freewanted /\ bfreelist = {}
  /\ pc[p] = "output" => vp(p) \in VBWAIT /\ v_numoutput[vp(p)] # 0

\* Whoever sleeps on a buffer, for a free one, or for output has left the mark
\* that gets it woken, and what it waits for has not come about yet.
NoLostSleeper == \A p \in asleep : Marked(p)

\* getblk claims a buffer that is no longer its block's only if an I/O error
\* invalidated it between the search and splbio.
StaleOnlyAfterError ==
  \A p \in Procs : pc[p] = "found" /\ b_blk[bp[p]] # blk[p]
                    => "B_ERROR" \in b_flags[bp[p]]

\* A process is in the loop of fsync on a vnode that is not locked.
FlushesUnlocked(q) == pc[q] \in {"fsync", "output"} /\ vp(q) \notin Locked

\* fsync of a file returns: all output ends, nobody dirties a locked file
\* meanwhile, and no buffer on its dirty list is held by another, so that the
\* loop at splbio ends (spec_vnops.c:430-433).  This is unless the kernel stops on a
\* stale buffer, or spins in that loop on a device.
FsyncReturns ==
  \A p \in Procs :
    (pc[p] = "fsync" /\ vp(p) \in Locked)
      ~> \/ pc[p] \in {"synced", "idle"} \/ system = "stale buffer"
         \/ system = "spins" /\ \E q \in Procs : FlushesUnlocked(q)
-----------------------------------------------------------------------------
\* What the proofs add to the properties.  Of each process: it has the buffer
\* and the block that its place calls for, and nobody else runs between the
\* search of getblk and the claim.
Placed(p) ==
  /\ pc[p] # "idle" => blk[p] \in Blocks
  /\ pc[p] \in {"getblk", "found", "biowait", "bwrite", "has", "modified"} => bp[p] \in Bufs
  /\ pc[p] = "found" => curproc = p
  /\ pc[p] \in {"getblk", "found", "getnewbuf"} => op[p] \in BlockCalls
  /\ pc[p] = "inval" => op[p] \in {"inval", "inval_save"} /\ (p \in asleep => bp[p] \in Bufs)
  /\ pc[p] # "idle" /\ op[p] \in {"inval", "inval_save"} => vp(p) \in Locked

\* What a process holds is its block; the driver has it only while the process
\* waits for the write or the read.
Keeps(p, b) ==
  Holds(p, b) =>
    /\ b_blk[b] = blk[p]
    /\ b \in io => pc[p] = IF isOutput(b_flags[b]) THEN "bwrite" ELSE "biowait"

\* Of each buffer: the driver has what is busy, a buffer on no vnode is free and
\* not dirty, one that is to be written is on the dirty list.
Sound(b) ==
  /\ b \in io => Busy(b) /\ b_blk[b] # NoBlk /\ "B_DONE" \notin b_flags[b]
  /\ "B_ASYNC" \in b_flags[b] => b \in io
  /\ b_blk[b] = NoBlk => b \in bfreelist
  /\ b_blk[b] # NoBlk => "B_INVAL" \notin b_flags[b]
  /\ "B_DELWRI" \in b_flags[b] => b \in dirtyblk /\ b_blk[b] # NoBlk

\* The lock of a file keeps other callers out.
LockExcludes ==
  \A p, q \in Active : vp(p) = vp(q) /\ vp(p) \in Locked => p = q

\* v_numoutput counts the writes that the driver has.
Writes(v) == {b \in io : isOutput(b_flags[b]) /\ vnode(b_blk[b]) = v}
OutputCounted == \A v \in Vnodes : v_numoutput[v] = Cardinality(Writes(v))

\* getblk did not find the block, and that is still so when it gets a buffer.
StillMissing ==
  \A p \in Procs : pc[p] = "getnewbuf" /\ vp(p) \in Locked
                    => \A b \in Bufs : b_blk[b] # blk[p]

\* The one buffer of a file's block holds the latest contents.
Latest ==
  \A b \in Bufs : b_blk[b] # NoBlk /\ vnode(b_blk[b]) \in Locked => b \in current

\* When bwrite wakes, the block is on the disk or the write has failed.
WriteEnded ==
  \A p \in Procs : pc[p] = "bwrite" /\ vp(p) \in Locked /\ bp[p] \notin io
                    => "B_ERROR" \in b_flags[bp[p]] \/ blk[p] \in stored

\* FsyncDurable holds until vinvalbuf with V_SAVE is done.
SavedFirst ==
  \A p \in Procs : pc[p] = "inval" /\ op[p] = "inval_save"
                    => \A x \in Blocks : vnode(x) = vp(p) => x \in stored

IInv ==
  /\ TypeOK /\ BusyMeansOwned
  /\ \A p \in Procs : Placed(p) /\ \A b \in Bufs : Keeps(p, b)
  /\ \A b \in Bufs : Sound(b)
  /\ LockExcludes /\ OutputCounted
  /\ StillMissing /\ OneBufferPerBlock
  /\ Latest /\ WriteEnded /\ SavedFirst /\ NothingForgotten /\ FsyncDurable
  /\ NoLostSleeper /\ StaleOnlyAfterError
=============================================================================
