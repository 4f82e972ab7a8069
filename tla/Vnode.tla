-------------------------------- MODULE Vnode --------------------------------
(***************************************************************************)
(* The life of a vnode (kern/vfs_subr.c) under a fast file system: the     *)
(* free list, the name cache (kern/vfs_cache.c), the inode hash            *)
(* (ufs/ufs_ihash.c), ffs_vget, ffs_inactive and ufs_reclaim, as open,     *)
(* unlink, close, sync and unmount use them on the files of a directory.   *)
(*                                                                         *)
(* Processes sleep for an inode lock (ILOCKED, IWANT), for a vnode that is *)
(* being cleaned (VXLOCK, VXWANT), and for the disk and memory, and change *)
(* state only up to their next sleep.  A vnode is found by name, by inode  *)
(* number, by the mount point's list and by the free list; whoever finds   *)
(* it must not take it for what it was before the sleep.                   *)
(*                                                                         *)
(* A capability (v_id) is only ever compared with a copy taken earlier: a  *)
(* cache entry is a vnode while its nc_vpid is current, and "stale" once   *)
(* cache_purge has given the vnode another.  cache_enter may sleep for the *)
(* memory of an entry, when ufs_lookup has unlocked the directory.         *)
(***************************************************************************)
EXTENDS Integers, FiniteSets, Sequences, SequencesExt

CONSTANTS
  Procs, Syncers,       \* processes, and those that call sync and unmount
  Vnodes, desiredvnodes,
  Files, Names,         \* inode numbers, and names in the directory
  NoProc, NoVnode, NoFile, NoName, NoChan

ASSUME SyncersAreProcs == Syncers \subseteq Procs
ASSUME TableSize == desiredvnodes \in Nat \ {0} /\ Cardinality(Vnodes) = 2 * desiredvnodes
ASSUME FiniteProcs == IsFiniteSet(Procs)
ASSUME NoneFresh ==
  /\ NoProc \notin Procs /\ NoVnode \notin Vnodes /\ NoFile \notin Files
  /\ NoChan \notin {"vnode", "inode"} \X Vnodes
  /\ {"negative", "stale"} \cap Vnodes = {}

VARIABLES
  pc, op, nm, ino, vp,      \* a call: its stage, kind, name, inode and vnode
  ilocking,                 \* the processes in ufs_ilock
  gone,                     \* where a process goes on after vgone
  fd, opened,               \* the vnode a process has open, and the file it was
  wchan,
  allocated, vfree,         \* the vnodes malloc gave, and the free list
  v_usecount, VXLOCK, VXWANT, VBAD, v_mount,
  i_number, ihash,          \* the inode in v_data, and those on hash chains
  ILOCKED, IWANT, i_mode,   \* i_mode: the vnodes whose inode has i_mode # 0
  nc, numcache,             \* the name cache: the entries of each name, from the
                            \* newest on, and the number of entries allocated
  dir, dirlock,             \* the directory's entries, and who has it locked
  inodes, di_mode,          \* inodes taken in the bitmap, and in use on disk
  flushed,                  \* the vnodes vflush has been at
  system

call  == <<op, nm, ino, vp, fd, opened>>
table == <<allocated, vfree, v_usecount, VXLOCK, VXWANT, VBAD, v_mount>>
inode == <<i_number, ihash, ILOCKED, IWANT, i_mode>>
disk  == <<dir, inodes, di_mode>>
cache == <<nc, numcache>>
wait  == <<ilocking, gone, wchan>>
vars  == <<pc, call, wait, table, inode, cache, disk, dirlock, flushed, system>>

Ops == {"LOOKUP", "CREATE", "DELETE"}
Syncs == {"SYNC", "UNMOUNT"}
Places == {"user", "scan", "cached", "enoent", "ihash", "fresh", "malloc", "bread",
           "found", "enter", "has", "bad", "inactive", "update", "cleaning", "sync",
           "fsync", "vflush", "done"}
Panics == {"free vnode isn't", "cleaned vnode isn't", "ffs_valloc: dup alloc",
           "vget: v_freeb is null"}

TypeOK ==
  /\ pc \in [Procs -> Places] /\ op \in [Procs -> Ops \cup Syncs \cup {"none"}]
  /\ nm \in [Procs -> Names \cup {NoName}] /\ ino \in [Procs -> Files \cup {NoFile}]
  /\ vp \in [Procs -> Vnodes \cup {NoVnode}] /\ fd \in [Procs -> Vnodes \cup {NoVnode}]
  /\ opened \in [Procs -> Files \cup {NoFile}]
  /\ ilocking \subseteq Procs /\ gone \in [Procs -> Places]
  /\ wchan \in [Procs -> {NoChan} \cup ({"vnode", "inode"} \X Vnodes)]
  /\ allocated \subseteq Vnodes /\ vfree \in Seq(allocated)
  /\ v_usecount \in [Vnodes -> Nat]
  /\ VXLOCK \subseteq Vnodes /\ VXWANT \subseteq Vnodes /\ VBAD \subseteq Vnodes
  /\ v_mount \subseteq Vnodes /\ ihash \subseteq Vnodes /\ flushed \subseteq Vnodes
  /\ i_number \in [Vnodes -> Files \cup {NoFile}]
  /\ ILOCKED \in [Vnodes -> Procs \cup {NoProc}]
  /\ IWANT \subseteq Vnodes /\ i_mode \subseteq Vnodes
  /\ nc \in [Names -> Seq(Vnodes \cup {"negative", "stale"})] /\ numcache \in Nat
  /\ dir \in [Names -> Files \cup {NoFile}] /\ dirlock \in Procs \cup {NoProc}
  /\ inodes \subseteq Files /\ di_mode \subseteq Files
  /\ system \in {"runs", "vfreeh is null", "v_data is null"} \cup Panics

Init ==
  /\ pc = [p \in Procs |-> "user"] /\ op = [p \in Procs |-> "none"]
  /\ nm = [p \in Procs |-> NoName]
  /\ ino = [p \in Procs |-> NoFile] /\ vp = [p \in Procs |-> NoVnode]
  /\ ilocking = {} /\ gone = [p \in Procs |-> "user"]
  /\ fd = [p \in Procs |-> NoVnode] /\ opened = [p \in Procs |-> NoFile]
  /\ wchan = [p \in Procs |-> NoChan]
  /\ allocated = {} /\ vfree = <<>> /\ v_usecount = [v \in Vnodes |-> 0]
  /\ VXLOCK = {} /\ VXWANT = {} /\ VBAD = {} /\ v_mount = {}
  /\ i_number = [v \in Vnodes |-> NoFile] /\ ihash = {}
  /\ ILOCKED = [v \in Vnodes |-> NoProc] /\ IWANT = {} /\ i_mode = {}
  /\ nc = [n \in Names |-> <<>>] /\ numcache = 0
  /\ dir = [n \in Names |-> NoFile] /\ dirlock = NoProc
  /\ inodes = {} /\ di_mode = {} /\ flushed = {} /\ system = "runs"

-----------------------------------------------------------------------------
Runs(p, place) ==
  system = "runs" /\ pc[p] = place /\ wchan[p] = NoChan /\ p \notin ilocking

Goes(p, place) == pc' = [pc EXCEPT ![p] = place]

Free(v) == v \in Range(vfree)

\* wchan after wakeup of the channels in cs
Woken(cs) == [q \in Procs |-> IF wchan[q] \in cs THEN NoChan ELSE wchan[q]]

\* ufs_ilock, with the place where p goes on when it has the lock.
ufs_ilock(p, v, place) ==
  /\ Goes(p, place)
  /\ \/ /\ ILOCKED[v] = NoProc
        /\ ILOCKED' = [ILOCKED EXCEPT ![v] = p]
        /\ ilocking' = ilocking \ {p}
        /\ UNCHANGED <<IWANT, wchan>>
     \/ /\ ILOCKED[v] # NoProc
        /\ IWANT' = IWANT \cup {v}
        /\ wchan' = [wchan EXCEPT ![p] = <<"inode", v>>]
        /\ ilocking' = ilocking \cup {p}
        /\ UNCHANGED ILOCKED

ufs_iunlock(p, v) ==
  /\ ILOCKED' = [ILOCKED EXCEPT ![v] = NoProc]
  /\ IWANT' = IWANT \ {v}
  /\ wchan' = Woken({<<"inode", v>>})

\* The sleep for a vnode that is being cleaned, in vget and in vgone.
AwaitClean(p, v, place) ==
  /\ VXWANT' = VXWANT \cup {v}
  /\ wchan' = [wchan EXCEPT ![p] = <<"vnode", v>>]
  /\ Goes(p, place)

\* mutant: a vnode that is being cleaned is taken all the same
vget_cleaning(p, v, place, failed) ==
  /\ v_usecount' = [v_usecount EXCEPT ![v] = @ + 1]
  /\ vfree' = IF v_usecount[v] = 0 THEN RemoveFirst(vfree, v) ELSE vfree
  /\ system' = IF v_usecount[v] = 0 /\ ~Free(v) THEN "vget: v_freeb is null" ELSE system
  /\ ufs_ilock(p, v, place)
  /\ UNCHANGED VXWANT

\* vget: p goes on at place with the vnode locked, or at failed.
vget(p, v, place, failed) ==
  \/ /\ v \in VXLOCK
     /\ AwaitClean(p, v, failed)
     /\ UNCHANGED <<v_usecount, vfree, system, ilocking, ILOCKED, IWANT>>
  \/ /\ v \notin VXLOCK
     /\ v_usecount' = [v_usecount EXCEPT ![v] = @ + 1]
     /\ vfree' = IF v_usecount[v] = 0 THEN RemoveFirst(vfree, v) ELSE vfree
     /\ system' = IF v_usecount[v] = 0 /\ ~Free(v) THEN "vget: v_freeb is null" ELSE system
     /\ ufs_ilock(p, v, place)
     /\ UNCHANGED VXWANT

\* vclean up to its sleeps: for the inode lock, and in vinvalbuf.
vclean(p, v) ==
  /\ VXLOCK' = VXLOCK \cup {v}
  /\ ufs_ilock(p, v, "cleaning")
  /\ UNCHANGED VXWANT

\* vgone; p goes on at place when the vnode has been emptied.
vgone(p, v, place) ==
  \/ /\ v \in VXLOCK
     /\ AwaitClean(p, v, place)
     /\ UNCHANGED <<VXLOCK, gone, ilocking, ILOCKED, IWANT>>
  \/ /\ v \notin VXLOCK
     /\ gone' = [gone EXCEPT ![p] = place]
     /\ vclean(p, v)

\* The loop of ufs_ilock, after a sleep.
ufs_ilock_again(p) ==
  /\ system = "runs" /\ p \in ilocking /\ wchan[p] = NoChan
  /\ ufs_ilock(p, vp[p], pc[p])
  /\ UNCHANGED <<call, gone, table, i_number, ihash, i_mode, cache, disk, dirlock, flushed, system>>

-----------------------------------------------------------------------------
(* Names.                                                                  *)

\* The entries on the hash chains, each by its name and its place.
Entries == UNION {{n} \X DOMAIN nc[n] : n \in Names}

\* What may be in the name cache once the slot at the head of the LRU list has
\* been taken: the slots of no name come first there.
Recycled ==
  IF Cardinality(Entries) < numcache THEN {nc}
  ELSE {[nc EXCEPT ![e[1]] = RemoveAt(@, e[2])] : e \in Entries}

\* cache_enter takes no new memory when there are enough entries.
cache_enter(n, entry) ==
  /\ numcache >= desiredvnodes /\ UNCHANGED numcache
  /\ \E kept \in Recycled : nc' = [kept EXCEPT ![n] = Cons(entry, @)]

\* Else it has slept for the memory.
cache_enter_malloc(n, entry) ==
  /\ numcache' = numcache + 1
  /\ nc' = [nc EXCEPT ![n] = Cons(entry, @)]

\* The name cache after cache_purge(v).
cache_purge(v) ==
  [n \in Names |-> [i \in DOMAIN nc[n] |-> IF nc[n][i] = v THEN "stale" ELSE nc[n][i]]]

Call(p, n, o) ==
  /\ Runs(p, "user") /\ dirlock = NoProc
  /\ dirlock' = p
  /\ nm' = [nm EXCEPT ![p] = n] /\ op' = [op EXCEPT ![p] = o]

\* cache_lookup goes by the newest entry of the name.
Newest(n, entries) == nc[n] # <<>> /\ Head(nc[n]) \in entries

\* It returns the vnode: unlink does not use the cache.
Hit(n, o) == Newest(n, Vnodes) /\ o # "DELETE"

\* mutant: a negative entry stays when the name is to be created
Dropped_positive(n) ==
  IF nc[n] = <<>> \/ Newest(n, {"negative"}) THEN nc ELSE [nc EXCEPT ![n] = Tail(@)]

\* The name cache after cache_lookup has dropped that entry; those behind it stay.
Dropped(n) == IF nc[n] = <<>> THEN nc ELSE [nc EXCEPT ![n] = Tail(@)]

\* ufs_lookup without the cache; the entry it found for the name is dropped.  (With
\* a negative entry a LOOKUP returns ENOENT, and nothing changes.)
LookupUncached(p, n, o) ==
  /\ Call(p, n, o) /\ ~Hit(n, o) /\ ~(Newest(n, {"negative"}) /\ o = "LOOKUP")
  /\ nc' = Dropped(n)
  /\ Goes(p, "scan")
  /\ UNCHANGED <<ino, vp, fd, opened, wait, table, inode, numcache, disk, flushed, system>>

\* ufs_lookup with a hit in the cache; the directory stays locked in vget.  (ino
\* is history here: the file of the vnode, if that is the one that has the name.)
LookupCached(p, n, o) ==
  /\ Call(p, n, o) /\ Hit(n, o)
  /\ LET v == Head(nc[n])
     IN  /\ ino' = [ino EXCEPT ![p] = IF i_number[v] = dir[n] THEN dir[n] ELSE NoFile]
         /\ vp' = [vp EXCEPT ![p] = v]
         /\ vget(p, v, "cached", "scan")
  /\ UNCHANGED <<fd, opened, gone, allocated, VXLOCK, VBAD, v_mount, i_number, ihash,
                 i_mode, cache, disk, flushed>>

\* It has got the vnode, whose capability is what it was: a vnode with users is
\* not purged.
FoundCached(p) ==
  /\ Runs(p, "cached")
  /\ dirlock' = NoProc
  /\ Goes(p, "has")
  /\ UNCHANGED <<call, wait, table, inode, cache, disk, flushed, system>>

Returns(p) ==
  /\ Goes(p, "user")
  /\ dirlock' = IF dirlock = p THEN NoProc ELSE dirlock
  /\ vp' = [vp EXCEPT ![p] = NoVnode] /\ ino' = [ino EXCEPT ![p] = NoFile]
  /\ nm' = [nm EXCEPT ![p] = NoName] /\ op' = [op EXCEPT ![p] = "none"]

\* The directory has been searched, and the name is there.
ScanFinds(p) ==
  /\ Runs(p, "scan") /\ dir[nm[p]] # NoFile
  /\ ino' = [ino EXCEPT ![p] = dir[nm[p]]]
  /\ Goes(p, "ihash")
  /\ UNCHANGED <<op, nm, vp, fd, opened, wait, table, inode, cache, disk, dirlock,
                 flushed, system>>

\* It is not there: ENOENT, and a negative entry for lookups, with the directory
\* locked.
ScanFails(p) ==
  /\ Runs(p, "scan") /\ dir[nm[p]] = NoFile
  /\ \/ /\ op[p] = "LOOKUP" /\ numcache < desiredvnodes
        /\ Goes(p, "enoent")
        /\ UNCHANGED <<op, nm, ino, vp, cache, dirlock>>
     \/ op[p] = "LOOKUP" /\ cache_enter(nm[p], "negative") /\ Returns(p)
     \/ op[p] = "DELETE" /\ Returns(p) /\ UNCHANGED cache
     \/ op[p] = "CREATE" /\ inodes = Files /\ Returns(p) /\ UNCHANGED cache   \* ENOSPC
  /\ UNCHANGED <<fd, opened, wait, table, inode, disk, flushed, system>>

EnterNegative(p) ==
  /\ Runs(p, "enoent")
  /\ cache_enter_malloc(nm[p], "negative")
  /\ Returns(p)
  /\ UNCHANGED <<fd, opened, wait, table, inode, disk, flushed, system>>

\* ffs_valloc takes an inode.
ffs_valloc(p) ==
  /\ Runs(p, "scan") /\ dir[nm[p]] = NoFile /\ op[p] = "CREATE"
  /\ \E f \in Files \ inodes :
       /\ inodes' = inodes \cup {f}
       /\ ino' = [ino EXCEPT ![p] = f]
  /\ Goes(p, "ihash")
  /\ UNCHANGED <<op, nm, vp, fd, opened, wait, table, inode, cache, dir, di_mode,
                 dirlock, flushed, system>>

-----------------------------------------------------------------------------
(* ffs_vget: the inode hash, and getnewvnode.                              *)

\* mutant: an inode that is locked is passed over
InCore_unlocked(f) == {v \in ihash : i_number[v] = f /\ ILOCKED[v] = NoProc}

\* The inodes of file f on its hash chain.
InCore(f) == {v \in ihash : i_number[v] = f}

\* ufs_ihashget has found the inode: it sleeps and looks again, or gets it.
ufs_ihashget(p) ==
  /\ Runs(p, "ihash")
  /\ \E v \in InCore(ino[p]) :
       \/ /\ ILOCKED[v] # NoProc
          /\ IWANT' = IWANT \cup {v}
          /\ wchan' = [wchan EXCEPT ![p] = <<"inode", v>>]
          /\ UNCHANGED <<pc, ilocking, vp, v_usecount, vfree, VXWANT, ILOCKED, system>>
       \/ /\ ILOCKED[v] = NoProc
          /\ vp' = [vp EXCEPT ![p] = v]
          /\ vget(p, v, "found", "ihash")
  /\ UNCHANGED <<op, nm, ino, fd, opened, gone, allocated, VXLOCK, VBAD, v_mount, i_number,
                 ihash, i_mode, cache, disk, dirlock, flushed>>

\* The end of getnewvnode: v has no contents, and is made known to the mount.
NewVnode(p, v) ==
  /\ vp' = [vp EXCEPT ![p] = v]
  /\ VXLOCK' = VXLOCK \ {v} /\ VXWANT' = VXWANT \ {v} /\ VBAD' = VBAD \ {v}
  /\ nc' = cache_purge(v)
  /\ v_mount' = v_mount \cup {v}
  /\ v_usecount' = [v_usecount EXCEPT ![v] = @ + 1]
  /\ Goes(p, "malloc")
  /\ UNCHANGED numcache

MayAllocate ==
  \/ vfree = <<>> /\ Cardinality(allocated) < 2 * desiredvnodes
  \/ Cardinality(allocated) < desiredvnodes

\* getnewvnode with memory for another vnode.
getnewvnode_malloc(p) ==
  /\ Runs(p, "ihash") /\ InCore(ino[p]) = {} /\ MayAllocate
  /\ \E v \in Vnodes \ allocated : NewVnode(p, v) /\ allocated' = allocated \cup {v}
  /\ UNCHANGED <<op, nm, ino, fd, opened, wait, vfree, inode, disk, dirlock, flushed,
                 system>>

\* ENFILE; ffs_valloc gives back the inode.
getnewvnode_fails(p) ==
  /\ Runs(p, "ihash") /\ InCore(ino[p]) = {} /\ ~MayAllocate /\ vfree = <<>>
  /\ inodes' = IF dir[nm[p]] = NoFile THEN inodes \ {ino[p]} ELSE inodes
  /\ Returns(p)
  /\ UNCHANGED <<fd, opened, wait, table, inode, cache, dir, di_mode, flushed,
                 system>>

\* getnewvnode takes the first vnode of the free list, and empties it.
getnewvnode(p) ==
  /\ Runs(p, "ihash") /\ InCore(ino[p]) = {} /\ ~MayAllocate /\ vfree # <<>>
  /\ LET v == Head(vfree)
     IN  /\ vfree' = Tail(vfree)
         /\ vp' = [vp EXCEPT ![p] = v]
         /\ system' = IF v_usecount[v] > 0 THEN "free vnode isn't" ELSE system
         /\ \/ v \in VBAD /\ Goes(p, "fresh") /\ UNCHANGED <<VXLOCK, VXWANT, wait, ILOCKED, IWANT>>
            \/ v \notin VBAD /\ vgone(p, v, "fresh")
  /\ UNCHANGED <<op, nm, ino, fd, opened, allocated, v_usecount, VBAD, v_mount, i_number, ihash,
                 i_mode, cache, disk, dirlock, flushed>>

getnewvnode_end(p) ==
  /\ Runs(p, "fresh")
  /\ system' = IF i_number[vp[p]] # NoFile THEN "cleaned vnode isn't" ELSE system
  /\ NewVnode(p, vp[p])
  /\ UNCHANGED <<op, nm, ino, fd, opened, wait, allocated, vfree, inode, disk, dirlock,
                 flushed>>

\* ffs_vget has memory for an inode, and puts it on its hash chain, locked.
ufs_ihashins(p) ==
  /\ Runs(p, "malloc")
  /\ i_number' = [i_number EXCEPT ![vp[p]] = ino[p]]
  /\ ihash' = ihash \cup {vp[p]}
  /\ ILOCKED' = [ILOCKED EXCEPT ![vp[p]] = p]
  /\ i_mode' = i_mode \ {vp[p]}
  /\ Goes(p, "bread")
  /\ UNCHANGED <<call, wait, table, IWANT, cache, disk, dirlock, flushed, system>>

\* The inode has been read from the disk.
ffs_vget_end(p) ==
  /\ Runs(p, "bread")
  /\ i_mode' = IF ino[p] \in di_mode THEN i_mode \cup {vp[p]} ELSE i_mode
  /\ Goes(p, "found")
  /\ UNCHANGED <<call, wait, table, i_number, ihash, ILOCKED, IWANT, cache, disk, dirlock,
                 flushed, system>>

-----------------------------------------------------------------------------
(* What open, unlink and close do with the vnode.                          *)

\* ufs_lookup has the vnode locked, and unlocks the directory unless open may
\* create; the name is entered in the cache, perhaps after a sleep for memory.
\* (open unlocks the directory of a file that exists at once.)
Found(p) ==
  /\ Runs(p, "found") /\ dir[nm[p]] # NoFile /\ op[p] # "DELETE"
  /\ \/ /\ numcache < desiredvnodes
        /\ dirlock' = IF op[p] = "LOOKUP" THEN NoProc ELSE dirlock
        /\ Goes(p, "enter")
        /\ UNCHANGED cache
     \/ /\ cache_enter(nm[p], vp[p])
        /\ dirlock' = NoProc
        /\ Goes(p, "has")
  /\ UNCHANGED <<call, wait, table, inode, disk, flushed, system>>

EnterFound(p) ==
  /\ Runs(p, "enter")
  /\ cache_enter_malloc(nm[p], vp[p])
  /\ dirlock' = IF dirlock = p THEN NoProc ELSE dirlock
  /\ Goes(p, "has")
  /\ UNCHANGED <<call, wait, table, inode, disk, flushed, system>>

\* The end of ffs_valloc, and ufs_makeinode, with both inodes locked; if the name
\* cannot be written the inode is given up.
ufs_makeinode(p) ==
  /\ Runs(p, "found") /\ dir[nm[p]] = NoFile /\ op[p] = "CREATE"
  /\ system' = IF vp[p] \in i_mode THEN "ffs_valloc: dup alloc" ELSE system
  /\ i_mode' = i_mode \cup {vp[p]} /\ di_mode' = di_mode \cup {ino[p]}
  /\ \/ dir' = [dir EXCEPT ![nm[p]] = ino[p]] /\ Goes(p, "has")
     \/ UNCHANGED dir /\ Goes(p, "bad")
  /\ dirlock' = NoProc
  /\ UNCHANGED <<call, wait, table, i_number, ihash, ILOCKED, IWANT, cache, inodes, flushed>>

\* vrele puts a vnode without users on the free list and then calls
\* ffs_inactive, which locks the inode, or calls vgone if the inode is free.
vrele(p, v) ==
  /\ v_usecount' = [v_usecount EXCEPT ![v] = @ - 1]
  /\ \/ /\ v_usecount[v] > 1
        /\ Goes(p, "done")
        /\ UNCHANGED <<vfree, VXLOCK, gone, ilocking, ILOCKED, IWANT, wchan>>
     \/ /\ v_usecount[v] = 1
        /\ vfree' = Append(vfree, v)
        /\ \/ v \in i_mode /\ ufs_ilock(p, v, "inactive") /\ UNCHANGED <<VXLOCK, gone>>
           \/ v \notin i_mode /\ vclean(p, v) /\ gone' = [gone EXCEPT ![p] = "done"]

\* ufs_iput: the inode is unlocked, and locked again at once by ffs_inactive or
\* by vclean.
ufs_iput(p, v) ==
  /\ v_usecount' = [v_usecount EXCEPT ![v] = @ - 1]
  /\ \/ /\ v_usecount[v] > 1
        /\ ufs_iunlock(p, v)
        /\ Goes(p, "done")
        /\ UNCHANGED <<vfree, VXLOCK, gone>>
     \/ /\ v_usecount[v] = 1
        /\ vfree' = Append(vfree, v)
        /\ IWANT' = IWANT \ {v} /\ wchan' = Woken({<<"inode", v>>})
        /\ \/ v \in i_mode /\ Goes(p, "inactive") /\ UNCHANGED <<VXLOCK, gone>>
           \/ /\ v \notin i_mode
              /\ VXLOCK' = VXLOCK \cup {v} /\ gone' = [gone EXCEPT ![p] = "done"]
              /\ Goes(p, "cleaning")
        /\ UNCHANGED ILOCKED

\* ufs_remove, which may fail to write the directory; it stays locked until the file
\* has been released.
ufs_remove(p) ==
  /\ Runs(p, "found") /\ op[p] = "DELETE"
  /\ dir' = [dir EXCEPT ![nm[p]] = NoFile] \/ UNCHANGED dir
  /\ ufs_iput(p, vp[p])
  /\ UNCHANGED <<call, ilocking, allocated, VXWANT, VBAD, v_mount, i_number,
                 ihash, i_mode, cache, inodes, di_mode, dirlock, flushed, system>>

\* open keeps the vnode, unlocked.
Keep(p) ==
  /\ Runs(p, "has") /\ fd[p] = NoVnode
  /\ fd' = [fd EXCEPT ![p] = vp[p]] /\ opened' = [opened EXCEPT ![p] = ino[p]]
  /\ ufs_iunlock(p, vp[p])
  /\ Returns(p)
  /\ UNCHANGED <<ilocking, gone, table, i_number, ihash, i_mode, cache, disk, flushed, system>>

vput(p) ==
  /\ Runs(p, "has") \/ Runs(p, "bad")
  /\ ufs_iput(p, vp[p])
  /\ UNCHANGED <<call, ilocking, allocated, VXWANT, VBAD, v_mount, i_number,
                 ihash, i_mode, cache, disk, dirlock, flushed, system>>

Close(p) ==
  /\ Runs(p, "user") /\ fd[p] # NoVnode
  /\ vp' = [vp EXCEPT ![p] = fd[p]]
  /\ fd' = [fd EXCEPT ![p] = NoVnode] /\ opened' = [opened EXCEPT ![p] = NoFile]
  /\ vrele(p, fd[p])
  /\ UNCHANGED <<op, nm, ino, allocated, VXWANT, VBAD, v_mount, i_number, ihash,
                 i_mode, cache, disk, dirlock, flushed, system>>

Done(p) ==
  /\ Runs(p, "done") /\ op[p] \notin Syncs
  /\ Returns(p)
  /\ UNCHANGED <<fd, opened, wait, table, inode, cache, disk, flushed, system>>

-----------------------------------------------------------------------------
(* The end of a vnode: ffs_inactive, vclean, vflush.                       *)

\* ffs_inactive with the inode locked: one without links is given up.
ffs_inactive(p) ==
  /\ Runs(p, "inactive")
  /\ LET v == vp[p]
         unlinked == i_number[v] \notin Range(dir)
     IN  /\ inodes' = IF unlinked THEN inodes \ {i_number[v]} ELSE inodes
         /\ i_mode' = IF unlinked THEN i_mode \ {v} ELSE i_mode
  /\ Goes(p, "update")
  /\ UNCHANGED <<call, wait, table, i_number, ihash, ILOCKED, IWANT, cache, dir, di_mode,
                 dirlock, flushed, system>>

\* ffs_inactive is done with the inode, and nobody has got it meanwhile.
Reclaims(v) == v_usecount[v] = 0 /\ v \notin i_mode

\* The rest of it, once the inode is written: unlock it, and call vgone for a
\* vnode whose file is gone.
ffs_inactive_end(p) ==
  /\ Runs(p, "update")
  /\ LET v == vp[p]
     IN  /\ di_mode' = IF v \in i_mode THEN di_mode ELSE di_mode \ {i_number[v]}
         /\ IWANT' = IWANT \ {v}
         /\ \/ /\ Reclaims(v) /\ v \notin VXLOCK
               /\ VXLOCK' = VXLOCK \cup {v}
               /\ gone' = [gone EXCEPT ![p] = "done"]
               /\ wchan' = Woken({<<"inode", v>>})
               /\ Goes(p, "cleaning")
               /\ UNCHANGED <<ILOCKED, VXWANT>>
            \/ /\ Reclaims(v) /\ v \in VXLOCK
               /\ ILOCKED' = [ILOCKED EXCEPT ![v] = NoProc]
               /\ VXWANT' = VXWANT \cup {v}
               /\ wchan' = [Woken({<<"inode", v>>}) EXCEPT ![p] = <<"vnode", v>>]
               /\ Goes(p, "done")
               /\ UNCHANGED <<VXLOCK, gone>>
            \/ /\ ~Reclaims(v)
               /\ ILOCKED' = [ILOCKED EXCEPT ![v] = NoProc]
               /\ wchan' = Woken({<<"inode", v>>})
               /\ Goes(p, "done")
               /\ UNCHANGED <<VXLOCK, VXWANT, gone>>
  /\ UNCHANGED <<call, ilocking, allocated, vfree, v_usecount, VBAD, v_mount, i_number, ihash,
                 i_mode, cache, dir, inodes, dirlock, flushed, system>>

\* The vnode loses its inode.
ufs_reclaim(v) ==
  /\ ihash' = ihash \ {v} /\ i_number' = [i_number EXCEPT ![v] = NoFile]
  /\ i_mode' = i_mode \ {v}
  /\ nc' = cache_purge(v) /\ UNCHANGED numcache

\* vclean after vinvalbuf.
vclean_end(v) ==
  /\ ILOCKED' = [ILOCKED EXCEPT ![v] = NoProc] /\ IWANT' = IWANT \ {v}
  /\ ufs_reclaim(v)
  /\ VXLOCK' = VXLOCK \ {v} /\ VXWANT' = VXWANT \ {v}
  /\ wchan' = Woken({<<"inode", v>>} \cup {<<"vnode", w>> : w \in VXWANT \cap {v}})

\* The rest of vgone; the move to the head of the free list writes through
\* vfreeh even if that is null.
vgone_end(p) ==
  /\ Runs(p, "cleaning")
  /\ LET v == vp[p]
         others == RemoveFirst(vfree, v)
     IN  /\ vclean_end(v)
         /\ v_mount' = v_mount \ {v} /\ VBAD' = VBAD \cup {v}
         /\ vfree' = IF Free(v) THEN <<v>> \o others ELSE vfree
         /\ system' = IF Free(v) /\ others = <<>> THEN "vfreeh is null" ELSE system
  /\ Goes(p, gone[p]) /\ gone' = [gone EXCEPT ![p] = "user"]
  /\ UNCHANGED <<call, ilocking, allocated, v_usecount, disk, dirlock, flushed>>

\* sync and unmount begin (vfs_busy lets in one at a time); unmount forgets the
\* names, and goes on to vflush when all is written.
StartSync(p, o) ==
  /\ Runs(p, "user") /\ p \in Syncers
  /\ \A q \in Procs : op[q] \notin Syncs
  /\ op' = [op EXCEPT ![p] = o]
  /\ nc' = IF o = "UNMOUNT" THEN [n \in Names |-> <<>>] ELSE nc
  /\ Goes(p, "sync")
  /\ UNCHANGED <<nm, ino, vp, fd, opened, wait, table, inode, numcache, disk, dirlock, flushed, system>>

\* ffs_sync, one vnode of the mount point that is not locked, and has something
\* to be written.  It looks at the inode of each vnode, even if there is none.
ffs_sync(p) ==
  /\ Runs(p, "sync")
  /\ \E v \in v_mount :
       \/ /\ i_number[v] = NoFile
          /\ system' = "v_data is null"
          /\ UNCHANGED <<pc, ino, vp, v_usecount, vfree, VXWANT, wchan, ilocking, ILOCKED, IWANT>>
       \/ /\ i_number[v] # NoFile /\ ILOCKED[v] = NoProc
          /\ vp' = [vp EXCEPT ![p] = v] /\ ino' = [ino EXCEPT ![p] = i_number[v]]
          /\ vget(p, v, "fsync", "sync")
  /\ UNCHANGED <<op, nm, fd, opened, gone, allocated, VXLOCK, VBAD, v_mount, i_number, ihash,
                 i_mode, cache, disk, dirlock, flushed>>

\* The inode and its blocks have been written: vput, and on to the next.
ffs_sync_vput(p) ==
  /\ Runs(p, "fsync")
  /\ ufs_iput(p, vp[p])
  /\ UNCHANGED <<call, ilocking, allocated, VXWANT, VBAD, v_mount, i_number,
                 ihash, i_mode, cache, disk, dirlock, flushed, system>>

ffs_sync_next(p) ==
  /\ Runs(p, "done") /\ op[p] \in Syncs
  /\ Goes(p, "sync")
  /\ UNCHANGED <<call, wait, table, inode, cache, disk, dirlock, flushed, system>>

\* The end of the loop, which may miss vnodes that have moved in the list.
ffs_sync_end(p) ==
  /\ Runs(p, "sync")
  /\ \/ op[p] = "SYNC" /\ Returns(p)
     \/ op[p] = "UNMOUNT" /\ Goes(p, "vflush") /\ UNCHANGED <<dirlock, op, nm, ino, vp>>
  /\ flushed' = {}
  /\ UNCHANGED <<fd, opened, wait, table, inode, cache, disk, system>>

\* mutant: vflush does not mind the users of a vnode
Unused_any(v) == TRUE

Unused(v) == v_usecount[v] = 0

\* vflush, one vnode of the mount point: it is emptied unless it has users.
vflush(p) ==
  /\ Runs(p, "vflush")
  /\ \E v \in v_mount \ flushed :
       /\ flushed' = flushed \cup {v}
       /\ \/ /\ Unused(v)
             /\ vp' = [vp EXCEPT ![p] = v]
             /\ vgone(p, v, "vflush")
          \/ ~Unused(v) /\ UNCHANGED <<pc, vp, VXLOCK, VXWANT, wait, ILOCKED, IWANT>>
  /\ UNCHANGED <<op, nm, ino, fd, opened, allocated, vfree, v_usecount, VBAD, v_mount, i_number,
                 ihash, i_mode, cache, disk, dirlock, system>>

EndFlush(p) ==
  /\ Runs(p, "vflush") /\ v_mount \subseteq flushed
  /\ flushed' = {}
  /\ Returns(p)
  /\ UNCHANGED <<fd, opened, wait, table, inode, cache, disk, system>>

-----------------------------------------------------------------------------
\* The kernel has panicked.
Halted == system # "runs" /\ UNCHANGED vars

\* What a process in the kernel does next.
Step(p) ==
  \/ ufs_ilock_again(p) \/ FoundCached(p) \/ ScanFinds(p) \/ ScanFails(p)
  \/ EnterNegative(p) \/ ffs_valloc(p)
  \/ ufs_ihashget(p) \/ getnewvnode_malloc(p) \/ getnewvnode_fails(p)
  \/ getnewvnode(p) \/ getnewvnode_end(p) \/ ufs_ihashins(p) \/ ffs_vget_end(p)
  \/ Found(p) \/ EnterFound(p) \/ ufs_makeinode(p) \/ ufs_remove(p) \/ Keep(p) \/ vput(p)
  \/ Done(p) \/ ffs_inactive(p) \/ ffs_inactive_end(p) \/ vgone_end(p)
  \/ ffs_sync(p) \/ ffs_sync_vput(p) \/ ffs_sync_next(p) \/ ffs_sync_end(p)
  \/ vflush(p) \/ EndFlush(p)

Next ==
  \/ \E p \in Procs, n \in Names, o \in Ops : LookupUncached(p, n, o) \/ LookupCached(p, n, o)
  \/ \E p \in Procs, o \in Syncs : StartSync(p, o)
  \/ \E p \in Procs : Close(p) \/ Step(p)
  \/ Halted

Spec == Init /\ [][Next]_vars

-----------------------------------------------------------------------------
\* A file has one vnode at most: the directory is locked from the search of the
\* inode hash until the new inode is on it, whatever getnewvnode sleeps for.
OneVnodePerFile ==
  \A v, w \in ihash : i_number[v] = i_number[w] => v = w

\* A name that the cache says is not there is not in the directory, whatever
\* sleeps in cache_enter while names are created and removed: a negative entry is
\* the newest of its name, so that a create drops it.  And every vnode the cache
\* gives has an inode.
EntriesSound ==
  \A n \in Names :
    /\ "negative" \in Range(nc[n]) => dir[n] = NoFile
    /\ nc[n] # <<>> => "negative" \notin Range(Tail(nc[n]))
    /\ Range(nc[n]) \cap Vnodes \subseteq ihash

\* src/lib/libc/sys/open.2:157: ENOENT when "O_CREAT is not set and the named file
\* does not exist".  The code gives the vnode of a file that has been removed,
\* through an entry made by a cache_enter that slept meanwhile.
OpensExist ==
  \A p \in Procs :
    Runs(p, "cached") /\ op[p] = "LOOKUP" => dir[nm[p]] # NoFile

\* A vnode that a process has open, has been given by a lookup or is writing for
\* sync, is in use and not about to be emptied; and when the name it was looked up
\* by was that of its file then, it is still the vnode of that file, and the file
\* exists, removed or not.
Kept(v) == v \in ihash /\ v_usecount[v] > 0 /\ ~Free(v) /\ v \notin VXLOCK \cup VBAD

Is(v, f) == f # NoFile => i_number[v] = f /\ f \in inodes

ReferencesSafe ==
  \A p \in Procs :
    /\ fd[p] # NoVnode => Kept(fd[p]) /\ Is(fd[p], opened[p])
    /\ pc[p] \in {"cached", "found", "enter", "has", "bad"} => Kept(vp[p]) /\ Is(vp[p], ino[p])
    /\ pc[p] = "fsync" => Kept(vp[p]) /\ i_number[vp[p]] = ino[p]

\* None of the panics of getnewvnode and ffs_valloc is reached, and vget never
\* takes a vnode off the free list that is not on it.
NoPanic == system \notin Panics

-----------------------------------------------------------------------------
(* The inductive invariant, in parts.                                      *)

\* The processes that have v open, and those that use it in the kernel.
Opens(v) == {p \in Procs : fd[p] = v}
Using == {"cached", "malloc", "bread", "found", "enter", "has", "bad", "fsync"}
Uses(v)  == {p \in Procs : pc[p] \in Using /\ vp[p] = v}

Counted ==
  \A v \in Vnodes : v_usecount[v] = Cardinality(Opens(v)) + Cardinality(Uses(v))

\* A process in a lookup, and one that has found or made the inode of its name.
Looking(p) == \/ pc[p] \in {"scan", "enoent", "ihash", "fresh", "malloc", "bread", "found"}
              \/ pc[p] = "cleaning" /\ gone[p] = "fresh"
Resolved(p) == Looking(p) /\ pc[p] \notin {"scan", "enoent"}
Linked(f) == f \in Range(dir)

\* The vnode that getnewvnode has taken off the free list.
Taken(p) == pc[p] = "fresh" \/ (pc[p] = "cleaning" /\ gone[p] = "fresh")

FreeList ==
  /\ \A i, j \in 1 .. Len(vfree) : vfree[i] = vfree[j] => i = j
  /\ \A v \in allocated : Free(v) => v_usecount[v] = 0
  /\ \A v \in allocated :
       v_usecount[v] = 0 => Free(v) \/ \E p \in Procs : Taken(p) /\ vp[p] = v
  /\ \A p \in Procs : Taken(p) => /\ vp[p] \in allocated /\ ~Free(vp[p])
                                  /\ v_usecount[vp[p]] = 0

\* A vnode has an inode on a hash chain, or is bad, or is being given an inode.
Contents ==
  /\ ihash \subseteq allocated /\ VBAD \subseteq allocated /\ ihash \cap VBAD = {}
  /\ \A v \in Vnodes : v \in ihash <=> i_number[v] # NoFile
  /\ \A v \in allocated \cup v_mount :
       \/ v \in ihash
       \/ v \in VBAD /\ v \notin v_mount
       \/ \E p \in Procs : pc[p] = "malloc" /\ vp[p] = v
  /\ \A p \in Procs : /\ pc[p] = "malloc" => vp[p] \in allocated \ (ihash \cup VBAD)
                      /\ pc[p] = "fresh" => \/ vp[p] \in VBAD
                                            \/ vp[p] \in VXLOCK /\ wchan[p] = <<"vnode", vp[p]>>

\* Only one process empties a vnode, and nobody uses it then.
Cleaned ==
  /\ \A v \in VXLOCK : v \in ihash /\ v_usecount[v] = 0
  /\ \A p \in Procs : pc[p] = "cleaning" =>
       /\ vp[p] \in VXLOCK /\ gone[p] \in {"fresh", "done", "vflush"}
       /\ \A q \in Procs : pc[q] = "cleaning" /\ vp[q] = vp[p] => q = p

\* The inode lock: who has it, and who waits for it.
Locking == {"cached", "bread", "found", "enter", "has", "bad", "fsync", "inactive", "update", "cleaning"}

Locks ==
  /\ \A v \in Vnodes : ILOCKED[v] # NoProc =>
       vp[ILOCKED[v]] = v /\ ILOCKED[v] \notin ilocking /\ pc[ILOCKED[v]] \in Locking
  /\ \A p \in Procs : pc[p] \in Locking =>
       /\ vp[p] \in ihash
       /\ p \in ilocking \/ ILOCKED[vp[p]] = p
  /\ \A p \in ilocking : pc[p] \in {"cached", "cleaning"}

\* ffs_inactive works on a vnode that is used by nobody, or by processes that have
\* found it in the name cache and wait for its lock.
Inactive ==
  \A p \in Procs : pc[p] \in {"inactive", "update"} =>
    /\ Opens(vp[p]) = {} /\ Uses(vp[p]) \subseteq ilocking
    /\ pc[p] = "inactive" => vp[p] \in i_mode
    /\ pc[p] = "update" => (vp[p] \in i_mode <=> Linked(i_number[vp[p]]))

\* A lookup has the directory locked, and no entry says that its name is not there.
\* The stages before and after hold what ufs_lookup relies on across their sleeps.
Lookups ==
  \A p \in Procs :
    /\ Looking(p) => dirlock = p /\ nm[p] \in Names /\ "negative" \notin Range(nc[nm[p]])
    /\ Taken(p) \/ pc[p] = "malloc" => InCore(ino[p]) = {}
    /\ pc[p] = "enoent" => dir[nm[p]] = NoFile
    /\ pc[p] = "cached" => dirlock = p /\ nm[p] \in Names
                          /\ (ino[p] # NoFile => dir[nm[p]] = ino[p] /\ i_number[vp[p]] = ino[p])
    /\ pc[p] = "enter" => nm[p] \in Names /\ dir[nm[p]] = ino[p] /\ ino[p] # NoFile

\* The inode a lookup has found is the one in the directory; one that it has made
\* is no file's.
New(p) == Resolved(p) /\ dir[nm[p]] = NoFile

Inodes ==
  /\ \A n \in Names : dir[n] \in inodes \cup {NoFile}
  /\ \A p \in Procs : Resolved(p) /\ ~New(p) => ino[p] = dir[nm[p]]
  /\ \A p \in Procs : pc[p] = "bread" => i_number[vp[p]] = ino[p]
  /\ \A p \in Procs : New(p) =>
       /\ op[p] = "CREATE" /\ ino[p] \in inodes /\ ~Linked(ino[p])
       /\ InCore(ino[p]) \cap i_mode = {}
       /\ pc[p] = "bread" => ino[p] \notin di_mode

\* An inode in core has i_mode # 0 as it has on the disk, unless it is being read
\* from there or given up; and only that of a file has.
Modes ==
  /\ \A n \in Names : dir[n] # NoFile => dir[n] \in di_mode
  /\ \A v \in ihash :
       \/ v \in i_mode /\ i_number[v] \in inodes
       \/ v \notin i_mode /\ i_number[v] \notin di_mode /\ ~Linked(i_number[v])
       \/ \E p \in Procs : pc[p] \in {"bread", "update"} /\ vp[p] = v

\* The inode of a removed file is in core only while it is in use, or until it has
\* been given up; and so it is marked as free on the disk.
Doomed ==
  /\ \A v \in ihash \cap i_mode :
       \/ Linked(i_number[v]) \/ v_usecount[v] > 0
       \/ \E p \in Procs : pc[p] = "inactive" /\ vp[p] = v
  /\ \A f \in di_mode : Linked(f) \/ InCore(f) # {}

IInv ==
  /\ TypeOK /\ NoPanic
  /\ Counted /\ FreeList /\ Contents /\ Cleaned /\ Locks /\ Inactive
  /\ Lookups /\ Inodes /\ Modes /\ Doomed
  /\ OneVnodePerFile /\ EntriesSound /\ ReferencesSafe
=============================================================================
