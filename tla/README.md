# The 4.4BSD-Alpha kernel in TLA+

This directory holds TLA+ models of the core of the kernel under `src/sys` (processes,
sleeping and signals, locks, buffers, vnodes and names, select), the TLC configurations that check them on small instances, and
proofs, checked by TLAPS, of the properties that matter most. The repository is a
whole operating system; user programs, libraries, drivers and the assembly of the
ports are outside the study. `PROJECT.json` lists every component, each definition
with the lines it models, the runs, the hazards and the findings.

## 1. Inventory

| Component | State | Operations | What is hard, and what must hold |
|---|---|---|---|
| VM sleep locks, `vm/kern_lock.c` | `want_write`, `want_upgrade`, `waiting`, `read_count`, `thread`, `recursion_depth` | read, write, upgrade, downgrade, try variants, recursion, done | threads interleave at every `thread_sleep`; one flag for all sleepers; `lock_done` guesses which hold it ends. Exclusion, exact counting, atomic upgrade, no lost wakeup |
| Callouts, `kern/kern_clock.c` | list of deltas, free list, soft interrupt request | `timeout`, `untimeout`, `hardclock`, `softclock` | clock interrupts between any two steps; overdue entries have times of zero and less. Nothing early, late or out of order |
| Sleep and wakeup, `kern/kern_synch.c` | `p_stat`, `p_wchan`, sleep and run queues, `P_` flags | `tsleep`, `wakeup`, `endtsleep`, `unsleep`, `setrun`, `swtch` | wakeup, timeout, signal and stop all race for one sleeper. Queues agree with states, timeouts do not outlive sleeps |
| Signals, `kern/kern_sig.c` | `p_sig`, `p_sigmask`, dispositions | `psignal`, `issig`, `stop`, `sigprocmask` | signals before, during and after a sleep, and for stopped sleepers. No sleep on a signal that should end it |
| Swapping, `vm/vm_glue.c`, `vm/vm_meter.c` | `SLOAD`, the sleep of `proc0` | `sched`, `swapout`, `vmmeter` | the swapper's scan and its sleep are not atomic. Every runnable process gets in |
| Advisory locks, `ufs/ufs/ufs_lockf.c` | the inode's list, chains of blocked requests, remembered blockers | `lf_setlock`, `lf_clearlock`, `lf_split`, `lf_wakelock` | six overlap cases, waits that are interrupted, memory freed under a sleeper, deadlock detection. Exclusion per byte, no forgotten sleeper |
| Buffer cache, `kern/vfs_bio.c`, buffer lists of `vfs_subr.c`, `spec_fsync` | hash chains, free lists, `B_BUSY`, `B_WANTED`, `B_DELWRI`, dirty lists, `v_numoutput` | `getblk`, `getnewbuf`, `brelse`, `bread`, `breada`, `bwrite`, `bawrite`, `bdwrite`, `biodone`, `fsync`, `vinvalbuf` | sleep and look again; completion interrupts; failed writes. One buffer for a block, no lost delayed write, durable `fsync` |
| Select, `kern/sys_generic.c` | `nselcoll`, `si_pid`, `SI_COLL`, `SSEL` | `select`, `selscan`, `selrecord`, `selwakeup` | an event between scan and sleep; collisions; stops. No lost event |
| Process life cycle, `kern/kern_fork.c`, `kern_exec.c`, `kern_exit.c` | `p_pptr`, `p_oppid`, `SZOMB`, `SPPWAIT` | `fork`, `vfork`, `exec`, `exit`, `wait4`, reparenting | parent, child and tracer exit in any order. Whoever exits is heard of |
| Tracing, `kern/sys_process.c`, the stops of `issig` | `STRC`, `ipc` | `ptrace`, `procxmt` | the parent acts on a child after a sleep; two kinds of stops. The child is where it was, nobody is left stopped |
| Sockets, `kern/uipc_socket*.c`, `uipc_usrreq.c` | buffers, connection queues, `unp_rights` | `sosend`, `soreceive`, `accept`, `unp_gc` | sleeping with a locked buffer; descriptors in flight |
| Vnodes and names, `kern/vfs_subr.c`, `vfs_cache.c`, `ufs/ufs`, `ufs/ffs` | use counts, `VXLOCK`, free list, mount list, inode hash and locks, capabilities | `getnewvnode`, `vget`, `vrele`, `vgone`, `vflush`, `ffs_vget`, `ffs_inactive`, `ffs_sync`, `cache_*` | identity changes while somebody sleeps for the vnode; four ways to find one. One vnode for a file, no file is hidden by the cache, a vnode in use stays what it is |
| Descriptors, `kern/kern_descrip.c` | `fd_ofiles`, `f_count` | `fdalloc`, `dup2`, `closef` | close that sleeps |
| TCP, IP reassembly, `netinet` | control blocks, timers, fragment queues | input, output, timers | loss, reordering, timers against late segments |
| NFS, `nfs` | request list, duplicate request cache, leases | send, resend, reply, evict | retries of what was already done; lease expiry |
| VM objects and pages, `vm` | shadow chains, busy pages | fault, pageout, collapse | sleeps inside every operation |

How they interact. Everything that waits calls `tsleep` on an address and is made
runnable by `wakeup` of that address; `tsleep` uses the callout queue for its
timeout and `CURSIG` for signals. `kern_lock.c` sleeps through `thread_sleep`,
which is `sleep` at `splhigh`. `ufs_lockf.c` sleeps interruptibly, and its cleanup
depends on what `tsleep` returns, on when, and on what the waker did in between:
two observations of section 4 come from this border. `ptrace` depends in the same way on
which of the two stops of `issig` the child is in. The buffer cache relies on the locks of
vnodes, and those on the lock of the directory, to keep others out while a process
sleeps between a search and what it does with the result. `malloc` with `M_WAITOK` is a `tsleep` as
well, in the middle of whatever called it: in `lf_split` and in `cache_enter` that breaks what the
callers rely on (section 4). The kernel is not preempted: a process
gives up the processor only in `swtch`, and interrupts come in between where the
`spl` level lets them. That fixes the grain of the actions: one stretch from sleep
to sleep, or one stretch at raised priority, is one action.

## 2. The modules

| Module | Models | Abstract specification | Checked by |
|---|---|---|---|
| `KernLock` | `vm/kern_lock.c`, `thread_sleep`, `thread_wakeup` | `RWLock` | `MCKernLock`, `KernLockProofs` |
| `Callout` | the callout queue of `kern/kern_clock.c` | `Timers` | `MCCallout`, `CalloutProofs` |
| `KernSynch` | `kern_synch.c`, `kern_sig.c`, `vm_glue.c`, `vm_meter.c`, `userret`, `setrq`, `remrq` | | `MCKernSynch`, `KernSynchProofs` |
| `Lockf` | `ufs/ufs/ufs_lockf.c`, `ufs_advlock` | `ByteLocks` | `MCLockf`, `LockfInv` and `LockfProofs` |
| `BufCache` | `kern/vfs_bio.c`, `bgetvp`, `brelvp`, `reassignbuf`, `vwakeup`, `vinvalbuf` of `vfs_subr.c`, `spec_fsync` | | `MCBufCache`, `BufCacheProofs` |
| `Select` | `select` and its helpers in `sys_generic.c`, `soo_select`, `sowakeup` | | `MCSelect`, `SelectProofs` |
| `ProcLife` | `kern_fork.c`, `kern_exit.c`, the end of `execve`, `sys_process.c`, the stops in `issig` and `psignal` | | `MCProcLife`, `ProcLifeProofs` |
| `Vnode` | the vnode table of `vfs_subr.c`, `vfs_cache.c`, `ufs_ihash.c`, inode locks, `ffs_vget`, `ffs_inactive`, `ufs_reclaim`, `ffs_sync`, as `ufs_lookup`, `vn_open`, `unlink`, `sync` and `unmount` use them | | `MCVnode`, `VnodeProofs` |

Each module states a type invariant, `TypeOK`, which is proved. The inductive
invariants `IInv` were checked on the instances of the runs before they were proved. The runs are kept to the
properties that take several steps to break.

Definitions called `mutant` in a comment are not part of the models. Each is a
version of the definition after it with one plausible mistake, kept to show that a
property notices it (`PROJECT.json`, "mutants").

**KernLock.** The fields of `struct lock` are variables of the same names. `pc` says
in which loop a thread waits, `asleep` who sleeps on the lock, and `hold` and
`rec_reads` what the callers have been granted, which the code does not record.
Each routine is an action; one that sleeps is an action up to the sleep and a
`_resume` action from it. `NCPUS` is 1, so simple locks are empty and spinning is
left out. Callers are taken to release only what they hold, and not to write
recursively under a base hold they have downgraded: `lock_write` would let them in
beside other readers, and `vm_map_pageable`, the one caller that downgrades, makes
every copy before, "because of problems in the recursive lock package"
(`vm_map.c:1193`).

**Callout.** The list `calltodo` is a sequence of function and delta. `hardclock`,
`softclock` (with the step that takes an entry off and the step after the call),
`timeout` and `untimeout` are actions. Only the sign of an overdue delta is ever
read, so -1 stands for all negative ones. `Timers` keeps the time left for each
entry instead, and the mapping sums the positive deltas.

**KernSynch.** Flags are the sets of processes that have them. `pc` is where a
process is: in user mode, in the kernel, stopped in the first `CURSIG` of `tsleep`,
switched out, between `swtch` and the second `CURSIG`, on its way out through
`userret`, dead, or in `sched`. `tsleep` is one action up to its `swtch` (or its stop)
because it runs at `splhigh`; `resume` and `relook` are what follows. `psignal` has one
branch for each case of its switch. Signals are abstracted to four: one that
may be caught and else kills, `KILL`, `STOP` and `CONT`, each with masks and handlers
as constants. `woken`, `expired`, `ret` and `lastStop` are history for the properties.
Run queue order and priorities are left out: `cpu_swtch` may choose any
queued process or one outside the model.

**Lockf.** `i_lockf` is the list, `lf` the contents of the structures, `lf_block` the
pointers of the chains, and `lf_next` the remembered blocker of a waiting request.
Chains are kept as pointers, not as sequences, because interrupted and continued
waits corrupt them. `link_lock` and `unlink_range` are the loops of `lf_setlock` and
`lf_clearlock` over the six cases: sequences of turns, of which `link_turn` and
`unlink_turn` make the next one, long enough for every list. A freed structure keeps `lf_block`, which `free`
does not touch, and the test of its flags may come out either way, because `free`
writes its list link over them; it may be allocated again at any time.
`Interruptible`, `Continuable` and `MallocSleeps` switch the three
environments on. Once `system` is not `"runs"` the kernel has panicked, loops, or has
written to memory of somebody else, and nothing more is modelled. The list of locks
maps to `ByteLocks` by reading off, for every byte, the type each owner has on it. That alone
would let a step change some other range than the one asked for; `EachAnswers` therefore ties
each step of `lf_setlock` and `lf_clearlock`, and each retry after a wait, to the request it works on:
its range, its type, and the request itself while it waits.

**BufCache.** `b_flags`, `bfreelist`, `dirtyblk`, `v_numoutput` and `VBWAIT` are the fields of
those names; `b_blk` is the vnode and block of a buffer, `io` what the driver has. A process
runs alone until it may sleep (`curproc`), but `biodone` comes between any two steps,
also between the search of `getblk` and the `splbio` under which it claims the buffer. Which
free buffer `getnewbuf` takes is left open. `current` (the buffers with the latest
contents) and `stored` (the blocks whose latest contents are on the disk) stand for the
data. Callers lock the vnodes in `Locked`, as file systems do for files, and no others.
One size of buffers: `allocbuf`, `geteblk`, `B_LOCKED` and `B_CALL` are left out. Two things stop
the model, in `system`: a `getblk` that claims a buffer which an I/O error took from its
block meanwhile, and a `spec_fsync` that spins at `splbio` because a buffer of its dirty list
is another's.

**Select.** A process that selects runs alone until it sleeps, but data arrive (`Arrive`) and
the clock ticks between any two descriptors it scans. Of `nselcoll` only the difference to
the copy a process took is kept (`missed`); the count is taken not to wrap. A descriptor is
a socket buffer that data may arrive at; other files go through the same `selrecord` and
`selwakeup`. Stops and continues come while the process is asleep.

**ProcLife.** A process is its process identifier, free for another process once it has
been waited for. `exit` is two actions, since it sleeps when it closes files: before, the
process is alive; after, it hands over its children, wakes and becomes a zombie. `init`
forks and waits. `issig` has two places to stop in, "trace" (a traced process, which then
calls `procxmt`) and "job"; `mask` is the signal it stopped for in the first, which it clears when it
goes on, whatever has arrived since; signals are `SIGTRAP`, `SIGKILL` and `SIGSTOP`. `Creates`, `Debuggers` and
`Jobs` bound who starts, traces and signals whom. An `ip_req` of 0 or less is "none".
`WNOHANG` and `WUNTRACED` are left out; what a stop does to a sleeper is in `KernSynch`.

**Vnode.** One directory, which is always in use, and files in it. `dirlock` is the lock of its
inode; `pc` the place where a process may sleep: reading the directory, in `getnewvnode`,
in `MALLOC`, reading the inode, writing it, in `vinvalbuf`. Places are entered by what the
code does without sleeping before them. `ILOCKED`, `IWANT`, `VXLOCK`, `VXWANT`, `v_usecount`, the free
list `vfree`, the mount point's list `v_mount` and the hash chains `ihash` are those of the code.
`nc[n]` is the sequence of the cache entries of a name, the newest first, as `cache_lookup` meets them on
the hash chain: more than one can be there. An entry is a vnode while its capability is current,
"stale" afterwards, or "negative". `numcache` counts the entries there is memory for; below
`desiredvnodes` `cache_enter` allocates and may sleep, in "enoent" with the directory locked and in
"enter" with the vnode locked and the directory, for a lookup, unlocked already. Else it takes the slot of
any other entry. `inodes` is the bitmap, `di_mode` what is in use on the disk; `dir` stands for link
counts too. `ufs_makeinode` and `ufs_remove` may fail to write the directory. A vnode is allocated
without sleeping, so that the table is never overshot. `system` is a panic of the code, or
one of two null pointers (section 4), after which nothing more is modelled. The
comparison of `v_id` after `vget` in `ufs_lookup` is left out: a vnode with users is never purged, so
it cannot fail (`ReferencesSafe`).

## 3. The runs

| Run | Shows | Bounds |
|---|---|---|
| `kernlock` | readers, writer and upgrader are kept apart; `read_count` is exact; no wakeup is lost; `RWLock` is implemented (an upgrade that succeeds is atomic); who owns `want_write` or `want_upgrade` gets the lock | 4 threads (reader, writer, upgrader and one more meet), 2 levels of recursion |
| `callout` | `Timers` is implemented: no operation changes the time left to another entry; nothing stays overdue | 2 functions, 4 entries, delays of up to 3 ticks: a due, an overdue, an equal and a later entry meet |
| `synch` | sleepers can be awakened; timeouts end with their sleeps; nobody sleeps on a signal; run queues are exact and the panics unreachable; timed sleeps end; runnable processes get into memory | one process that is born, sleeps, stops and exits again and again, the swapper, all four signals, one of them caught and masked at will |
| `lockf_ranges` | `ByteLocks` is implemented, request by request: a step sets the bytes of its request and no others, or nothing; each sleeper is on one lock that conflicts with it; two that wait for each other are found unless a lock was replaced | 2 owners, 2 bytes and the rest, 5 structures |
| `lockf_flock` | flock stays out of deadlocks; an interrupted request leaves the rest of the chain as it was | 4 flock owners: three wait for one |
| `lockf_signals` | own locks stay disjoint and in order, whatever signals and a sleeping `malloc` do, up to a panic or a kernel loop | 2 owners, 2 bytes and the rest, 3 structures (what a split takes) |
| `bufcache` | one buffer for a block of a file; reads see the latest; what is not on the disk is on its way there; `fsync` is durable and returns, and does not spin on a held buffer of its file; no sleeper is forgotten; a buffer found is lost to another block only by an I/O error | 2 processes, 2 buffers for 3 blocks (two of a file, one of a device), I/O errors |
| `bufcache_duplicate` | (fails) one buffer for a block of a device | 2 processes, 2 buffers, 3 blocks |
| `select` | nobody sleeps on a ready descriptor; selects with a timeout, and selects on what stays ready, return | 2 processes, 2 sockets and a closed descriptor, timeout of 1 tick or none: two processes collide on one and differ on the other |
| `proclife` | parents are alive and hear of exits and stops; nobody stays stopped without a tracer; `ptrace` may use its child after a sleep; kills take effect | init, a shell, a job and a debugger, which may be a child of either |
| `ptrace_stuck` | (fails) `ptrace` returns | the same |
| `vnode` | one vnode for a file; a name of which the cache says that it is not there is not there, and what it gives has an inode; a vnode in use is not about to be emptied and keeps its file, which stays allocated; no panic of `getnewvnode` and `ffs_valloc` | 2 processes, one of which syncs and unmounts, 3 files, 2 names, 2 vnodes (`desiredvnodes` is 1): all are in use, reused and short |

Each module has one run for its main questions; `Lockf` has three because each of its
environments needs its own owners. Lock structures are interchangeable, and so are
vnodes, files and names; the runs of `Lockf` and `Vnode`, which check safety only, use that
as symmetry. `CHECK_DEADLOCK FALSE` is said for `Lockf`, where processes can really end up
waiting for each other or the system in a panic, and for `ProcLife`, where a debugger may
wait for a child that is stopped until the debugger continues it.

Every interesting case of the code shows up in these sizes: a race needs one process
per role, an overlap case three offsets around one cut, a chain two waiters, a
collision two that select, a reuse one file more than vnodes. Larger ones were tried
once: cycles of three owners of record locks, and `Vnode` with four vnodes.

**Fairness.** `KernLock`: the scheduler runs runnable threads, a holder releases
(strong, since in between it may upgrade and sleep), and nobody stays in the recursive
section for ever (`[]<>(thread # t)`: fairness of `lock_clear_recursive` would not do,
it may never be enabled while recursive holds overlap); no fairness among those who
compete. `Callout`: the clock ticks and the software interrupt
is taken. `KernSynch`: callouts fire; `vmmeter` runs from the clock and looks after
the swapper; the pageout daemon keeps freeing memory; a queued process runs some
day, which the decay of priorities is for; a process in the kernel goes on. Nobody has
to wake a sleeper or to continue a stopped process. `BufCache`: transfers complete, and a
process gets the processor if it is ready again and again (strong, as others may run
first each time). `Select`: the same, and the clock ticks. `ProcLife`: a process goes on in
the kernel, and looks at its signals if it can again and again; nobody has to wait,
to continue or to exit.

## 4. Findings

Two runs are expected to fail; each contradicts a sentence of the sources, quoted in
`PROJECT.json`.

* `bufcache_duplicate`: `getblk` assigns a second buffer to a block when another process
  got one for it while it slept in `getnewbuf`. Files are safe, their vnodes being locked
  (`OneBufferPerBlock`); devices, which also hold the file systems' own blocks, are not.
* `ptrace_stuck`: `ptrace` accepts a child that job control has stopped, and sleeps
  uninterruptibly for an answer it never gets, with `ipc` locked against everybody.

The models show more of the kind, without a run of their own. Properties named here are
stated in the modules; to see the trace, check them with the constants given.

* `ZeroMeansAwakened` (`KernSynch`): `tsleep` returns 0 with no wakeup, when a default
  `SIGCONT` ends an interruptible sleep. In `lf_setlock` the request is then queued twice,
  and the chain closed on itself (`ChainsSound`, `Continuable`).
* `StopProcessed` (`KernSynch`): a stop signal sent between the continuation of a process and
  its return from `swtch` in `issig` is cleared.
* `NoLostLock` (`Lockf`, `Interruptible`): a signal after `lf_wakelock` and before the waiter
  runs reaches `panic("lf_setlock: lost lock")`.
* `ChainsSound` (`Lockf`, three POSIX owners, four structures, `Interruptible`): an
  interrupted request whose blocker was replaced (case 3) unlinks itself from the freed
  lock, and stays on the chain of the new one. Deadlock detection follows the same
  pointer and can miss a cycle, the exception of `DeadlockOnlyIfReplaced`.
* `NoConflict` (`Lockf`, `MallocSleeps`, four structures): `malloc` sleeps in `lf_split` between the
  check for locks in the way and the linking of the new one; two conflicting locks are held.
* `OpensExist` (`Vnode`, as in the run `vnode`): `ufs_lookup` unlocks the directory (`ufs_lookup.c:545`) and
  then sleeps in `cache_enter` for the memory of an entry (`vfs_cache.c:202`). The name is removed
  meanwhile, by a process that found nothing in the cache to drop; the entry made afterwards
  gives the removed file to the next open, where `open.2:157` has `ENOENT`. The vnode is still safe to
  use (`ReferencesSafe`), but it is no longer that of the name. Negative entries are made with the
  directory locked, and are right (`EntriesSound`).
* `select` computes its interval once: woken without finding anything it sleeps the
  whole of it again, past the deadline, where `select.2` has "a maximum interval to wait".
  `TimeoutReturns` holds because the deadline is looked at before each sleep.
* `exec` wakes the parent of the moment (`kern_exec.c:575`). If a tracer has attached, the
  parent that sleeps in `vfork` is not told until the child comes back to it.
* A second `PT_ATTACH`, after the first tracer has exited, takes the parent of the moment
  for the original one. `ip_lock` and `p_oppid` are identifiers, which another process may
  have by the time they are used.
* `vgone` of a vnode that is alone on the free list writes through `vfreeh`, which is null
  (`vfs_subr.c:953`); `cache_lookup` does the same with `nchhead` (`vfs_cache.c:178`). In the
  model `system` is then "vfreeh is null".
* `getnewvnode` puts a vnode on the mount point's list before `ffs_vget` has allocated its
  inode; `ffs_sync` reads the inode of every vnode on the list (`ffs_vfsops.c:505`). In the
  model `system` is then "v_data is null".
* `ffs_vget` does not look at the hash again after its sleeps (`ffs_vfsops.c:557`). In one
  directory its lock is enough (`OneVnodePerFile`); lookups of "..", which unlock it, and file
  handles of NFS have no such lock.

## 5. The proofs

All theorems are for every value of the constants that satisfies the named
assumptions of the module, in particular for any number of threads or processes.

**KernLockProofs** (assumes a finite set of threads): `TypeCorrect`, `CountExact`, `Exclusive`, `NoneLost` and
`Refinement` (to `RWLock`), all from `Invariance`. Mutual exclusion is not inductive:
the lock knows only counters and two bits. The invariant says who stands behind each
bit (`WriteOwned`, `UpgradeOwned`), that holds of different kinds exclude each other
(`Exclusion`), that recursion stands on a base hold of the recursive thread
(`RecursionOwned`), that `read_count` is the number of read holds (`ReadCountExact`)
and that whoever sleeps is still blocked, with `waiting` set (`SleepersBlocked`). The
lemmas on cardinality say what one grant or release does to the number of readers.

**KernSynchProofs** (assumes only that the special processes and channels are
distinct): `TypeCorrect`, `Awaitable`, `Runnable`, `PanicFree`, `TimeoutsCancelled`,
`TimeoutsJustified` and `SignalsHeeded`, from `Invariance`. `Queued` ties states to
queues, `Placed` ties both to where the process is in the kernel (a process can only be
stopped in one of four places, and only two of them are on the sleep queue), `Timed`
bounds what a callout can still do, `Undisturbed` says what may be pending for an
interruptible sleeper, asleep or stopped: it has to cover stopped sleepers, which
`NoSleepOnSignal` does not mention, because `SIGCONT` puts them back to sleep without
looking. `SwappingIn` covers the sleep inside `sched`. There is one lemma for each
action; `unsleep`, `setrun` and `wakeup` share `RequeueKeeps`, which shows that a
process taken off a sleep queue lands on exactly one queue.

**SelectProofs** (assumes that `NoProc` and `Never` are fresh, that closed descriptors are
descriptors, and nothing of how many there are): `TypeCorrect`, `EventsSeen` and
`SleepersRecorded`, from `Invariance`. That no sleeper misses an event depends on what
its scan left behind: `Recorded` says that `selwakeup` will find every sleeper, through
`si_pid` or `SI_COLL`, and `Scanning` says the same of a process that still scans, has found
nothing and has been told nothing (`SSEL` set, `nselcoll` as it was). The last two
conditions are what `select` looks at before it sleeps, and why that look is enough.
`OneScans` says that a scan keeps the processor; interrupts still come in between.

**ProcLifeProofs** (assumes that init is a process that nobody traces or signals):
`TypeCorrect`, `ParentsLive`, `ZombiesReported`, `TracedStayTraced` and `PtraceKeepsChild`,
from `Invariance`. The four properties are inductive together with `Roles`: init is always
there to inherit, and a process whose parent sleeps in `vfork` has neither stopped nor
begun to exit, so that the parent is not due a report yet. `LivingParent` is what
`ZombiesReported` needs at each change of parent: the new one is awake, or is woken.

**BufCacheProofs** (assumes a finite number of buffers and a block for each vnode): `TypeCorrect`,
`OwnedWhenBusy`, `SingleBuffer`, `ReadsAreLatest`, `WritesKept`, `FsyncIsDurable`,
`SleepersMarked` and `StaleAfterError`, from `Invariance`, with I/O errors or without.
`BusyMeansOwned` is the base: a buffer is free, with one process, or with the driver
alone. `LockExcludes` and `StillMissing` carry the search of `getblk` over its sleep
in `getnewbuf`, and give `OneBufferPerBlock`; this is where a device would fail. `Latest` says
that the one buffer of a file's block has the latest contents, `OutputCounted` that
`v_numoutput` is the number of writes under way, which is why `fsync` may trust it, and
`WriteEnded` and `SavedFirst` that a write waited for has ended on the disk or in an error.
`QuietKeeps` is the step of a process that touches no buffer; each other action has a
lemma of its own, and `GotValid`, `GotToRead` and `GotToFill` are the three ways out of `getblk`.

**VnodeProofs** (assumes finitely many processes, a table of twice `desiredvnodes`, and that
the names of nothing are fresh): `TypeCorrect`, `FilesHaveOneVnode`, `CacheRight`,
`ReferencesKept` and `PanicFree`, from `Invariance`, with `cache_enter` sleeping in any of its places.
`CacheRight` is `EntriesSound`: a negative entry says so of a name that is not in the directory, is the
newest of its name, and no entry is of an emptied vnode; that a positive entry is of the file in
the directory is false (section 4), and is not claimed. `ReferencesKept` is `ReferencesSafe`: a vnode somebody has, is
`Kept` (in use, off the free list, not being emptied), and `Is` of the file it was looked up as, which
stays allocated, removed or not. `Counted` says that `v_usecount` is the number
of those who have the vnode open or are using it; `FreeList` that a vnode without users is
on the free list once, or in the hands of `getnewvnode`. `Contents` ties the hash chains, `VBAD` and the
mount list to each other, `Cleaned` says what a vnode under `VXLOCK` looks like, and `Locks` who has
which inode locked and who waits for it. The hard part is a file that is removed while
its vnode is still known, also to the name cache: `Inactive` says that whoever reaches `ffs_inactive`
finds the vnode open nowhere, and used only by processes that wait for the inode lock; `Modes` that an
inode in core is marked as in use exactly if that on the disk is, but while it is read or given up;
`Doomed` that the inode of a removed file stays marked only while somebody uses it or is about to
give it up; `Inodes` that an inode just allocated belongs to its creator alone, so that `ufs_makeinode`
finds no mode in it. `Lookups` says that a lookup has the directory locked, with no negative entry of the
name, also while it sleeps in `cache_enter`. The entries of a name are handled by what a step may do to
them: leave some out or make them stale (`Shrunk`), or put one in front (`Enters`). `Gets`, `Releases` and
`Empties` are the three things that happen to a vnode, each with one lemma that all the actions
which do it share.

**CalloutProofs** (assumes at least one callout and one tick, and nothing of how many there are): `TypeCorrect`, from
`Invariance`, and `Refinement` (to `Timers`). The invariant adds to the types that only
entries at the head of the queue are overdue, and that none waits longer than the longest
timeout. The time left to an entry is the sum of the positive deltas up to it. `IsSum` says
what such a sum is, `SumExists` and `SumUnique` that there is exactly one; `Inserted`, `Removed`
and `ShortenedIs` say what the three things that happen to the queue do to it, and one
lemma for each action what that means for the entries of `Timers`: the delta of the entry
behind a new or a cancelled one takes up just the difference. Induction is done over sets of
lengths (`SetInduction`), as the prover cannot use the induction theorems of its library.

**LockfProofs** has three parts; `LockfInv` has the invariants and the notions they speak of.

* *The list*, whatever signals and a sleeping `malloc` do: `TypeCorrect` and `OwnersOrdered`,
  from `Invariance`. `IInv` adds to the order of an owner's locks that requests belong to
  their processes and are not on the list, and that a lock which is being split while `malloc`
  sleeps still contains the request (`SplitPending`), so that the pieces cut out of it afterwards
  are in order. A turn of either loop has a lemma for each of the six cases; `Linking` and
  `Clearing` are what holds between two turns, and the number of locks behind the place
  reached is what ends them. `Rel` says what a routine may do to the list as a set, and
  `Moves` what a whole step does: it leaves the locks as they are, frees the range of one request, or
  takes it. `Serves` says the same of the bytes, for the request the step works on, and not just for some
  range: `lf_setlock` and a retry either take exactly the bytes of the request or leave all as they
  are (a flock owner that asks for writing, without its own), and `lf_clearlock` frees exactly
  those. `Refinement` follows, for `~ MallocSleeps`: `ByteLocks` is implemented, each step answers its own
  request (`EachAnswers`), and a request that waits stays what it was. With a `malloc` that sleeps this
  is false (`NoConflict`, section 4).
* *flock*: `FlocksNoDeadlock`, for `Flocks = Procs`. Every lock is of the whole file, so the first
  byte tells all, and a sleeper has nothing (`EmptyHanded`): who wants to write has dropped its lock,
  and who wants to read and must wait has none, since another has one for writing.
* *The chains*: `ChainsAreSound` and `SleepersKept`. `Chained` gives each request on a chain a `root`, the
  lock on the list where its chain starts, and a `rank`, which grows along the chain; each stands behind
  just one other, and the root is in its way. From these follows what a walk over the pointers
  finds (`ChainIs`). `ChainInv` says so of exactly those that sleep, or were interrupted in
  their sleep, and that nobody else on the way through `lf_setlock` has anything behind it
  (`Awake`). Inside a routine the same is said of the intermediate pointers (`Queued`): the small
  lemmas `ChainsLeft`, `ChainsWoken`, `ChainsEdit` and so on are the edits, and the turns of the loops are
  made of them. Both theorems assume `~ Continuable`, and either that all owners use flock, or that
  waits are not interrupted and `malloc` does not sleep. These hypotheses are needed: section 4 has what happens
  otherwise to a continued wait, and to an interrupted wait for a record lock whose blocker was replaced.
  With flock that cannot be, as a new lock of a whole file equals the old one of
  its owner (case 1) and replaces none: the root of a request stays the lock it remembers.

Every leaf was also proved with half the time that the prover allows by default, so that the proofs
do not depend on a fast machine.

**Only model-checked.** Liveness (`OwnerAcquires`, `OverdueIsCalled`, `TimedSleepEnds`,
`SwappedIn`, `FsyncReturns`, `TimeoutReturns`, `SelectReturns`, `KillTakesEffect`): fairness is beyond
the prover. `DeadlockOnlyIfReplaced`: the search gives up after `maxlockdepth` steps, so the
property can hold only for at most that many owners, and a proof has to follow the owner of each
root through every edit of a chain.

## 6. Not modelled

In the modelled files: priorities and their decay (`schedcpu`, `setpri`), profiling and
interval timers, handlers, core dumps and process groups of signals, tracing and
`vfork` in the stop protocol. `psignal` is atomic in the model; its first lines run
before it raises the priority. `swapout` is atomic too. The callout table of the model
is never overfilled (the code panics). Requests with a negative length are not among
the inputs of `Lockf`; `lf_getlock` only reads. `bgetvp` and `reassignbuf` are atomic in
`BufCache`; the code runs them below `splbio`. A read-ahead there has its own block in core; the
code starts the read of one that is not, and holds that buffer while `getblk` sleeps for the block to
be read ahead (`vfs_bio.c:118-135`). Of vnodes: device aliases (`checkalias`,
`vgoneall`), forced unmount and `revoke` (a vnode in use is emptied, and a sleeper for
its inode finds it freed), I/O errors in `ffs_vget`, the `i_mode` of 0 at the start of
`ffs_inactive` (stale file handles only), links, renames and directories below the first,
and the wrap of `v_id`. The sleeps of `VOP_UPDATE` and `ufs_direnter` in `ufs_makeinode` have both
inodes locked, and are part of its action.

Left out for good: the machine dependent kernels beyond what `KernSynch` needs, device
drivers, terminals, OSI, XNS and X.25, the allocation bitmaps of FFS, the segment
writer of LFS (no roll forward in this snapshot), user programs and libraries.

## 7. Plan

In this order, each with an MC module, one run for its main questions, mutants and,
where the state is not recursive, proofs.

1. Proofs: `DeadlockOnlyIfReplaced` of `Lockf`, for at most `maxlockdepth` owners of record locks.
2. `SockBuf` and `UnpGC` (`uipc_socket*.c`, `uipc_usrreq.c`): `sblock`, `sosend`,
   `soreceive`, descriptors in flight and the marking collector.
3. `NfsRequest` and `Leases` (`nfs_socket.c`, `nfs_srvcache.c`, `nfs_nqlease.c`): loss,
   duplication and retries against the duplicate request cache; lease expiry.
4. `Tcp` (`tcp_input.c`, `tcp_timer.c`): the connection states over a lossy network.
5. `Rmap` (`subr_rmap.c`) and `Descrip` (`kern_descrip.c`) as checked algorithms.
6. Renames and several directories in `Vnode`; several sizes in `BufCache`.
