# Models and proofs for the xv6 kernel of OSTEP-Projects

This directory holds TLA+ models of the operating system kernel that two of the
repository's projects extend (`src/Project2/sysCall/src` adds the `getreadcount`
system call, `src/Project3/shell/src` adds the `wish` shell; the kernel files are
the same apart from debugging output), the TLC configurations that check them,
and theorems about them that TLAPS checks.

Paths below are relative to `src/Project3/shell/src`. `PROJECT.json` maps every
definition to the lines it models and lists the runs, the mutants that show that
each property can fail, the hazards and the theorems.

Contents

1. The system: parts, state, operations, what is hard, what must hold
2. The modules, their order, their abstract specifications, how they fit together
3. How the modules correspond to the code
4. The runs: what each shows, and why its bounds are enough
5. Fairness
6. What is proved, and how
7. Disagreements found between the code and its comments or tests
8. What is only model-checked, and what is not modelled

## 1. The system

| part | state | operations | interacts with |
|---|---|---|---|
| Process table, scheduler (`proc.c`) | `ptable.proc[NPROC]` (state, pid, parent, chan, killed, context), `nextpid`, per CPU `c->proc`, `ptable.lock` | `allocproc fork exit wait kill sleep wakeup yield sched scheduler` | everything that sleeps; traps; memory |
| Traps and system call entry (`trap.c`, `syscall.c`, `sysproc.c`) | trap frame, `killed` | system call entry and return, faults, clock tick, device interrupts | process table, devices |
| Pipes (`pipe.c`) | ring, `nread`, `nwrite`, `readopen`, `writeopen`, `p->lock` | `pipealloc pipewrite piperead pipeclose` | sleep/wakeup/kill, file table, page allocator |
| Log (`log.c`) | `log.lh`, `outstanding`, `committing`, `log.lock`; log area of the disk | `begin_op log_write end_op commit`, recovery in `initlog` | buffer cache, every file system call |
| Buffer cache, disk driver (`bio.c`, `ide.c`) | LRU list of `NBUF` buffers, `refcnt`, `B_VALID`, `B_DIRTY`, sleep lock per buffer; `idequeue` | `bget bread bwrite brelse`, `iderw ideintr idestart` | log, inodes, interrupts |
| Inodes and names (`fs.c`, `sysfile.c`) | `icache` (ref, valid, lock), inodes, bitmap and directories on disk | `ialloc iget idup ilock iunlock iput itrunc`, `dirlookup dirlink namex`, `create link unlink open mkdir chdir` | log, buffer cache |
| File table, descriptors (`file.c`, `sysfile.c`) | `ftable.file[NFILE].ref`, `ofile[NOFILE]` | `filealloc filedup fileclose fdalloc`, `dup close pipe` | pipes, inodes, fork, exit |
| Console (`console.c`, `kbd.c`, `uart.c`) | input ring with indices `r w e`, `cons.lock` | `consoleintr consoleread consolewrite` | sleep/wakeup, inode lock |
| Clock | `ticks`, `tickslock` | timer interrupt, `sys_sleep`, `sys_uptime` | sleep/wakeup, kill |
| Locks (`spinlock.c`, `sleeplock.c`) | `locked`, `cpu`, `ncli`, `intena`; `locked`, `pid` | `acquire release pushcli popcli`, `acquiresleep releasesleep` | everything |
| Memory (`vm.c`, `kalloc.c`) | free list, page tables, `sz` | `kalloc kfree allocuvm deallocuvm copyuvm growproc` | fork, exec, pipes |
| `exec` (`exec.c`) | the new image | one sequential call | memory, inodes |
| Shell `wish` (`wish.c`, `wishUtils.c`) | line buffers, argument vector, children | read a line, split on `&`, fork, exec, wait | process table |
| User library, `sh`, utilities, tests, `mkfs`, boot code, Rust utilities (`src/Project 1 - Unix Utils`) | - | sequential | system calls |

What is hard, and what must hold, part by part:

* **Process table.** `ptable.lock` is held across the context switch: the thread
  that acquires it is not the one that releases it. A process is `ZOMBIE` (or
  `RUNNABLE`) while it still runs on its stack. `fork` writes to the table
  without the lock. `exit` hands its children to init while they exit
  themselves. *Must hold*: one CPU per stack; no stack is freed under a CPU;
  everyone but init has a living parent; no exit and no wakeup is missed; `kill`
  hits the process it names; every `RUNNABLE` process runs; a killed process dies.
* **Pipes.** Two locks (`p->lock`, `ptable.lock`), two sleep channels, several
  readers and writers, kills in between, both ends closing at once, counters
  that wrap. *Must hold*: first-in first-out, nothing lost or made up, end of
  file only at the end; nobody sleeps with a reason to run; the page is freed
  once, by the last user.
* **Log.** Crashes between any two disk writes, also while recovering; group
  commit of calls that overlap; a reservation scheme that has to be enough.
  *Must hold*: what recovery finds is a state between operations; idle means
  durable; no panic for lack of log space; waiters get in.
* **Buffer cache and driver.** A reference is taken, the lock dropped, the sleep
  lock taken; an interrupt handler consumes a queue others append to. *Must
  hold*: one buffer per block, its contents those of the disk when valid; every
  request completes; no buffer is lost for good, and one is left while few processes
  are at work.
* **Inodes and names.** `iput` frees a file when the last reference and the last
  link go, with two locks and a disk transaction. *Must hold*: link counts match
  directory entries; a referenced inode is not freed.
* **File table, console, clock, memory, wish**: reference counts on error paths,
  ring indices, unsigned arithmetic, size 0, failing forks: see the hazards.

## 2. The modules and the order they were written in

Most important behaviour first. Conventions: a module `X` holds the model,
`XProps` its properties and inductive invariant (small modules keep them at
their end), `MCX` what TLC needs, `XProofs` the theorems (`ProcProofs`: `Proc` and
`Memory`, `DeviceProofs`: console, clock and spin locks, `FileProofs`: `FileTable` and
`FileData`, `UserProofs`: `Wish`, `Umalloc`, `Zip` and `Grep`).

| module | what | abstract specification | status |
|---|---|---|---|
| `Proc` | process table, scheduler, traps | - | checked, invariant proved |
| `Log` | write-ahead log with crashes | `AtomicDisk` | checked, invariant and refinement proved |
| `Pipe` | pipes with kill and close | `ByteStream` | checked, invariant and refinement proved |
| `BufferCache` | buffers, their sleep locks, the driver's queue | `BlockStore` | checked, invariant and refinement proved |
| `Locks` | spin locks, interrupts, the hand-over in `sched()` | - | checked, invariant proved |
| `Namespace` | inode cache, directories, path names, transactions, crashes | `NameTree` | checked, invariant and refinement proved, two disagreements found |
| `FileTable` | open files, descriptors, error paths of `open`, `pipe`, `fork` | - | checked, invariant proved |
| `FileData` | bitmap, block map, chunks of `write`, shared offsets | `FileBytes` | checked, invariant and refinement proved |
| `Memory` | frames, page tables, `sbrk`, `fork`, `exec` | - | checked, invariant proved |
| `Console` | keyboard interrupt, readers and writers around the input ring and its locks | `Terminal` | checked, invariant and refinement proved |
| `Clock` | `ticks`, `sys_sleep`, kill | - | checked, invariant proved |
| `Wish` | the shell's loop, `&`, failing `fork` and `exec` | - | checked, invariant proved, one disagreement found |
| `Umalloc` | the user allocator | - | checked, invariant proved |
| `Grep` | the matcher and the buffer of `grep` | `Described` | checked, invariant proved |
| `Zip` | the Rust `wzip` and `wunzip` | `RoundTrip` | checked, invariant proved |
| `MCWaiting`, `MCDevices`, `MCParts` | several parts in one run, side by side | - | - |

How the parts fit together. `Log` assumes of the cache that a logged block is
pinned and reads as it was written; `BufferCache` checks it (`StoreSpec`), and its
constants `MaxPinned`, `Nests` and `MaxHeld` are what `log.c` and `fs.c` do with it.
`Namespace` and `FileData` assume of the log that a transaction is atomic and
that a call that fits its reservation does not panic: `DiskSpec` and `NoPanic`.
`FileData`'s `OpFits` is in turn what `Log` assumes of its callers (`OpBlocks`). `Pipe`
has sets of holders where `FileTable` has reference counts; that there is one file
for each open end (`EndsOwned`) is what makes them the same. `Log`, `BufferCache`
and `Console` treat `sleep(chan, lk)` as one step or as two with the lock in
between; `Pipe` models every step of it and shows that no wakeup is lost, and
`Proc` that the sleeping thread's stack is not used meanwhile.

## 3. How the modules correspond to the code

Operators marked `mutant` are not part of the model: each is a plausible mistake
in the definition that follows it, and `PROJECT.json` says which property fails
when it is put in.

A critical section under a spin lock that neither sleeps nor switches is one
action. Where the code drops a lock, or writes without one, the model has
separate actions. Locks are explicit variables only where they are held across
an action. A `panic()` is a step that is missing.

### `Proc`, `ProcProps`

`state pid parent chan killed` are the fields of `struct proc`. `pc[p]` is where
the process is: in user code, at the start of a system call, in `fork` before
and after the copy, in `wait`, blocked in some other call, on its way out of the
kernel, or in `exit`. `ctx[p]` is where `p->context` resumes. `cproc[c]` is
`c->proc`, `pos[c]` the loop variable of `scheduler()`, `ptlock` the CPU that
holds `ptable.lock`.

| action | code |
|---|---|
| `TrapEnter`, `TrapReturn`, `Fault` | `trap.c` 39-46, 82-101 |
| `Yield` | `trap.c` 103-107, `yield` |
| `ForkAlloc`, `ForkFail`, `ForkCopy`, `ForkReady` | `allocproc`, the two failures (no lock), the copy (no lock), `RUNNABLE` |
| `SysExit`, `ExitZombie` | `exit`, up to `sched()` |
| `Wait` = `WaitReap` or `WaitFail` or `WaitSleep` | one round of the loop of `wait`, first or after a sleep |
| `Kill`, `Sleep`, `BlockDone`, `Wakeup` | `kill`, `sleep` on any other channel, its return, `wakeup` |
| `ScanStart`, `Dispatch`, `ScanEnd` | `scheduler`: acquire, the next RUNNABLE slot, release |
| `Sched`, `Resume` | `sched()` to the scheduler; back in `forkret`, `yield`, `sleep` |

Abstractions: memory, files, the trap frame and the name are left out; `fork`
may fail for lack of memory at any time; the first-time initialisation in
`forkret` is left out. `Chans` stands for all channels other than processes and
`Wakeup` on them may come at any time, so that everything the rest of the kernel
may do to the table is possible. Nobody passes init's pid to `kill` (`exit`
panics for init; so does the code).

### `Pipe`, `PipeProps`, `ByteStream`

One pipe, with the processes that hold its ends (`rd`, `wr`: what `fileclose`
counts). `todo[p]` is what is left of the buffer of `write`, `want[p]` the count
of `read`, `ret[p]` the last result. `lk` and `ptlk` are held across actions
only on the way into `sleep()`: `WriteWait`/`ReadWait` keep `p->lock`, `SleepSwap`
takes `ptable.lock` and drops `p->lock`, `SleepCommit` is asleep. `Kill` fits in
wherever `ptable.lock` is free. Counters are modulo `W` (2^32 in the code).

`ByteStream` is a bounded queue: a writer puts some of its bytes, a reader takes
what is there or finds the end of a closed stream, a call may be cut short.
`PipeProps` maps the ring to the queue (`Byte(1) .. Byte(Count)`) and TLC checks
`StreamSpec`, the abstract specification, as a property. `todo`, `want`, `ret`
are the same in both.

### `Log`, `LogProps`, `AtomicDisk`

On disk: `home` (home locations), `logblk` (log blocks), `head` (the header). In
memory: `mem` (what `bread` returns), `lh`, `outstanding`, `committing`. One
action per disk write: `WriteLog`, `WriteHead`, `Install`, `Erase`; `Crash`
resets everything but the disk at any point, `ReadHead`, `RecoverInstall`,
`RecoverErase` are the recovery, in which it may crash again. `sleep(&log,
&log.lock)` is one step: `Pipe` models how `sleep()` makes it so and checks it
(`NoLostWakeup`). What the cache does for the log - a logged block is pinned and
others may be evicted - is assumed here; `BufferCache` checks it (`StoreSpec`), not
yet in one composition.

`NLOG` is `log.size`. `mkfs` makes it `LOGSIZE`, header included (`mkfs.c` 25),
so there is room for one block less than `param.h` 11 says, and `log_write`
panics on a full log even when the block is in it already. With 10 blocks
reserved and 30 in the log, three calls that each used all ten would panic. The
calls of `fs.c`, `file.c` and `sysfile.c` write at most 7 different blocks
(`filewrite`: four data blocks, one bitmap block, the indirect block, the
inode); the assumption is `OpBlocks + 2 <= MAXOPBLOCKS`.

`AtomicDisk` has the current contents `cur`, the `durable` contents and the set
of calls in progress: a commit, when no call is active, makes everything durable
at once, and a crash goes back to it. `LogProps` maps `durable` to what recovery
would make of the disk (`Recovered`). `AtomicDisk` allows never to commit;
`IdleMeansDurable` says when the log must have.

### `BufferCache`, `BufferCacheProps`, `BlockStore`

`blk refcnt valid dirty data` are the fields of `struct buf` (`B_VALID` and
`B_DIRTY` are the flags; there is one device), `holder` says who has the sleep
lock of a buffer, and `lru` is the list as the relation "used after". `queue` is
`idequeue`, `cmd` what the controller has been told, `disk` the contents.
`pc[p]` is where a process is: waiting for the sleep lock, about to queue a
request, waiting for the disk, between `releasesleep` and `refcnt--`, or outside.

| action | code |
|---|---|
| `BgetHit`, `BgetMiss` | the two loops of `bget`, under `bcache.lock`, up to `acquiresleep` |
| `LockBuf` | `acquiresleep` gets the lock; `bread` goes on to `iderw` if the buffer is not valid |
| `LogWrite`, `Bwrite` | the caller changes the buffer and calls `log_write` (the flag only) or `bwrite` |
| `Brelse`, `Unref` | `releasesleep`; then `refcnt--` and the move to the front |
| `Iderw`, `IderwDone` | the request is queued and, if it is alone, started; the process finds it done |
| `Ideintr` | the interrupt: data, flags, the next request |

Abstractions: a sleeper woken for nothing takes no step; `bget` without a buffer
panics, which is a state without that step (`BufferLeft` says when it cannot
happen); the list starts in any order. `Nests` and `MaxHeld` describe the
callers: which block may be read while another is held (the indirect block, then
the bitmap; a log block, then its home), and how many at a time (two in `fs.c` and
`log.c`). `MaxPinned` stands for the log's admission: how many blocks are dirty
and not on their way to the disk. Disk errors are left out: `ideintr` treats a
failed read as done, and nothing in the code could report it.

`BlockStore` has a value and an owner for each block. `BufferCacheProps` maps the
value to the buffer of the block if there is a valid one and to the disk
otherwise; `StoreSpec` then says that neither eviction, nor the disk queue, nor a
pinned buffer changes what `bread` returns.

### `Locks`

`owner` is `lk->cpu` of a lock that is taken, `ncli intena` are those of `struct
cpu`, `intr` is the interrupt flag. A context is a thread or a CPU's scheduler:
`on[c]` says which runs on `c`, and `held spin nest mode saved` belong to it.

| action | code |
|---|---|
| `AcquireStart`, `Acquire`, `Release` | `pushcli` (`spinlock.c` 105-116), the `xchg` that succeeds, `release` with `popcli` |
| `PushOnly`, `PopOnly` | `myproc()`, `holding()`: `pushcli` without a lock |
| `Interrupt`, `Iret` | a gate clears the flag, the handler takes locks, `iret` restores it |
| `SchedulerSti`, `SchedulerAcquire`, `Dispatch` | `scheduler` 330-346 |
| `Sched` | `sched` 371-381: only with `ptable.lock`, `ncli` 1; `intena` is saved and restored |

`Dispatch` and `Sched` hand `ptable.lock` from one context to another, so "who
holds a lock" is the context that runs, not the one that took it.

### `Namespace`, `NamespaceProps`, `NameTree`

`type nlink ents up` are inodes on disk and directory entries (`up` is `..`), `ref
valid lock` the inode cache, `cwd open` what a process has. `act[p]` is the call a
process is in: the point reached, the inodes `ip dp src` it has references to,
and the references it still has to put. A process works as follows: `Begin`
(`begin_op`, start of `namex`), one `WalkNext` per path element with the lock of
the directory, then the steps of `create`, `sys_unlink`, `sys_link`, `sys_open`,
`sys_chdir`, then `iput`s and `End`. `iput` is two steps, as in the code: free the
inode if this is the last user (under its lock), then count the reference down.
`create` and `unlink` keep the new or removed inode locked while they put the
directory. `End` commits when no other call is in progress (`Others`), and a
crash goes back to `durable`.

`stray` is a history variable: somebody made an entry in a directory that had
been removed while it was a current directory, which `create()` does not look
for. A link count is the number of names as long as nobody did (`Counted`,
`RemovedEmpty`); that no entry leads to a free inode, that a directory has one name
and that an inode has no more names than links hold in any case (`Sound`,
`Counted`). The same is said of the volume in memory (`LinkInv`) and of the one that
the log would bring back (`RecoversConsistent`).

`NameTree` has names and nothing else: a name appears in one step for something
that exists, a directory goes when it is empty, a named inode is not freed, a
crash goes back to all names of one earlier state.

### `FileTable`, `FileTableProps`

`fref what` are `ftable.file`, `ofile live` the processes, `ends` the open ends of the
pipe in a page, `iref` references to inodes taken by `open`. The steps under
`ftable.lock`, the pipe's lock and the page allocator's are apart: `PipeStart`,
`PipeFile` (twice), `PipeMade` or `PipeNoPage`; `OpenStart`, `OpenFile`, `OpenFill`;
`FilecloseRef`, then `FileclosePipe` or `FilecloseInode` with the copy of the file.
Every failure is there: no file, no page, no descriptor for the first or the
second end. `exit` closes the descriptors one by one (`ExitClose`), with a whole
`fileclose` in between. `InHand` is what a call has that is not in `ofile`: files it has
allocated (`new`) and files it has to close (`drop`). `Users` and `Files` are disjoint
so that `EndOwners` may have both: a file that stands for an end of a pipe, and
a process between freeing such a file and closing the end.

### `FileData`, `FileDataProps`, `FileBytes`

`bitmap`, `addrs`, `ents` (an indirect block), `bytes`, `size`, and of an open file `fip
off`. A read is one step (`Read`; `BackToUser` is the return). A write is `StartWrite`,
then for each chunk `StartChunk` (lock), `MapOld` or `MapIndirect` and `MapNew` (`bmap`
with `balloc`), `Copy`, `EndChunk` (size, offset, unlock). `logged` collects the blocks
a chunk logs: `OpFits` compares them with the reservation. `StartTrunc`, `FreeDirect`,
`FreeEntry`, `EndTrunc` are `itrunc`. Two files share the bitmap. `DataIInv` is
`OneOwner` (a block in use has one place in one file, `BlockAt`, and the bitmap is the
set of them), `NoHoles`, `OffsetsIn`, `OneInode`, what a process in a call relies on
(`InCall`), and `OpFits`. `FileBytes` is a sequence of bytes for each file and a position
for each open one; `Content` is what is found through the block map, with the chunk
being written (`writei` has the inode locked, so nobody sees it half done), and
nothing of a file that is being truncated. `FileDataAssumption` asks for
`MAXOPBLOCKS` above 6, so that a chunk is not empty (`param.h` has 10).

### `Memory`, `MemoryProps`

A frame is free, a page, a page table, a directory or a kernel stack. A step
ends at `kalloc` or `kfree`, where another process may come in and where memory
runs out: `AllocPage` or `AllocFail`, `MapPage` (with a new table or not) or
`MapFail`, `DeallocPage`, `FreePage FreeTable FreeDir` of `freevm`, `SetupDir SetupKernel`,
`CopyPage`. `Sbrk`, `ForkSpace`, `Exec`, `ExitSpace`, `Reap` start and end them. The arithmetic
of sizes is that of unsigned numbers below `ADDRESSES`, with `KERNBASE`. `FramesOwned`
is the promise: each frame is free or has one of the `Places` that will free it.
`SizesRight` is that a process has the pages below its size.

### `Console`, `ConsoleProps`, `Terminal`

`r w e` are the unsigned indices of the ring. `Key`, `Erase`, `EraseLine` are the
interrupt; `Enter Lock WaitForLine SleepOn GiveUp TakeKey PutBack Relock Return` are
`consoleread`, with the inode lock it gives up and takes again. `AskWrite EnterWrite
LockWrite PutAll` are `consolewrite`, which gives the same lock up, prints under
`cons.lock` (what it prints is not modelled, that it has the lock meanwhile is) and takes
the inode lock back by the same `Relock`. `Terminal` is a line, what has been entered,
and what each `read` has taken.

### `Clock`

`ticks` is unsigned and wraps, `n` is signed, and `Over` compares them as `sysproc.c`
69 does. `passed` and `behind` are history variables: the ticks since the call and
since the process could have run. `Late` bounds the latter: without such a bound,
a process that does not run for 2^32 ticks oversleeps for a whole turn.
`SleepsEnough` is that it sleeps no less than `n` ticks, `InTime` no more than `n` and
what the scheduler takes; both hold while `ticks` wraps.

### `Wish`

`at[t]` is the point a process has reached, `line`, `cmd`, `resBuf` its copies of the
line, the command it is at and its buffer. A line is split by a chain of
processes, each the child of the one before, as `parallelize` recurses in the
child of `fork`. `old` is the buffer the shell freed last, which `malloc` hands out
again.

### `Umalloc`, `Grep`, `Zip`

Sequential algorithms. `Umalloc` steps are whole calls of `malloc` and `free` on the
circular list (`Insert`, `Morecore`, `Taken`), and its invariant is about every sequence
of calls. `Grep` has the loop over pieces of a file, in any sizes `read` may return.
Its matcher is `Here`, a recursive function: for a place in the pattern, the places of
the text where `matchhere` succeeds. `GrepRight` compares what is printed with the
lines that a second definition, written from the meaning of patterns, accepts: `Means`
builds the set of the texts a pattern describes, and a line is `Described` if a part
of it is one of those, a part that begins and ends where `^` and `$` say. `Zip`
compresses (`Runs`) and expands; the panics of a run longer than nine and of an empty
line are missing steps.

## 4. The runs

| run | checks | instance |
|---|---|---|
| `proc_safety` | `ProcIInv` and by name `OnCpu`, `StackSafe`, `KillFindsTheLiveOne`, `ParentAlive`, `NoMissedZombie`; `ZombieStays` | 2 CPUs, 3 slots, 1 channel, pids up to 4: 1.2 million states |
| `proc_live` | `EveryoneRuns`, `KilledDies`, `InitReaps` | 1 CPU, 3 slots |
| `pipe_safety` | `PipeIInv`, `NoLostWakeup`, `FreedOnce`, `StreamSpec` | 3 processes, one with both ends, ring of 2, counters modulo 4: 4 million states |
| `log_crash` | `LogIInv`, `IdleMeansDurable`, `DiskSpec` | 3 processes, 4 blocks, 2 values, log of 8: 467 thousand states |
| `devices` | `CacheIInv`, `BufferLeft`, `StoreSpec`; `ConsoleIInv`, `TermSpec` | cache: 2 processes, 3 buffers, 4 blocks, 2 values, 1 pinned: 120 thousand states; console: 2 processes, ring of 2, indices modulo 4: 191 thousand |
| `waiting` | `ReadReturns`, `WriteReleased`, `NoWedge`, `NoPanic`, `CallsReturn` | a pipe with 1 reader and 2 writers, a log of 6 with 3 processes and 5 blocks, 2 buffers with 2 processes that nest them |
| `names_safety` | `NamesIInv`, `RecoversConsistent`, `TreeSpec` | 2 processes, 3 inodes, 2 names, a session about directories and one about links |
| `parts` | `LocksIInv`, `FilesIInv`, `DataIInv`, `DataSpec`, `FramesIInv`, `ClockIInv`, `UmallocIInv`, `WishIInv`, `GrepRight`, `ZipRight` | see below: 277 thousand states |
| `pipe_killed` | violation of `KilledLeaves` (section 7) | 1 reader, 1 writer |
| `names_deadlock` | violation of `NoLockCycle` | as `names_safety` |
| `names_leak` | violation of `FreedWhenUnused` | as `names_safety` |
| `wish_stale` | violation of `RunsWhatWasTyped` | a line of one command, then one that ends in `&` |

In `parts`, `devices` and `waiting` the first state chooses one part and the others stand
still, so each is explored on its own, and one run costs the sum of the parts
and not their product. A property of such a run is the part's property, for the
states in which the part runs; the refinements (`DataSpec`, `StoreSpec`, `TermSpec`) are
checked in all of them, where the standing part stutters.

Why the bounds are enough to see the interesting cases:

* *Processes*: init, a process and its child are needed for orphans and for a
  zombie that is inherited; two CPUs for a parent that reaps while the child
  switches; `MaxPid` 4 lets a slot be used again and lets pids of failed forks
  stay behind. (With three slots init usually has another reason to wake up, so
  the wakeup of init for an inherited zombie is exercised more by the proof,
  which is for every `NPROC`.)
* *Pipe*: writes of one and of three bytes into a ring of two fit, fill the ring
  exactly and sleep half way; reads of one and two; modulo 4 makes the counters
  wrap twice as often as the ring. The system may stop when everybody has
  closed, hence `CHECK_DEADLOCK FALSE`.
* *Log*: in `log_crash` the reservation of two calls fits and that of three does
  not, so calls wait; two calls write the same block and different ones; commits
  of up to four blocks, crashed at every write and during recovery. In `waiting`
  the log has one value and more blocks, so that it is filled to its limit and
  `NoPanic` is about something.
* *Buffer cache*: there is one block more than buffers, so buffers are recycled
  while others are pinned, in use or waited for. In `devices` a process holds
  one buffer at a time and one block is pinned: three buffers are enough for
  `BufferLeft` to promise one while a process is idle, and all are taken while none is.
  `waiting` has the nesting and few buffers: every call that got its buffer comes
  back all the same.
* *Names*: two processes meet at every step of a walk. The first session makes,
  removes and enters directories (a removed current directory, `..`), the second
  links, unlinks and opens files (an open file without names, a name that is
  taken, the put of a file both have).
* *Locks*: 2 CPUs, 2 threads, 2 locks with interrupts that take locks and nest:
  a thread sleeps on one CPU and goes on on the other.
* *Files*: 3 files and 2 descriptors for 2 processes, 1 page: files, descriptors
  and pages all run out, in each order. *Data*: 2 processes, 2 open
  files (of one inode or of two), blocks of 2 bytes, one direct block and two in the
  indirect block, 4 blocks for both files together, and writes of 5 bytes, which are
  two transactions that another process at the same offset may come between. A
  chunk is two blocks long, so one that begins within a block lies across three. *Memory*:
  10 frames for two processes, where an address space takes up to 9; tables of
  2 pages. *Console*: ring of 2, indices modulo 4, reads shorter and longer than
  a line, while the other process writes or reads. *Clock*: `ticks` modulo 4 with arguments 0, 1 and -2. *Umalloc*: a heap of
  14 units. *Wish*: 6 processes, so that forks fail at each place; lines of three
  commands and with `exit`. *Grep*: 22 patterns, all files of up to four letters,
  a buffer of 4. *Zip*: all documents of up to two short lines or one of five,
  counts below 5.

Symmetry is used for invariants and for properties of single steps only, never
with liveness.

## 5. Fairness

* `Proc!FairSpec` is for one processor: a test-and-set spin lock promises
  nothing to two. The scheduler's steps and the clock are weakly fair (an
  infinite loop and a periodic interrupt). `SliceStep` and init's `wait` are
  strongly fair: a time slice is long enough for a step, so a process that runs
  again and again gets it done. Programs never have to misbehave (`Fault` is not
  fair). init calls `wait` for ever (`init.c` 22-36); it exits when its `fork`
  fails, which panics the kernel and is left out.
* `MCWaiting!WaitingSpec` has the fairness of `FairSpec` of `Pipe`, `Log` and
  `BufferCache`, each for the behaviours in which that part runs:
  * pipe: a process in the kernel takes its next step (strongly fair, as p->lock
    is free again and again; the holder has interrupts off). Nobody has to call
    or close anything; a killed process exits and closes what it holds.
  * log: a commit and a recovery go on, a call in progress ends, a woken process
    looks again. Nobody has to start a call; a crash is never obliged.
  * cache: the disk answers, a process with the CPU goes on (weakly fair), and
    who waits for a sleep lock that is free again and again gets it (strongly
    fair: waiters are woken together and the scheduler runs them all; the code
    keeps no order among them). Callers release each buffer they were given:
    `fs.c` and `log.c` do so on every path that does not panic. `Nests` has no
    cycle; with one, `CallsReturn` would be false.

`InitReaps` is about init as a whole: `wait` takes the lowest zombie slot first,
so a single orphan in a high slot may wait as long as lower ones keep dying.
`NoWedge` lets a call wait as long as others get in: the code keeps no queue.

## 6. What is proved, and how

Eight modules are checked by TLAPS, each from the named assumption of its model
(`ProcAssumption`, `LogAssumption`, ...; TLC evaluates them in the runs) and nothing
else, for all values of the constants. In each, an invariant is a conjunction of
named parts with one theorem per part (`TypePreserved`, `RefPreserved`, ...), and in
it one step per action.

**`ProcProofs`.** `ProcInvariant`: `Spec => []ProcIInv`. `ParentAlive` alone is not
inductive: that `exit` leaves no child behind depends on the child `fork` is
filling in (its parent field is null, then the forker, which is not exiting:
`ForkInv`), and on init, which inherits (`InitAlive`: never killed, never in
`exit`). `NoMissedZombie` needs that who sleeps in `wait` sleeps on itself
(`WaitChan`). `StackSafe` and `OnCpu` go together: who is on a CPU and not
`RUNNING` holds `ptable.lock`, so no other CPU can be in `wait` or in the scan.
`KillFindsTheLiveOne` follows from `PidInv` (pids are unique, also those left in
free slots, and below `nextpid`). `ZombieStaysHolds` is an action property from the
same invariant.

**`LogProofs`.** `LogInvariant`: `Spec => []LogIInv`, with

* `CommitInv`: `outstanding` is the number of processes between `begin_op` and
  `end_op`, and at most one process commits, with none of them inside;
* `RoomInv`: the blocks logged, plus one pair (process, i) for each block a call
  in progress may still log (`Reserved`), fit in the log. A set of pairs makes
  the sum of the remaining reservations a cardinality;
* `CacheInv`: a block not in the log is in memory as it is at home;
* `PhaseInv`: how far the commit or the recovery has got: the first `tail - 1`
  blocks are in the log, or at home.

`NoPanicHolds`, `IdleMeansDurableHolds` and `WaiterHasReasonHolds` follow. `CrashSafe`
(`Spec => DiskSpec`) is the refinement: `DiskStep` shows that each step is a step
of `AtomicDisk` or a stutter. The lemmas `Replay`, `ReplayInstalled` and `ReplayAgain`
say what installing one block, or the header, does to `Recovered`: nothing; only
`WriteHead` changes it, from the old state to `mem`.

**`PipeProofs`.** `PipeInvariant`: `Spec => []PipeIInv`, of which `NoLostWakeupHolds`
and `FreedOnceHolds` are consequences. `NoLostWakeup` is not inductive: it must
be known why a process that has decided to sleep still has to when it does
(`MustWait`), from the test under `p->lock` through the exchange of the locks. The
argument is that whoever changes the ring or an end holds `p->lock` and wakes the
others under `ptable.lock`, and that a process between its test and its sleep has
one of the two (`SleepInv`). `FreedOnce` needs that a flag of the pipe is set as
long as somebody has the end or is on the way to clear it (`EndsInv`). The
lemmas `Advance`, `AdvanceWrite`, `AdvanceRead` are the arithmetic of counters that
wrap.

**`PipeProofs`, the stream.** `PipeImplementsStream`: `Spec => StreamSpec`, for every ring size that
divides the width of the counters. `Turns` and `SamePlace` say that reducing a
counter modulo `W` or adding whole turns does not change a place in the ring,
`Places` and `Distances` where the `i`-th unread byte lies and how far that is from
`nwrite`; from them `Appends` (what `pipewrite` stores is appended to the stream)
and `Takes` (what `piperead` copies out is its front, and the rest stays). The
strengthening is `BusyInv`: a write has bytes left exactly while it is in progress,
and so for a read; with it a writer that fails was cut short, and the write end
is not closed under a write.

**`DeviceProofs`, spin locks.** `LocksInvariant`: `LSpec => []LocksIInv`; `MutualExclusion`: two
contexts never hold one lock. `ncli` is a property of the CPU and the locks are
those of the context, so each step is a step of one CPU and the others are kept
(`OthersKept`); `Sched` and `Dispatch` move a lock between contexts (`Switched`).
`SavedRight` and `SchedulerCalm` are the strengthening: what `sched()` stored for a
thread that does not run, and that the scheduler has nothing but `ptable.lock`
while a thread runs.

**`CacheProofs`.** `CacheInvariant`: `Spec => []CacheIInv`. The count of
a buffer is the cardinality of its set of users (`RefInv`), which a process joins
before it has the lock. That `Iderw`'s buffer is not in the queue yet follows
from `LockInv`: whoever queued it would be another holder. `Ideintr` writes the
block of the request, and no other buffer has that block. `CacheImplementsStore`:
`Spec => StoreSpec`. `InBuffer` and `Uncached` say what `ContentsOf` and `OwnerOf` are for
a block with and without a buffer, `OthersKept` that a step on one buffer changes
no other block; eviction and disk traffic are stutters by `DataInv`.
`BufferIsLeft`: `Spec => []BufferLeft`, with no assumption on the number of buffers. A
buffer that cannot be recycled is pinned by the log or has a user (`NotRecyclable`), so
if there is none to recycle, the buffers are the union of the pinned ones and of what
each process at work (`Busy`) has. `FamilyBound` is the size of such a union: it
numbers the elements of each set and gives every element of the union a place, a
process and a number, so the union is no larger than the set of places. What makes it
true is `CacheIInv`: a reference or a mark that stayed behind when its process is done
would be a buffer that is neither recyclable nor in that union.

**`NamespaceProofs`.** `NamesInvariant`: `Spec => []NamesIInv`; `RecoversConsistentHolds`:
`Spec => []RecoversConsistent`; `NamesImplementTree`: `Spec => TreeSpec`. The first two
are one induction, as a crash goes back to `durable` and a commit saves the volume:
`RightLinks` of one is `RightLinks` of the other (`DurableStep`: with nobody else in a
call, nothing is pending). The proof has three layers.

* *Pointers.* `RefInv` counts pairs of a process and a role. `UsersChange` is what
  happens to the count when one process changes what it points to (`Weight`), and
  each action is one application of it. `FreedUnused`: `iput` frees an inode with one
  reference, which is its own, so nothing else points to it.
* *Volumes.* One lemma for each edit of a volume, about `RightLinks` alone:
  `CreateKeeps` (a new inode and its entry), `EnterKeeps` (a link), `RemoveKeeps`
  (unlink), `FreeKeeps`, `CountKeeps` (a link count). They count names: what an entry
  more or less does to `Named`, `Subdirs` and with them `Links`.
* *Calls.* `Shape` is what a call points to at each point. What a call found stays
  until it uses it because of a reference (`UsedStays`) or a lock (`EntryStays`,
  `LockInv`). `VolumeStep` says that every action is one of the edits, and the
  refinement is the same case split: an edit is a step of `NameTree`, everything else
  a stutter.

**`FileProofs`.** `FilesInvariant`: `FTSpec => []FilesIInv`. `fref[f]` is the number of
pairs (process, descriptor) with `f` and of pairs (process, place in its hand). `Moved`
says what a change in one place does to the number of places that have a value;
`FdStep`, `HandStep`, `OwnersStep` and `OpenersStep` apply it to descriptors, calls, what
files stand for and the inodes `open` holds. `RefsCounted` and `EndsOwned` alone are not
inductive: `pipe` and `open` fill in a file in a later step than they took it, and
that overwrites nothing only if the file is still nobody else's (`NewIsOwn`). It
follows from the counts (`Alone`): the count is one, and that one is the call.
For `fork`, `DescriptorRefs` grows by one pair for each descriptor of the parent.

`DataInvariant`: `FDSpec => []DataIInv`, for any sizes of blocks and inodes. All of
`DataIInv` but `OpFits` is inductive together (`DataCore`, one lemma per action: `OpenKeeps`,
`CopyKeeps`, ...). `OwnerMoves` is the heart of `OneOwner`: a place gets a block from the
free ones, or gives one back; `Truncated` makes `BlockAt` forget the entries `itrunc` has
passed, since it leaves the indirect block as it is. `Undisturbed` is that a process in
a call keeps what it relies on if the others leave its inode alone, which they do
because it has the lock (`HasLocked`). `OpFits` follows (`ChunkFits`): a chunk of `m`
blocks lies on `m + 1` (`ChunkBlocks`), and what it logs is among these, the bitmap and
the indirect block, `m + 3` in all, while `2 * m + 4 <= MAXOPBLOCKS` and one more is
the inode's.
`DataImplementsBytes`: `FDSpec => DataSpec`. `ContentsKnown` says what `Content` and
`Position` are for an inode at rest and for one being written (`TheWriter`: there is
one writer), and `Needed` that a byte a reader would find is on a block of the file.
`StartChunk` is the abstract write, `StartTrunc` the abstract discard, `Read` the read;
`bmap` changes nothing a reader finds (`MapBytes`: the new block was free), `Copy` puts in
place what `Content` has promised since the start of the chunk, and `EndChunk` moves
size and offset to where `Content` and `Position` already are.

**`ProcProofs`, memory.** `FramesInvariant`: `MSpec => []FramesIInv`, for any number of
processes, frames, pages and tables. `FramesOwned` counts; `OneOwner` says the same
without cardinalities, of a function from places to frames (`OwnedOnce`), and the
proof is about that: a place takes a frame (`Allocates`), gives one back (`Releases`),
`mappages` moves one from the call to its page (`MapsOwned`), and `exec`, `fork` and
`wait` exchange two spaces (`Exchanges`, `Reclaims`). Neither part of the promise is
inductive. A page is overwritten unless the loop has not been at it, so `PagesRight`
says which pages there are while a loop runs, and `LoopsRight` where it can be;
`freevm` frees all only if no page is behind a missing table (`Backed`), and a
directory a call builds is its own only if there is none outside of calls
(`SpacesRight`). For `fork` the child is nobody else's (`CallsRight`). A process at a
time: `Local` is that a call which leaves the others alone keeps their parts, and
`fork` and `wait` are treated by themselves. The lemmas at the start are the
arithmetic of pages: `SamePages` (rounding up adds no page), `ThisPage`, `NextTable`
(the jump of `deallocuvm` over a missing table skips no page).

**`DeviceProofs`.** `ClockInvariant`: `KSpec => []ClockIInv`. `Elapsed` is a difference
modulo `WORD`; `Counted` says it is the number of ticks that have passed unless
those are a whole word (`WordSteps` and `Timed` are the arithmetic). That `sleep`
returns neither early nor late needs `LockHeld`: between the comparison and
falling asleep nobody ticks. `ConsoleInvariant`: `CSpec => []ConsoleIInv`; `InOrder` needs
that a line being edited has no end in it (`Unended`) and `NeverStuck` that a full
ring is entered. `ConsoleImplementsTerminal`: `CSpec => TermSpec`; the ring is read
from `r` (`Entered`, `Filled`, `Cell`), and `SlotApart` says that two places less than
`INPUTBUF` apart are two cells.

**`UserProofs`.** What a loop or a recursive function does for every length is shown by
the least length at which it would fail (`LeastIn`, from the well-foundedness of the
naturals; `Upward` and `Downward` are that argument in the form of an induction over a
set of numbers). That a recursive function is defined at all is shown in the same
way (`WalkIs`, `Iterate`, `Recur`).

* `WishInvariant`: `WSpec => []WishIInv`, for any number of processes and any lines.
  That the shell has no children at the prompt is not inductive. What is: a process
  has at most as many children as it will still wait for at the point it has
  reached (`Raised`, `Awaits`: two before the first `wait`, one before the second and when
  a line has been split and not yet run, else none). `Born`, `Reaped` and `Orphaned` say how `fork`, `wait`
  and `exit` change who has how many.
* `HeapInvariant`: `USpec => []UmallocIInv`, for a heap of any size. `Sound` is that the
  list is one circle in the order of the addresses (`Circle`) and that its blocks and
  those of the program tile the heap (`Tiling`); `Touching` is what `free` must leave
  empty. `WalkIs` and `Met` are about the search: following `ptr` from anywhere on the
  circle meets every block within as many steps as there are blocks (`ClosedIsAll`: a
  set of blocks that is closed under `ptr` is all of them), so a search that comes back
  to where it began has missed nothing. Each edit of the list then has a lemma: `Linked`,
  `Dropped`, `Merged`, `GivenWhole`, `GivenPart`, `Grown`. `InsertIs` says that `free` is
  at most three of them, and `MergeTouches` that no pair of neighbours is left.
* `ZipInvariant`: `ZSpec => []ZipRight`, for all documents and any `RADIX`. `RunsAre`: what
  the loop has pushed after `k` letters, with the run it is in, expands to the first
  `k` letters with their spaces replaced, and its letters alternate. `FlattenConcat` and
  `UnzipConcat` put lines together.
* `GrepInvariant`: `GSpec => []GrepRight`, for all patterns, files and sizes of the buffer.
  The loop: what has been written and kept is what it would be if all that was read
  so far had come in one piece (`GInductive`), by `PieceByPiece`, since after the end
  of a line nothing depends on what came before (`LineAfter`). It also shows that
  the buffer always has room for a letter, so `read` is never asked for nothing. The
  matcher: `HereIs` says that `Here` has just the places where a part of the text
  begins that the rest of the pattern describes. That is so at the end of the pattern
  (`FindsEnd`), at a letter (`FindsLetter`) and at a star (`FindsStar`), where a text that
  is a sequence of such letters followed by something else is cut in two (`Cut`).

## 7. Disagreements found

Each is a run that TLC ends with a counterexample, and a finding in `PROJECT.json`.

* `pipe_killed`: `killed` is tested under `p->lock` and set under `ptable.lock`; a
  kill in between leaves the process asleep in the pipe (`pipe.c` 107-111, 86-91).
* `names_deadlock`: `create` and `unlink` put the directory, which takes its lock
  again (`fs.c` 334), while they have the file locked; somebody who got the
  directory in between and wants the file closes the cycle (`sysfile.c` 288, 233).
  `link(f, ".")` does it to itself: `dirlink` puts what it found under the name `.`,
  the locked directory (`sysfile.c` 154, `fs.c` 560).
* `names_leak`: `iput` looks at `ref` and counts it down in two critical sections;
  two processes that put an unlinked file at once both see the other, and nobody
  frees it (`fs.c` 336-352).
* `wish_stale`: a line that ends in `&` runs the command before it once more, from
  what its buffer held (`wishUtils.c` 163).

Seen while modelling, and part of the models, without a run of their own:

* `kill` matches the pids of free slots too: `kill(0)`, or `kill` of a pid that a
  failed `fork` left, marks a slot that `allocproc` hands out without clearing the
  mark; the next process there dies (`proc.c` 486).
* `bget`, said to return a locked buffer in either case (`bio.c` 59-60), panics when
  every buffer is in use, and a process has one in use as long as it waits for the
  disk (`bio.c` 92). `param.h` allows 64 processes and 30 buffers, and nothing limits
  how many read at once: with 30 that wait, each for a block of its own, the next
  `bread` of another block stops the kernel. `BufferLeft` says when there is a buffer.
* A killed writer that leaves a full ring returns without the wakeup (`pipe.c`
  86-88): a reader goes on sleeping in front of `PIPESIZE` bytes. `NoLostWakeup` is
  stated with this exception and holds.
* `growproc` takes size 0 for a failure: the pages are gone and `sz` is as before
  (`proc.c` 169); `SizesRight` has this as its one exception.
* A file created in a directory that was removed while it was a current
  directory gives that directory links and entries again (`stray`).
* `grep` gives a piece up that fills its buffer without a newline; a last line
  without newline is not looked at.
* `wish`: a `fork` that fails drops the rest of the line.
* `wzip` counts a space as one more of the letter before it, and panics on
  runs of ten and on empty lines.

## 8. Only checked, not modelled

Only model-checked, on the instances above: all liveness, and with it fairness and
`ENABLED`, which are out of the prover's reach. Every invariant, every property of
single steps and every refinement that a passing run checks is proved.

`BufferLeft` is about the processes that use the cache at the moment, not about all there
are. With `NBUF` 30 and two buffers for each process it covers 14 of them while the
log has nothing pinned, and fewer while a transaction is open: then a buffer is
left, after any history. Beyond that the kernel relies on processes not meeting in
`bget` (section 7).

Not modelled, and why:

* *hardware and formats*: boot code, port I/O, page permissions, the trap frame,
  the ELF header and the argument vector of `exec`, the screen, key tables. Their
  correctness is about formats and devices, not about states.
* *errors nothing reports*: disk errors (`ideintr` treats a failed read as done), an
  inode cache or directory that is full (panics).
* *argument checks* (`argptr`, `argstr`): pure functions of a size and a pointer.
* *the memory model of the processors*: spin locks are assumed to order accesses
  (`__sync_synchronize`); the writes `fork` makes without the lock are single words.
* *sequential programs without a state of their own*: `sh.c`, the small utilities,
  `mkfs`, `wcat`, `wgrep`, the counter of `getreadcount` (one atomic increment), and
  the tests. With the second copy of the kernel in `src/Project2/sysCall/src`, these
  are most of the repository's lines; the map leaves them out rather than claim
  them.

What could still be done: a composition of `BufferCache` under `Log` in one run.
