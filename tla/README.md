# xv6 with a priority scheduler: a TLA+ verification

This directory holds TLA+ models of the kernel under `src/kernel`, of the shell `src/user/sh.c` and of
`src/mkfs`. The kernel is an xv6 for RISC-V whose
round-robin scheduler was replaced by static priorities with aging. The models are checked by TLC
on small instances, and part of what they say is proved by TLAPS for every instance.

## The system

xv6 is a monolithic kernel for several CPUs. Its parts, the state each owns and who touches it:

| part | state | operations | interacts with |
|---|---|---|---|
| process table, `proc.c` | `proc[NPROC]`: state, chan, killed, pid, priority, wait_ticks, parent; `c->proc` | allocproc, freeproc, kfork, kexit, kwait, kkill, setkilled, sleep_prepare, sleep, wakeup | everything that sleeps |
| scheduler, `proc.c` | per CPU: best_priority, next_index | scheduler, apply_aging, sched, yield, ksetpriority, kgetpriority | timer interrupts, the process table |
| traps, `trap.c`, `plic.c` | ticks; sstatus, sepc, stvec of each hart | usertrap, kerneltrap, clockintr, devintr | the scheduler (yield), drivers, killed processes |
| spinlocks and sleep locks | locked, noff, intena | acquire, release, push_off, pop_off, acquiresleep, releasesleep | all |
| log, `log.c` | lh, outstanding, committing, ncommit; the log area on disk | begin_op, log_write, end_op, commit, recovery, sys_sync | buffer cache, every file system call |
| buffer cache, `bio.c` | buf: refcnt, valid, data; LRU list | bread, bwrite, brelse, bpin, bunpin | log, disk driver |
| disk driver, `virtio_disk.c` | descriptors, rings, b->disk | virtio_disk_rw, virtio_disk_intr | buffer cache, interrupts |
| inodes and directories, `fs.c` | itable refs, nlink, bitmap | iget, ilock, iput, ialloc, ireclaim, bmap, itrunc, dirlink | log, file calls |
| files, `file.c`, `sysfile.c` | ftable refs, descriptor tables | open, dup, close, link, unlink, pipe | inodes, pipes, fork, exit |
| pipes, `pipe.c` | nread, nwrite, readopen, writeopen | pipewrite, piperead, pipeclose | files, sleep/wakeup |
| console and uart | line buffer and its indices; tx_lock | consoleread, consoleintr, uartwrite, uartintr | interrupts, sleep/wakeup |
| shell, `user/sh.c` | descriptors, children | parsecmd, runcmd | files, pipes, fork, wait |
| memory, `kalloc.c`, `vm.c`, `exec.c` | free list, page tables, sz | kalloc, kfree, uvmalloc, uvmcopy, vmfault, growproc, kexec | fork, exit, traps |

What is hard about it, and what the properties therefore aim at: scans over the process table that
lock one slot at a time, so that what they computed is stale when they use it; sleeps that must not
miss a wakeup; a process that is a ZOMBIE and still on its stack; spinlocks and preemption;
priorities, aging and starvation; counters at their limits; power failing between two disk writes;
calls that fail half-way; interrupts at any instruction, and threads that change harts.
`PROJECT.json` lists the main ones, at the line where each bites.

## Modules

| module | models |
|---|---|
| `ProcTable` | what the process table promises: the arcs between process states, and one CPU per RUNNING process. Abstract. |
| `Scheduler` | `scheduler()` on each CPU, and what running processes and interrupts do to the fields it reads. Implements `ProcTable`. |
| `SchedulerRound` | `Scheduler` with a history variable: the worst priority each process had while it stayed RUNNABLE in a CPU's round. |
| `SchedulerTurns` | `Scheduler` with a history variable: who has been dispatched beside a waiting process. |
| `SchedulerProofs`, `SchedulerTheorems` | the theorems about `Scheduler` and `SchedulerRound`; those that count. |
| `Proc` | fork, exit, wait and kill with `wait_lock` and the sleep/wakeup protocol. Implements `ProcTable`. |
| `ProcProofs` | the theorems about it. |
| `AtomicDisk` | what the log promises: transactions that a crash keeps or loses as a whole, and sync. Abstract. |
| `Log` | `log.c`: operations, commit, crash at any step, recovery, `sys_sync()`. |
| `LogSync` | `Log` with history variables for what sync() is owed. Implements `AtomicDisk`. |
| `LogProofs`, `LogSyncProofs`, `LogTheorems` | each step of `Log` preserves `LogInv`; each step of `LogSync` is one of `AtomicDisk` or none; the counting arguments and the theorems. |
| `BlockStore` | what the buffer cache promises: one owner of a block at a time, who sees its latest contents. Abstract. |
| `VirtioDisk` | `virtio_disk.c` and the device: descriptors, rings, requests that finish in any order, interrupts. |
| `BufferCache` | `bio.c` and `sleeplock.c` over `VirtioDisk`. Implements `BlockStore`. |
| `BufferCacheProofs`, `BufferCacheTheorems` | each step of `BufferCache` preserves the invariant, and is a step of `BlockStore` or none; facts about finite sets, and the theorems. |
| `Inodes` | the lower half of `fs.c` as operators on the contents of a disk: blocks, inodes, their contents, directories, path elements. |
| `Mkfs` | the disk that `mkfs.c` builds, with the operators of `Inodes`. |
| `FileSys` | the file system calls of `sysfile.c` and `file.c`, path lookup and the inode table of `fs.c`, with crashes and `ireclaim()`. |
| `Files` | the file table, descriptors and pipes. |
| `ShellParser` | the parser of `sh.c`, and a grammar. |
| `Shell` | `main()` and `runcmd()` of `sh.c` over `Files`, with fork, exit and wait. |
| `AddressSpaces` | what memory management promises: an address space of its own for each process. Abstract. |
| `PageTables` | `kalloc.c` and the user part of `vm.c` as operators on memory and page tables. |
| `Memory` | fork, exec, sbrk, faults, copying, exit and wait with respect to memory. Implements `AddressSpaces`. |
| `Harts` | interrupts, traps, spinlocks, sleep/wakeup and the switch between threads, register by register. |
| `Terminal` | what the console promises of its input. Abstract. |
| `Console` | console, uart, interrupt controller and clock over `Harts`. Implements `Terminal`. |
| `MC*` | instances for TLC. |

A definition whose name ends in an underscore and a capitalised word (`candidate_FromZero`) is a
deliberately wrong variant of the definition after it. No specification uses one: they show that a
property would notice that mistake in the code.

### Scheduler

A section of code under one `p->lock` is one action. An iteration of either scan of `scheduler()`
is such a section, so the scans of two CPUs, and the system calls of processes, interleave between
iterations. `pc[c]` says where CPU `c` is: `top` (the only place of the loop where interrupts are
on), `scan`, `select`, `wfi`, or `running` between the two sides of `swtch()`. `found` is
`best_priority # NoPriority`, because the code sets the two together.

- `start_round`, `scan`, `dispatch`, `skip`, `wfi_returns`: the loop.
- `yield`, `sleep`, `kexit`: the state a process leaves its CPU in. `sched` holds what they share,
  with the rest of scheduler()'s iteration (`c->proc = 0`, `next_index`).
- `kfork_alloc`, `kfork_ready`: the two critical sections of `kfork()` on the child. The first spans
  the read of the parent's priority under the parent's lock; nobody can see the child before it ends,
  so it happens at that read. `allocproc()` locks one slot at a time, so the slot it takes need not be
  the first that is UNUSED at that moment: any UNUSED slot may be taken.
- `wakeup`, `freeproc`, `ksetpriority`: changes to other slots, from a process or a handler.

A failed `kfork()` leaves an UNUSED slot as it found it, and a failed `ksetpriority()` changes nothing.

### Proc

Every process has its own `pc`, and any RUNNABLE process may be dispatched on any idle CPU.
`wait_lock` is explicit, because `kexit()` holds it over several steps. `acquire()` turns
interrupts off before it spins, so the places where a process spins are program points of their own and
a process cannot be preempted there. The section of `kwait()` from acquire to release is one step:
all it reads (parents, ZOMBIE) changes under `wait_lock`, except that a child in `exit_sched` has its own
lock still taken, which `Found` waits for. `exit_sched` is the time between `release(&wait_lock)` in
`kexit()` and the release of `p->lock` by the scheduler. The program of init is that of `user/init.c`:
fork a shell, wait until that shell is reaped, again; if a call fails it exits, which is the panic
"init exiting". Other processes make any call at any time. Files and memory are left out; that a page
may be missing is `kfork_nomem`.

### Log

The disk is three variables: `home` (the blocks of the file system), `logdata` and `header`. `cache` is what
`bread()` returns, `pinned` the buffers that `bpin()` keeps. A section under `log.lock` is one action, and
each block written to the disk is one: `bwrite()` waits for the disk, and a block is written
entirely or not at all. The changes to a block and its `log_write()` are one step, since the buffer is
locked over both. So the loops of `write_log()` and `install_trans()` are an action per iteration, with `tail`
as their index (only one process commits, so there is one).

- `begin_op`, `begin_wait`, `begin_admit`; `log_write`; `end_op`, `commit`, `write_log`, `write_head`,
  `install_trans`, `clear`, `finish`; `sys_sync`, `sync_again`, `sync_return`: the code of a process.
- `sleep`, `kkill`: the two ways out of a sleep on `&log`; the callers look at their condition again.
- `recycle`: `bget()` may take any buffer that is not pinned and not in use, so its next `bread()`
  is from the disk.
- `crash` (external) loses all but the disk and may come at any moment, also in recovery or after a
  panic; then `read_head`, `recover_install`, `recover_clear`.

`log.ncommit` only grows, and is only compared in `sys_sync()` with the value to wait for. `behind` is the set of
processes for which the comparison holds; `finish` empties it, because each waits for one more commit.
`Calls` says which blocks a system call may write, and with what; an operation writes any of those of one call, in any order and
as often as it likes, and `OpBlocks` bounds how many different ones.

### VirtioDisk and BufferCache

A section under `vdisk_lock`, `bcache.lock` or the spinlock of a sleep lock is one step. Only the loop of
`virtio_disk_intr()` is several (`intr_entry`, `virtio_done`, `intr_return`), because the device adds to the used ring
beside it; the lock is then held, and others wait. The rings are queues: their indices only grow, and that `NUM`
entries are enough is part of `DriverInv`. The device (`device_takes`, `device_finishes`, external) serves requests in
any order. A process in the cache is at one of a few places (`bget`, waiting for the lock, in the driver, holding the
block) and does what `log.c` and `fs.c` do: `log_write` pins, `bwrite` writes and then unpins.

`write_log()` and `install_trans()` hold a block of the log while they wait in `bread()` for its home, `bmap()` and `itrunc()` an indirect block
while `balloc()` or `bfree()` waits for one of the bitmap. So a process may be two elements of `Procs`, one for each buffer: `outer[q]` holds the first, `q` asks
for the second (`mayAsk`), and only one of them is inside a call at a time (`runs`). They may release their buffers in either order. `Nested` has the pairs of
blocks that some caller asks for in this order. The code states no order; `OrderAssumption` has the one that its callers keep, from the log over indirect
blocks to all others. `mayAsk_AnyOrder` shows what happens without one: two processes wait for each other's buffers. An inode's sleep lock
is also held over calls of the cache, but the cache takes no inode locks.

### Inodes, Mkfs and FileSys

`Inodes` has the data structures on disk. A block has `BSIZE` units; a unit is a byte, a directory entry, or a block number in an
indirect block. Each operator follows the function of its name, with the order in which it allocates, since that
decides what a full disk leaves behind. `writei` goes block by block: a source that faults leaves the block changed and
the size as it was.

In `FileSys` a process has a list of tasks. A system call is a few: look up a path (`namex_elem` once for each element,
since each locks another inode), and what follows under the locks. All that happens under one `ilock()`
is one step, and tasks may wait for a lock. `iput` is three steps, as its locks allow. Two
`dirlink()` calls under the same lock may allocate two blocks in one step; other processes allocating between them
would find the bitmap the same but for the order.
`fs` is what the kernel sees and `disk` what would survive: the log is taken to be the `AtomicDisk` it implements,
so `disk` becomes `fs` when the last operation inside ends (`end_op`). Waiting for room in the log is left to the run
`log`. `crash` goes back to `disk`, and the first process runs `ireclaim()`. The fields of an inode in memory equal those on
disk whenever its lock is free, so there is one copy of them.

### Files, ShellParser and Shell

A section under `ftable.lock` or a pipe's lock is one step. In `pipewrite()` and `piperead()` this is all bytes that can be
moved without sleeping. `ff` is the copy of a file that `fileclose()` makes before it gives the slot away,
`fresh` the files a process has in the middle of `pipe()`. That call is several steps: two files (`pipe_file`), a page (`pipe_page`), two descriptors
(`sys_pipe`) and their copy to the user, each of which may fail when the ones before it are done; other processes allocate, and close, in between.
After a failure the files are closed one after the other (`sys_pipe_bad`), as their `pipeclose()` is a section of its own.

`ShellParser` is the recursive descent of `sh.c` on a line of tokens. The
reference it is compared with splits a line at the operator that binds least. It is recursive, so
nothing is proved about it; TLC compares the two on every line of up to five tokens, with `MAXARGS` 3, so that a command may have too
many words.

In `Shell` a process is the list of system calls it will still make; `runcmd` gives that list for a command. Calls that
fail do what the program does then. A program that reads or writes does so until the end of input or until it
stops of itself; redirections run from the last to the first, as the parser nests them.

### PageTables and Memory

Physical memory is a set of free pages and what each page holds. A user page table has nodes and leaves; a level has `ENTRIES`
entries and there are `LEVELS` levels. `fuel` is the number of calls of `kalloc()` that still succeed in a system
call, which is any number, as other CPUs allocate too. A page table is only touched by its process, or by its parent
before it runs and after it has ended, so a system call is one step. `wait()` copies the status of a child to its caller first, and
leaves the child if that fails. The segments of a program are given (with
segments that cannot be read, or only in part); a page holds one value.

### Harts, Terminal and Console

A thread is a process in the kernel or the scheduler of a hart, and has the steps it will take next; a process
without any is in user mode. An interrupt puts the steps of its handler in front of those of the thread it finds. Each
hart has `sie`, `spie`, `spp`, `sepc`, `stvec`, `noff` and `intena`. What a hart does to its own registers with interrupts
off is one step with what follows, because nothing can come between; what is done with `p->lock` held is one step
too, except that `sched()` leaves the lock to the scheduler. Values that can no longer be read (`sepc` after `sret`, `intena` with `noff`
0) are forgotten. `panic` records any panic of `spinlock.c`, `sched()` and `trap.c`, and an `sret` to a place
where the thread is not. The timer may interrupt at any time, since its interval is far longer than a step.

`Console` has the uart as an external device: characters on their way out, the transmit interrupt, a character
received. Reading `ISR` acknowledges the transmit interrupt only if no input is waiting, as the 16550 orders them. The
interrupt controller interrupts every hart and gives the interrupt to one.

## Runs

| run | instance | shows |
|---|---|---|
| `sched_1cpu` | 1 CPU, 3 slots, priorities 0..2, interval 2 | the best RUNNABLE process is dispatched (`BestIsDispatched`); waiting is bounded, at `PRIORITY_MIN` too (`BoundedWaiting`) |
| `sched_2cpu` | 2 CPUs, 2 slots, priorities 0..2, interval 2 | the inductive invariant `IInv`; refinement of `ProcTable`; what is left of "the best is dispatched" when scans are stale; no starvation |
| `sched_turns` | 1 CPU, 3 slots, priorities 0..1 | violation: round-robin among equals is not kept |
| `proc_life` | 2 CPUs, 3 processes | no missed exit, no orphan, no stack reused, refinement of `ProcTable` |
| `proc_live` | 1 CPU, 3 processes | wait() returns, orphans are reaped, the killed exit |
| `proc_kill_zero` | 1 CPU, 3 processes | violation: a process is born killed |
| `log` | 2 processes, 4 blocks, 2 values, a log of 4 for operations of 2 | disk, log and cache agree at every stage; refinement of `AtomicDisk`; reservations are kept; nobody sleeps on `&log` for ever |
| `disk` | 2 processes with up to 2 buffers each, 3 blocks, 2 buffers, 4 descriptors | one buffer per block, no descriptor, reference, wakeup or interrupt lost; refinement of `BlockStore`; calls return |
| `shell` | 5 processes, 6 files, 2 pipes of 2 bytes, 8 command lines, a kill | files and pipes are counted and freed; nobody sleeps over data; redirections go where they should; every command ends; the parser agrees with the grammar |
| `memory` | 2 processes, 17 pages of 2 bytes, tables of 2 levels | each page has one use, whatever fails; refinement of `AddressSpaces` |
| `fs` | 2 processes, 4 inodes, 8 blocks of 2 units, 3 disks, 3 calls, 2 crashes | a crash always leaves a whole file system; references are counted; orphans are freed; calls return |
| `console` | 1 and 2 harts, 2 processes, an input buffer of 2 | interrupts are off while a lock is held and as they were otherwise; nobody sleeps or spins for ever; refinement of `Terminal` |

Bounds. Three slots are init, a process and its child, or a running process and two that compete. Two CPUs
make every race of two scans; three priorities and an interval of two let a process be boosted
twice and wait in between. The counters of the scheduler are bounded by the system itself (`BoundedWaiting`). In the
log, a call writes two blocks with either value and two calls write another block each, so that what the three write is the whole log: operations overlap,
one has to wait for space once others have logged, a count that is too low overflows the log, and a
crash comes in the middle of each loop. Two buffers for three blocks make every miss recycle, and one pair of blocks is nested; four
descriptors serve one request, so the second waits with none or one (that requests in the device at once are kept apart is proved, for any number). In `shell`, `UINT` is 4 and pipes have 2
bytes, so that counters wrap; one line is a pipeline of two pipelines, so that two processes are in `pipe()` at once and files, pages and descriptors run out at each
of its steps, but for a first descriptor; the shell starts with two or
four descriptors open, so that it both opens its console and finds it open; a kill comes during a read or a
write. In `memory`, tables of three entries make trees share and not share nodes, and 17 pages are enough for two
processes at their largest, as running out is a matter of `fuel`; states that differ in which page is used for what are
identified (`Shape`). In `fs`, `MaxCalls` bounds the calls started and
`MaxCrashes` the crashes; one direct block and an indirect one of two are both reached and exceeded; the three disks have room, one
block left, and no inode left; the menu of calls has a directory made, removed, entered and linked into by two processes.
In `console`, indices and ticks wrap at 4; a `User` says who calls what, which keys are typed, which timers run and who may be
killed, on which harts, and the run is over a set of these: readers with lines and ^D, with editing and a kill;
two writers for `tx_lock`; two that pause; a pause on two harts with timers, where threads move; a writer with echo on two harts.

Fairness. In `Scheduler`, each CPU executes `scheduler()`, and its timer ends `wfi` and makes a running
process yield (`clockintr()` asks for the next interrupt on every CPU): weak fairness of these two. No
system call is fair. In `Proc`, strong fairness of the timer (an interrupt stays pending while
interrupts are off), of being dispatched (which `NoStarvation` justifies) and of a process's next step
in the kernel. The last also covers getting `wait_lock`: the test-and-set of `acquire()` promises no
order, and what is assumed is that no CPU loses the race for ever. In `Log`, weak fairness of what a process does
inside the log's functions and of ending an operation, and of recovery; nobody has to call, and power need not
fail. Even so a process may wait for space for ever while others keep taking it, and sync() while operations
overlap, so `BeginReturns` and `SyncReturns` are conditional on others no longer beginning. In `BufferCache`, weak fairness of
the device, of interrupts and of each process that is not asleep, with all its buffers: the outer ones wait until the nested one is back. `DiskCallsReturn` is conditional on calls coming to
an end, since a lock can be taken by others again and again. In `Shell` and `FileSys`, weak fairness of each process's
next step. In `FileSys` it is written out with `ready(p)`, which says when a task can go on; the calls are bounded, so a lock
cannot be taken by others for ever. `Harts` and `Console` state safety only: `NoneStuck` says of each sleeper that what
will wake it is still to come.

What the runs found:

- `sched_turns`: `next_index` is one index for all priorities. A dispatch at another priority moves it,
  so a process can get a second turn while one of equal priority has been waiting since before its
  first. The comment in `scheduler()` promises round-robin order among equals; `report/body/chap2.tex` speaks of a basic fairness
only. Aging still bounds the wait.
- `proc_kill_zero`: `kkill(0)` finds an UNUSED slot, whose pid is 0, marks it killed and reports success.
  `allocproc()` does not clear the mark.
- `OrphansReaped` needs its condition that forks come to an end: `kwait()` takes the ZOMBIE in the lowest
  slot, and a shell that keeps exiting in a lower slot is preferred to an orphan in a higher one.
- `NoPanic` needs `OpBlocks < MAXOPBLOCKS`: `log_write()` tests for a full log before it looks for the block in it, so
  operations that each write as many blocks as `MAXOPBLOCKS` says they may would panic when one writes a block again. In the run `log`
only one call writes as many.
- `NoLostPipeWakeup` has an exception: `pipewrite()` returns without `wakeup(&pi->nread)` when it is killed in the
  middle of its call. A reader then sleeps over what was written until the killed writer's end is closed.
- `PanicsOnlyIfAllInUse`: `NBUF` is `LOGBLOCKS` in `param.h`, so the log alone may pin every buffer.
- `mkfs.c` rounds the size of the root directory up by a whole block when its last block is full already. The size then
  covers a block that is not there. The image of the Makefile has 26 entries, and blocks have 64; the disks of `fs` have an
  odd number of entries in blocks of two.
- `InterruptInv` needs `Cardinality(Harts) <= Fifo`: `uartwrite()` and the echo each look at `LSR` and then write, so as many
  characters as there are harts can go to the uart at once; its FIFO has 16.

## Proofs

`SchedulerProofs` proves, for any number of slots, CPUs and priorities and any aging interval, that `IInv`
is inductive. `OneCpuPerProc` is not inductive alone: that `dispatch` happens on a CPU without a process
is `PcInv`; that a process made RUNNABLE by `kfork_ready` was on no CPU is `ForkInv`; and `ForkInv` in turn
needs `OneCpuPerProc`. `WaitTicksInv` rests on dispatch, fork and free clearing the counter. From `IInv`
follow type correctness, `OneCpuPerProc`, `WaitTicksInv` and, step by step, the refinement of `ProcTable`.

It also proves that the second scan, however stale `best_priority` is, never prefers a
process to one that was better and RUNNABLE for the whole round, and that a CPU idles only if no process was
RUNNABLE for the whole round. The invariant relates the history variable to `best_priority`: each
slot the first scan has passed is taken into account (`ScannedInv`). With one CPU, whatever changes a
state or a priority runs outside the two scans, and `BestInv` says more: `best_priority` is at least as good as the
priority of every RUNNABLE process the first scan has passed. So the process dispatched is a best one (`BestFirst`).

`SchedulerTheorems` proves `BoundedWaiting`. A process at `PRIORITY_MIN` gets no further boost, and every round that
sees it RUNNABLE adds one to its `wait_ticks`. `left` is the number of rounds of a CPU that can still count it before
the CPU takes it, given by the distance from `next_index`; each round that passes it by takes one off. `gone` has the rounds that are used up, out of `NPROC` for
each CPU, and `WaitInv` says that `wait_ticks` is at most its size.

`ProcProofs` proves, for any number of slots and CPUs, the safety of fork, exit, wait and kill. `NoMissedZombie`
is about a child that is a ZOMBIE already; its step `exit_zombie` preserves it only because the parent was woken a
step before and could not go back to sleep in between, as `kwait()` needs `wait_lock`. So `WakeInv` says it
from the `wakeup()` on, `LockInv` says who holds `wait_lock` and that the holder keeps its CPU, and `ParentInv` that
the parent is alive and is not past its own `reparent()`. That `freeproc()` takes no stack in use (`FreeSlotOffCpu`)
rests on `CpuInv`, which counts a process in `exit_sched` as on its CPU although its state is ZOMBIE. `ForkInv` gives
every `kfork()` a USED slot that no other process has, and `InitprocInv` gives `reparent()` a parent that does not
exit. The refinement of `ProcTable` maps a process in `exit_sched` to RUNNING, and goes action by action.

`LogTheorems` proves that `LogInv` is an invariant, from the steps in `LogProofs`. What it says is needed for each other: `outstanding` counts the
processes inside, so the one that sets `committing` is alone (`CommitInv`); being alone, it finds lh, cache and disk
as its last step left them (`StageInv`); no block is in lh twice, so installing one block undoes no other;
and what is not pinned equals the disk, so `recycle` and `recover_clear` change nothing. Recovery has the same stages
(`RecoverInv`), each of which a crash may repeat. `SpaceIsReserved` bounds the reservations (pairs of an
operation and a number above what it has written) by `(outstanding + 1) * MAXOPBLOCKS` on entry, and
`log_write` takes one out for each block it appends. `LogNeverPanics` follows if `OpBlocks < MAXOPBLOCKS`.

It also proves the refinement of `AtomicDisk`, from the steps in `LogSyncProofs`. The committed disk is what recovery would make of the disk
(`recovered`); the current one is the cache. Only `write_head`, or `commit` with an empty log, changes what would be
recovered, and makes it equal to the cache. `SyncInv` relates what sync() is owed to `behind`.

`BufferCacheTheorems` proves the four safety invariants of `BufferCache` and its refinement of `BlockStore`, for any
number of processes, buffers, blocks and descriptors. All come from one invariant `IInv`, in which cache and driver need each other.
`DriverInv` says what chains and rings look like, but not why a request that leaves the device is the one its caller waits for: `RequestInv` says
that it is, and that its status is 0xff just until the device has done it; `OwnInv`
that the caller has the buffer's lock all the while, so that no two requests are about one buffer; `CountInv` and `RingInv` count
descriptors and entries. `ValidInv` says that who reads found the buffer not valid and who writes
found it valid. `CleanInv` says that a valid buffer which is neither pinned nor being written equals the disk; with `RefInv`, which gives
every pinned buffer a reference, that is why recycling loses nothing. `LruInv` makes the list a permutation of the buffers,
so that a buffer nobody uses is always found. For the refinement, `Mapped` says what the two choices in the mapping
choose: there is never more than one candidate. `device_finishes` is the step to look at: a write changes
the platter below a valid buffer, a read a buffer that is not valid, and neither is seen by the store.
The lemmas of `BufferCacheProofs` have the hypothesis `SetFacts` (sizes of finite sets, least and greatest numbers of a set), which
`BufferCacheTheorems` proves from the library: with the library's modules in scope every step takes the prover twice as long.

The assumptions are those on the constants: at least one slot and one CPU, integer priorities with the
default among them, and an interval of at least one; for the log, sizes that are natural numbers, finitely many
processes and blocks, and `OpBlocks <= MAXOPBLOCKS`; for the buffer cache, finitely many processes, more than three
descriptors, and that no block has the number of a buffer never used (`blockno` and `dev` are zero then, and no device is 0). No proof uses
`OrderAssumption`: safety holds whatever the order, and liveness is left to TLC.

Only model-checked: liveness (out of the prover's reach; that of `Proc` too), and what is said of `FileSys`, `Files`, `Shell`, `Memory` and `Console`. `ShellParser` is recursive, and the models of the file system
and of memory fold over sequences.

## Not modelled

- Boot, the kernel's page table, the handshake with the disk: they run once, before anything is concurrent. Their result
  is `Init`.
- In the shell, reading a line, cutting it into tokens and putting a NUL behind each word.
- Saving and restoring general registers in assembly code, argument decoding, formatting and printing, `^P`: straight-line code.
- Memory ordering: `acquire()` and `release()` are taken to order memory, as their barriers say.
- The panic of `iget()` for want of a slot in the inode table, and major numbers without a device.
- What fork and exit do to the inode of the current directory: `idup()` and `iput()` as any other reference.
- Files in `Shell` other than pipes are there as descriptors only; their contents are the subject of `FileSys`.
- `umalloc.c` and the other user programs. To the models of the kernel, a program is any sequence of
  system calls of the menu.
