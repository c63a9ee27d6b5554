# A TLA+ verification of the cs326 kernel

The repository holds the projects of an operating systems course. `project4` is a
teaching kernel (xv6 for x86) with the course's additions: shared memory, semaphores,
mutex locks, condition variables and a user-level pipe. `project3` is the same kernel
before those additions, most of it byte for byte; `project1` and `project2` are host
programs (a sort, a shell, an `ls`). What is modelled is the kernel of `project4`, its
library and the programs that run on it, with the sort and the shell.

`PROJECT.json` lists components, runs, mutants, the map from definitions to source
lines, findings, hazards and theorems. This file explains them.

## 1. Inventory

| Component | State | Operations | Interacts with | Hard because |
|---|---|---|---|---|
| Spin locks (`spinlock.c`) | `locked`, `cpu` of a lock; `ncli`, `intena` of a CPU; FL_IF | `acquire`, `release`, `holding`, `pushcli`, `popcli` | everything | several CPUs, and a handler on top of the code it interrupted |
| Process table (`proc.c`, `trap.c`) | `ptable`, `proc` of each CPU | `fork`, `exit`, `wait`, `kill`, `yield`, `sched`, `scheduler`, `forkret` | locks, log and files (in `exit`), page allocator | the lock is handed over by context switches; slots are reused |
| Sleep and wakeup (`proc.c`) | `state`, `chan`, `killed` | `sleep`, `wakeup`, `kill` | every blocking call | two locks; wakeups can be lost |
| Log (`log.c`) | on-disk header, log and home blocks; `outstanding`, `committing` | `begin_op`, `log_write`, `end_op`, `commit`, recovery | file system calls, `exit` | crashes between writes, group commit, space reservation |
| Buffer cache (`bio.c`), disk (`ide.c`) | buffers with B_BUSY, B_DIRTY, B_VALID in order of use; `idequeue` | `bread`, `bwrite`, `brelse`, `iderw`, `ideintr` | log, file system | recycling, an interrupt, two kinds of sleep on one channel |
| Files (`file.c`), inodes and directories (`fs.c`), calls (`sysfile.c`) | `ftable`, inode cache, link counts, free map, directories | `open`, `link`, `unlink`, `mkdir`, `mknod`, `chdir`, `read`, `write`, `pipe`, `dup`, `close`, `fstat` | log, buffer cache, `fork`, `exit` | path walks unlocked between steps, partial failure, files removed while in use |
| Pipes (`pipe.c`) | ring of bytes, `nread`, `nwrite`, open flags | `pipewrite`, `piperead`, `pipeclose` | file table, `kill` | blocking on both sides, counters that wrap |
| Semaphores, mutexes, condition variables (`sysfile.c`) | `value`, `clist`, nodes on kernel stacks | `sema_*`, `lock_*`, `cond_*` | shared memory, sleep and wakeup | lost wakeups, dangling nodes |
| Page allocator, virtual memory, `exec` (`kalloc.c`, `vm.c`, `exec.c`) | free list, page directories and tables, `sz` | `kalloc`, `kfree`, `allocuvm`, `deallocuvm`, `copyuvm`, `freevm`, `exec`, `sbrk` | `fork`, `wait` | memory runs out half-way |
| Shared memory (`sysfile.c`) | `shared_pages`, `shared_refcount`, `proc->shared`, `proc->page` | `mmap_alloc`, `mmap_attach`, `mmap_detach`, `palloc` | page allocator, `fork`, `exit` | pages in two page tables, test before lock |
| User-level pipe (`upipe.c`) | ring in shared memory | `upipe_create`, `_attach`, `_read`, `_write` | mutexes and condition variables | a client of `cond_wait` |
| Console, keyboard, serial (`console.c`, `kbd.c`, `uart.c`) | ring with three indices, `shift` | `consoleintr`, `kbdgetc`, `consoleread` | interrupts, `kill` | interrupt against readers, indices that wrap |
| Lists (`list.c`), allocator (`umalloc.c`), sort (`usfsort.c`) | linked structures | insert, splice, reverse, sort; `malloc`, `free` | | pointer surgery |
| Shell and programs (`sh.c`, `init.c`, `usertests.c`, ...), `usfsh` | | sequences of calls | all calls | what they promise rests on all of the above |
| `mkfs` | the disk image | `ialloc`, `iappend` | `fs.c` | has to agree with the kernel |
| Boot, interrupt controllers | device registers | initialisation | | hardware, not modelled |

What makes each correct, in a sentence: a lock excludes and never blocks the CPU that
holds it; a process runs on one CPU, on a live stack, and is reaped once by a live
parent; a sleep misses no wakeup; a file system call is all or nothing across a crash
and never overruns the log; a buffer shows the last contents of its block; whenever no call is
in progress the disk is a file system (every block in one use, every link counted, every
directory reachable); every count of references is exact; a page has one use; bytes leave a
pipe or the console once and in order; nobody passes a semaphore without a unit of its own; a mutex excludes; a
condition variable's nodes stay in scope and a waiter can be signalled; linked structures
stay what they stand for; and the programs get the results they rely on.

## 2. Modules

All modules share three conventions. A critical section whose intermediate states no
other actor can see is one step; wherever another CPU, an interrupt, `kill()` or a
crash can intervene, there is a step boundary. A panic is not a separate action but a
flag (`panicked`, or `panic` with the message), set by the step that would panic, so that a
property which excludes it is about every `panic()` the step passes. An operator whose comment starts with *Mutant:* is not part of
the model: it is a plausible wrong version of the definition after it, and
`PROJECT.json` names the property that notices.

### Spinlock, SyncProofs

State is that of `struct spinlock` and `struct cpu` plus FL_IF. Every CPU has two
activations, level 0 (a system call or the scheduler) and level 1 (an interrupt
handler, entered through a gate that clears FL_IF), each with its own `pc`, argument
`lk`, `pushcli`'s local `eflags` and the set `held` of locks between `acquire` and
`release`. `AcquireCall`, `PushCli`, `AcquireCheck`, `Xchg`, `AcquireReturn` are
`acquire`; `ReleaseCall`, `Unlock`, `PopCli` are `release`. The environment is a
caller that nests locks in the lock order of `Notes` and releases them in any order,
and a handler that releases what it takes.

### Proc, ProcProofs

`ptable.lock` is a variable because it changes hands in `swtch()`, and so are `ncli`, `intena` and FL_IF of each CPU,
of which `sched()` tests two and saves the third across the switch (`saved`): `Acquire` and `Release` are the lock
with its `pushcli()` and `popcli()`, `Locked` is both around a section. `panicked` stands for the four panics of
`sched()` and those of `release()` and `popcli()`. `Yield`, `WaitSleep` and
`Exit` go up to the call of `sched()`, `Sched` switches to the scheduler, `SchedulerSwitch`
to a process, and `ResumeRelease` or `ResumeWait` is where that continues (`ctx` is its saved
context). `fork()` is five steps: the slot is taken under the lock (`Allocproc`), and
stack, address space, parent and finally the state are set without it, with the two
failures (`ForkNoStack`, `ForkNoMemory`). File and directory work of `exit` and `fork` is
not here (it takes other locks). `kill()` picks the first slot with the pid in whatever
state, as the code does. The `p # initproc` in `Exit` and `Fault` is `exit()`'s
panic for init: `init.c` never exits, and `KillPids` leaves pid 1 out.

### SleepWakeup, AtomicSleep, SyncProofs

`sleep(&ticks, &tickslock)` with both locks, one step for each acquire and release, under
`sys_sleep()` and the timer interrupt. `ticks` is a uint of `Width` bits, so that it
wraps. `AtomicSleep` is the contract in the comment above `sleep()` - release and fall
asleep in one step - and the property `SleepIsAtomic` says that the code implements it.
The later modules use sleep as one step on this ground.

### Log, AtomicDisk, LogProofs

The disk (home blocks, log blocks, header), the cache over it with its dirty and busy
blocks, and the in-memory log. `LogWrite` and `LogAppend` are `log_write()` before and
under `log.lock`; `WriteLog`, `WriteHead`, `InstallTrans`, `ClearHead` are `commit()`, one
disk write each; `ReadHead`, `InstallTrans`, `ClearHead` are recovery. `Crash` may
happen anywhere, recovery included. Blocks carry a version that each write advances
modulo `NVAL`. A call writes up to `OPBLOCKS` blocks and reserves `MAXOPBLOCKS`, in any proportion, so that the
panics of `log_write()` can be reached; a panic stops the machine. `Fits` says that `log.lh` has not outgrown the log's
area of the disk. `log_write()` tests `log.lh.n` before it takes `log.lock`, so two calls can pass the test for one
place; what `commit()` would then write behind the area is not modelled. `AtomicDisk` is the contract: memory, its durable copy, and a commit
only when no call is open; `LogIsAtomic` is the refinement.

### Pipe, RingProofs

`p->lock` and one step for each byte; `nread` and `nwrite` are uints of `Width` bits; `sent`
and `rcvd` number the bytes for the properties. The test of `killed` and the sleep are
separate steps, because `kill()` does not take `p->lock`. `readref` and `writeref` are `f->ref` of the two files:
`Fork` is `filedup()` of a new process's end, `CloseRead` and `CloseWrite` are `fileclose()`, which sends the process
that finds the count at 1 on to `pipeclose()`: `ShutRead` or `ShutWrite`, `LastClose` with the test of both flags,
and `Kfree` after the lock is released. `panicked` is the panic of `filedup()` or `fileclose()`.

### Semaphore, SemaphoreProofs

`sp->lock`, `sp->value` and processes that run a `Script` of calls; `MCSync` has the
ping-pong of `sematest.c`, with a second child and a second ball so that a count of two and
a wakeup of two sleepers occur. `sema_up()` wakes
before it increments, as the code does.

### MCSync

Spinlock, SleepWakeup and Semaphore share no variables, so one run has the behaviours of all three: `part` says
which one a behaviour is about. Their definitions are extended and not instantiated, because the proofs are about the
same ones. The fairness of each counts where its part runs, and `PingPongEnds` is `Terminates` for the
semaphores.

### CondVar, CondVarProofs

One mutex and one condition variable. A `condition_node` is named by the process on whose
kernel stack it is; `waiting` says whether that frame exists, `node` is the node that a
`cond_signal()` has in hand. Clients call `cond_wait` and `cond_signal` with the mutex,
as `upipe.c` and `condex.c` do. `kill()` wakes both kinds of sleep: `lock_acquire()` sleeps again,
`cond_wait()` returns early with its node still in `clist`, and the process exits on its way to
user space with the mutex held (`pc` = "dead"). That the list is never followed into the freed
frame is the part of `NodesInScope` that is not obvious: whoever left a node behind also has the
mutex, for good.

### Fs, Kernel, UserTests, Shell, UserProgs, MCKernel

`Fs` is `fs.c` as functions from one state of the file system to the next: the free map, the
blocks (as units the size of a directory entry, or as block numbers), the inodes on disk and the
inode cache. `mkfs.c` makes the first state. Names are cut at DIRSIZ, which is why a name is a
record of text and length. `Kernel` is the calls on top, with the file table, the pipes and the
processes. A process runs a program, a sequence of instructions: a call, where its result goes, and
the results that the program accepts. A call is split wherever the code holds no inode lock:
`BeginPath` and `Walk` are the start and the steps of `namex()`; then one of `OpenFound`, `CreateNew`,
`CreateFound`/`CreateExists`, `LinkOld`/`LinkNew`/`LinkExists`/`LinkBad`, `UnlinkFound`, `ChdirFound`,
`ExecFound` goes on, so other processes run between the lookup of a path and its use, between the
two halves of `link()`, and between `dirlookup()` and `ilock()` in `create()`. `CloseFd`/`ClosePut` and
`ExitStart`/`ExitClose`/`ExitDone` are split where the reference to the file is gone and that to the inode is
not. `WriteInode` writes one transaction's chunk of `filewrite()`. `pipe()` is a step for each `filealloc()` (`PipeFile`), one for
`kalloc()` (`PipeAlloc`) and one for the two descriptors (`PipeFds`), and when one of them fails a step for each `fileclose()` of
what there was (`NoPipeLeft`); an `open()` without a descriptor has allocated its file and closes it in `NoFd`. What a transaction does on disk is
in `Log`; here `outstanding` counts the open ones.

`UserTests` has 29 programs of `usertests.c`; a check that ends in "complain and exit" is the result
that the call must have, and what a test reads is compared. `Shell` is the parser of `sh.c` on
tokens; `UserProgs` runs what it returns (`runcmd`), and has `init`, `cat`, `echo`, `ln`, `ls`, `mkdir`, `rm`,
`stressfs`, `zombie` and the shell of `project2`. `concreate` reads its directory as the test does: every name of the
family once, none missing. `MCKernel` boots `init` with one of them, or with one of two programs of its own:
`fdsFull` uses up the descriptors of a process, and `filesFull` is two processes that use up the file table and the
memory for pipes, so that `open()`, `dup()` and `pipe()` fail at each of their steps.

### Memory, MCMemory, MemoryProofs

Page directories, tables, pages, the free list and the page counts of shared memory. A call works
on its own process's tables with atomic `kalloc()` and `kfree()`, so it is one step; only `mmap_alloc()`
has its test before the lock. Every `kalloc()` may fail because memory is short. Failures that
the code does not check or does not undo (`setupkvm()`, `palloc()`, `mmap_alloc()`, `mappages()` in
`allocuvm()`) set `short`, and from there on the properties promise less: no page ever has two uses,
but pages may be lost or missing. So does an `sbrk()` that ends at size 0 (`Emptied`): `growproc()` reads the 0 of
`deallocuvm()` as its failure, returns -1 before `switchuvm()` and leaves `sz`, and the process runs on without memory. It
may then fault, make any call, and fork. `Fetch` is a call that reads the user's memory below `sz` where a page is
missing: `trap()` panics for a fault in the kernel. Programs use `palloc` and shared memory as `mtest.c` and `mmaptest.c` do, with a heap below the
pages they map; other
orders (exit without detach, exec after palloc, two `mmap_alloc()`s at once) break the ownership of
pages, which the hazards list. `MCMemory` gives a VIEW that forgets the numbers of pages: states that
differ by a renaming of pages count as one, which is sound because no action and no property
depends on which page is which except through `Got`, the choice of a free page, that stands for
any choice.

### Disk, DiskProofs

`bio.c` on `ide.c`: buffers in order of use, the request queue, and the interrupt. A step is a section
under `bcache.lock` or `idelock`. `cur` is what was last put into a block, through whichever buffer.
Sleepers for a buffer and for the disk share the buffer's address as channel; both wake, and look
again. Every process may hold two buffers, as `write_log()`, `install_trans()`, `bmap()` and `itrunc()` do,
and takes the second in a fixed order of blocks: log blocks before home blocks, an indirect block before
a bitmap block. It changes a buffer it holds and writes it through (`Bwrite`: log blocks and the
header), pins it (`Pin` is `log_write()`, also of a block that is pinned already), or writes a pinned one home
(`Install`). `panicked` names the function whose panic was met.

### Console, UPipe, Rings, RingProofs, List, Umalloc, Library

`Console`: scan codes with modifiers, releases and the E0 escape, editing, the ring, readers and
`kill()`; `line` and `lines` are what a user would say was typed. `UPipe`: one step from mutex to mutex, with the
lost signal of `cond_wait()`. `List`: every function of `list.c` on `prev` and `next`, beside the sequence
it stands for (`ref`), two lists so that splices move elements between them; removed elements keep stale links;
a failed `ASSERT` leaves a link that is no element (`PANIC`), also in `list_next()` and `list_prev()`.
`Umalloc`: headers and the circular free list over a heap with gaps. `Library`: the sequential algorithms, each
with a definition of what it has to compute: a job is an algorithm with an input, and a step runs it.

### MCComponents

Disk, Console, UPipe, List, Umalloc and Library share no state, so their behaviours are explored by one
run: `part` says which one a behaviour is about. `Rings` has the instances of `UPipe` and `Console`, what is assumed of their
sizes, and their properties. `Disk` and `Rings` are extended, so that the run checks the very definitions that
`DiskProofs` and `RingProofs` are about; in a behaviour of another part their variables stay as in the initial state, and
the variables of the parts that are instances are `<<>>`. This is a union of six state spaces, and not a composition.

## 3. Runs

| Run | What it shows | Bounds |
|---|---|---|
| `sync` | spin locks: exclusion, no panic, interrupts on again after the last lock, no CPU spins on itself, no deadlock under the lock order; sleep: no missed wakeup, refinement of AtomicSleep, every sleep returns; semaphores: no pass without a unit, no stranded process, also under kills, and termination when nobody is killed | 2 CPUs with a handler each, 2 locks: the least in which two CPUs contend with nesting and interruption. 2 sleepers, ticks of 2 bits so that they wrap, durations 0 to 2, at most `MaxLag` = 3 ticks missed. 3 processes, 2 semaphores, 4 rounds, 2 of the processes killed anywhere |
| `proc` | one CPU per process, no panic of `sched()`, `release()` or `popcli()`, live stacks, children that somebody will reap | 2 CPUs, 3 slots (init, a child and a grandchild), 3 forks so that slots are reused, kill of pids 0, 2, 3 |
| `proc_live` | init catches up with its zombies, killed processes exit | 1 CPU, 4 slots, so that init can adopt a zombie from a process that is not its own child: the one case in which `exit()` must wake init itself |
| `log` | atomicity across crashes, durability, no panic but that of a full log, callers that wait for space are woken | 2 calls, 2 blocks, 2 crashes (one in the recovery from the other); a log of 2 data blocks, a reservation of 1 and calls that write up to 2, so that callers wait, and the log gets full |
| `pipe` | order, the page freed once and unused, everybody finishes | 2 writers of 3 bytes, of which one is forked on the way, 1 reader of 2, a pipe of 2 bytes, counters of 2 bits |
| `cond_var` | mutex, nodes in scope, the mutex is passed on, with kills | 3 processes, 2 of them killed anywhere, no bound on calls |
| `kernel` | the programs get their results; the disk is a file system whenever no call is open; the inode cache agrees with it; reference counts are exact and nothing panics; no deadlock | 29 tests, 7 sessions and 2 programs that fill the tables; 5 processes, 8 files, 7 descriptors, 6 cached inodes, blocks of 4 units, 2 direct blocks, a pipe of 2: small enough that files need indirect blocks, tables fill up and writes take several transactions. Loops run twice instead of up to 1000 times, with 2 children instead of 4; `concreate` has 5 of its 40 rounds, one for each way in which the two processes share them |
| `memory` | pages have one use, the count of sharers is exact, memory below `sz` is there | 2 processes, 13 pages (a process takes at least 5), page tables of 8 entries, pages of 2 units so that sizes need not be aligned |
| `components` | whoever has a buffer from `bread()` is alone with the block's last contents, clean buffers can be forgotten, the cache meets no panic but that of `bget()`, its calls return; bytes of the console and of `upipe` in order; lists, heap and algorithms right | 2 processes of 3 calls, 2 buffers for 3 blocks, 1 pin, so that buffers are recycled while others sleep on them, contents modulo 3; a ring of 3 with indices that wrap at 6, of up to 7 bytes; 2 writers and 2 readers of a pipe of 4; 4 elements with 2 keys in 2 lists, after 3 calls from any lists; a heap of 7 units; inputs of up to 3 to 6 symbols |

Three runs are expected to be violated, each by what the code does.

* `cond_lost`: a `cond_signal()` between `cond_wait()`'s `lock_release()` and its `sleep()` is lost for good, although
  `sleep()`'s comment says that no wakeup is missed.
* `log_full`: `begin_op()` waits while "this op might exhaust log space", and counts with LOGSIZE; but `mkfs` makes the log LOGSIZE
  blocks long with its header, so it holds one block less, and three calls that use the share of `param.h`
  reach the panic of `log_write()`. The run has the proportions of `param.h`: three calls, `MAXOPBLOCKS` = `OPBLOCKS` = 1 and
  `LOGSIZE` = `NLOG` = 3. A chunk of `filewrite()` even writes more than its share (`file.c:132`).
* `memory_hole`: `sbrk(-sz)` removes the memory, returns -1 and leaves `sz`; a `fork()` then reaches a panic of `copyuvm()`
  for a page that "should exist". The run has memory to spare (40 pages, 3 processes), so no `kalloc()` fails.

What the code made necessary in the others:

* In `proc`, `kill(0)`, or `kill()` of the pid that a failed `fork()` left in its slot, marks a slot without a
  process, and the next process in it is born killed. Nothing else goes wrong, and nothing is claimed
  about newborn processes.
* In `log`, the panic for a full log is reachable and allowed (`OnlyFullPanics`, and `log_full` above); what else is
  claimed holds up to it.
* In `components`, the panic of `bget()` for want of a buffer is reachable and allowed, and calls return unless it
  was met. The kernel has NBUF = LOGSIZE = 30: a transaction that fills the log leaves one buffer, and nothing is claimed
  about how many are enough.
* In `pipe`, a killed writer returns from a full pipe without `wakeup(&p->nread)`, and a `kill()` between
  the test of `killed` and the sleep is lost until somebody else wakes the sleeper;
  `EverybodyFinishes` holds all the same because the other end does close.
* In `kernel`, `mkfs` rounds the root directory up by a whole block, so that it starts with free entries; a
  directory that is a current directory can be removed, and a file then created in it would never be
  freed (`create()` does not look at the link count): no program of the repository does that.
* In `memory`, `SizeMapped` and the part of `PagesAccounted` about panics and lost pages hold until `short`: after an
  unhandled failure of `kalloc()` or an `sbrk()` to size 0 memory below `sz` is missing, and the kernel can panic.
* In `memory`, the calls for shared memory come in the order of `mtest.c` and `mmaptest.c`, and one process is an `Allocator`;
  other orders and a second allocator free or lose pages that are in use, as the hazards say.
* In `components`, two readers of the console share the ring; transfers of `upipe` all have the size that
  `upipeex.c` uses, and what its `int` indices do after 2^31 bytes is not modelled. `AlgorithmsRight` says what
  `argptr()` and `grep` do for every input, also where that is less than one may expect: `argptr()` passes a negative
  size when the sum, as a uint, is in the process, and `grep` tests of a line that does not fit its buffer only the last part.
* `Console` leaves out serial bytes between an E0 and its scan code and releases of ordinary keys.

`CHECK_DEADLOCK FALSE` is used where the actors really may stop: in `pipe` everybody finishes, a panic ends `log`
and `log_full`, in CondVar and UPipe everybody may wait for a signal, and the parts of `components`
stop at their bounds on calls. Everywhere else a state without a step is an error; in `kernel` and `memory`
`Idle` and `Halted` stand for the system that has nothing left to do or has panicked, and in `sync` `Stopped` for scripts that
have ended.

## 4. Fairness

* `Spinlock`: none. The `xchg` loop is not fair, so nothing is claimed about who gets a lock.
* `Proc`: the timer is periodic and stays pending while interrupts are off (strong fairness of
  `Yield`); a process in `fork()` makes some progress per time slice; a killed process in user
  space traps; init calls `wait()` in a loop. One CPU, because an `xchg` can lose for ever.
* `SleepWakeup`, `Pipe`, `Semaphore`, `CondVar`: a runnable process is scheduled again and
  again (what `Proc` provides: the scheduler scans the table round and round) and, on one CPU,
  finds a spin lock free whenever it runs, because its holder cannot be preempted. That is
  strong fairness of each process's steps. In `CondVar` this does not imply that a given
  process gets the mutex - a woken one can lose to newcomers - so only `MutexPassedOn` is claimed.
* `Log`: the disk answers, and a call that has begun ends.
* `Disk`: a process in the kernel goes on, releases a buffer that it holds in the end, and the disk
  answers every request. Weak fairness is enough: who is woken looks again and needs no luck.
* `Kernel`, `Memory`, `Console`, `UPipe`, `List`, `Umalloc`, `Library`: none; only safety is claimed. That the programs of
  `kernel` do not get stuck is the deadlock check.

## 5. Proofs

Eight modules hold proofs, about eleven components; each rests
only on the named `ASSUME` of its component, and some theorems name a further condition. All are
about `Spec`, which has no fairness, and hold for every value of the constants. The argument is the same
throughout: an invariant `IInv` is kept by each action (a lemma `...Step` for each, or one for several), `Inductive` is
`Spec => []IInv`, and the theorems that `PROJECT.json` lists follow from it.

| Module | Proved | Only model-checked |
|---|---|---|
| `SyncProofs` | of `Spinlock`: type invariant, `MutualExclusion`, `NoPanic`, `SpinsOnRunningOwner`, `InterruptsRestored`; of `SleepWakeup`: type invariant, `NoMissedWakeup`, `SleepIsAtomic` | deadlock, `SleepReturns` |
| `ProcProofs` | type invariant, `OneCPU`, `StackLive`, `ChildrenAwaited` | `ZombiesReaped`, `KilledExit` |
| `LogProofs` | type invariant, `OnlyFullPanics`, `QuietDurable`, `LogIsAtomic` | `SleepersWoken` |
| `DiskProofs` | type invariant, `CacheCurrent` with its three parts | `CallsReturn` |
| `RingProofs` | of `Pipe`: type invariant, `FirstInFirstOut`, `FreedUnused`; of `UPipe`: `BytesInOrder`; of `Console`: `InputInOrder` | `EverybodyFinishes` |
| `SemaphoreProofs` | type invariant, `DownsCovered`, `NobodyStranded` | `PingPongEnds` |
| `MemoryProofs` | `PagesAccounted`, `SharedCounted`, `SizeMapped` | |
| `CondVarProofs` | type invariant, `MutexExcludes`, `MutexWaiterInformed`, `NodesInScope` | `MutexPassedOn` |

`SyncProofs` proves first, for every set of CPUs and every number of locks, the type
invariant, the four safety properties of `Spinlock` that the run checks, and `NotInterruptible`. The only
assumptions are `NLOCK \in Nat` and `NoCPU \notin CPU`.

None of the properties is inductive. `IInv` (at the end of `Spinlock`) adds

* `CallInv`: what the argument of the call in progress is, and that it is above all held locks;
* `LevelInv`: the activation that is not running holds nothing and is at most before `cli()`.
  This is why an interrupt cannot find its own CPU's lock taken;
* `CliInv`: `ncli` is the number of locks held by the running activation, plus one inside a
  call; FL_IF is on exactly at level 0 with depth 0; `intena` remembers the level; and the
  `eflags` that a preempted `pushcli` has read is still right;
* `OwnerInv`: `locked` and `lk->cpu` describe the owner, with the gaps between the `xchg` and the
  assignment of `lk->cpu`.

`HeldCardinality`, `HeldCounts` and `DepthFacts` are about counting held locks; each of the
ten actions has a lemma `...Step`; `Inductive` combines them. The handler's interleaving
with `pushcli` between `readeflags()` and `cli()` is the case that needs all of `CliInv`.

Of `SleepWakeup` it proves `SleepTypeOK`, `NoMissedWakeup` and the refinement `SleepSpec => SleepIsAtomic`, for any number
of threads and any width of `ticks`. Here the invariant, `SleepIInv`, says who holds which of the two locks where
(`LockInv`), that only a thread in `sleep()` is SLEEPING, and, the point of the proof, that a thread
which has tested its condition and not yet been woken has time left or a `wakeup()` to come
(`CommittedInv`): the timer cannot tick before tickslock is released, and cannot wake before
ptable.lock is, when the thread is SLEEPING. `StepRefines` has one step per action; the release of
tickslock is the abstract `Sleep`.

`ProcProofs` assumes `NoCPU \notin CPU`, at least one slot and pid, and that `KillPids` are pids. `OneCPU` is about
states in which ptable.lock is free; `LockInv` and `CPUInv` say what is true while it is held: it belongs to
the CPU whose scheduler is in its loop or whose process is in `sched()`, in `wait()`'s scan or not yet out of the switch,
so only that CPU can be between RUNNING and being switched out. `IrqInv` says what `ncli`, `intena` and FL_IF are
there, and what a sleeping process has saved. `EmbryoInv` gives every `fork()` in progress an
EMBRYO of its own, which nobody else takes although the lock is not held; `StackInv` says which slots have a
stack. For `ChildrenAwaited`, `FamilyInv` adds that a free slot is nobody's child and that init is alive: `exit()`
hands every child to a process that is not dead, and `wait()` goes to sleep only when its scan, under
the lock, found children and no zombie. The scheduler's and `wait()`'s choice of the first slot is a least number,
which `LeastNatural` provides from the well-foundedness of `<` on the naturals.

`LogProofs` assumes finitely many threads and blocks, and nothing about sizes: its theorems are about behaviours in which the
log has not outgrown its area (`[]Fits`), whatever the calls write and wherever the panic for a full log comes. `ModeInv` says that
calls and commits exclude each other, and what each phase of a commit or recovery finds; `CallInv` counts the
calls in progress. For the refinement, `CacheInv` keeps every
block of the transaction dirty and cached until it is installed, and `CopyInv` says what is where in each phase of
`commit()`, so that whatever the crash, recovery finds in the home blocks and in the log named by the header
either all of the transaction or nothing. The header write of `commit()` is the abstract commit; a crash before
it, the abstract crash, forgets the open calls.

`DiskProofs` assumes finitely many processes. `CacheCurrent` has three parts, `HolderCurrent`, `CleanIsOnDisk` and `NoMisuse`. The first needs `HeldInv` (B_BUSY is one holder), `DataInv` (a
valid buffer is current, an invalid one is held by the process that is having it read) and `OneBuffer`; that a read
brings the current contents is `CleanIsOnDisk` together with `DevInv`, by which the command the disk works on is that of
the first buffer in the queue *as it is now*: nobody changes a queued buffer, because its holder sleeps
(`QueueInv`, `SleepInv`). So a wakeup meant for a sleeper of `bget()`, or for the disk's, on the shared
channel, does no harm.

`RingProofs` is about the three rings of the system. The pipe: any PIPESIZE that divides the range of the
counters and is smaller. `RingInv` says that
the counters are the numbers of bytes sent and received, wrapped, and which slot has which byte;
the step lemmas rest on facts about `%` that are stated once. For `FreedUnused`, `EndInv` says of each end that the count is
the number of processes that have it open, that one process at most is in `pipeclose()` for it, only when none has it
open, and whether the flag has fallen; `FreeInv`, that the one that frees the page is the last.
The user-level pipe, under `Sized`: calls move N bytes, N divides the size of the ring, and no process both reads and
writes. A call moves its bytes under one hold of the mutex, so between calls the count and both indices are multiples
of N (`WholeInv`). That is why a test of `count` that looks at one byte only is enough for the N bytes that follow;
`UpRingInv` says which slot has which byte. The console, under `ConSized`: the ring is smaller than the range
of its indices, which it divides (128 and 2^32 in the kernel). The indices wrap, so nothing in the state says how many
characters went through; the invariant `ConRing` says that there is a number R of characters read (`Counted`) whose
wrapped value is `input.r`, and that from there on the ring holds `lines` and then `line`. `^U` and the loop of
`consoleread()` are closed forms, the greatest number of characters that the loop may pass
(`Most`), so that a step of the ring can be proved without induction over the loop.

`SemaphoreProofs` is for any processes, semaphores, scripts and kills.
`IInv` strengthens `NobodyStranded` to every state, also those in which the lock is held (`SleepInv`), which
needs that nobody sleeps between the `wakeup()` and the increment of `sema_up()` (`WokeInv`) and that
the lock is with the process in the call (`LockInv`). `DownsCovered` follows from `Conserved`, that the value is what is left of the units; this counts
finished calls, and needs that the branch a
process is in is that of the call in its script (`OpInv`), and that only finitely many calls are finished
(`FiniteInv`), since there may be infinitely many processes.

`MemoryProofs` is for any number of pages, processes and units in a page, tables of any size, and any programs and
arguments of `sbrk()`. Besides `MemoryAssumption` the theorems need `OneAllocator`: one process at most calls
`mmap_alloc()`, whose test of `shared_refcount` precedes the lock, so that two callers could both pass it and one would
lose its pages. The functions of `vm.c` come first, since an action is a composition of them. Each works on memory and one
address space, and what it keeps is `Good(x, F, R, n)`: a page is free, or it has exactly one use in the address space
(directory, table of the kernel, table, or entry outside of F), or it is in R, the pages that others have; every
entry is in a table; and the entries outside of F are exactly the first n. `Good` speaks of pages and not of numbers of
pages, which is why no counting is needed: that a page has at most one use is that uses in different places are of
different pages. When an allocation fails that the code does not handle, or `sbrk()` empties a process, pages may be
lost and entries missing; what is left of `Good` then (`Sound`, without `Covered` and `Exact`) still says that no
page has two uses, so no page is ever given out while in use. Every loop has an invariant of its own
(`ClearKept` and `ClearPlace` for `deallocuvm()`, which skips the rest of a table's worth of addresses when a
table is missing: `Tables` and `Exact` say that it skips no page; `AllocInv`, `CopyInv`, `ImageInv`, `ShareInv`, `AttachInv`,
`DetachInv`), and one lemma, `Loop`, carries such an invariant through `Repeat`. It is proved from the least counterexample
(`LeastNatural`) rather than by the induction theorem of the library, which takes an operator. The inductive
invariant `IInv` says `Good` of every process at once, each with R the stacks, the pages of `palloc()`, the shared pages and what
the other processes have. `ChangeSlot` is why this can be checked one process at a time: a step that
changes one slot keeps the invariant when the new slot is `Good` against the same others, and what it keeps outside of its
address space was nobody else's. `SlotInv` and `ShmInv` add what the calls leave behind: both entries of `palloc()`
are its page, those who share see the same pages, and `shared_refcount` is their number.

`CondVarProofs` proves `TypeOK`, `MutexExcludes`, `MutexWaiterInformed` and `NodesInScope` for any number of
processes. `HolderInv` counts the holders by `mlk->value`; `ListInv` says where a process is whose
node is in `clist` (`Queueable`, or `Left` behind by a kill), `HandInv` the same for the node of a
`cond_signal()`, whose frame stays because leaving it takes the mutex that the signaller has.

What stays with TLC, and why. Liveness under fairness, and so also that a wait ends, is out of reach of
the prover, as are deadlocks, which are about ENABLED. `List`, `Umalloc`, `Library`, `Shell` and the recursive parts of `Fs` and
`Kernel` compute with RECURSIVE operators over data: what they return for every input would need induction
over data.
`ProgramsSatisfied`, `CommitsConsistent`, `CacheCoherent` and `CountsExact` are about programs that are such data, and
`ListsAreSequences`, `HeapTiled` and `AlgorithmsRight` about what such operators return.

## 6. Not modelled

* Device registers, boot, segment descriptors, the trap frame, `switchuvm`: hardware set-up.
* Output: the screen, the serial line, `printf`'s format, `procdump`. What a program writes to a file is
  modelled, as units.
* Disk errors: `ideintr()` marks a buffer valid also when the read failed, so nothing could be promised.
* `memide.c`, a replacement for the disk driver, and `project3`, an earlier copy of `project4`.
* The tests of `usertests.c` that are about memory (`mem`, `sbrktest`, `bsstest`), bad addresses (`validatetest`)
  or a full disk (`fsfull`, which `main` does not call): `Kernel` has no addresses, and `Memory` has no programs.
* `usfsort`'s splitting of its input, which reads a buffer that was never initialised, and `usfls`, which
  prints what the host lists.
* `sleep(n)` with negative `n` (2^32 ticks) and `kill(1)` (the kernel panics when init exits): outside
  `Durations` and `KillPids`.

## 7. Plan

1. Proofs in the modules that have them: action properties, such as that
   the home blocks of a disk change only in `InstallTrans` (`Log`) and that a buffer which somebody holds is not
   recycled (`Disk`).
2. The size of transactions: the blocks that the calls of `Fs` change, in place of the constant `OPBLOCKS` of `Log`.
