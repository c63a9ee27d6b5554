-------------------------------- MODULE Proc --------------------------------
(***************************************************************************)
(* The process table and the scheduler (project4/proc.c, and the parts of  *)
(* trap.c that make a process exit or yield).                              *)
(*                                                                         *)
(* ptable.lock is explicit, because it is not released where it is         *)
(* acquired: sched() switches to the CPU's scheduler with the lock held,   *)
(* the scheduler switches to another process, and that process releases    *)
(* it.  A critical section that contains no switch is one step.  What      *)
(* fork() does to its EMBRYO without the lock are steps of their own.      *)
(*                                                                         *)
(* The only sleep() here is the one in wait(); SleepWakeup has the others. *)
(***************************************************************************)
EXTENDS Integers, FiniteSets, FiniteSetsExt

CONSTANTS CPU,        \* the processors
          NoCPU,      \* ptable.lock is free
          NPROC,      \* slots of ptable.proc
          MaxPid,     \* bound on nextpid
          KillPids    \* the pids that kill() is called with

ASSUME ProcAssumption ==
  /\ NoCPU \notin CPU
  /\ NPROC \in Nat \ {0}
  /\ MaxPid \in Nat \ {0}
  /\ KillPids \subseteq 0 .. MaxPid

Slot == 1 .. NPROC
NoProc == 0
initproc == 1

VARIABLES
  lock,      \* CPU or NoCPU: who holds ptable.lock
  proc,      \* [CPU -> Slot or NoProc]: cpu->proc
  scan,      \* [CPU -> 0 .. NPROC + 1]: next slot of the scheduler's loop,
             \* 0 outside its critical section
  state, pid, parent, chan, killed, kstack,   \* fields of struct proc
  pc,        \* [Slot -> PC]: how far the process is in its system call
  ctx,       \* [Slot -> CTX]: "run", on its way to sched(), or switched away and
             \* where it will go on
  np,        \* [Slot -> Slot or NoProc]: fork's np
  nextpid,
  ncli, intena,      \* [CPU -> Int], [CPU -> BOOLEAN]: fields of struct cpu
  fl,        \* [CPU -> BOOLEAN]: FL_IF of the CPU while it is in the kernel
  saved,     \* [Slot -> BOOLEAN]: the local intena of sched(), on p's stack
  panicked

irq == <<ncli, intena, fl, saved>>
vars == <<lock, proc, scan, state, pid, parent, chan, killed, kstack, pc, ctx,
          np, nextpid, irq, panicked>>

State == {"UNUSED", "EMBRYO", "SLEEPING", "RUNNABLE", "RUNNING", "ZOMBIE"}
PC  == {"user", "fork_kalloc", "fork_copyuvm", "fork_runnable", "wait"}
CTX == {"run", "yielding", "sleeping", "exiting", "forkret", "yield", "sleep", "exit"}

\* Which call of sched() a process will return from.
Context == [x \in {"yielding", "sleeping", "exiting"} |->
              CASE x = "yielding" -> "yield" [] x = "sleeping" -> "sleep" [] x = "exiting" -> "exit"]

TypeOK ==
  /\ lock \in CPU \cup {NoCPU}
  /\ proc \in [CPU -> Slot \cup {NoProc}]
  /\ scan \in [CPU -> 0 .. NPROC + 1]
  /\ state \in [Slot -> State]
  /\ pid \in [Slot -> 0 .. MaxPid]
  /\ parent \in [Slot -> Slot \cup {NoProc}]
  /\ chan \in [Slot -> Slot \cup {NoProc}]
  /\ killed \in [Slot -> BOOLEAN]
  /\ kstack \in [Slot -> BOOLEAN]
  /\ pc \in [Slot -> PC]
  /\ ctx \in [Slot -> CTX]
  /\ np \in [Slot -> Slot \cup {NoProc}]
  /\ nextpid \in 1 .. MaxPid + 1
  /\ ncli \in [CPU -> Int] /\ intena \in [CPU -> BOOLEAN]
  /\ fl \in [CPU -> BOOLEAN] /\ saved \in [Slot -> BOOLEAN]
  /\ panicked \in BOOLEAN

\* userinit() has made initproc RUNNABLE; the CPUs are about to schedule.
Init ==
  /\ lock = NoCPU
  /\ proc = [c \in CPU |-> NoProc]
  /\ scan = [c \in CPU |-> 0]
  /\ state = [p \in Slot |-> IF p = initproc THEN "RUNNABLE" ELSE "UNUSED"]
  /\ pid = [p \in Slot |-> IF p = initproc THEN 1 ELSE 0]
  /\ parent = [p \in Slot |-> NoProc]
  /\ chan = [p \in Slot |-> NoProc]
  /\ killed = [p \in Slot |-> FALSE]
  /\ kstack = [p \in Slot |-> p = initproc]
  /\ pc = [p \in Slot |-> "user"]
  /\ ctx = [p \in Slot |-> "forkret"]
  /\ np = [p \in Slot |-> NoProc]
  /\ nextpid = 2
  /\ ncli = [c \in CPU |-> 0] /\ intena = [c \in CPU |-> FALSE]
  /\ fl = [c \in CPU |-> FALSE] /\ saved = [p \in Slot |-> FALSE]
  /\ panicked = FALSE

\* Process p executes on CPU c at l and has not called sched().
At(c, p, l) == proc[c] = p /\ ctx[p] = "run" /\ pc[p] = l
Goto(p, l) == pc' = [pc EXCEPT ![p] = l]

\* acquire(&ptable.lock) and its pushcli(), with interrupts on or off before it.
Acquire(c, on) ==
  /\ lock = NoCPU /\ lock' = c
  /\ ncli' = [ncli EXCEPT ![c] = @ + 1]
  /\ intena' = [intena EXCEPT ![c] = IF ncli[c] = 0 THEN on ELSE @]
  /\ fl' = [fl EXCEPT ![c] = FALSE]
  /\ UNCHANGED saved

\* release(&ptable.lock) and its popcli(), with their panics, when cpu->intena is
\* i; iret tells whether the CPU then leaves the kernel, or the interrupt.
Release(c, i, iret) ==
  /\ panicked' = (lock # c \/ fl[c] \/ ncli[c] < 1)
  /\ lock' = NoCPU
  /\ ncli' = [ncli EXCEPT ![c] = @ - 1]
  /\ intena' = [intena EXCEPT ![c] = i]
  /\ fl' = [fl EXCEPT ![c] = iret \/ (ncli[c] = 1 /\ i)]
  /\ UNCHANGED saved

\* Both, in a system call, which the trap gate enters with interrupts on.
Locked(c) ==
  /\ lock = NoCPU /\ UNCHANGED <<lock, ncli, saved>>
  /\ intena' = [intena EXCEPT ![c] = IF ncli[c] = 0 THEN TRUE ELSE @]
  /\ fl' = [fl EXCEPT ![c] = TRUE]

\* A system call: trap() sends a killed process to exit() instead.
Syscall(c, p) == At(c, p, "user") /\ ~killed[p]

\* The state after wakeup1() on each of the channels in C.
Wakeup1(C) ==
  [q \in Slot |-> IF state[q] = "SLEEPING" /\ chan[q] \in C THEN "RUNNABLE" ELSE state[q]]

-----------------------------------------------------------------------------
(* fork                                                                    *)

\* allocproc's critical section: the first UNUSED slot becomes an EMBRYO.
Allocproc(c, p) ==
  /\ Syscall(c, p) /\ nextpid <= MaxPid
  /\ \E q \in Slot :
       /\ state[q] = "UNUSED" /\ \A r \in 1 .. q - 1 : state[r] # "UNUSED"
       /\ state' = [state EXCEPT ![q] = "EMBRYO"]
       /\ pid' = [pid EXCEPT ![q] = nextpid]
       /\ np' = [np EXCEPT ![p] = q]
  /\ nextpid' = nextpid + 1
  /\ Goto(p, "fork_kalloc")
  /\ Locked(c)
  /\ UNCHANGED <<proc, scan, parent, chan, killed, kstack, ctx, panicked>>

\* kalloc() of the kernel stack fails: the slot is given back without the lock.
ForkNoStack(c, p) ==
  /\ At(c, p, "fork_kalloc")
  /\ state' = [state EXCEPT ![np[p]] = "UNUSED"]
  /\ Goto(p, "user")
  /\ np' = [np EXCEPT ![p] = NoProc]
  /\ UNCHANGED <<lock, proc, scan, pid, parent, chan, killed, kstack, ctx, nextpid, irq, panicked>>

\* The new stack holds a context that starts at forkret.
ForkStack(c, p) ==
  /\ At(c, p, "fork_kalloc")
  /\ kstack' = [kstack EXCEPT ![np[p]] = TRUE]
  /\ ctx' = [ctx EXCEPT ![np[p]] = "forkret"]
  /\ pc' = [pc EXCEPT ![np[p]] = "user", ![p] = "fork_copyuvm"]
  /\ UNCHANGED <<lock, proc, scan, state, pid, parent, chan, killed, np, nextpid, irq, panicked>>

\* copyuvm() fails: the stack is freed and the slot given back.
ForkNoMemory(c, p) ==
  /\ At(c, p, "fork_copyuvm")
  /\ kstack' = [kstack EXCEPT ![np[p]] = FALSE]
  /\ state' = [state EXCEPT ![np[p]] = "UNUSED"]
  /\ Goto(p, "user")
  /\ np' = [np EXCEPT ![p] = NoProc]
  /\ UNCHANGED <<lock, proc, scan, pid, parent, chan, killed, ctx, nextpid, irq, panicked>>

\* np->parent = proc, and the copies of files and directory.
ForkCopy(c, p) ==
  /\ At(c, p, "fork_copyuvm")
  /\ parent' = [parent EXCEPT ![np[p]] = p]
  /\ Goto(p, "fork_runnable")
  /\ UNCHANGED <<lock, proc, scan, state, pid, chan, killed, kstack, ctx, np, nextpid, irq, panicked>>

ForkRunnable(c, p) ==
  /\ At(c, p, "fork_runnable")
  /\ state' = [state EXCEPT ![np[p]] = "RUNNABLE"]
  /\ Goto(p, "user")
  /\ np' = [np EXCEPT ![p] = NoProc]
  /\ Locked(c)
  /\ UNCHANGED <<proc, scan, pid, parent, chan, killed, kstack, ctx, nextpid, panicked>>

-----------------------------------------------------------------------------
(* exit and wait                                                           *)

Children(p) == {q \in Slot : parent[q] = p}
Zombies(p) == {q \in Children(p) : state[q] = "ZOMBIE"}

\* Mutant: abandoned zombies do not wake initproc.
ExitNoInitWakeup(c, p) ==
  /\ At(c, p, "user") /\ p # initproc
  /\ \E on \in BOOLEAN : Acquire(c, on)
  /\ state' = [Wakeup1({parent[p]}) EXCEPT ![p] = "ZOMBIE"]
  /\ parent' = [q \in Slot |-> IF parent[q] = p THEN initproc ELSE parent[q]]
  /\ ctx' = [ctx EXCEPT ![p] = "exiting"]
  /\ UNCHANGED <<proc, scan, pid, chan, killed, kstack, pc, np, nextpid, panicked>>

\* Mutant: only zombie children are passed to initproc.
ExitKeepsChildren(c, p) ==
  /\ At(c, p, "user") /\ p # initproc
  /\ \E on \in BOOLEAN : Acquire(c, on)
  /\ state' = [Wakeup1({parent[p]} \cup IF Zombies(p) # {} THEN {initproc} ELSE {})
                 EXCEPT ![p] = "ZOMBIE"]
  /\ parent' = [q \in Slot |-> IF q \in Zombies(p) THEN initproc ELSE parent[q]]
  /\ ctx' = [ctx EXCEPT ![p] = "exiting"]
  /\ UNCHANGED <<proc, scan, pid, chan, killed, kstack, pc, np, nextpid, panicked>>

\* exit(), called or forced by trap(): up to its call of sched().
Exit(c, p) ==
  /\ At(c, p, "user") /\ p # initproc
  /\ \E on \in BOOLEAN : Acquire(c, on)
  /\ state' = [Wakeup1({parent[p]} \cup IF Zombies(p) # {} THEN {initproc} ELSE {})
                 EXCEPT ![p] = "ZOMBIE"]
  /\ parent' = [q \in Slot |-> IF parent[q] = p THEN initproc ELSE parent[q]]
  /\ ctx' = [ctx EXCEPT ![p] = "exiting"]
  /\ UNCHANGED <<proc, scan, pid, chan, killed, kstack, pc, np, nextpid, panicked>>

Wait(c, p) ==
  /\ Syscall(c, p)
  /\ Acquire(c, TRUE)
  /\ Goto(p, "wait")
  /\ UNCHANGED <<proc, scan, state, pid, parent, chan, killed, kstack, ctx, np, nextpid, panicked>>

\* The first zombie child is freed; release(); return its pid.
WaitReap(c, p) ==
  /\ At(c, p, "wait") /\ Zombies(p) # {}
  /\ LET q == Min(Zombies(p)) IN
       /\ kstack' = [kstack EXCEPT ![q] = FALSE]
       /\ state' = [state EXCEPT ![q] = "UNUSED"]
       /\ pid' = [pid EXCEPT ![q] = 0]
       /\ parent' = [parent EXCEPT ![q] = NoProc]
       /\ killed' = [killed EXCEPT ![q] = FALSE]
  /\ Release(c, intena[c], FALSE)
  /\ Goto(p, "user")
  /\ UNCHANGED <<proc, scan, chan, ctx, np, nextpid>>

\* No children, or killed: release(); return -1.
WaitFail(c, p) ==
  /\ At(c, p, "wait") /\ Zombies(p) = {}
  /\ Children(p) = {} \/ killed[p]
  /\ Release(c, intena[c], FALSE)
  /\ Goto(p, "user")
  /\ UNCHANGED <<proc, scan, state, pid, parent, chan, killed, kstack, ctx, np, nextpid>>

\* sleep(proc, &ptable.lock), up to its call of sched().
WaitSleep(c, p) ==
  /\ At(c, p, "wait") /\ Zombies(p) = {}
  /\ Children(p) # {} /\ ~killed[p]
  /\ chan' = [chan EXCEPT ![p] = p]
  /\ state' = [state EXCEPT ![p] = "SLEEPING"]
  /\ ctx' = [ctx EXCEPT ![p] = "sleeping"]
  /\ UNCHANGED <<lock, proc, scan, pid, parent, killed, kstack, pc, np, nextpid, irq, panicked>>

-----------------------------------------------------------------------------
(* kill                                                                    *)

\* Mutant: a sleeping victim is not woken.
KillNoWakeup(c, p, k) ==
  /\ Syscall(c, p)
  /\ \E q \in Slot :
       /\ pid[q] = k /\ \A r \in 1 .. q - 1 : pid[r] # k
       /\ killed' = [killed EXCEPT ![q] = TRUE]
       /\ state' = state
  /\ Locked(c)
  /\ UNCHANGED <<proc, scan, pid, parent, chan, kstack, pc, ctx, np, nextpid, panicked>>

\* The first slot with this pid, whatever its state.
Kill(c, p, k) ==
  /\ Syscall(c, p)
  /\ \E q \in Slot :
       /\ pid[q] = k /\ \A r \in 1 .. q - 1 : pid[r] # k
       /\ killed' = [killed EXCEPT ![q] = TRUE]
       /\ state' = [state EXCEPT ![q] = IF @ = "SLEEPING" THEN "RUNNABLE" ELSE @]
  /\ Locked(c)
  /\ UNCHANGED <<proc, scan, pid, parent, chan, kstack, pc, ctx, np, nextpid, panicked>>

\* trap(): a fault in user space sets proc->killed.
Fault(c, p) ==
  /\ Syscall(c, p) /\ p # initproc
  /\ killed' = [killed EXCEPT ![p] = TRUE]
  /\ UNCHANGED <<lock, proc, scan, state, pid, parent, chan, kstack, pc, ctx, np, nextpid, irq, panicked>>

-----------------------------------------------------------------------------
(* The scheduler and the switches.                                         *)

\* Mutant: ptable.lock is not acquired.
YieldUnlocked(c, p) ==
  /\ proc[c] = p /\ ctx[p] = "run" /\ lock # c
  /\ state' = [state EXCEPT ![p] = "RUNNABLE"]
  /\ ctx' = [ctx EXCEPT ![p] = "yielding"]
  /\ UNCHANGED <<lock, proc, scan, pid, parent, chan, killed, kstack, pc, np, nextpid, irq, panicked>>

\* The timer interrupts p, in user space or in fork(): yield() up to sched().
\* In user space trap() sends a killed process to exit() before it yields.
Yield(c, p) ==
  /\ proc[c] = p /\ ctx[p] = "run"
  /\ IF pc[p] = "user" THEN ~killed[p] ELSE fl[c]
  /\ Acquire(c, FALSE)
  /\ state' = [state EXCEPT ![p] = "RUNNABLE"]
  /\ ctx' = [ctx EXCEPT ![p] = "yielding"]
  /\ UNCHANGED <<proc, scan, pid, parent, chan, killed, kstack, pc, np, nextpid, panicked>>

\* sched(): its panics, the switch to the scheduler, and proc = 0 there.
Sched(c, p) ==
  /\ proc[c] = p /\ ctx[p] \in DOMAIN Context
  /\ panicked' = (lock # c \/ ncli[c] # 1 \/ state[p] = "RUNNING" \/ fl[c])
  /\ saved' = [saved EXCEPT ![p] = intena[c]]
  /\ ctx' = [ctx EXCEPT ![p] = Context[@]]
  /\ proc' = [proc EXCEPT ![c] = NoProc]
  /\ UNCHANGED <<lock, scan, state, pid, parent, chan, killed, kstack, pc, np, nextpid, ncli, intena, fl>>

\* sti(), and acquire(&ptable.lock).
SchedulerAcquire(c) ==
  /\ scan[c] = 0
  /\ Acquire(c, TRUE)
  /\ scan' = [scan EXCEPT ![c] = 1]
  /\ UNCHANGED <<proc, state, pid, parent, chan, killed, kstack, pc, ctx, np, nextpid, panicked>>

\* Mutant: every slot in use is run, also one that fork() is still building.
ReadyEmbryo(c) == {p \in Slot : p >= scan[c] /\ state[p] \in {"RUNNABLE", "EMBRYO"}}

\* Slots from scan[c] on that the loop would run.
Ready(c) == {p \in Slot : p >= scan[c] /\ state[p] = "RUNNABLE"}

\* The next RUNNABLE slot is switched to, with ptable.lock held.
SchedulerSwitch(c) ==
  /\ scan[c] # 0 /\ proc[c] = NoProc /\ Ready(c) # {}
  /\ LET p == Min(Ready(c)) IN
       /\ proc' = [proc EXCEPT ![c] = p]
       /\ scan' = [scan EXCEPT ![c] = p + 1]
       /\ state' = [state EXCEPT ![p] = "RUNNING"]
  /\ UNCHANGED <<lock, pid, parent, chan, killed, kstack, pc, ctx, np, nextpid, irq, panicked>>

\* The end of the loop.
SchedulerRelease(c) ==
  /\ scan[c] # 0 /\ proc[c] = NoProc /\ Ready(c) = {}
  /\ Release(c, intena[c], FALSE)
  /\ scan' = [scan EXCEPT ![c] = 0]
  /\ UNCHANGED <<proc, state, pid, parent, chan, killed, kstack, pc, ctx, np, nextpid>>

\* forkret(), or the end of sched() and of yield(): release ptable.lock, and back
\* to what was interrupted, with interrupts on.
ResumeRelease(c, p) ==
  /\ proc[c] = p /\ state[p] = "RUNNING" /\ ctx[p] \in {"forkret", "yield"}
  /\ Release(c, IF ctx[p] = "yield" THEN saved[p] ELSE intena[c], TRUE)
  /\ ctx' = [ctx EXCEPT ![p] = "run"]
  /\ UNCHANGED <<proc, scan, state, pid, parent, chan, killed, kstack, pc, np, nextpid>>

\* The end of sched() and of sleep() in wait(): the lock is kept for the next scan.
ResumeWait(c, p) ==
  /\ proc[c] = p /\ state[p] = "RUNNING" /\ ctx[p] = "sleep"
  /\ chan' = [chan EXCEPT ![p] = NoProc]
  /\ intena' = [intena EXCEPT ![c] = saved[p]]
  /\ ctx' = [ctx EXCEPT ![p] = "run"]
  /\ UNCHANGED <<lock, proc, scan, state, pid, parent, killed, kstack, pc, np, nextpid, ncli, fl, saved, panicked>>

-----------------------------------------------------------------------------
\* The rest of fork(), which the timer may interrupt anywhere.
Fork(c, p) ==
  \/ ForkNoStack(c, p) \/ ForkStack(c, p) \/ ForkNoMemory(c, p)
  \/ ForkCopy(c, p) \/ ForkRunnable(c, p)

\* What a CPU executes once it is in the kernel.
Kernel(c) ==
  \/ SchedulerAcquire(c) \/ SchedulerSwitch(c) \/ SchedulerRelease(c)
  \/ \E p \in Slot :
       \/ Fork(c, p)
       \/ WaitReap(c, p) \/ WaitFail(c, p) \/ WaitSleep(c, p)
       \/ Sched(c, p) \/ ResumeRelease(c, p) \/ ResumeWait(c, p)

\* What user programs and the timer make a CPU do.
User(c) ==
  \E p \in Slot :
    \/ Allocproc(c, p) \/ Exit(c, p) \/ Wait(c, p) \/ Fault(c, p) \/ Yield(c, p)
    \/ \E k \in KillPids : Kill(c, p, k)

Next == ~panicked /\ \E c \in CPU : Kernel(c) \/ User(c)

Spec == Init /\ [][Next]_vars

(***************************************************************************)
(* Fairness: a CPU executes; the timer is periodic and its interrupt stays *)
(* pending while interrupts are off (lapic.c), so a process that is        *)
(* interruptible again and again yields; a time slice is long enough for   *)
(* a process in fork() to get on; a killed process in user space traps and *)
(* exits; init.c calls wait() in an endless loop.  With several CPUs an    *)
(* xchg loop may lose for ever: liveness is claimed for one CPU.           *)
(***************************************************************************)
FairSpec ==
  /\ Spec
  /\ \A c \in CPU :
       /\ WF_vars(Kernel(c))
       /\ \A p \in Slot :
            /\ SF_vars(Yield(c, p))
            /\ SF_vars(Fork(c, p))
            /\ WF_vars(killed[p] /\ Exit(c, p))
       /\ SF_vars(Wait(c, initproc))

-----------------------------------------------------------------------------
(* Properties.                                                             *)

\* scheduler, sched and the resumed process hand ptable.lock over so that no
\* process is on two CPUs and, whenever the lock is free, RUNNING means being
\* some CPU's proc: not yet switched out is never visible as RUNNABLE.  So the
\* tests of sched(), release() and popcli() find this CPU holding this lock alone,
\* interrupts off, although another process or the scheduler acquired it, and
\* none of them panics; and a system call goes on with interrupts on, whatever
\* other processes made of cpu->intena while it slept.
OneCPU ==
  /\ ~panicked
  /\ \A c \in CPU : proc[c] # NoProc /\ ctx[proc[c]] = "run" /\ lock # c => fl[c]
  /\ \A c, d \in CPU : proc[c] = proc[d] /\ proc[c] # NoProc => c = d
  /\ lock = NoCPU =>
       \A p \in Slot : state[p] = "RUNNING" <=> \E c \in CPU : proc[c] = p

\* exit() and wait(): a parent never frees the kernel stack on which its
\* zombie is still executing sched(), and none runs without a stack.
StackLive == \A c \in CPU : proc[c] # NoProc => kstack[proc[c]]

\* exit() passes children on, and wait() sleeps through no death: every process
\* but initproc has a parent that is neither dead nor half built, and a process
\* asleep in wait() has a child, no zombie child and no pending kill, whoever
\* exits or is adopted in the meantime.
ChildrenAwaited ==
  /\ \A p \in Slot \ {initproc} : state[p] \notin {"UNUSED", "EMBRYO"} =>
       /\ parent[p] # NoProc
       /\ state[parent[p]] \notin {"UNUSED", "EMBRYO", "ZOMBIE"}
  /\ \A p \in Slot : state[p] = "SLEEPING" =>
       /\ chan[p] = p /\ Children(p) # {}
       /\ Zombies(p) = {} /\ ~killed[p]

\* init catches up: again and again it has no zombie left to wait for,
\* including the ones it adopts while it sleeps in wait().  (MaxPid bounds the
\* processes, so every zombie of init's is reaped.)
ZombiesReaped == []<>(Zombies(initproc) = {})

\* kill()'s "Process won't exit until it returns to user space": it does get
\* there, from wherever it is, so no killed process is left for ever.
KilledExit ==
  []<>(\A p \in Slot \ {initproc} :
         killed[p] => state[p] \notin {"SLEEPING", "RUNNABLE", "RUNNING"})
=============================================================================
