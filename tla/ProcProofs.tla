----------------------------- MODULE ProcProofs -----------------------------
(***************************************************************************)
(* Proofs about Proc, for any number of CPUs and slots and any pattern of  *)
(* fork, exit, wait, kill and timer interrupts: ptable.lock is handed over *)
(* correctly, no stack is freed under its user, no child is forgotten.     *)
(***************************************************************************)
EXTENDS Proc, WellFoundedInduction, TLAPS

-----------------------------------------------------------------------------
(* The inductive invariant.                                                *)

Forking == {"fork_kalloc", "fork_copyuvm", "fork_runnable"}
Dead    == {"UNUSED", "EMBRYO", "ZOMBIE"}
NoStack == {"UNUSED", "EMBRYO"}
Calling == {"yielding", "sleeping", "exiting"}

\* ptable.lock belongs to the CPU whose scheduler is in its loop, and to the CPU
\* whose process is in sched(), has just been switched to, or scans in wait().
LockInv ==
  /\ ~panicked
  /\ \A c \in CPU :
       /\ proc[c] = NoProc /\ scan[c] # 0 => lock = c
       /\ proc[c] # NoProc =>
            /\ scan[c] # 0
            /\ ctx[proc[c]] # "run" \/ pc[proc[c]] = "wait" => lock = c

\* A process is on one CPU at most; one that is not in sched() is RUNNING, and
\* whatever is RUNNING is on a CPU.
CPUInv ==
  /\ \A c, d \in CPU : proc[c] = proc[d] /\ proc[c] # NoProc => c = d
  /\ \A c \in CPU : proc[c] # NoProc => state[proc[c]] \notin NoStack
  /\ \A p \in Slot : ctx[p] = "run" => state[p] = "RUNNING"
  /\ \A p \in Slot : state[p] = "RUNNING" \/ ctx[p] \in Calling => \E c \in CPU : proc[c] = p
  /\ \A p \in Slot : ctx[p] \in Calling => state[p] # "RUNNING"

\* ncli and FL_IF say who holds ptable.lock, and a system call has its own
\* interrupt state: in the CPU while it runs, on its stack while it sleeps.
OwnLock(c) == ncli[c] = (IF lock = c THEN 1 ELSE 0) /\ (fl[c] => lock # c)
OwnCall(c) == proc[c] # NoProc =>
  /\ ctx[proc[c]] = "run" /\ lock # c => fl[c]
  /\ pc[proc[c]] = "wait" /\ ctx[proc[c]] \in {"run", "sleeping"} => intena[c]
OwnSleep(p) == pc[p] = "wait" /\ ctx[p] = "sleep" => saved[p]

IrqInv ==
  /\ \A c \in CPU : OwnLock(c) /\ OwnCall(c)
  /\ \A p \in Slot : OwnSleep(p)

\* Only a live process is in a system call, and the scan of wait() is never
\* left by yield() or entered by forkret().
CallInv ==
  /\ \A p \in Slot : state[p] \in Dead => pc[p] = "user"
  /\ \A p \in Slot : ctx[p] \in {"forkret", "yield", "yielding"} => pc[p] # "wait"

\* The slot that fork() is building is an EMBRYO of its own, and has a parent
\* only once its parent is set.
EmbryoInv ==
  /\ \A p \in Slot : pc[p] \in Forking =>
       /\ np[p] \in Slot /\ state[np[p]] = "EMBRYO"
       /\ parent[np[p]] = IF pc[p] = "fork_runnable" THEN p ELSE NoProc
  /\ \A p, q \in Slot :
       pc[p] \in Forking /\ pc[q] \in Forking /\ np[p] = np[q] => p = q

\* A slot with a process in it has a stack, and so has an EMBRYO after kalloc().
StackInv ==
  /\ \A p \in Slot : state[p] \notin NoStack => kstack[p]
  /\ \A p \in Slot : pc[p] \in {"fork_copyuvm", "fork_runnable"} => kstack[np[p]]

\* A free slot is nobody's child, nobody is its own, and initproc lives and is
\* nobody's child.
FamilyInv ==
  /\ \A p \in Slot : state[p] = "UNUSED" => parent[p] = NoProc
  /\ \A p \in Slot : parent[p] # p
  /\ state[initproc] \notin Dead /\ parent[initproc] = NoProc
  /\ ChildrenAwaited

IInv ==
  TypeOK /\ LockInv /\ CPUInv /\ IrqInv /\ CallInv /\ EmbryoInv /\ StackInv /\ FamilyInv

-----------------------------------------------------------------------------
(* Slots.                                                                  *)

\* Every nonempty set of natural numbers has a least element.
LEMMA LeastNatural ==
  ASSUME NEW S \in SUBSET Nat, S # {}
  PROVE  \E x \in S : \A y \in S : x <= y
<1> DEFINE R == {ss \in Nat \X Nat : ss[1] < ss[2]}
<1>1. IsWellFoundedOn(R, Nat)
  BY NatLessThanWellFounded, Zenon DEF OpToRel
<1>2. PICK x \in S : \A y \in S : <<y, x>> \notin R
  <2> HIDE DEF R
  <2> QED BY <1>1, WFMin, Zenon
<1>3. \A y \in S : ~ y < x
  BY <1>2
<1> QED BY <1>3

\* The first slot of a nonempty set is one of them.
LEMMA MinOf ==
  ASSUME NEW S \in SUBSET Slot, S # {}
  PROVE  Min(S) \in S
<1>1. S \in SUBSET Nat
  BY ProcAssumption DEF Slot
<1> QED BY <1>1, LeastNatural DEF Min
\* SchedulerSwitch(c) to slot p, and WaitReap(c, p) of slot q.
SwitchTo(c, p) ==
  /\ scan[c] # 0 /\ proc[c] = NoProc /\ state[p] = "RUNNABLE"
  /\ proc' = [proc EXCEPT ![c] = p]
  /\ scan' = [scan EXCEPT ![c] = p + 1]
  /\ state' = [state EXCEPT ![p] = "RUNNING"]
  /\ UNCHANGED <<lock, pid, parent, chan, killed, kstack, pc, ctx, np, nextpid, irq, panicked>>

Reap(c, p, q) ==
  /\ At(c, p, "wait") /\ parent[q] = p /\ state[q] = "ZOMBIE"
  /\ kstack' = [kstack EXCEPT ![q] = FALSE]
  /\ state' = [state EXCEPT ![q] = "UNUSED"]
  /\ pid' = [pid EXCEPT ![q] = 0]
  /\ parent' = [parent EXCEPT ![q] = NoProc]
  /\ killed' = [killed EXCEPT ![q] = FALSE]
  /\ Release(c, intena[c], FALSE)
  /\ Goto(p, "user")
  /\ UNCHANGED <<proc, scan, chan, ctx, np, nextpid>>

\* The slot that scheduler() switches to is RUNNABLE.
LEMMA Switched ==
  ASSUME NEW c \in CPU, SchedulerSwitch(c)
  PROVE  \E p \in Slot : SwitchTo(c, p)
<1>1. Min(Ready(c)) \in Ready(c)
  BY MinOf DEF SchedulerSwitch, Ready
<1> QED
  BY <1>1 DEF SchedulerSwitch, Ready, SwitchTo

\* The slot that wait() frees is a zombie child.
LEMMA Reaped ==
  ASSUME NEW c \in CPU, NEW p \in Slot, WaitReap(c, p)
  PROVE  \E q \in Slot : Reap(c, p, q)
<1>1. Min(Zombies(p)) \in Zombies(p)
  BY MinOf DEF WaitReap, Zombies, Children
<1> QED
  BY <1>1 DEF WaitReap, Zombies, Children, Reap

-----------------------------------------------------------------------------
(* Steps.                                                                  *)

IrqTypes ==
  /\ ncli \in [CPU -> Int] /\ intena \in [CPU -> BOOLEAN]
  /\ fl \in [CPU -> BOOLEAN] /\ saved \in [Slot -> BOOLEAN]

\* What is the same for the other CPUs.
OthersIrq(c) == \A d \in CPU : d # c => ncli'[d] = ncli[d] /\ intena'[d] = intena[d] /\ fl'[d] = fl[d]

\* acquire(&ptable.lock),
LEMMA AcquireFacts ==
  ASSUME TypeOK, NEW c \in CPU, NEW on \in BOOLEAN, Acquire(c, on)
  PROVE  /\ lock = NoCPU /\ lock' = c /\ IrqTypes' /\ saved' = saved /\ OthersIrq(c)
         /\ ncli'[c] = ncli[c] + 1 /\ ~fl'[c]
         /\ ncli[c] = 0 => intena'[c] = on
<1>1. ncli[c] = 0 \/ ncli[c] # 0
  OBVIOUS
<1>2. intena' = [intena EXCEPT ![c] = on] \/ intena' = [intena EXCEPT ![c] = intena[c]]
  BY <1>1 DEF Acquire
<1>3. ncli[c] = 0 => intena'[c] = on
  BY DEF Acquire, TypeOK
<1>4. intena' \in [CPU -> BOOLEAN] /\ \A d \in CPU : d # c => intena'[d] = intena[d]
  BY <1>2 DEF TypeOK
<1> QED BY <1>3, <1>4 DEF Acquire, TypeOK, IrqTypes, OthersIrq

\* and its release,
LEMMA ReleaseFacts ==
  ASSUME TypeOK, NEW c \in CPU, NEW i \in BOOLEAN, NEW iret \in BOOLEAN, Release(c, i, iret)
  PROVE  /\ lock' = NoCPU /\ panicked' \in BOOLEAN /\ IrqTypes' /\ saved' = saved /\ OthersIrq(c)
         /\ ncli'[c] = ncli[c] - 1 /\ intena'[c] = i
         /\ ncli[c] = 1 /\ (i \/ iret) => fl'[c]
         /\ lock = c /\ ncli[c] = 1 /\ ~fl[c] => ~panicked'
<1>1. panicked' = (lock # c \/ fl[c] \/ ncli[c] < 1)
  BY DEF Release
<1>2. lock = c /\ ncli[c] = 1 /\ ~fl[c] => ~panicked'
  <2> SUFFICES ASSUME lock = c, ncli[c] = 1, ~fl[c] PROVE ~panicked'
    OBVIOUS
  <2>1. ~(ncli[c] < 1)
    OBVIOUS
  <2> QED BY <1>1, <2>1, Zenon
<1>3. panicked' \in BOOLEAN
  BY <1>1, Zenon
<1> DEFINE v == iret \/ (ncli[c] = 1 /\ i)
<1>4. fl' = [fl EXCEPT ![c] = v] /\ v \in BOOLEAN
  BY Zenon DEF Release
<1>5. ncli[c] = 1 /\ (i \/ iret) => v
  OBVIOUS
<1> HIDE DEF v
<1>6. fl' \in [CPU -> BOOLEAN] /\ fl'[c] = v /\ \A d \in CPU : d # c => fl'[d] = fl[d]
  BY <1>4 DEF TypeOK
<1>7. /\ lock' = NoCPU /\ ncli' = [ncli EXCEPT ![c] = @ - 1] /\ intena' = [intena EXCEPT ![c] = i]
      /\ saved' = saved
  BY Zenon DEF Release
<1> QED BY <1>2, <1>3, <1>5, <1>6, <1>7 DEF TypeOK, IrqTypes, OthersIrq

\* and both in one step.
LEMMA LockedFacts ==
  ASSUME TypeOK, NEW c \in CPU, Locked(c)
  PROVE  /\ lock = NoCPU /\ lock' = NoCPU /\ IrqTypes' /\ saved' = saved /\ OthersIrq(c)
         /\ ncli' = ncli /\ fl'[c]
<1>1. intena' = [intena EXCEPT ![c] = TRUE] \/ intena' = [intena EXCEPT ![c] = intena[c]]
  BY DEF Locked
<1>2. intena' \in [CPU -> BOOLEAN] /\ \A d \in CPU : d # c => intena'[d] = intena[d]
  BY <1>1 DEF TypeOK
<1> QED BY <1>2 DEF Locked, TypeOK, IrqTypes, OthersIrq

\* sched() notes in the process's context which call it was.
LEMMA SchedContext ==
  ASSUME TypeOK, NEW c \in CPU, NEW p \in Slot, Sched(c, p)
  PROVE  /\ ctx[p] \in Calling
         /\ ctx'[p] \in {"yield", "sleep", "exit"} /\ (ctx'[p] = "yield" <=> ctx[p] = "yielding")
         /\ ctx'[p] = "sleep" <=> ctx[p] = "sleeping"
         /\ \A q \in Slot : q # p => ctx'[q] = ctx[q]
         /\ \/ ctx[p] = "yielding" /\ ctx' = [ctx EXCEPT ![p] = "yield"]
            \/ ctx[p] = "sleeping" /\ ctx' = [ctx EXCEPT ![p] = "sleep"]
            \/ ctx[p] = "exiting" /\ ctx' = [ctx EXCEPT ![p] = "exit"]
<1>1. ctx[p] \in Calling
  BY DEF Sched, Context, Calling
<1>2. /\ ctx[p] = "yielding" => Context[ctx[p]] = "yield"
      /\ ctx[p] = "sleeping" => Context[ctx[p]] = "sleep"
      /\ ctx[p] = "exiting" => Context[ctx[p]] = "exit"
  BY DEF Context
<1>3. \/ ctx[p] = "yielding" /\ ctx' = [ctx EXCEPT ![p] = "yield"]
      \/ ctx[p] = "sleeping" /\ ctx' = [ctx EXCEPT ![p] = "sleep"]
      \/ ctx[p] = "exiting" /\ ctx' = [ctx EXCEPT ![p] = "exit"]
  BY <1>1, <1>2 DEF Sched, Calling
<1>4. ctx \in [Slot -> CTX]
  BY DEF TypeOK
<1> QED BY <1>1, <1>3, <1>4

\* Every action keeps the types.
LEMMA TypeStep ==
  ASSUME TypeOK, EmbryoInv, NEW c \in CPU, Kernel(c) \/ User(c)
  PROVE  TypeOK'
<1> USE DEF TypeOK, Slot, NoProc, State, PC, CTX, At, Goto, Syscall, irq, IrqTypes
<1>0. /\ intena[c] \in BOOLEAN /\ TRUE \in BOOLEAN /\ FALSE \in BOOLEAN
      /\ \A p \in Slot : saved[p] \in BOOLEAN
  OBVIOUS
<1>1. CASE SchedulerAcquire(c)
  <2>1. Acquire(c, TRUE)
    BY <1>1 DEF SchedulerAcquire
  <2>2. lock' = c /\ IrqTypes'
    BY <2>1, AcquireFacts, Zenon
  <2>3. /\ scan' = [scan EXCEPT ![c] = 1]
        /\ UNCHANGED <<proc, state, pid, parent, chan, killed, kstack, pc, ctx, np, nextpid, panicked>>
    BY <1>1, Zenon DEF SchedulerAcquire
  <2> QED
    BY <2>2, <2>3, ProcAssumption
<1>2. CASE SchedulerSwitch(c)
  <2>1. PICK p \in Slot : SwitchTo(c, p)
    BY <1>2, Switched
  <2> QED
    BY <2>1, ProcAssumption, SMTT(40) DEF SwitchTo
<1>3. CASE SchedulerRelease(c)
  <2>1. lock' = NoCPU /\ panicked' \in BOOLEAN /\ IrqTypes'
    BY <1>0, <1>3, ReleaseFacts, ZenonT(40) DEF SchedulerRelease
  <2>2. /\ scan' = [scan EXCEPT ![c] = 0]
        /\ UNCHANGED <<proc, state, pid, parent, chan, killed, kstack, pc, ctx, np, nextpid>>
    BY <1>3, Zenon DEF SchedulerRelease
  <2> QED
    BY <2>1, <2>2, ProcAssumption, SMTT(40)
<1>4. ASSUME NEW p \in Slot, ForkNoStack(c, p) PROVE TypeOK'
  BY <1>4, ProcAssumption DEF ForkNoStack
<1>5. ASSUME NEW p \in Slot, ForkStack(c, p) PROVE TypeOK'
  BY <1>5, ProcAssumption DEF ForkStack
<1>6. ASSUME NEW p \in Slot, ForkNoMemory(c, p) PROVE TypeOK'
  BY <1>6, ProcAssumption DEF ForkNoMemory
<1>7. ASSUME NEW p \in Slot, ForkCopy(c, p) PROVE TypeOK'
  BY <1>7, ProcAssumption DEF ForkCopy
<1>8. ASSUME NEW p \in Slot, ForkRunnable(c, p) PROVE TypeOK'
  <2>1. lock' = NoCPU /\ IrqTypes'
    BY <1>8, LockedFacts DEF ForkRunnable
  <2> QED
    BY <1>8, <2>1 DEF ForkRunnable
<1>9. ASSUME NEW p \in Slot, WaitReap(c, p) PROVE TypeOK'
  <2>1. PICK q \in Slot : Reap(c, p, q)
    BY <1>9, Reaped
  <2>2. lock' = NoCPU /\ panicked' \in BOOLEAN /\ IrqTypes'
    BY <1>0, <2>1, ReleaseFacts, Zenon DEF Reap
  <2> QED
    BY <2>1, <2>2, ProcAssumption, SMTT(90) DEF Reap
<1>10. ASSUME NEW p \in Slot, WaitFail(c, p) PROVE TypeOK'
  <2>1. PICK i \in BOOLEAN : Release(c, i, FALSE)
    BY <1>0, <1>10, Zenon DEF WaitFail
  <2>2. lock' = NoCPU /\ panicked' \in BOOLEAN /\ IrqTypes'
    BY <2>1, ReleaseFacts, ZenonT(40)
  <2>3. /\ pc' = [pc EXCEPT ![p] = "user"]
        /\ UNCHANGED <<proc, scan, state, pid, parent, chan, killed, kstack, ctx, np, nextpid>>
    BY <1>10, Zenon DEF WaitFail
  <2> QED
    BY <2>2, <2>3
<1>11. ASSUME NEW p \in Slot, WaitSleep(c, p) PROVE TypeOK'
  BY <1>11, ProcAssumption DEF WaitSleep
<1>12. ASSUME NEW p \in Slot, Sched(c, p) PROVE TypeOK'
  <2>1. panicked' \in BOOLEAN
    BY <1>12, Zenon DEF Sched
  <2>2. ctx' \in [Slot -> CTX]
    <3>1. \E x \in CTX : ctx' = [ctx EXCEPT ![p] = x]
      BY <1>12, SchedContext
    <3> QED BY <3>1
  <2>3. saved' \in [Slot -> BOOLEAN]
    BY <1>0, <1>12 DEF Sched
  <2> QED
    BY <1>12, <2>1, <2>2, <2>3 DEF Sched
<1>13. ASSUME NEW p \in Slot, ResumeRelease(c, p) PROVE TypeOK'
  <2>1. PICK i \in BOOLEAN : Release(c, i, TRUE)
    <3>1. Release(c, saved[p], TRUE) \/ Release(c, intena[c], TRUE)
      BY <1>13, Zenon DEF ResumeRelease
    <3> QED BY <1>0, <3>1, Zenon
  <2>2. lock' = NoCPU /\ panicked' \in BOOLEAN /\ IrqTypes'
    BY <2>1, ReleaseFacts, ZenonT(40)
  <2> QED
    BY <1>13, <2>2 DEF ResumeRelease
<1>14. ASSUME NEW p \in Slot, ResumeWait(c, p) PROVE TypeOK'
  BY <1>14, ProcAssumption DEF ResumeWait
<1>15. ASSUME NEW p \in Slot, Allocproc(c, p) PROVE TypeOK'
  <2>1. PICK q \in Slot :
          /\ state' = [state EXCEPT ![q] = "EMBRYO"]
          /\ pid' = [pid EXCEPT ![q] = nextpid]
          /\ np' = [np EXCEPT ![p] = q]
    BY <1>15 DEF Allocproc
  <2>2. nextpid \in 0 .. MaxPid /\ nextpid' \in 1 .. MaxPid + 1
    BY <1>15, ProcAssumption DEF Allocproc
  <2>3. lock' = NoCPU /\ IrqTypes'
    BY <1>15, LockedFacts DEF Allocproc
  <2> QED
    BY <1>15, <2>1, <2>2, <2>3 DEF Allocproc
<1>16. ASSUME NEW p \in Slot, Exit(c, p) PROVE TypeOK'
  <2>1. state' \in [Slot -> State]
    BY <1>16 DEF Exit, Wakeup1
  <2>2. parent' \in [Slot -> Slot \cup {NoProc}]
    BY <1>16, ProcAssumption DEF Exit, initproc
  <2>3. lock' = c /\ IrqTypes'
    BY <1>16, AcquireFacts, Zenon DEF Exit
  <2> QED
    BY <1>16, <2>1, <2>2, <2>3 DEF Exit
<1>17. ASSUME NEW p \in Slot, Wait(c, p) PROVE TypeOK'
  <2>1. lock' = c /\ IrqTypes'
    BY <1>0, <1>17, AcquireFacts, Zenon DEF Wait
  <2> QED
    BY <1>17, <2>1 DEF Wait
<1>18. ASSUME NEW p \in Slot, Fault(c, p) PROVE TypeOK'
  BY <1>18, ProcAssumption DEF Fault
<1>19. ASSUME NEW p \in Slot, Yield(c, p) PROVE TypeOK'
  <2>1. lock' = c /\ IrqTypes'
    BY <1>0, <1>19, AcquireFacts, Zenon DEF Yield
  <2> QED
    BY <1>19, <2>1 DEF Yield
<1>20. ASSUME NEW p \in Slot, NEW k \in KillPids, Kill(c, p, k) PROVE TypeOK'
  <2>1. PICK q \in Slot :
          /\ killed' = [killed EXCEPT ![q] = TRUE]
          /\ state' = [state EXCEPT ![q] = IF @ = "SLEEPING" THEN "RUNNABLE" ELSE @]
    BY <1>20 DEF Kill
  <2>2. lock' = NoCPU /\ IrqTypes'
    BY <1>20, LockedFacts DEF Kill
  <2> QED
    BY <1>20, <2>1, <2>2 DEF Kill
<1> QED
  BY <1>1, <1>2, <1>3, <1>4, <1>5, <1>6, <1>7, <1>8, <1>9, <1>10, <1>11, <1>12,
     <1>13, <1>14, <1>15, <1>16, <1>17, <1>18, <1>19, <1>20 DEF Kernel, User, Fork

\* A process that executes on a CPU is RUNNING, and on no other CPU.
LEMMA Executing ==
  ASSUME TypeOK, CPUInv, NEW c \in CPU, NEW p \in Slot, proc[c] = p, ctx[p] = "run"
  PROVE  state[p] = "RUNNING" /\ \A d \in CPU : proc[d] = p => d = c
BY DEF CPUInv, Slot, NoProc

\* The slot that fork() builds is on no CPU.
LEMMA Building ==
  ASSUME CPUInv, EmbryoInv, NEW p \in Slot, pc[p] \in Forking
  PROVE  /\ np[p] \in Slot /\ state[np[p]] = "EMBRYO"
         /\ \A d \in CPU : proc[d] # np[p]
BY DEF CPUInv, EmbryoInv, NoStack, Slot, NoProc

\* exit() makes a ZOMBIE of its caller, which ran, and a sleeper on its parent,
\* or on initproc if it leaves zombies, RUNNABLE.
LEMMA Exiting ==
  ASSUME TypeOK, CPUInv, NEW c \in CPU, NEW p \in Slot, Exit(c, p)
  PROVE  /\ state[p] = "RUNNING" /\ state'[p] = "ZOMBIE"
         /\ \A q \in Slot : q # p =>
              state'[q] = IF /\ state[q] = "SLEEPING"
                             /\ \/ chan[q] = parent[p]
                                \/ Zombies(p) # {} /\ chan[q] = initproc
                          THEN "RUNNABLE" ELSE state[q]
         /\ \A q \in Slot : q # p =>
              state'[q] = state[q] \/ (state[q] = "SLEEPING" /\ state'[q] = "RUNNABLE")
<1>1. state[p] = "RUNNING"
  BY Executing DEF Exit, At
<1> DEFINE C == {parent[p]} \cup IF Zombies(p) # {} THEN {initproc} ELSE {}
<1>2. state' = [Wakeup1(C) EXCEPT ![p] = "ZOMBIE"]
  BY DEF Exit
<1>3. ASSUME NEW x PROVE x \in C <=> x = parent[p] \/ (Zombies(p) # {} /\ x = initproc)
  <2> HIDE DEF Zombies, initproc
  <2>1. CASE Zombies(p) = {}
    BY <2>1
  <2>2. CASE Zombies(p) # {}
    BY <2>2
  <2> QED
    BY <2>1, <2>2
<1> HIDE DEF C
<1>4. /\ state'[p] = "ZOMBIE"
      /\ \A q \in Slot : q # p =>
           state'[q] = IF state[q] = "SLEEPING" /\ chan[q] \in C THEN "RUNNABLE" ELSE state[q]
  BY <1>2 DEF Wakeup1
<1>5. ASSUME NEW q \in Slot, q # p
      PROVE  state'[q] = IF /\ state[q] = "SLEEPING"
                            /\ \/ chan[q] = parent[p]
                               \/ Zombies(p) # {} /\ chan[q] = initproc
                         THEN "RUNNABLE" ELSE state[q]
  BY <1>3, <1>4, <1>5, Zenon
<1>6. ASSUME NEW q \in Slot, q # p
      PROVE  state'[q] = state[q] \/ (state[q] = "SLEEPING" /\ state'[q] = "RUNNABLE")
  <2>1. CASE state[q] = "SLEEPING" /\ chan[q] \in C
    BY <1>4, <1>6, <2>1
  <2>2. CASE ~(state[q] = "SLEEPING" /\ chan[q] \in C)
    BY <1>4, <1>6, <2>2, Zenon
  <2> QED
    BY <2>1, <2>2
<1> QED
  BY <1>1, <1>4, <1>5, <1>6, Zenon

\* While one CPU has ptable.lock, or none, the others are outside the scheduler's
\* loop or run a process that is not in sched().
LEMMA Outside ==
  ASSUME TypeOK, LockInv, NEW d \in CPU, lock # d
  PROVE  /\ proc[d] = NoProc => scan[d] = 0
         /\ proc[d] # NoProc => ctx[proc[d]] = "run" /\ pc[proc[d]] # "wait"
BY DEF LockInv

\* Every action hands ptable.lock over correctly.
LEMMA LockStep ==
  ASSUME TypeOK, LockInv, CPUInv, IrqInv, CallInv, EmbryoInv, NEW c \in CPU, Kernel(c) \/ User(c)
  PROVE  LockInv'
<1> USE DEF TypeOK, Slot, NoProc, State, PC, CTX, At, Goto, Syscall, irq, LockInv
<1>0. /\ intena[c] \in BOOLEAN /\ TRUE \in BOOLEAN /\ FALSE \in BOOLEAN
      /\ \A p \in Slot : saved[p] \in BOOLEAN
      /\ lock = c => ncli[c] = 1 /\ ~fl[c]
  BY DEF IrqInv, OwnLock
<1>1. CASE SchedulerAcquire(c)
  <2>1. lock = NoCPU /\ lock' = c
    BY <1>1, Zenon DEF SchedulerAcquire, Acquire
  <2> QED
    BY <1>1, <2>1, ProcAssumption DEF SchedulerAcquire
<1>2. CASE SchedulerSwitch(c)
  <2>1. PICK p \in Slot : SwitchTo(c, p)
    BY <1>2, Switched
  <2> QED
    BY <2>1, ProcAssumption, SMTT(40) DEF SwitchTo
<1>3. CASE SchedulerRelease(c)
  <2>1. lock = c /\ scan' = [scan EXCEPT ![c] = 0] /\ proc[c] = NoProc
        /\ UNCHANGED <<proc, ctx, pc>>
    BY <1>3 DEF SchedulerRelease
  <2>2. lock' = NoCPU /\ ~panicked'
    <3>1. PICK i \in BOOLEAN : Release(c, i, FALSE)
      BY <1>0, <1>3, Zenon DEF SchedulerRelease
    <3>2. lock = c
      BY <2>1
    <3> HIDE DEF LockInv, TypeOK
    <3> QED BY <1>0, <3>1, <3>2, ReleaseFacts, Zenon
  <2> QED
    BY <2>1, <2>2, ProcAssumption
<1>4. ASSUME NEW p \in Slot, ForkNoStack(c, p) PROVE LockInv'
  BY <1>4, ProcAssumption, SMTT(40) DEF ForkNoStack
<1>5. ASSUME NEW p \in Slot, ForkStack(c, p) PROVE LockInv'
  <2>1. /\ UNCHANGED <<lock, proc, scan, panicked>> /\ ctx' = [ctx EXCEPT ![np[p]] = "forkret"]
        /\ pc' = [pc EXCEPT ![np[p]] = "user", ![p] = "fork_copyuvm"] /\ pc[p] = "fork_kalloc"
        /\ proc[c] = p /\ ctx[p] = "run"
    BY <1>5, Zenon DEF ForkStack
  <2>2. \A d \in CPU : proc[d] # np[p]
    BY <2>1, Building DEF Forking
  <2>3. \A d \in CPU : proc[d] = p => d = c
    BY <2>1, Executing
  <2> QED
    BY <2>1, <2>2, <2>3
<1>6. ASSUME NEW p \in Slot, ForkNoMemory(c, p) PROVE LockInv'
  BY <1>6, ProcAssumption, SMTT(40) DEF ForkNoMemory
<1>7. ASSUME NEW p \in Slot, ForkCopy(c, p) PROVE LockInv'
  BY <1>7, ProcAssumption, SMTT(40) DEF ForkCopy
<1>8. ASSUME NEW p \in Slot, ForkRunnable(c, p) PROVE LockInv'
  <2>1. lock' = lock
    BY <1>8, LockedFacts DEF ForkRunnable
  <2> QED
    BY <1>8, <2>1, ProcAssumption, SMTT(40) DEF ForkRunnable
<1>9. ASSUME NEW p \in Slot, WaitReap(c, p) PROVE LockInv'
  <2>1. PICK q \in Slot : Reap(c, p, q)
    BY <1>9, Reaped
  <2>2. lock = c
    <3>1. proc[c] = p /\ pc[p] = "wait"
      BY <2>1, Zenon DEF Reap
    <3>2. p # NoProc
      OBVIOUS
    <3> QED BY <3>1, <3>2
  <2>3. lock' = NoCPU /\ ~panicked'
    BY <1>0, <2>1, <2>2, ReleaseFacts, Zenon DEF Reap
  <2> QED
    <3>1. proc[c] = p /\ ctx[p] = "run" /\ pc' = [pc EXCEPT ![p] = "user"] /\ UNCHANGED <<proc, scan, ctx>>
      BY <2>1, Zenon DEF Reap
    <3>2. \A d \in CPU : proc[d] = p => d = c
      BY <3>1, Executing
    <3> QED BY <2>2, <2>3, <3>1, <3>2, ProcAssumption, SMTT(40)
<1>10. ASSUME NEW p \in Slot, WaitFail(c, p) PROVE LockInv'
  <2>1. lock = c
    <3>1. proc[c] = p /\ pc[p] = "wait"
      BY <1>10, Zenon DEF WaitFail
    <3>2. p # NoProc
      OBVIOUS
    <3> QED BY <3>1, <3>2
  <2>2. lock' = NoCPU /\ ~panicked'
    BY <1>0, <1>10, <2>1, ReleaseFacts, ZenonT(40) DEF WaitFail
  <2> QED
    <3>1. proc[c] = p /\ ctx[p] = "run" /\ pc' = [pc EXCEPT ![p] = "user"] /\ UNCHANGED <<proc, scan, ctx>>
      BY <1>10, Zenon DEF WaitFail
    <3>2. \A d \in CPU : proc[d] = p => d = c
      BY <3>1, Executing
    <3> QED BY <2>1, <2>2, <3>1, <3>2, ProcAssumption
<1>11. ASSUME NEW p \in Slot, WaitSleep(c, p) PROVE LockInv'
  BY <1>11, ProcAssumption DEF WaitSleep
<1>12. ASSUME NEW p \in Slot, Sched(c, p) PROVE LockInv'
  <2>0. proc[c] = p /\ ctx[p] \in Calling
    BY <1>12, SchedContext, Zenon DEF Sched
  <2>1. lock = c /\ state[p] # "RUNNING"
    <3>1. state[p] # "RUNNING"
      BY <2>0, Zenon DEF CPUInv
    <3>2. ctx[p] # "run" /\ p # NoProc
      BY <2>0 DEF Calling
    <3> QED BY <2>0, <3>1, <3>2, Zenon
  <2>2. ~panicked'
    <3>1. ~(ncli[c] # 1)
      BY <1>0, <2>1
    <3> QED BY <1>0, <1>12, <2>1, <3>1, Zenon DEF Sched
  <2>3. \A d \in CPU : d # c => proc[d] # p
    BY <1>12 DEF Sched, CPUInv
  <2> QED
    BY <1>12, <2>1, <2>2, <2>3, SchedContext DEF Sched
<1>13. ASSUME NEW p \in Slot, ResumeRelease(c, p) PROVE LockInv'
  <2>0. lock = c
    BY <1>13, SMTT(40) DEF ResumeRelease
  <2>1. PICK i \in BOOLEAN : Release(c, i, TRUE)
    <3>1. Release(c, saved[p], TRUE) \/ Release(c, intena[c], TRUE)
      BY <1>13, Zenon DEF ResumeRelease
    <3> QED BY <1>0, <3>1, Zenon
  <2>2. lock' = NoCPU /\ ~panicked'
    BY <1>0, <2>0, <2>1, ReleaseFacts, ZenonT(40)
  <2> QED
    BY <1>13, <2>0, <2>2, Outside, SMTT(90) DEF ResumeRelease, CallInv, CPUInv
<1>14. ASSUME NEW p \in Slot, ResumeWait(c, p) PROVE LockInv'
  BY <1>14, ProcAssumption DEF ResumeWait
<1>15. ASSUME NEW p \in Slot, Allocproc(c, p) PROVE LockInv'
  <2>1. lock' = lock
    BY <1>15, LockedFacts DEF Allocproc
  <2> QED
    BY <1>15, <2>1, ProcAssumption, SMTT(40) DEF Allocproc
<1>16. ASSUME NEW p \in Slot, Exit(c, p) PROVE LockInv'
  <2>1. /\ lock = NoCPU /\ lock' = c /\ proc[c] = p /\ ctx[p] = "run"
        /\ proc' = proc /\ scan' = scan /\ panicked' = panicked
        /\ ctx' = [ctx EXCEPT ![p] = "exiting"] /\ pc' = pc
    BY <1>16, Zenon DEF Exit, Acquire
  <2>2. \A d \in CPU : proc[d] = p => d = c
    BY <2>1, Executing
  <2> QED
    BY <2>1, <2>2, ProcAssumption
<1>17. ASSUME NEW p \in Slot, Wait(c, p) PROVE LockInv'
  <2>1. /\ lock = NoCPU /\ lock' = c /\ proc[c] = p /\ ctx[p] = "run"
        /\ proc' = proc /\ scan' = scan /\ panicked' = panicked
        /\ pc' = [pc EXCEPT ![p] = "wait"] /\ ctx' = ctx
    BY <1>17, Zenon DEF Wait, Acquire
  <2>2. \A d \in CPU : proc[d] = p => d = c
    BY <2>1, Executing
  <2> QED
    BY <2>1, <2>2, ProcAssumption
<1>18. ASSUME NEW p \in Slot, Fault(c, p) PROVE LockInv'
  BY <1>18, ProcAssumption DEF Fault
<1>19. ASSUME NEW p \in Slot, Yield(c, p) PROVE LockInv'
  <2>1. lock = NoCPU /\ lock' = c
    BY <1>19, Zenon DEF Yield, Acquire
  <2> QED
    BY <1>19, <2>1, ProcAssumption, Executing, SMTT(90) DEF Yield
<1>20. ASSUME NEW p \in Slot, NEW k \in KillPids, Kill(c, p, k) PROVE LockInv'
  <2>1. lock' = lock
    BY <1>20, LockedFacts DEF Kill
  <2> QED
    BY <1>20, <2>1, ProcAssumption DEF Kill
<1> QED
  BY <1>1, <1>2, <1>3, <1>4, <1>5, <1>6, <1>7, <1>8, <1>9, <1>10, <1>11, <1>12,
     <1>13, <1>14, <1>15, <1>16, <1>17, <1>18, <1>19, <1>20 DEF Kernel, User, Fork

\* What the step of one CPU leaves alone on the others.
Others(c) == \A d \in CPU : d # c =>
  /\ lock' = d <=> lock = d
  /\ ncli'[d] = ncli[d] /\ intena'[d] = intena[d] /\ fl'[d] = fl[d]
  /\ proc'[d] = proc[d]
  /\ proc[d] # NoProc => ctx'[proc[d]] = ctx[proc[d]] /\ pc'[proc[d]] = pc[proc[d]]

LEMMA OthersKept ==
  ASSUME TypeOK, IrqInv, NEW c \in CPU, Others(c), OwnLock(c)', OwnCall(c)',
         \A p \in Slot : OwnSleep(p)'
  PROVE  IrqInv'
<1>1. ASSUME NEW d \in CPU, d # c PROVE OwnLock(d)' /\ OwnCall(d)'
  <2>1. OwnLock(d) /\ OwnCall(d)
    BY DEF IrqInv
  <2>2. /\ lock' = d <=> lock = d
        /\ ncli'[d] = ncli[d] /\ intena'[d] = intena[d] /\ fl'[d] = fl[d]
        /\ proc'[d] = proc[d]
        /\ proc[d] # NoProc => ctx'[proc[d]] = ctx[proc[d]] /\ pc'[proc[d]] = pc[proc[d]]
    BY <1>1 DEF Others
  <2>3. OwnLock(d)'
    BY <2>1, <2>2 DEF OwnLock
  <2>4. OwnCall(d)'
    BY <2>1, <2>2 DEF OwnCall
  <2> QED BY <2>3, <2>4
<1> QED BY <1>1 DEF IrqInv

\* A step of process p on CPU c that leaves it in a system call other than wait().
LEMMA InCall ==
  ASSUME TypeOK, LockInv, CPUInv, IrqInv, NEW c \in CPU, NEW p \in Slot, proc[c] = p, ctx[p] = "run",
         proc' = proc, ctx' = [ctx EXCEPT ![p] = ctx'[p]], saved' = saved,
         pc' = [pc EXCEPT ![p] = pc'[p]],
         ctx'[p] # "sleep",
         pc'[p] = "wait" => ctx'[p] \notin {"run", "sleeping"} \/ intena'[c],
         ctx'[p] = "run" /\ lock' # c => fl'[c],
         OwnLock(c)', OthersIrq(c), lock' # lock => {lock, lock'} \subseteq {c, NoCPU}
  PROVE  IrqInv'
<1>1. \A d \in CPU : proc[d] = p => d = c
  BY Executing, Zenon
<1>2. Others(c)
  BY <1>1, ProcAssumption DEF Others, OthersIrq, TypeOK
<1>3. OwnCall(c)'
  BY DEF OwnCall
<1>4. ASSUME NEW q \in Slot PROVE OwnSleep(q)'
  BY DEF OwnSleep, IrqInv, TypeOK
<1> QED BY <1>2, <1>3, <1>4, OthersKept, Zenon

\* Every action keeps the interrupt state of CPUs and system calls.
LEMMA IrqStep ==
  ASSUME TypeOK, LockInv, CPUInv, IrqInv, CallInv, EmbryoInv, NEW c \in CPU, Kernel(c) \/ User(c)
  PROVE  IrqInv'
<1> USE DEF Slot, NoProc, irq, Calling, At, Goto, Syscall
<1>0. /\ intena[c] \in BOOLEAN /\ TRUE \in BOOLEAN /\ FALSE \in BOOLEAN
      /\ \A p \in Slot : saved[p] \in BOOLEAN
      /\ ncli[c] = (IF lock = c THEN 1 ELSE 0) /\ (fl[c] => lock # c)
      /\ c # NoCPU
  BY ProcAssumption DEF IrqInv, OwnLock, TypeOK
<1>1. CASE SchedulerAcquire(c)
  <2>1. lock = NoCPU /\ lock' = c /\ saved' = saved /\ OthersIrq(c) /\ ncli'[c] = ncli[c] + 1 /\ ~fl'[c]
    BY <1>1, AcquireFacts DEF SchedulerAcquire
  <2>2. scan[c] = 0 /\ UNCHANGED <<proc, ctx, pc>>
    BY <1>1, Zenon DEF SchedulerAcquire
  <2>3. OwnLock(c)'
    BY <1>0, <2>1 DEF OwnLock
  <2>4. OwnCall(c)' /\ Others(c) /\ \A p \in Slot : OwnSleep(p)'
    <3>1. OwnCall(c)'
      BY <1>0, <2>1, <2>2 DEF OwnCall, LockInv
    <3>2. Others(c)
      BY <1>0, <2>1, <2>2, ProcAssumption DEF Others, OthersIrq
    <3>3. \A p \in Slot : OwnSleep(p)'
      BY <1>0, <2>1, <2>2 DEF OwnSleep, IrqInv
    <3> QED BY <3>1, <3>2, <3>3
  <2> QED BY <2>3, <2>4, OthersKept, Zenon
<1>2. CASE SchedulerSwitch(c)
  <2>1. PICK p \in Slot : SwitchTo(c, p)
    BY <1>2, Switched
  <2>2. scan[c] # 0 /\ proc[c] = NoProc /\ state[p] = "RUNNABLE" /\ proc' = [proc EXCEPT ![c] = p]
        /\ UNCHANGED <<lock, ctx, pc, ncli, intena, fl, saved>>
    BY <2>1, Zenon DEF SwitchTo
  <2>3. lock = c
    BY <2>2 DEF LockInv
  <2>4. ctx[p] # "run"
    BY <2>2 DEF CPUInv
  <2>5. ctx[p] # "sleeping"
    <3> SUFFICES ASSUME ctx[p] = "sleeping" PROVE FALSE
      OBVIOUS
    <3>1. PICK d \in CPU : proc[d] = p
      BY DEF CPUInv
    <3>2. d # c /\ lock # d /\ proc[d] # NoProc
      BY <2>2, <2>3, <3>1
    <3>3. ctx[proc[d]] = "run"
      BY <3>2, Outside, Zenon
    <3> QED BY <3>1, <3>3
  <2>6. Others(c) /\ OwnLock(c)' /\ \A q \in Slot : OwnSleep(q)'
    BY <2>2, <1>0 DEF Others, OwnLock, OwnSleep, IrqInv, TypeOK
  <2>7. proc'[c] = p
    BY <2>2 DEF TypeOK
  <2>8. OwnCall(c)'
    BY <2>2, <2>3, <2>4, <2>5, <2>7 DEF OwnCall
  <2> QED BY <2>6, <2>8, OthersKept, Zenon
<1>3. CASE SchedulerRelease(c)
  <2>1. proc[c] = NoProc /\ scan[c] # 0 /\ UNCHANGED <<proc, ctx, pc>>
    BY <1>3, Zenon DEF SchedulerRelease
  <2>2. lock = c
    BY <2>1 DEF LockInv
  <2>3. PICK i \in BOOLEAN : Release(c, i, FALSE)
    BY <1>0, <1>3, Zenon DEF SchedulerRelease
  <2>4. lock' = NoCPU /\ saved' = saved /\ OthersIrq(c) /\ ncli'[c] = ncli[c] - 1
    BY <1>0, <2>3, ReleaseFacts, Zenon
  <2>5. OwnLock(c)'
    BY <1>0, <2>2, <2>4 DEF OwnLock
  <2>6. OwnCall(c)' /\ Others(c) /\ \A p \in Slot : OwnSleep(p)'
    <3>1. OwnCall(c)'
      BY <1>0, <2>1, <2>2, <2>4 DEF OwnCall, LockInv
    <3>2. Others(c)
      BY <1>0, <2>1, <2>2, <2>4, ProcAssumption DEF Others, OthersIrq
    <3>3. \A p \in Slot : OwnSleep(p)'
      BY <1>0, <2>1, <2>2, <2>4 DEF OwnSleep, IrqInv
    <3> QED BY <3>1, <3>2, <3>3
  <2> QED BY <2>5, <2>6, OthersKept, Zenon
<1>4. ASSUME NEW p \in Slot, ForkNoStack(c, p) \/ ForkNoMemory(c, p) \/ ForkCopy(c, p) \/ Fault(c, p)
      PROVE  IrqInv'
  <2>1. /\ proc[c] = p /\ ctx[p] = "run" /\ UNCHANGED <<lock, proc, ctx, ncli, intena, fl, saved>>
        /\ pc' = [pc EXCEPT ![p] = pc'[p]] /\ pc'[p] # "wait"
    BY <1>4 DEF ForkNoStack, ForkNoMemory, ForkCopy, Fault, TypeOK
  <2>2. ctx' = [ctx EXCEPT ![p] = ctx'[p]]
    BY <2>1 DEF TypeOK
  <2>3. OwnLock(c)' /\ OthersIrq(c) /\ (lock # c => fl'[c])
    BY <1>0, <2>1 DEF OwnLock, OthersIrq, IrqInv, OwnCall
  <2> QED BY <2>1, <2>2, <2>3, InCall
<1>5. ASSUME NEW p \in Slot, ForkStack(c, p) PROVE IrqInv'
  <2>1. /\ proc[c] = p /\ ctx[p] = "run" /\ UNCHANGED <<lock, proc, ncli, intena, fl, saved>>
        /\ pc[p] = "fork_kalloc" /\ ctx' = [ctx EXCEPT ![np[p]] = "forkret"]
        /\ pc' = [pc EXCEPT ![np[p]] = "user", ![p] = "fork_copyuvm"]
    BY <1>5, Zenon DEF ForkStack
  <2>2. np[p] \in Slot /\ \A d \in CPU : proc[d] # np[p]
    BY <2>1, Building, Zenon DEF Forking
  <2>3. \A d \in CPU : proc[d] = p => d = c
    BY <2>1, Executing, Zenon
  <2>4. Others(c)
    BY <2>1, <2>2, <2>3 DEF Others, TypeOK
  <2>5. OwnLock(c)' /\ OwnCall(c)'
    BY <1>0, <2>1, <2>2 DEF OwnLock, OwnCall, IrqInv, TypeOK
  <2>6. ASSUME NEW q \in Slot PROVE OwnSleep(q)'
    BY <2>1, <2>2 DEF OwnSleep, IrqInv, TypeOK
  <2> QED BY <2>4, <2>5, <2>6, OthersKept, Zenon
<1>6. ASSUME NEW p \in Slot, Locked(c), proc[c] = p, ctx[p] = "run", UNCHANGED <<proc, ctx>>,
             pc' = [pc EXCEPT ![p] = pc'[p]], pc'[p] # "wait"
      PROVE  IrqInv'
  <2>1. lock = NoCPU /\ lock' = NoCPU /\ saved' = saved /\ OthersIrq(c) /\ ncli' = ncli /\ fl'[c]
    BY <1>6, LockedFacts, Zenon
  <2>2. OwnLock(c)' /\ ctx' = [ctx EXCEPT ![p] = ctx'[p]]
    BY <1>0, <1>6, <2>1 DEF OwnLock, TypeOK
  <2> QED BY <1>6, <2>1, <2>2, InCall
<1>7. ASSUME NEW p \in Slot, ForkRunnable(c, p) PROVE IrqInv'
  <2>1. Locked(c) /\ proc[c] = p /\ ctx[p] = "run" /\ UNCHANGED <<proc, ctx>>
        /\ pc' = [pc EXCEPT ![p] = "user"]
    BY <1>7, Zenon DEF ForkRunnable
  <2> QED BY <2>1, <1>6 DEF TypeOK
<1>8. ASSUME NEW p \in Slot, Allocproc(c, p) PROVE IrqInv'
  <2>1. Locked(c) /\ proc[c] = p /\ ctx[p] = "run" /\ UNCHANGED <<proc, ctx>>
        /\ pc' = [pc EXCEPT ![p] = "fork_kalloc"]
    BY <1>8, Zenon DEF Allocproc
  <2> QED BY <2>1, <1>6 DEF TypeOK
<1>9. ASSUME NEW p \in Slot, NEW k \in KillPids, Kill(c, p, k) PROVE IrqInv'
  <2>1. Locked(c) /\ proc[c] = p /\ ctx[p] = "run" /\ pc[p] = "user" /\ UNCHANGED <<proc, ctx, pc>>
    BY <1>9, Zenon DEF Kill
  <2> QED BY <2>1, <1>6 DEF TypeOK
<1>10. ASSUME NEW p \in Slot, WaitReap(c, p) \/ WaitFail(c, p) PROVE IrqInv'
  <2>1. /\ proc[c] = p /\ ctx[p] = "run" /\ pc[p] = "wait" /\ Release(c, intena[c], FALSE)
        /\ UNCHANGED <<proc, ctx>> /\ pc' = [pc EXCEPT ![p] = "user"]
    BY <1>10, Zenon DEF WaitReap, WaitFail
  <2>2. lock = c /\ intena[c]
    BY <2>1 DEF LockInv, IrqInv, OwnCall
  <2>3. PICK i \in BOOLEAN : i = intena[c] /\ Release(c, i, FALSE)
    BY <1>0, <2>1, Zenon
  <2>4. /\ lock' = NoCPU /\ saved' = saved /\ OthersIrq(c) /\ ncli'[c] = ncli[c] - 1
        /\ ncli[c] = 1 /\ i => fl'[c]
    BY <1>0, <2>3, ReleaseFacts, Zenon
  <2>5. fl'[c] /\ OwnLock(c)' /\ ctx' = [ctx EXCEPT ![p] = ctx'[p]] /\ pc'[p] = "user"
    BY <1>0, <2>1, <2>2, <2>3, <2>4 DEF OwnLock, TypeOK
  <2> QED BY <2>1, <2>2, <2>4, <2>5, InCall
<1>11. ASSUME NEW p \in Slot, WaitSleep(c, p) PROVE IrqInv'
  <2>1. /\ proc[c] = p /\ ctx[p] = "run" /\ pc[p] = "wait" /\ ctx' = [ctx EXCEPT ![p] = "sleeping"]
        /\ UNCHANGED <<proc, pc, lock, ncli, intena, fl, saved>>
    BY <1>11, Zenon DEF WaitSleep
  <2>2. lock = c /\ intena[c] /\ OwnLock(c)' /\ OthersIrq(c)
    BY <1>0, <2>1 DEF LockInv, IrqInv, OwnCall, OwnLock, OthersIrq
  <2>3. pc' = [pc EXCEPT ![p] = pc'[p]] /\ ctx'[p] = "sleeping"
    BY <2>1 DEF TypeOK
  <2> QED BY <2>1, <2>2, <2>3, InCall
<1>12. ASSUME NEW p \in Slot, Sched(c, p) PROVE IrqInv'
  <2>1. /\ proc[c] = p /\ proc' = [proc EXCEPT ![c] = NoProc]
        /\ saved' = [saved EXCEPT ![p] = intena[c]]
        /\ UNCHANGED <<lock, ncli, intena, fl, pc>>
    BY <1>12, Zenon DEF Sched
  <2>2. /\ \A q \in Slot : q # p => ctx'[q] = ctx[q]
        /\ ctx'[p] = "sleep" <=> ctx[p] = "sleeping"
    BY <1>12, SchedContext, Zenon
  <2>3. \A d \in CPU : proc[d] = p => d = c
    BY <2>1 DEF CPUInv
  <2>4. Others(c)
    BY <2>1, <2>2, <2>3 DEF Others, TypeOK
  <2>5. OwnLock(c)' /\ OwnCall(c)'
    BY <1>0, <2>1 DEF OwnLock, OwnCall, TypeOK
  <2>6. ASSUME NEW q \in Slot PROVE OwnSleep(q)'
    BY <2>1, <2>2 DEF OwnSleep, OwnCall, IrqInv, TypeOK
  <2> QED BY <2>4, <2>5, <2>6, OthersKept, Zenon
<1>13. ASSUME NEW p \in Slot, NEW x \in CTX, proc[c] = p, ctx[p] = x,
              x # "run", lock = c, ctx' = [ctx EXCEPT ![p] = "run"], UNCHANGED <<proc, pc, saved>>,
              lock' \in {c, NoCPU}, OthersIrq(c), OwnLock(c)', OwnCall(c)'
      PROVE  IrqInv'
  <2>1. \A d \in CPU : proc[d] = p => d = c
    BY <1>13 DEF CPUInv
  <2>2. Others(c)
    BY <1>0, <1>13, <2>1, ProcAssumption DEF Others, OthersIrq, TypeOK
  <2>3. \A q \in Slot : OwnSleep(q)'
    BY <1>13 DEF OwnSleep, IrqInv, TypeOK
  <2> QED BY <1>13, <2>2, <2>3, OthersKept, Zenon
<1>14. ASSUME NEW p \in Slot, ResumeRelease(c, p) PROVE IrqInv'
  <2>1. /\ proc[c] = p /\ ctx[p] \in {"forkret", "yield"} /\ ctx' = [ctx EXCEPT ![p] = "run"]
        /\ UNCHANGED <<proc, pc>>
        /\ Release(c, saved[p], TRUE) \/ Release(c, intena[c], TRUE)
    BY <1>14, Zenon DEF ResumeRelease
  <2>2. lock = c /\ pc[p] # "wait"
    BY <2>1 DEF LockInv, CallInv
  <2>3. PICK i \in BOOLEAN : Release(c, i, TRUE)
    BY <1>0, <2>1, Zenon
  <2>4. /\ lock' = NoCPU /\ saved' = saved /\ OthersIrq(c) /\ ncli'[c] = ncli[c] - 1
        /\ ncli[c] = 1 => fl'[c]
    BY <1>0, <2>3, ReleaseFacts, Zenon
  <2>5. OwnLock(c)' /\ fl'[c]
    BY <1>0, <2>2, <2>4 DEF OwnLock
  <2>6. OwnCall(c)'
    BY <2>1, <2>2, <2>5 DEF OwnCall
  <2> QED BY <1>13, <2>1, <2>2, <2>4, <2>5, <2>6 DEF TypeOK
<1>15. ASSUME NEW p \in Slot, ResumeWait(c, p) PROVE IrqInv'
  <2>1. /\ proc[c] = p /\ ctx[p] = "sleep" /\ ctx' = [ctx EXCEPT ![p] = "run"]
        /\ intena' = [intena EXCEPT ![c] = saved[p]]
        /\ UNCHANGED <<proc, pc, lock, ncli, fl, saved>>
    BY <1>15, Zenon DEF ResumeWait
  <2>2. lock = c /\ OthersIrq(c) /\ OwnLock(c)'
    BY <1>0, <2>1 DEF LockInv, OthersIrq, OwnLock, TypeOK
  <2>3. pc[p] = "wait" => saved[p]
    BY <2>1 DEF IrqInv, OwnSleep
  <2>4. OwnCall(c)'
    BY <2>1, <2>2, <2>3 DEF OwnCall, TypeOK
  <2> QED BY <1>13, <2>1, <2>2, <2>4 DEF TypeOK
<1>16. ASSUME NEW p \in Slot, NEW on \in BOOLEAN, Acquire(c, on), proc[c] = p, ctx[p] = "run",
              proc' = proc, ctx' = [ctx EXCEPT ![p] = ctx'[p]], ctx'[p] # "sleep",
              pc' = [pc EXCEPT ![p] = pc'[p]],
              pc'[p] = "wait" => ctx'[p] \notin {"run", "sleeping"} \/ on
      PROVE  IrqInv'
  <2>1. /\ lock = NoCPU /\ lock' = c /\ saved' = saved /\ OthersIrq(c)
        /\ ncli'[c] = ncli[c] + 1 /\ ~fl'[c] /\ (ncli[c] = 0 => intena'[c] = on)
    <3>1. Acquire(c, on)
      BY <1>16, Zenon
    <3> QED BY <3>1, AcquireFacts, Zenon
  <2>2. OwnLock(c)' /\ intena'[c] = on
    BY <1>0, <2>1 DEF OwnLock
  <2>3. pc'[p] = "wait" => ctx'[p] \notin {"run", "sleeping"} \/ intena'[c]
    BY <1>16, <2>2
  <2> QED BY <1>16, <2>1, <2>2, <2>3, InCall
<1>17. ASSUME NEW p \in Slot, Exit(c, p) PROVE IrqInv'
  <2>1. PICK on \in BOOLEAN : Acquire(c, on)
    BY <1>17, Zenon DEF Exit
  <2>2. /\ proc[c] = p /\ ctx[p] = "run" /\ pc[p] = "user" /\ UNCHANGED <<proc, pc>>
        /\ ctx' = [ctx EXCEPT ![p] = "exiting"]
    BY <1>17, Zenon DEF Exit
  <2>3. ctx'[p] = "exiting" /\ pc' = [pc EXCEPT ![p] = pc'[p]] /\ pc'[p] = "user"
    BY <2>2 DEF TypeOK
  <2> QED BY <1>16, <2>1, <2>2, <2>3
<1>18. ASSUME NEW p \in Slot, Wait(c, p) PROVE IrqInv'
  <2>1. PICK on \in BOOLEAN : on /\ Acquire(c, on)
    BY <1>0, <1>18, Zenon DEF Wait
  <2>2. /\ proc[c] = p /\ ctx[p] = "run" /\ UNCHANGED <<proc, ctx>>
        /\ pc' = [pc EXCEPT ![p] = "wait"]
    BY <1>18, Zenon DEF Wait
  <2>3. ctx' = [ctx EXCEPT ![p] = ctx'[p]] /\ pc' = [pc EXCEPT ![p] = pc'[p]]
    BY <2>2 DEF TypeOK
  <2> QED BY <1>16, <2>1, <2>2, <2>3
<1>19. ASSUME NEW p \in Slot, Yield(c, p) PROVE IrqInv'
  <2>1. PICK on \in BOOLEAN : Acquire(c, on)
    BY <1>0, <1>19, Zenon DEF Yield
  <2>2. /\ proc[c] = p /\ ctx[p] = "run" /\ UNCHANGED <<proc, pc>>
        /\ ctx' = [ctx EXCEPT ![p] = "yielding"]
    BY <1>19, Zenon DEF Yield
  <2>3. ctx'[p] = "yielding" /\ pc' = [pc EXCEPT ![p] = pc'[p]]
    BY <2>2 DEF TypeOK
  <2> QED BY <1>16, <2>1, <2>2, <2>3
<1> QED
  BY <1>1, <1>2, <1>3, <1>4, <1>5, <1>7, <1>8, <1>9, <1>10, <1>11, <1>12,
     <1>14, <1>15, <1>17, <1>18, <1>19 DEF Kernel, User, Fork

\* Every action keeps processes and CPUs together.
LEMMA CPUStep ==
  ASSUME TypeOK, LockInv, CPUInv, CallInv, EmbryoInv, NEW c \in CPU, Kernel(c) \/ User(c)
  PROVE  CPUInv'
<1> USE DEF TypeOK, Slot, NoProc, State, PC, CTX, At, Goto, Syscall, irq, Acquire, Release, Locked, NoStack, Calling, CPUInv
<1>1. CASE SchedulerAcquire(c)
  BY <1>1, ProcAssumption DEF SchedulerAcquire
<1>2. CASE SchedulerSwitch(c)
  <2>1. PICK p \in Slot : SwitchTo(c, p)
    BY <1>2, Switched
  <2>2. \A d \in CPU : proc[d] # p
    <3>1. lock = c
      BY <2>1 DEF SwitchTo, LockInv
    <3>2. ASSUME NEW d \in CPU, proc[d] = p PROVE FALSE
      <4>1. d # c
        BY <2>1, <3>2 DEF SwitchTo
      <4>2. ctx[p] = "run"
        <5>1. lock # d /\ proc[d] # NoProc
          BY <3>1, <3>2, <4>1
        <5> QED BY <3>2, <5>1, Outside, Zenon
      <4>3. state[p] = "RUNNING"
        BY <3>2, <4>2, Executing, Zenon
      <4> QED
        BY <2>1, <4>3 DEF SwitchTo
    <3> QED
      BY <3>2
  <2> QED
    BY <2>1, <2>2 DEF SwitchTo
<1>3. CASE SchedulerRelease(c)
  BY <1>3, ProcAssumption DEF SchedulerRelease
<1>4. ASSUME NEW p \in Slot, ForkNoStack(c, p) PROVE CPUInv'
  BY <1>4, Building, SMTT(40) DEF ForkNoStack, Forking
<1>5. ASSUME NEW p \in Slot, ForkStack(c, p) PROVE CPUInv'
  <2>1. /\ pc[p] \in Forking /\ ctx' = [ctx EXCEPT ![np[p]] = "forkret"]
        /\ UNCHANGED <<proc, state>>
    BY <1>5, Zenon DEF ForkStack, Forking
  <2>2. np[p] \in Slot /\ \A d \in CPU : proc[d] # np[p]
    BY <2>1, Building, Zenon
  <2>3. \A q \in Slot : q # np[p] => ctx'[q] = ctx[q]
    BY <2>1
  <2>4. ctx'[np[p]] \notin Calling
    BY <2>1, <2>2
  <2> QED
    BY <2>1, <2>2, <2>3, <2>4
<1>6. ASSUME NEW p \in Slot, ForkNoMemory(c, p) PROVE CPUInv'
  BY <1>6, Building, SMTT(40) DEF ForkNoMemory, Forking
<1>7. ASSUME NEW p \in Slot, ForkCopy(c, p) PROVE CPUInv'
  BY <1>7, ProcAssumption, SMTT(40) DEF ForkCopy
<1>8. ASSUME NEW p \in Slot, ForkRunnable(c, p) PROVE CPUInv'
  BY <1>8, Building, SMTT(40) DEF ForkRunnable, Forking
<1>9. ASSUME NEW p \in Slot, WaitReap(c, p) PROVE CPUInv'
  <2>1. PICK q \in Slot : Reap(c, p, q)
    BY <1>9, Reaped
  <2>2. lock = c /\ state[p] = "RUNNING"
    <3>1. proc[c] = p /\ ctx[p] = "run" /\ pc[p] = "wait"
      BY <2>1, Zenon DEF Reap
    <3>2. p # NoProc
      OBVIOUS
    <3>3. lock = c
      BY <3>1, <3>2, Zenon DEF LockInv
    <3> QED BY <3>1, <3>3, Executing, Zenon
  <2>3. \A d \in CPU : proc[d] # q
    <3>1. ASSUME NEW d \in CPU, proc[d] = q PROVE FALSE
      <4>1. d # c
        BY <2>1, <2>2, <3>1 DEF Reap
      <4>2. ctx[q] = "run"
        BY <2>2, <3>1, <4>1, Outside, SMTT(90)
      <4>3. state[q] = "RUNNING"
        BY <3>1, <4>2, Executing, Zenon
      <4> QED
        BY <2>1, <4>3 DEF Reap
    <3> QED
      BY <3>1
  <2> QED
    BY <2>1, <2>3 DEF Reap
<1>10. ASSUME NEW p \in Slot, WaitFail(c, p) PROVE CPUInv'
  BY <1>10, ProcAssumption, SMTT(40) DEF WaitFail
<1>11. ASSUME NEW p \in Slot, WaitSleep(c, p) PROVE CPUInv'
  BY <1>11, ProcAssumption, SMTT(40) DEF WaitSleep
<1>12. ASSUME NEW p \in Slot, Sched(c, p) PROVE CPUInv'
  <2>1. /\ proc[c] = p /\ proc' = [proc EXCEPT ![c] = NoProc] /\ state' = state
    BY <1>12, Zenon DEF Sched
  <2>2. state[p] # "RUNNING"
    BY <1>12, SchedContext
  <2>3. /\ ctx'[p] \in {"yield", "sleep", "exit"}
        /\ \A q \in Slot : q # p => ctx'[q] = ctx[q]
    BY <1>12, SchedContext
  <2> QED
    BY <2>1, <2>2, <2>3
<1>13. ASSUME NEW p \in Slot, ResumeRelease(c, p) PROVE CPUInv'
  BY <1>13 DEF ResumeRelease
<1>14. ASSUME NEW p \in Slot, ResumeWait(c, p) PROVE CPUInv'
  BY <1>14, ProcAssumption, SMTT(40) DEF ResumeWait
<1>15. ASSUME NEW p \in Slot, Allocproc(c, p) PROVE CPUInv'
  <2>1. PICK q \in Slot : /\ state[q] = "UNUSED" /\ state' = [state EXCEPT ![q] = "EMBRYO"]
                          /\ UNCHANGED <<proc, ctx>>
    BY <1>15 DEF Allocproc
  <2>2. ctx[q] # "run" /\ \A d \in CPU : proc[d] # q
    BY <2>1, SMTT(40) DEF NoStack
  <2> QED
    BY <2>1, <2>2
<1>16. ASSUME NEW p \in Slot, Exit(c, p) PROVE CPUInv'
  <2>1. /\ proc[c] = p /\ ctx[p] = "run" /\ proc' = proc
        /\ ctx' = [ctx EXCEPT ![p] = "exiting"]
    BY <1>16, Zenon DEF Exit
  <2>2. /\ state'[p] = "ZOMBIE"
        /\ \A q \in Slot : q # p =>
             state'[q] = state[q] \/ (state[q] = "SLEEPING" /\ state'[q] = "RUNNABLE")
    <3> HIDE DEF TypeOK, CPUInv, Slot, At
    <3> QED
      BY <1>16, Exiting, Zenon
  <2>3. \A q \in Slot : q # p =>
          /\ state'[q] \in NoStack => state[q] \in NoStack
          /\ state'[q] = "RUNNING" <=> state[q] = "RUNNING"
    BY <2>2
  <2>4. \A d \in CPU : proc[d] = p => d = c
    BY <2>1, Executing
  <2> HIDE DEF NoStack
  <2>5. ASSUME NEW d \in CPU, proc[d] # NoProc
        PROVE  state'[proc[d]] \notin NoStack
    BY <2>1, <2>2, <2>3, <2>5 DEF NoStack
  <2>7. \A q \in Slot : ctx'[q] = "run" => state'[q] = "RUNNING"
    BY <2>1, <2>3
  <2>6. ASSUME NEW q \in Slot, state'[q] = "RUNNING" \/ ctx'[q] \in Calling
        PROVE  (\E d \in CPU : proc[d] = q) /\ (ctx'[q] \in Calling => state'[q] # "RUNNING")
    <3>1. CASE q = p
      BY <2>1, <2>2, <3>1
    <3>2. CASE q # p
      BY <2>1, <2>3, <2>6, <3>2
    <3> QED BY <3>1, <3>2
  <2> QED
    BY <2>1, <2>2, <2>3, <2>5, <2>6, <2>7
<1>17. ASSUME NEW p \in Slot, Wait(c, p) PROVE CPUInv'
  BY <1>17, ProcAssumption DEF Wait
<1>18. ASSUME NEW p \in Slot, Fault(c, p) PROVE CPUInv'
  BY <1>18, ProcAssumption, SMTT(40) DEF Fault
<1>19. ASSUME NEW p \in Slot, Yield(c, p) PROVE CPUInv'
  BY <1>19, ProcAssumption, SMTT(40) DEF Yield
<1>20. ASSUME NEW p \in Slot, NEW k \in KillPids, Kill(c, p, k) PROVE CPUInv'
  BY <1>20, ProcAssumption, SMTT(40) DEF Kill
<1> QED
  BY <1>1, <1>2, <1>3, <1>4, <1>5, <1>6, <1>7, <1>8, <1>9, <1>10, <1>11, <1>12,
     <1>13, <1>14, <1>15, <1>16, <1>17, <1>18, <1>19, <1>20 DEF Kernel, User, Fork

\* Every action keeps system calls with live processes.
LEMMA CallStep ==
  ASSUME TypeOK, LockInv, CPUInv, CallInv, EmbryoInv, NEW c \in CPU, Kernel(c) \/ User(c)
  PROVE  CallInv'
<1> USE DEF TypeOK, Slot, NoProc, State, PC, CTX, At, Goto, Syscall, irq, Acquire, Release, Locked, Dead, CallInv
<1>1. CASE SchedulerAcquire(c)
  BY <1>1, ProcAssumption DEF SchedulerAcquire
<1>2. CASE SchedulerSwitch(c)
  <2>1. PICK p \in Slot : SwitchTo(c, p)
    BY <1>2, Switched
  <2> QED
    BY <2>1, ProcAssumption DEF SwitchTo
<1>3. CASE SchedulerRelease(c)
  BY <1>3, ProcAssumption DEF SchedulerRelease
<1>4. ASSUME NEW p \in Slot, ForkNoStack(c, p) PROVE CallInv'
  BY <1>4, Building, Executing DEF ForkNoStack, Forking
<1>5. ASSUME NEW p \in Slot, ForkStack(c, p) PROVE CallInv'
  BY <1>5, ProcAssumption DEF ForkStack
<1>6. ASSUME NEW p \in Slot, ForkNoMemory(c, p) PROVE CallInv'
  BY <1>6, Building, Executing DEF ForkNoMemory, Forking
<1>7. ASSUME NEW p \in Slot, ForkCopy(c, p) PROVE CallInv'
  BY <1>7, ProcAssumption DEF ForkCopy
<1>8. ASSUME NEW p \in Slot, ForkRunnable(c, p) PROVE CallInv'
  BY <1>8, ProcAssumption DEF ForkRunnable
<1>9. ASSUME NEW p \in Slot, WaitReap(c, p) PROVE CallInv'
  <2>1. PICK q \in Slot : Reap(c, p, q)
    BY <1>9, Reaped
  <2> QED
    BY <2>1, ProcAssumption DEF Reap
<1>10. ASSUME NEW p \in Slot, WaitFail(c, p) PROVE CallInv'
  BY <1>10, ProcAssumption DEF WaitFail
<1>11. ASSUME NEW p \in Slot, WaitSleep(c, p) PROVE CallInv'
  BY <1>11, ProcAssumption DEF WaitSleep
<1>12. ASSUME NEW p \in Slot, Sched(c, p) PROVE CallInv'
  <2>1. /\ state' = state /\ pc' = pc
        /\ ctx'[p] = "yield" => ctx[p] = "yielding"
        /\ ctx'[p] # "forkret" /\ ctx'[p] # "yielding"
        /\ \A q \in Slot : q # p => ctx'[q] = ctx[q]
    <3>1. state' = state /\ pc' = pc
      BY <1>12, Zenon DEF Sched
    <3>2. /\ ctx'[p] \in {"yield", "sleep", "exit"} /\ (ctx'[p] = "yield" <=> ctx[p] = "yielding")
          /\ \A q \in Slot : q # p => ctx'[q] = ctx[q]
      <4> HIDE DEF TypeOK, CallInv, Slot
      <4> QED BY <1>12, SchedContext
    <3> QED BY <3>1, <3>2
  <2> QED
    BY <2>1
<1>13. ASSUME NEW p \in Slot, ResumeRelease(c, p) PROVE CallInv'
  BY <1>13, ProcAssumption DEF ResumeRelease
<1>14. ASSUME NEW p \in Slot, ResumeWait(c, p) PROVE CallInv'
  BY <1>14, ProcAssumption DEF ResumeWait
<1>15. ASSUME NEW p \in Slot, Allocproc(c, p) PROVE CallInv'
  BY <1>15, Executing, SMTT(40) DEF Allocproc
<1>16. ASSUME NEW p \in Slot, Exit(c, p) PROVE CallInv'
  BY <1>16, ProcAssumption DEF Exit, Wakeup1
<1>17. ASSUME NEW p \in Slot, Wait(c, p) PROVE CallInv'
  BY <1>17, Executing, SMTT(40) DEF Wait
<1>18. ASSUME NEW p \in Slot, Fault(c, p) PROVE CallInv'
  BY <1>18, ProcAssumption DEF Fault
<1>19. ASSUME NEW p \in Slot, Yield(c, p) PROVE CallInv'
  <2>1. pc[p] # "wait"
    <3>1. lock # c /\ proc[c] = p /\ p # NoProc
      BY <1>19, ProcAssumption DEF Yield
    <3> QED
      BY <3>1, Outside
  <2>2. state[p] = "RUNNING"
    BY <1>19, Executing DEF Yield
  <2>3. /\ ctx' = [ctx EXCEPT ![p] = "yielding"] /\ pc' = pc
        /\ state' = [state EXCEPT ![p] = "RUNNABLE"]
    BY <1>19, Zenon DEF Yield
  <2> QED
    BY <2>1, <2>2, <2>3
<1>20. ASSUME NEW p \in Slot, NEW k \in KillPids, Kill(c, p, k) PROVE CallInv'
  BY <1>20, ProcAssumption DEF Kill
<1> QED
  BY <1>1, <1>2, <1>3, <1>4, <1>5, <1>6, <1>7, <1>8, <1>9, <1>10, <1>11, <1>12,
     <1>13, <1>14, <1>15, <1>16, <1>17, <1>18, <1>19, <1>20 DEF Kernel, User, Fork

\* Every action keeps fork's EMBRYOs apart.
LEMMA EmbryoStep ==
  ASSUME TypeOK, CPUInv, CallInv, EmbryoInv, FamilyInv, NEW c \in CPU, Kernel(c) \/ User(c)
  PROVE  EmbryoInv'
<1> USE DEF TypeOK, Slot, NoProc, State, PC, CTX, At, Goto, Syscall, Forking, EmbryoInv
<1>1. CASE SchedulerAcquire(c)
  BY <1>1, ProcAssumption DEF SchedulerAcquire
<1>2. CASE SchedulerSwitch(c)
  <2>1. PICK p \in Slot : SwitchTo(c, p)
    BY <1>2, Switched
  <2> QED
    BY <2>1, ProcAssumption, SMTT(40) DEF SwitchTo
<1>3. CASE SchedulerRelease(c)
  BY <1>3, ProcAssumption DEF SchedulerRelease
<1>4. ASSUME NEW p \in Slot, ForkNoStack(c, p) PROVE EmbryoInv'
  BY <1>4, ProcAssumption, SMTT(40) DEF ForkNoStack
<1>5. ASSUME NEW p \in Slot, ForkStack(c, p) PROVE EmbryoInv'
  <2>1. /\ pc[p] = "fork_kalloc" /\ np[p] \in Slot /\ state[np[p]] = "EMBRYO"
        /\ parent[np[p]] = NoProc
    BY <1>5 DEF ForkStack
  <2>2. np[p] # p /\ pc[np[p]] = "user"
    BY <2>1 DEF CallInv, Dead
  <2>3. /\ pc' = [pc EXCEPT ![np[p]] = "user", ![p] = "fork_copyuvm"]
        /\ UNCHANGED <<state, parent, np>>
    BY <1>5 DEF ForkStack
  <2>4. /\ pc'[p] = "fork_copyuvm" /\ pc'[np[p]] = "user"
        /\ \A q \in Slot : q # p /\ q # np[p] => pc'[q] = pc[q]
    BY <2>1, <2>2, <2>3
  <2>5. \A q \in Slot : pc'[q] \in Forking => pc[q] \in Forking /\ (pc'[q] = "fork_runnable" <=> pc[q] = "fork_runnable")
    BY <2>1, <2>4
  <2> HIDE DEF Forking
  <2> QED
    BY <2>3, <2>5
<1>6. ASSUME NEW p \in Slot, ForkNoMemory(c, p) PROVE EmbryoInv'
  BY <1>6, ProcAssumption, SMTT(40) DEF ForkNoMemory
<1>7. ASSUME NEW p \in Slot, ForkCopy(c, p) PROVE EmbryoInv'
  BY <1>7, ProcAssumption, SMTT(40) DEF ForkCopy
<1>8. ASSUME NEW p \in Slot, ForkRunnable(c, p) PROVE EmbryoInv'
  BY <1>8, ProcAssumption, SMTT(40) DEF ForkRunnable
<1>9. ASSUME NEW p \in Slot, WaitReap(c, p) PROVE EmbryoInv'
  <2>1. PICK q \in Slot : Reap(c, p, q)
    BY <1>9, Reaped
  <2> QED
    BY <2>1, ProcAssumption, SMTT(40) DEF Reap
<1>10. ASSUME NEW p \in Slot, WaitFail(c, p) PROVE EmbryoInv'
  BY <1>10, ProcAssumption DEF WaitFail
<1>11. ASSUME NEW p \in Slot, WaitSleep(c, p) PROVE EmbryoInv'
  BY <1>11, Executing, SMTT(40) DEF WaitSleep
<1>12. ASSUME NEW p \in Slot, Sched(c, p) PROVE EmbryoInv'
  BY <1>12, ProcAssumption DEF Sched
<1>13. ASSUME NEW p \in Slot, ResumeRelease(c, p) PROVE EmbryoInv'
  BY <1>13, ProcAssumption DEF ResumeRelease
<1>14. ASSUME NEW p \in Slot, ResumeWait(c, p) PROVE EmbryoInv'
  BY <1>14, ProcAssumption DEF ResumeWait
<1>15. ASSUME NEW p \in Slot, Allocproc(c, p) PROVE EmbryoInv'
  <2>1. PICK q \in Slot :
          /\ state[q] = "UNUSED"
          /\ state' = [state EXCEPT ![q] = "EMBRYO"]
          /\ np' = [np EXCEPT ![p] = q]
    BY <1>15 DEF Allocproc
  <2>2. pc' = [pc EXCEPT ![p] = "fork_kalloc"] /\ parent' = parent
    BY <1>15, Zenon DEF Allocproc
  <2>3. parent[q] = NoProc
    BY <2>1 DEF FamilyInv
  <2> QED
    BY <2>1, <2>2, <2>3
<1>16. ASSUME NEW p \in Slot, Exit(c, p) PROVE EmbryoInv'
  BY <1>16, Executing, SMTT(40) DEF Exit, Wakeup1, CallInv, Dead
<1>17. ASSUME NEW p \in Slot, Wait(c, p) PROVE EmbryoInv'
  BY <1>17, ProcAssumption DEF Wait
<1>18. ASSUME NEW p \in Slot, Fault(c, p) PROVE EmbryoInv'
  BY <1>18, ProcAssumption DEF Fault
<1>19. ASSUME NEW p \in Slot, Yield(c, p) PROVE EmbryoInv'
  BY <1>19, Executing, SMTT(40) DEF Yield
<1>20. ASSUME NEW p \in Slot, NEW k \in KillPids, Kill(c, p, k) PROVE EmbryoInv'
  BY <1>20, ProcAssumption, SMTT(40) DEF Kill
<1> QED
  BY <1>1, <1>2, <1>3, <1>4, <1>5, <1>6, <1>7, <1>8, <1>9, <1>10, <1>11, <1>12,
     <1>13, <1>14, <1>15, <1>16, <1>17, <1>18, <1>19, <1>20 DEF Kernel, User, Fork

\* Every action keeps the stacks of live processes.
LEMMA StackStep ==
  ASSUME TypeOK, CPUInv, CallInv, EmbryoInv, StackInv, NEW c \in CPU, Kernel(c) \/ User(c)
  PROVE  StackInv'
<1> USE DEF TypeOK, Slot, NoProc, State, PC, CTX, At, Goto, Syscall, NoStack, StackInv
<1>1. CASE SchedulerAcquire(c)
  BY <1>1, ProcAssumption DEF SchedulerAcquire
<1>2. CASE SchedulerSwitch(c)
  <2>1. PICK p \in Slot : SwitchTo(c, p)
    BY <1>2, Switched
  <2> QED
    BY <2>1, ProcAssumption DEF SwitchTo
<1>3. CASE SchedulerRelease(c)
  BY <1>3, ProcAssumption DEF SchedulerRelease
<1>4. ASSUME NEW p \in Slot, ForkNoStack(c, p) PROVE StackInv'
  BY <1>4, ProcAssumption, SMTT(40) DEF ForkNoStack
<1>5. ASSUME NEW p \in Slot, ForkStack(c, p) PROVE StackInv'
  BY <1>5, Executing, Building, SMTT(40) DEF ForkStack, Forking, EmbryoInv, CallInv, Dead
<1>6. ASSUME NEW p \in Slot, ForkNoMemory(c, p) PROVE StackInv'
  BY <1>6, Executing, Building, SMTT(40) DEF ForkNoMemory, Forking, EmbryoInv, CallInv, Dead
<1>7. ASSUME NEW p \in Slot, ForkCopy(c, p) PROVE StackInv'
  BY <1>7, ProcAssumption, SMTT(40) DEF ForkCopy
<1>8. ASSUME NEW p \in Slot, ForkRunnable(c, p) PROVE StackInv'
  BY <1>8, ProcAssumption, SMTT(40) DEF ForkRunnable
<1>9. ASSUME NEW p \in Slot, WaitReap(c, p) PROVE StackInv'
  <2>1. PICK q \in Slot : Reap(c, p, q)
    BY <1>9, Reaped
  <2> QED
    BY <2>1 DEF Reap, EmbryoInv, Forking
<1>10. ASSUME NEW p \in Slot, WaitFail(c, p) PROVE StackInv'
  BY <1>10, ProcAssumption DEF WaitFail
<1>11. ASSUME NEW p \in Slot, WaitSleep(c, p) PROVE StackInv'
  BY <1>11, Executing, SMTT(40) DEF WaitSleep
<1>12. ASSUME NEW p \in Slot, Sched(c, p) PROVE StackInv'
  BY <1>12, ProcAssumption DEF Sched
<1>13. ASSUME NEW p \in Slot, ResumeRelease(c, p) PROVE StackInv'
  BY <1>13, ProcAssumption DEF ResumeRelease
<1>14. ASSUME NEW p \in Slot, ResumeWait(c, p) PROVE StackInv'
  BY <1>14, ProcAssumption DEF ResumeWait
<1>15. ASSUME NEW p \in Slot, Allocproc(c, p) PROVE StackInv'
  BY <1>15, ProcAssumption, SMTT(40) DEF Allocproc
<1>16. ASSUME NEW p \in Slot, Exit(c, p) PROVE StackInv'
  BY <1>16, Executing DEF Exit, Wakeup1
<1>17. ASSUME NEW p \in Slot, Wait(c, p) PROVE StackInv'
  BY <1>17, ProcAssumption DEF Wait
<1>18. ASSUME NEW p \in Slot, Fault(c, p) PROVE StackInv'
  BY <1>18, ProcAssumption DEF Fault
<1>19. ASSUME NEW p \in Slot, Yield(c, p) PROVE StackInv'
  BY <1>19, Executing, SMTT(40) DEF Yield
<1>20. ASSUME NEW p \in Slot, NEW k \in KillPids, Kill(c, p, k) PROVE StackInv'
  BY <1>20, ProcAssumption, SMTT(40) DEF Kill
<1> QED
  BY <1>1, <1>2, <1>3, <1>4, <1>5, <1>6, <1>7, <1>8, <1>9, <1>10, <1>11, <1>12,
     <1>13, <1>14, <1>15, <1>16, <1>17, <1>18, <1>19, <1>20 DEF Kernel, User, Fork

\* Every action keeps parents and children together.
LEMMA FamilyStep ==
  ASSUME TypeOK, LockInv, CPUInv, CallInv, EmbryoInv, FamilyInv, NEW c \in CPU, Kernel(c) \/ User(c)
  PROVE  FamilyInv'
<1> USE DEF TypeOK, Slot, NoProc, State, PC, CTX, At, Goto, Syscall, irq, Acquire, Release, Locked,
           Dead, FamilyInv, ChildrenAwaited, Children, Zombies, initproc
<1>1. CASE SchedulerAcquire(c)
  BY <1>1, ProcAssumption DEF SchedulerAcquire
<1>2. CASE SchedulerSwitch(c)
  <2>1. PICK p \in Slot : SwitchTo(c, p)
    BY <1>2, Switched
  <2> QED
    BY <2>1, ProcAssumption, SMTT(40) DEF SwitchTo
<1>3. CASE SchedulerRelease(c)
  BY <1>3, ProcAssumption DEF SchedulerRelease
<1>4. ASSUME NEW p \in Slot, ForkNoStack(c, p) PROVE FamilyInv'
  <2>1. /\ proc[c] = p /\ ctx[p] = "run" /\ pc[p] = "fork_kalloc"
        /\ state' = [state EXCEPT ![np[p]] = "UNUSED"] /\ parent' = parent
        /\ chan' = chan /\ killed' = killed
    BY <1>4, Zenon DEF ForkNoStack
  <2>2. state[p] = "RUNNING"
    BY <2>1, Executing
  <2>3. np[p] \in Slot /\ state[np[p]] = "EMBRYO" /\ parent[np[p]] = NoProc
    BY <2>1 DEF EmbryoInv, Forking
  <2>4. \A r \in Slot : r # np[p] => state'[r] = state[r]
    BY <2>1
  <2>5. state'[np[p]] = "UNUSED" /\ initproc # np[p]
    BY <2>1, <2>3
  <2>6. /\ \A r \in Slot : state'[r] = "UNUSED" => parent'[r] = NoProc
        /\ \A r \in Slot : parent'[r] # r
        /\ state'[initproc] \notin Dead /\ parent'[initproc] = NoProc
    BY <2>1, <2>3, <2>4, <2>5, ProcAssumption
  <2>7. ASSUME NEW r \in Slot \ {initproc}, state'[r] \notin {"UNUSED", "EMBRYO"}
        PROVE  parent'[r] # NoProc /\ state'[parent'[r]] \notin Dead
    BY <2>1, <2>3, <2>4, <2>5, <2>7
  <2>8. \A r \in Slot : Children(r)' = Children(r) /\ Zombies(r)' = Zombies(r)
    BY <2>1, <2>3, <2>4, <2>5
  <2>9. ASSUME NEW r \in Slot, state'[r] = "SLEEPING"
        PROVE  /\ chan'[r] = r /\ Children(r)' # {}
               /\ Zombies(r)' = {} /\ ~killed'[r]
    <3>1. state[r] = "SLEEPING"
      BY <2>4, <2>5, <2>9
    <3> HIDE DEF Children, Zombies
    <3> QED
      BY <2>1, <2>8, <3>1
  <2> HIDE DEF Children, Zombies
  <2> QED
    BY <2>6, <2>7, <2>9
<1>5. ASSUME NEW p \in Slot, ForkStack(c, p) PROVE FamilyInv'
  <2>1. /\ proc[c] = p /\ ctx[p] = "run" /\ pc[p] = "fork_kalloc"
        /\ state' = state /\ parent' = parent
        /\ chan' = chan /\ killed' = killed
    BY <1>5, Zenon DEF ForkStack
  <2>2. state[p] = "RUNNING"
    BY <2>1, Executing
  <2>3. np[p] \in Slot /\ state[np[p]] = "EMBRYO" /\ parent[np[p]] = NoProc
    BY <2>1 DEF EmbryoInv, Forking
  <2> QED
    BY <2>1, <2>2, <2>3, ProcAssumption, SMTT(40)
<1>6. ASSUME NEW p \in Slot, ForkNoMemory(c, p) PROVE FamilyInv'
  <2>1. /\ proc[c] = p /\ ctx[p] = "run" /\ pc[p] = "fork_copyuvm"
        /\ state' = [state EXCEPT ![np[p]] = "UNUSED"] /\ parent' = parent
        /\ chan' = chan /\ killed' = killed
    BY <1>6, Zenon DEF ForkNoMemory
  <2>2. state[p] = "RUNNING"
    BY <2>1, Executing
  <2>3. np[p] \in Slot /\ state[np[p]] = "EMBRYO" /\ parent[np[p]] = NoProc
    BY <2>1 DEF EmbryoInv, Forking
  <2>4. \A r \in Slot : r # np[p] => state'[r] = state[r]
    BY <2>1
  <2>5. state'[np[p]] = "UNUSED" /\ initproc # np[p]
    BY <2>1, <2>3
  <2>6. /\ \A r \in Slot : state'[r] = "UNUSED" => parent'[r] = NoProc
        /\ \A r \in Slot : parent'[r] # r
        /\ state'[initproc] \notin Dead /\ parent'[initproc] = NoProc
    BY <2>1, <2>3, <2>4, <2>5, ProcAssumption
  <2>7. ASSUME NEW r \in Slot \ {initproc}, state'[r] \notin {"UNUSED", "EMBRYO"}
        PROVE  parent'[r] # NoProc /\ state'[parent'[r]] \notin Dead
    BY <2>1, <2>3, <2>4, <2>5, <2>7
  <2>8. \A r \in Slot : Children(r)' = Children(r) /\ Zombies(r)' = Zombies(r)
    BY <2>1, <2>3, <2>4, <2>5
  <2>9. ASSUME NEW r \in Slot, state'[r] = "SLEEPING"
        PROVE  /\ chan'[r] = r /\ Children(r)' # {}
               /\ Zombies(r)' = {} /\ ~killed'[r]
    <3>1. state[r] = "SLEEPING"
      BY <2>4, <2>5, <2>9
    <3> HIDE DEF Children, Zombies
    <3> QED
      BY <2>1, <2>8, <3>1
  <2> HIDE DEF Children, Zombies
  <2> QED
    BY <2>6, <2>7, <2>9
<1>7. ASSUME NEW p \in Slot, ForkCopy(c, p) PROVE FamilyInv'
  <2>1. /\ proc[c] = p /\ ctx[p] = "run" /\ pc[p] = "fork_copyuvm"
        /\ state' = state /\ parent' = [parent EXCEPT ![np[p]] = p]
        /\ chan' = chan /\ killed' = killed
    BY <1>7, Zenon DEF ForkCopy
  <2>2. state[p] = "RUNNING"
    BY <2>1, Executing
  <2>3. np[p] \in Slot /\ state[np[p]] = "EMBRYO" /\ parent[np[p]] = NoProc
    BY <2>1 DEF EmbryoInv, Forking
  <2> QED
    BY <2>1, <2>2, <2>3, ProcAssumption, SMTT(40)
<1>8. ASSUME NEW p \in Slot, ForkRunnable(c, p) PROVE FamilyInv'
  <2>1. /\ proc[c] = p /\ ctx[p] = "run" /\ pc[p] = "fork_runnable"
        /\ state' = [state EXCEPT ![np[p]] = "RUNNABLE"] /\ parent' = parent
        /\ chan' = chan /\ killed' = killed
    BY <1>8, Zenon DEF ForkRunnable
  <2>2. state[p] = "RUNNING"
    BY <2>1, Executing
  <2>3. np[p] \in Slot /\ state[np[p]] = "EMBRYO" /\ parent[np[p]] = p
    BY <2>1 DEF EmbryoInv, Forking
  <2> QED
    BY <2>1, <2>2, <2>3, ProcAssumption, SMTT(40)
<1>9. ASSUME NEW p \in Slot, WaitReap(c, p) PROVE FamilyInv'
  <2>1. PICK q \in Slot : Reap(c, p, q)
    BY <1>9, Reaped
  <2> QED
    BY <2>1, ProcAssumption DEF Reap
<1>10. ASSUME NEW p \in Slot, WaitFail(c, p) PROVE FamilyInv'
  BY <1>10, ProcAssumption DEF WaitFail
<1>11. ASSUME NEW p \in Slot, WaitSleep(c, p) PROVE FamilyInv'
  <2>1. /\ proc[c] = p /\ ctx[p] = "run" /\ state' = [state EXCEPT ![p] = "SLEEPING"]
        /\ chan' = [chan EXCEPT ![p] = p]
        /\ parent' = parent /\ killed' = killed
    BY <1>11, Zenon DEF WaitSleep
  <2>2. Children(p) # {} /\ Zombies(p) = {} /\ ~killed[p]
    BY <1>11, Zenon DEF WaitSleep
  <2>3. state[p] = "RUNNING"
    BY <2>1, Executing
  <2> QED
    BY <2>1, <2>2, <2>3, ProcAssumption, SMTT(40)
<1>12. ASSUME NEW p \in Slot, Sched(c, p) PROVE FamilyInv'
  BY <1>12, ProcAssumption DEF Sched
<1>13. ASSUME NEW p \in Slot, ResumeRelease(c, p) PROVE FamilyInv'
  BY <1>13, ProcAssumption, SMTT(40) DEF ResumeRelease
<1>14. ASSUME NEW p \in Slot, ResumeWait(c, p) PROVE FamilyInv'
  BY <1>14, ProcAssumption, SMTT(40) DEF ResumeWait
<1>15. ASSUME NEW p \in Slot, Allocproc(c, p) PROVE FamilyInv'
  BY <1>15, ProcAssumption, SMTT(40) DEF Allocproc
<1>16. ASSUME NEW p \in Slot, Exit(c, p) PROVE FamilyInv'
  <2>1. /\ proc[c] = p /\ ctx[p] = "run" /\ p # initproc
        /\ parent' = [q \in Slot |-> IF parent[q] = p THEN initproc ELSE parent[q]]
        /\ chan' = chan /\ killed' = killed
    BY <1>16, Zenon DEF Exit
  <2>2. /\ state[p] = "RUNNING" /\ state'[p] = "ZOMBIE"
        /\ \A q \in Slot : q # p =>
             state'[q] = IF /\ state[q] = "SLEEPING"
                            /\ \/ chan[q] = parent[p]
                               \/ Zombies(p) # {} /\ chan[q] = initproc
                         THEN "RUNNABLE" ELSE state[q]
        /\ \A q \in Slot : q # p =>
             state'[q] = state[q] \/ (state[q] = "SLEEPING" /\ state'[q] = "RUNNABLE")
    <3> HIDE DEF TypeOK, CPUInv, Slot, At, Zombies, initproc
    <3> QED
      BY <1>16, Exiting, Zenon
  <2>3. \A r \in Slot : r # p =>
          /\ state'[r] \in Dead <=> state[r] \in Dead
          /\ state'[r] \in {"UNUSED", "EMBRYO"} <=> state[r] \in {"UNUSED", "EMBRYO"}
          /\ state'[r] = "ZOMBIE" <=> state[r] = "ZOMBIE"
          /\ state'[r] = "UNUSED" <=> state[r] = "UNUSED"
          /\ state'[r] = "SLEEPING" => state[r] = "SLEEPING"
    BY <2>2
  <2>4. initproc \in Slot /\ state[initproc] \notin Dead
    BY ProcAssumption
  <2>5. \A r \in Slot : parent[r] = p => parent'[r] = initproc
    BY <2>1
  <2>6. \A r \in Slot : parent[r] # p => parent'[r] = parent[r]
    BY <2>1
  <2>7. parent[initproc] = NoProc /\ parent[p] # p /\ p # NoProc
    BY <2>4
  <2>8. /\ \A r \in Slot : state'[r] = "UNUSED" => parent'[r] = NoProc
        /\ state'[initproc] \notin Dead /\ parent'[initproc] = NoProc
    BY <2>1, <2>2, <2>3, <2>4, <2>5, <2>6, <2>7
  <2>9. ASSUME NEW r \in Slot PROVE parent'[r] # r
    BY <2>4, <2>5, <2>6, <2>7, <2>9
  <2>10. ASSUME NEW r \in Slot \ {initproc}, state'[r] \notin {"UNUSED", "EMBRYO"}
         PROVE  parent'[r] # NoProc /\ state'[parent'[r]] \notin Dead
    <3>1. state[r] \notin {"UNUSED", "EMBRYO"}
      BY <2>2, <2>3, <2>10
    <3>2. parent[r] \in Slot /\ state[parent[r]] \notin Dead
      <4>1. parent[r] # NoProc /\ state[parent[r]] \notin Dead
        BY <2>10, <3>1, Zenon
      <4> QED
        BY <2>10, <4>1
    <3>3. CASE parent[r] = p
      BY <2>1, <2>3, <2>4, <2>5, <3>3
    <3>4. CASE parent[r] # p
      BY <2>3, <2>6, <3>2, <3>4
    <3> QED
      BY <3>3, <3>4
  <2>11. ASSUME NEW r \in Slot, state'[r] = "SLEEPING"
         PROVE  /\ chan'[r] = r /\ Children(r)' # {}
                /\ Zombies(r)' = {} /\ ~killed'[r]
    <3>1. r # p /\ state[r] = "SLEEPING" /\ chan[r] = r
      BY <2>2, <2>3, <2>11
    <3>2. Children(r) # {} /\ Zombies(r) = {} /\ ~killed[r]
      BY <3>1, Zenon
    <3>3. Children(r)' # {}
      <4>1. PICK q \in Slot : parent[q] = r
        BY <3>2
      <4>2. parent'[q] = r
        BY <2>6, <3>1, <4>1
      <4> QED
        BY <4>2
    <3>4. r # parent[p]
      BY <2>2, <2>11, <3>1
    <3>5. Zombies(r)' = {}
      <4>1. ASSUME NEW q \in Slot, parent'[q] = r, state'[q] = "ZOMBIE" PROVE FALSE
        <5>1. q # p
          BY <2>1, <2>6, <3>4, <4>1
        <5>2. state[q] = "ZOMBIE"
          BY <2>3, <4>1, <5>1
        <5>3. parent[q] = p /\ r = initproc
          BY <2>5, <2>6, <3>2, <4>1, <5>2
        <5>4. Zombies(p) # {}
          BY <5>2, <5>3
        <5> HIDE DEF Zombies, Children, initproc
        <5> QED
          BY <2>2, <2>11, <3>1, <5>3, <5>4
      <4> QED
        BY <4>1
    <3> QED
      BY <2>1, <3>1, <3>2, <3>3, <3>5
  <2> HIDE DEF Children, Zombies
  <2> QED
    BY <2>8, <2>9, <2>10, <2>11
<1>17. ASSUME NEW p \in Slot, Wait(c, p) PROVE FamilyInv'
  BY <1>17, ProcAssumption, SMTT(40) DEF Wait
<1>18. ASSUME NEW p \in Slot, Fault(c, p) PROVE FamilyInv'
  <2>1. /\ proc[c] = p /\ ctx[p] = "run" /\ state' = state
        /\ killed' = [killed EXCEPT ![p] = TRUE]
        /\ parent' = parent /\ chan' = chan
    BY <1>18, Zenon DEF Fault
  <2>2. state[p] = "RUNNING"
    BY <2>1, Executing
  <2> QED
    BY <2>1, <2>2, ProcAssumption, SMTT(40)
<1>19. ASSUME NEW p \in Slot, Yield(c, p) PROVE FamilyInv'
  <2>1. /\ proc[c] = p /\ ctx[p] = "run" /\ state' = [state EXCEPT ![p] = "RUNNABLE"]
        /\ parent' = parent /\ chan' = chan /\ killed' = killed
    BY <1>19, Zenon DEF Yield
  <2>2. state[p] = "RUNNING"
    BY <2>1, Executing
  <2> QED
    BY <2>1, <2>2, ProcAssumption, SMTT(90)
<1>20. ASSUME NEW p \in Slot, NEW k \in KillPids, Kill(c, p, k) PROVE FamilyInv'
  <2>1. PICK q \in Slot :
          /\ killed' = [killed EXCEPT ![q] = TRUE]
          /\ state' = [state EXCEPT ![q] = IF @ = "SLEEPING" THEN "RUNNABLE" ELSE @]
    BY <1>20 DEF Kill
  <2>2. parent' = parent /\ chan' = chan
    BY <1>20, Zenon DEF Kill
  <2>3. \A r \in Slot :
          /\ state'[r] = state[r] \/ (state[r] = "SLEEPING" /\ state'[r] = "RUNNABLE")
          /\ state'[r] = "SLEEPING" => state[r] = "SLEEPING" /\ r # q
    <3>1. state'[q] = IF state[q] = "SLEEPING" THEN "RUNNABLE" ELSE state[q]
      BY <2>1
    <3>2. \A r \in Slot : r # q => state'[r] = state[r]
      BY <2>1
    <3>3. ASSUME NEW r \in Slot
          PROVE  /\ state'[r] = state[r] \/ (state[r] = "SLEEPING" /\ state'[r] = "RUNNABLE")
                 /\ state'[r] = "SLEEPING" => state[r] = "SLEEPING" /\ r # q
      <4>1. CASE r # q
        BY <3>2, <4>1
      <4>2. CASE r = q /\ state[q] = "SLEEPING"
        BY <3>1, <4>2
      <4>3. CASE r = q /\ state[q] # "SLEEPING"
        BY <3>1, <4>3
      <4> QED
        BY <4>1, <4>2, <4>3
    <3> QED
      BY <3>3
  <2>4. \A r \in Slot : r # q => killed'[r] = killed[r]
    BY <2>1
  <2>5. \A r \in Slot :
          /\ state'[r] \in Dead <=> state[r] \in Dead
          /\ state'[r] \in {"UNUSED", "EMBRYO"} <=> state[r] \in {"UNUSED", "EMBRYO"}
          /\ state'[r] = "ZOMBIE" <=> state[r] = "ZOMBIE"
          /\ state'[r] = "UNUSED" <=> state[r] = "UNUSED"
    BY <2>3
  <2>6. \A r \in Slot : Children(r)' = Children(r) /\ Zombies(r)' = Zombies(r)
    BY <2>2, <2>5
  <2>7. /\ \A r \in Slot : state'[r] = "UNUSED" => parent'[r] = NoProc
        /\ \A r \in Slot : parent'[r] # r
        /\ state'[initproc] \notin Dead /\ parent'[initproc] = NoProc
    BY <2>2, <2>5, ProcAssumption
  <2>8. ASSUME NEW r \in Slot \ {initproc}, state'[r] \notin {"UNUSED", "EMBRYO"}
        PROVE  parent'[r] # NoProc /\ state'[parent'[r]] \notin Dead
    <3>1. parent[r] # NoProc /\ state[parent[r]] \notin Dead
      BY <2>5, <2>8
    <3>2. parent[r] \in Slot
      BY <3>1
    <3> QED BY <2>2, <2>5, <3>1, <3>2
  <2>9. ASSUME NEW r \in Slot, state'[r] = "SLEEPING"
        PROVE  /\ chan'[r] = r /\ Children(r)' # {}
               /\ Zombies(r)' = {} /\ ~killed'[r]
    <3>1. state[r] = "SLEEPING" /\ r # q
      BY <2>3, <2>9
    <3>2. /\ chan[r] = r /\ Children(r) # {}
          /\ Zombies(r) = {} /\ ~killed[r]
      BY <3>1, Zenon
    <3> HIDE DEF Children, Zombies
    <3> QED
      BY <2>2, <2>4, <2>6, <3>1, <3>2
  <2> HIDE DEF Children, Zombies
  <2> QED
    BY <2>7, <2>8, <2>9
<1> QED
  BY <1>1, <1>2, <1>3, <1>4, <1>5, <1>6, <1>7, <1>8, <1>9, <1>10, <1>11, <1>12,
     <1>13, <1>14, <1>15, <1>16, <1>17, <1>18, <1>19, <1>20 DEF Kernel, User, Fork

-----------------------------------------------------------------------------
(* Theorems.                                                               *)

\* After userinit(), the invariant holds.
LEMMA InitIInv == Init => IInv
<1> SUFFICES ASSUME Init PROVE IInv
  OBVIOUS
<1>1. initproc \in Slot
  BY ProcAssumption DEF initproc, Slot
<1>2. TypeOK
  <2>1. kstack \in [Slot -> BOOLEAN] /\ killed \in [Slot -> BOOLEAN]
    BY Zenon DEF Init
  <2>2. pid \in [Slot -> 0 .. MaxPid] /\ nextpid \in 1 .. MaxPid + 1
    BY <1>1, ProcAssumption DEF Init
  <2>3. scan \in [CPU -> 0 .. NPROC + 1]
    <3>1. 0 \in 0 .. NPROC + 1
      BY ProcAssumption
    <3> QED
      BY <3>1 DEF Init
  <2>4. /\ lock \in CPU \cup {NoCPU} /\ panicked \in BOOLEAN
        /\ proc \in [CPU -> Slot \cup {NoProc}]
    BY DEF Init
  <2>5. /\ state \in [Slot -> State] /\ pc \in [Slot -> PC] /\ ctx \in [Slot -> CTX]
        /\ parent \in [Slot -> Slot \cup {NoProc}]
        /\ chan \in [Slot -> Slot \cup {NoProc}]
        /\ np \in [Slot -> Slot \cup {NoProc}]
    BY DEF Init, State, PC, CTX
  <2>6. /\ ncli \in [CPU -> Int] /\ intena \in [CPU -> BOOLEAN]
        /\ fl \in [CPU -> BOOLEAN] /\ saved \in [Slot -> BOOLEAN]
    <3>1. 0 \in Int /\ FALSE \in BOOLEAN
      OBVIOUS
    <3> QED BY <3>1, Zenon DEF Init
  <2> QED
    BY <2>1, <2>2, <2>3, <2>4, <2>5, <2>6 DEF TypeOK
<1>3. LockInv /\ CPUInv /\ IrqInv
  BY ProcAssumption DEF Init, LockInv, CPUInv, IrqInv, OwnLock, OwnCall, OwnSleep, Calling
<1>4. CallInv /\ EmbryoInv
  BY DEF Init, CallInv, EmbryoInv, Dead, Forking
<1>5. StackInv
  BY DEF Init, StackInv, NoStack
<1>6. FamilyInv
  BY <1>1 DEF Init, FamilyInv, ChildrenAwaited, Dead, NoProc, Slot
<1> QED
  BY <1>2, <1>3, <1>4, <1>5, <1>6 DEF IInv

\* A step that changes nothing keeps the invariant.
LEMMA Stutter == IInv /\ UNCHANGED vars => IInv'
<1> SUFFICES ASSUME IInv, UNCHANGED vars PROVE IInv'
  OBVIOUS
<1> USE DEF IInv, vars
<1>1. TypeOK' /\ LockInv' /\ CPUInv' /\ IrqInv'
  <2>1. TypeOK'
    BY DEF TypeOK, irq
  <2>2. LockInv' /\ CPUInv'
    BY DEF LockInv, CPUInv
  <2>3. IrqInv'
    BY DEF IrqInv, OwnLock, OwnCall, OwnSleep, irq
  <2> QED BY <2>1, <2>2, <2>3
<1>2. CallInv' /\ EmbryoInv' /\ StackInv'
  BY DEF CallInv, EmbryoInv, StackInv
<1>3. FamilyInv'
  BY DEF FamilyInv, ChildrenAwaited, Children, Zombies
<1> QED
  BY <1>1, <1>2, <1>3

\* Whatever the CPUs, processes and the timer do, the invariant holds.
THEOREM Inductive == Spec => []IInv
<1>1. IInv /\ [Next]_vars => IInv'
  <2> SUFFICES ASSUME IInv, [Next]_vars PROVE IInv'
    OBVIOUS
  <2>1. CASE Next
    <3>1. PICK c \in CPU : Kernel(c) \/ User(c)
      BY <2>1 DEF Next
    <3> QED
      BY <3>1, TypeStep, LockStep, CPUStep, IrqStep, CallStep, EmbryoStep, StackStep, FamilyStep
      DEF IInv
  <2>2. CASE UNCHANGED vars
    BY <2>2, Stutter
  <2> QED
    BY <2>1, <2>2
<1> QED
  BY <1>1, InitIInv, PTL DEF Spec

\* The fields of ptable and of the CPUs keep their types.
THEOREM TypeCorrect == Spec => []TypeOK
<1>1. IInv => TypeOK
  BY DEF IInv
<1> QED
  BY <1>1, Inductive, PTL

\* No test of sched(), release() or popcli() panics, a system call goes on with
\* its own interrupt state after it slept, no process is on two CPUs, and while
\* ptable.lock is free the RUNNING processes are those on a CPU.
THEOREM OneCPUEach == Spec => []OneCPU
<1>1. IInv => OneCPU
  <2> SUFFICES ASSUME IInv PROVE OneCPU
    OBVIOUS
  <2>1. ~panicked
    BY DEF IInv, LockInv
  <2>2. \A c, d \in CPU : proc[c] = proc[d] /\ proc[c] # NoProc => c = d
    BY DEF IInv, CPUInv
  <2>3. ASSUME lock = NoCPU, NEW p \in Slot, NEW c \in CPU, proc[c] = p
        PROVE  state[p] = "RUNNING"
    <3>1. lock # c /\ proc[c] # NoProc
      BY <2>3, ProcAssumption DEF Slot, NoProc
    <3>2. ctx[p] = "run"
      BY <2>3, <3>1, Outside DEF IInv
    <3> QED
      BY <2>3, <3>2, Executing DEF IInv
  <2>4. \A p \in Slot : state[p] = "RUNNING" => \E c \in CPU : proc[c] = p
    BY DEF IInv, CPUInv
  <2>5. \A c \in CPU : proc[c] # NoProc /\ ctx[proc[c]] = "run" /\ lock # c => fl[c]
    BY DEF IInv, IrqInv, OwnCall
  <2> QED
    BY <2>1, <2>2, <2>3, <2>4, <2>5 DEF OneCPU
<1> QED
  BY <1>1, Inductive, PTL

\* The process that a CPU executes, a zombie in sched() too, has its stack.
THEOREM StacksLive == Spec => []StackLive
<1>1. IInv => StackLive
  BY DEF IInv, TypeOK, CPUInv, StackInv, StackLive
<1> QED
  BY <1>1, Inductive, PTL

\* Every process has a live parent, and none sleeps in wait() while it has a
\* zombie, has no child or was killed.
THEOREM NoChildForgotten == Spec => []ChildrenAwaited
<1>1. IInv => ChildrenAwaited
  BY DEF IInv, FamilyInv
<1> QED
  BY <1>1, Inductive, PTL
=============================================================================
