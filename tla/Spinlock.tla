------------------------------ MODULE Spinlock ------------------------------
(***************************************************************************)
(* Spin locks and the interrupt flag (project4/spinlock.c).                *)
(*                                                                         *)
(* Every CPU runs one kernel activation at level 0 (a system call or the   *)
(* scheduler loop, both entered with interrupts on) and, on top of it, at  *)
(* most one interrupt handler at level 1 (entered through an interrupt     *)
(* gate, which clears FL_IF; see tvinit in trap.c).  Both call acquire()   *)
(* and release().  One action is one step that another CPU, or an          *)
(* interrupt on the same CPU, can observe: what a CPU does to its own      *)
(* struct cpu between cli and the next shared access is one step.          *)
(*                                                                         *)
(* Locks are numbered in the order in which kernel code nests them (the    *)
(* "lock order" of the Notes file).                                        *)
(***************************************************************************)
EXTENDS Naturals, FiniteSets

CONSTANTS CPU,      \* the processors
          NLOCK,    \* number of spin locks
          NoCPU     \* lk->cpu == 0

ASSUME SpinlockAssumption ==
  /\ NLOCK \in Nat
  /\ NoCPU \notin CPU

Lock  == 1 .. NLOCK
Level == {0, 1}

VARIABLES
  locked,    \* [Lock -> BOOLEAN]            lk->locked
  lkcpu,     \* [Lock -> CPU or NoCPU]       lk->cpu
  ncli,      \* [CPU -> Nat]                 cpu->ncli
  intena,    \* [CPU -> BOOLEAN]             cpu->intena
  IF_,       \* [CPU -> BOOLEAN]             FL_IF of the processor
  level,     \* [CPU -> Level]               1 while a handler runs
  pc,        \* [CPU -> [Level -> PC]]       where the activation is
  lk,        \* [CPU -> [Level -> Lock]]     argument of the current call
  eflags,    \* [CPU -> [Level -> BOOLEAN]]  pushcli's local copy of FL_IF
  held,      \* [CPU -> [Level -> SUBSET Lock]]  acquired, not yet released
  panicked   \* [CPU -> BOOLEAN]             the CPU is spinning in panic()

vars == <<locked, lkcpu, ncli, intena, IF_, level, pc, lk, eflags, held, panicked>>
cpuvars == <<ncli, intena, IF_, level>>

PC == {"run", "push", "hold", "spin", "own", "drop", "pop"}

TypeOK ==
  /\ locked \in [Lock -> BOOLEAN]
  /\ lkcpu \in [Lock -> CPU \cup {NoCPU}]
  /\ ncli \in [CPU -> Nat]
  /\ intena \in [CPU -> BOOLEAN]
  /\ IF_ \in [CPU -> BOOLEAN]
  /\ level \in [CPU -> Level]
  /\ pc \in [CPU -> [Level -> PC]]
  /\ lk \in [CPU -> [Level -> Lock \cup {0}]]
  /\ eflags \in [CPU -> [Level -> BOOLEAN]]
  /\ held \in [CPU -> [Level -> SUBSET Lock]]
  /\ panicked \in [CPU -> BOOLEAN]

(***************************************************************************)
(* initlock() on every lock; the CPUs have run sti() (scheduler).          *)
(***************************************************************************)
Init ==
  /\ locked = [l \in Lock |-> FALSE]
  /\ lkcpu = [l \in Lock |-> NoCPU]
  /\ ncli = [c \in CPU |-> 0]
  /\ intena = [c \in CPU |-> FALSE]
  /\ IF_ = [c \in CPU |-> TRUE]
  /\ level = [c \in CPU |-> 0]
  /\ pc = [c \in CPU |-> [k \in Level |-> "run"]]
  /\ lk = [c \in CPU |-> [k \in Level |-> 0]]
  /\ eflags = [c \in CPU |-> [k \in Level |-> FALSE]]
  /\ held = [c \in CPU |-> [k \in Level |-> {}]]
  /\ panicked = [c \in CPU |-> FALSE]

At(c, k, l) == level[c] = k /\ pc[c][k] = l /\ ~panicked[c]
Goto(c, k, l) == pc' = [pc EXCEPT ![c][k] = l]

\* if(bad) panic(): this CPU executes nothing more.
PanicIf(c, bad) == panicked' = [panicked EXCEPT ![c] = bad]

\* holding(): does this CPU hold the lock?
Holding(c, l) == locked[l] /\ lkcpu[l] = c

-----------------------------------------------------------------------------
(* acquire(l): pushcli; holding check; xchg loop; record the owner.        *)

\* The caller nests locks in the lock order.  pushcli: eflags = readeflags().
AcquireCall(c, k, l) ==
  /\ At(c, k, "run")
  /\ \A h \in held[c][k] : h < l
  /\ lk' = [lk EXCEPT ![c][k] = l]
  /\ eflags' = [eflags EXCEPT ![c][k] = IF_[c]]
  /\ Goto(c, k, "push")
  /\ UNCHANGED <<locked, lkcpu, held, panicked, cpuvars>>

\* Mutant: the outermost-only test around cpu->intena is missing.
PushCliClobbersIntena(c, k) ==
  /\ At(c, k, "push")
  /\ IF_' = [IF_ EXCEPT ![c] = FALSE]
  /\ intena' = [intena EXCEPT ![c] = eflags[c][k]]
  /\ ncli' = [ncli EXCEPT ![c] = @ + 1]
  /\ Goto(c, k, "hold")
  /\ UNCHANGED <<locked, lkcpu, level, lk, eflags, held, panicked>>

\* pushcli: cli(); if(cpu->ncli++ == 0) cpu->intena = eflags & FL_IF.
PushCli(c, k) ==
  /\ At(c, k, "push")
  /\ IF_' = [IF_ EXCEPT ![c] = FALSE]
  /\ intena' = [intena EXCEPT ![c] = IF ncli[c] = 0 THEN eflags[c][k] ELSE @]
  /\ ncli' = [ncli EXCEPT ![c] = @ + 1]
  /\ Goto(c, k, "hold")
  /\ UNCHANGED <<locked, lkcpu, level, lk, eflags, held, panicked>>

\* if(holding(lk)) panic("acquire").
AcquireCheck(c, k) ==
  /\ At(c, k, "hold")
  /\ PanicIf(c, Holding(c, lk[c][k]))
  /\ Goto(c, k, "spin")
  /\ UNCHANGED <<locked, lkcpu, lk, eflags, held, cpuvars>>

\* Mutant: the value returned by xchg is not tested.
XchgUntested(c, k) ==
  /\ At(c, k, "spin")
  /\ locked' = [locked EXCEPT ![lk[c][k]] = TRUE]
  /\ Goto(c, k, "own")
  /\ UNCHANGED <<lkcpu, lk, eflags, held, panicked, cpuvars>>

\* The xchg that finds 0 and leaves 1; the ones that find 1 change nothing.
Xchg(c, k) ==
  /\ At(c, k, "spin")
  /\ ~locked[lk[c][k]]
  /\ locked' = [locked EXCEPT ![lk[c][k]] = TRUE]
  /\ Goto(c, k, "own")
  /\ UNCHANGED <<lkcpu, lk, eflags, held, panicked, cpuvars>>

\* lk->cpu = cpu; acquire returns.
AcquireReturn(c, k) ==
  /\ At(c, k, "own")
  /\ lkcpu' = [lkcpu EXCEPT ![lk[c][k]] = c]
  /\ held' = [held EXCEPT ![c][k] = @ \cup {lk[c][k]}]
  /\ Goto(c, k, "run")
  /\ UNCHANGED <<locked, lk, eflags, panicked, cpuvars>>

-----------------------------------------------------------------------------
(* release(l): holding check; forget the owner; xchg; popcli.              *)

\* Mutant: lk->cpu is not reset.
ReleaseKeepsCpu(c, k, l) ==
  /\ At(c, k, "run")
  /\ l \in held[c][k]
  /\ PanicIf(c, ~Holding(c, l))
  /\ lk' = [lk EXCEPT ![c][k] = l]
  /\ held' = [held EXCEPT ![c][k] = @ \ {l}]
  /\ Goto(c, k, "drop")
  /\ UNCHANGED <<locked, lkcpu, eflags, cpuvars>>

\* Locks may be released in any order (sleep() releases the outer one first).
ReleaseCall(c, k, l) ==
  /\ At(c, k, "run")
  /\ l \in held[c][k]
  /\ PanicIf(c, ~Holding(c, l))
  /\ lk' = [lk EXCEPT ![c][k] = l]
  /\ lkcpu' = [lkcpu EXCEPT ![l] = NoCPU]
  /\ held' = [held EXCEPT ![c][k] = @ \ {l}]
  /\ Goto(c, k, "drop")
  /\ UNCHANGED <<locked, eflags, cpuvars>>

\* Mutant: the xchg is missing.
UnlockForgotten(c, k) ==
  /\ At(c, k, "drop")
  /\ Goto(c, k, "pop")
  /\ UNCHANGED <<locked, lkcpu, lk, eflags, held, panicked, cpuvars>>

\* xchg(&lk->locked, 0).
Unlock(c, k) ==
  /\ At(c, k, "drop")
  /\ locked' = [locked EXCEPT ![lk[c][k]] = FALSE]
  /\ Goto(c, k, "pop")
  /\ UNCHANGED <<lkcpu, lk, eflags, held, panicked, cpuvars>>

\* popcli: two panics, then --ncli and sti() at depth 0 if interrupts were on.
PopCli(c, k) ==
  /\ At(c, k, "pop")
  /\ PanicIf(c, IF_[c] \/ ncli[c] = 0)
  /\ ncli' = [ncli EXCEPT ![c] = IF @ = 0 THEN 0 ELSE @ - 1]
  /\ IF_' = [IF_ EXCEPT ![c] = ncli[c] = 1 /\ intena[c]]
  /\ Goto(c, k, "run")
  /\ UNCHANGED <<locked, lkcpu, intena, level, lk, eflags, held>>

-----------------------------------------------------------------------------
(* Interrupts.                                                             *)

\* A device or the timer interrupts level 0; the gate clears FL_IF.
Interrupt(c) ==
  /\ level[c] = 0 /\ IF_[c] /\ ~panicked[c]
  /\ level' = [level EXCEPT ![c] = 1]
  /\ IF_' = [IF_ EXCEPT ![c] = FALSE]
  /\ UNCHANGED <<locked, lkcpu, ncli, intena, pc, lk, eflags, held, panicked>>

\* The handler has released what it acquired; iret restores FL_IF.
Iret(c) ==
  /\ At(c, 1, "run")
  /\ held[c][1] = {}
  /\ level' = [level EXCEPT ![c] = 0]
  /\ IF_' = [IF_ EXCEPT ![c] = TRUE]
  /\ UNCHANGED <<locked, lkcpu, ncli, intena, pc, lk, eflags, held, panicked>>

Next ==
  \E c \in CPU :
    \/ Interrupt(c)
    \/ Iret(c)
    \/ \E k \in Level :
         \/ \E l \in Lock : AcquireCall(c, k, l) \/ ReleaseCall(c, k, l)
         \/ PushCli(c, k)
         \/ AcquireCheck(c, k)
         \/ Xchg(c, k)
         \/ AcquireReturn(c, k)
         \/ Unlock(c, k)
         \/ PopCli(c, k)

Spec == Init /\ [][Next]_vars

-----------------------------------------------------------------------------
(* Properties.                                                             *)

\* Activation k of CPU c is between its winning xchg and its releasing xchg.
Owns(c, k, l) ==
  \/ l \in held[c][k]
  \/ pc[c][k] \in {"own", "drop"} /\ lk[c][k] = l

\* At most one activation, over all CPUs and over the two levels of one CPU,
\* is inside the critical section of a lock (acquire/release, the xchg).
MutualExclusion ==
  \A l \in Lock : \A c, d \in CPU : \A j, k \in Level :
    Owns(c, k, l) /\ Owns(d, j, l) => c = d /\ k = j

\* No panic of spinlock.c is reachable by callers that follow the lock order:
\* although lk->cpu is written after the xchg that takes the lock and before
\* the one that frees it, holding() answers correctly whenever it is asked,
\* and popcli never sees interrupts on or a negative depth.
NoPanic == \A c \in CPU : ~panicked[c]

\* acquire's "disable interrupts to avoid deadlock": from winning to releasing
\* a lock a CPU is not interruptible, and the handler never becomes so, even
\* though its own popcli runs at depth 0.
NotInterruptible ==
  \A c \in CPU : \A k \in Level :
    /\ level[c] = 1 => ~IF_[c]
    /\ (\E l \in Lock : Owns(c, k, l)) => ~IF_[c]

\* A CPU that spins on a taken lock waits for a different CPU, and for the
\* activation which that CPU is executing, never for the one it interrupted:
\* with the lock order, some owner can always run.
SpinsOnRunningOwner ==
  \A c \in CPU : \A k \in Level :
    level[c] = k /\ pc[c][k] = "spin" /\ locked[lk[c][k]] =>
      \E d \in CPU \ {c} : Owns(d, level[d], lk[c][k])

\* Pushes and pops match: outside all critical sections level 0 has interrupts
\* back on, however many handlers used cpu->intena in the meantime.
InterruptsRestored ==
  \A c \in CPU :
    level[c] = 0 /\ pc[c][0] = "run" /\ held[c][0] = {} => IF_[c] /\ ncli[c] = 0

-----------------------------------------------------------------------------
(***************************************************************************)
(* The inductive invariant behind the safety properties.                   *)
(***************************************************************************)

InCall(c, k) == pc[c][k] \in {"hold", "spin", "own", "drop", "pop"}

\* pushcli calls of an activation that are not yet undone.
Depth(c, k) == Cardinality(held[c][k]) + (IF InCall(c, k) THEN 1 ELSE 0)

\* The argument of the current call, and its place in the lock order.
CallInv ==
  \A c \in CPU : \A k \in Level :
    /\ pc[c][k] # "run" => lk[c][k] \in Lock
    /\ pc[c][k] \in {"push", "hold", "spin", "own"} => \A h \in held[c][k] : h < lk[c][k]
    /\ pc[c][k] = "drop" => lk[c][k] \notin held[c][k]

\* The activation that is not executing holds nothing.
LevelInv ==
  \A c \in CPU :
    /\ level[c] = 0 => held[c][1] = {} /\ pc[c][1] = "run"
    /\ level[c] = 1 => held[c][0] = {} /\ pc[c][0] \in {"run", "push"}

\* ncli counts the pushes of the running activation; FL_IF and intena follow.
CliOK(c) ==
  /\ ncli[c] = Depth(c, level[c])
  /\ IF_[c] <=> level[c] = 0 /\ ncli[c] = 0
  /\ ncli[c] > 0 => (intena[c] <=> level[c] = 0)
  /\ \A k \in Level : pc[c][k] = "push" /\ held[c][k] = {} => (eflags[c][k] <=> k = 0)

CliInv == \A c \in CPU : CliOK(c)

\* locked and lk->cpu describe the owner.
OwnerInv ==
  \A l \in Lock :
    /\ locked[l] <=> \E c \in CPU : \E k \in Level : Owns(c, k, l)
    /\ \A c \in CPU : lkcpu[l] = c <=> \E k \in Level : l \in held[c][k]

IInv == TypeOK /\ CallInv /\ LevelInv /\ CliInv /\ OwnerInv /\ MutualExclusion /\ NoPanic
=============================================================================
