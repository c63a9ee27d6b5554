---------------------------- MODULE SleepWakeup -----------------------------
(***************************************************************************)
(* sleep() and wakeup() (project4/proc.c) under the client that uses them  *)
(* most: sys_sleep() (sysproc.c) and the timer interrupt (trap.c), which   *)
(* share ticks under tickslock.  ptable.lock and tickslock are explicit;   *)
(* RUNNABLE and RUNNING are one state.                                     *)
(***************************************************************************)
EXTENDS Naturals

CONSTANTS Thread,   \* the processes that call sleep(n)
          Timer,    \* the timer interrupt on CPU 0
          Nobody,   \* a free lock
          Width,    \* bits of uint ticks
          Durations,\* the arguments of sleep(n)
          MaxLag    \* bound: ticks that pass before a sleeper looks at ticks

ASSUME SleepWakeupAssumption ==
  /\ Timer \notin Thread /\ Nobody \notin Thread \cup {Timer}
  /\ Width \in Nat /\ MaxLag \in Nat /\ MaxLag < 2^Width
  /\ Durations \subseteq 0 .. MaxLag

UINT == 2^Width

VARIABLES
  tickslock, ptlock,   \* holders: a thread, Timer or Nobody
  ticks,               \* 0 .. UINT - 1
  ticks0, n,           \* [Thread -> 0 .. UINT - 1]: locals of sys_sleep
  sleeping, killed,    \* [Thread -> BOOLEAN]
  spc,                  \* [Thread -> SleepPC]
  ticking              \* the timer is between ticks++ and wakeup(&ticks)

sleepVars == <<tickslock, ptlock, ticks, ticks0, n, sleeping, killed, spc, ticking>>

SleepPC == {"user", "loop", "sleep", "release", "sched", "asleep", "acquire"}

SleepTypeOK ==
  /\ tickslock \in Thread \cup {Timer, Nobody}
  /\ ptlock \in Thread \cup {Nobody}
  /\ ticks \in 0 .. UINT - 1
  /\ ticks0 \in [Thread -> 0 .. UINT - 1]
  /\ n \in [Thread -> 0 .. UINT - 1]
  /\ sleeping \in [Thread -> BOOLEAN]
  /\ killed \in [Thread -> BOOLEAN]
  /\ spc \in [Thread -> SleepPC]
  /\ ticking \in BOOLEAN

SleepInit ==
  /\ tickslock = Nobody /\ ptlock = Nobody
  /\ ticks = 0 /\ ticking = FALSE
  /\ ticks0 = [t \in Thread |-> 0]
  /\ n = [t \in Thread |-> 0]
  /\ sleeping = [t \in Thread |-> FALSE]
  /\ killed = [t \in Thread |-> FALSE]
  /\ spc = [t \in Thread |-> "user"]

Step(t, from, to) == spc[t] = from /\ spc' = [spc EXCEPT ![t] = to]

\* ticks - ticks0, a uint.
Elapsed(t) == (ticks + UINT - ticks0[t]) % UINT

-----------------------------------------------------------------------------
(* sys_sleep                                                               *)

\* acquire(&tickslock); ticks0 = ticks.
SysSleep(t, k) ==
  /\ Step(t, "user", "loop")
  /\ ~killed[t]
  /\ tickslock = Nobody /\ tickslock' = t
  /\ ticks0' = [ticks0 EXCEPT ![t] = ticks]
  /\ n' = [n EXCEPT ![t] = k]
  /\ UNCHANGED <<ptlock, ticks, sleeping, killed, ticking>>

\* The loop condition.
MoreTicks(t) == Elapsed(t) < n[t]

\* The loop ends or the process was killed; release(&tickslock).
SleepDone(t) ==
  /\ Step(t, "loop", "user")
  /\ ~MoreTicks(t) \/ killed[t]
  /\ tickslock' = Nobody
  /\ UNCHANGED <<ptlock, ticks, ticks0, n, sleeping, killed, ticking>>

\* Mutant: one tick too many is waited for.
SleepCallOneMore(t) ==
  /\ Step(t, "loop", "sleep")
  /\ Elapsed(t) <= n[t] /\ ~killed[t]
  /\ UNCHANGED <<tickslock, ptlock, ticks, ticks0, n, sleeping, killed, ticking>>

\* Not killed when it looked: call sleep(&ticks, &tickslock).
SleepCall(t) ==
  /\ Step(t, "loop", "sleep")
  /\ MoreTicks(t) /\ ~killed[t]
  /\ UNCHANGED <<tickslock, ptlock, ticks, ticks0, n, sleeping, killed, ticking>>

-----------------------------------------------------------------------------
(* sleep(&ticks, &tickslock)                                               *)

\* Mutant: sleep() releases lk before it acquires ptable.lock.
SleepReleaseFirst(t) ==
  /\ Step(t, "sleep", "release")
  /\ tickslock' = Nobody
  /\ UNCHANGED <<ptlock, ticks, ticks0, n, sleeping, killed, ticking>>

\* acquire(&ptable.lock), with lk still held.
SleepAcquire(t) ==
  /\ Step(t, "sleep", "release")
  /\ ptlock = Nobody /\ ptlock' = t
  /\ UNCHANGED <<tickslock, ticks, ticks0, n, sleeping, killed, ticking>>

\* release(lk).
SleepRelease(t) ==
  /\ Step(t, "release", "sched")
  /\ tickslock' = Nobody
  /\ UNCHANGED <<ptlock, ticks, ticks0, n, sleeping, killed, ticking>>

\* SLEEPING; sched(): the scheduler releases ptable.lock.
SleepSched(t) ==
  /\ Step(t, "sched", "asleep")
  /\ sleeping' = [sleeping EXCEPT ![t] = TRUE]
  /\ ptlock' = Nobody
  /\ UNCHANGED <<tickslock, ticks, ticks0, n, killed, ticking>>

\* Scheduled again: proc->chan = 0; release(&ptable.lock).
SleepResume(t) ==
  /\ Step(t, "asleep", "acquire")
  /\ ~sleeping[t] /\ ptlock = Nobody
  /\ UNCHANGED <<tickslock, ptlock, ticks, ticks0, n, sleeping, killed, ticking>>

\* Mutant: the time starts again with every wakeup.
SleepReacquireRestarts(t) ==
  /\ Step(t, "acquire", "loop")
  /\ tickslock = Nobody /\ tickslock' = t
  /\ ticks0' = [ticks0 EXCEPT ![t] = ticks]
  /\ UNCHANGED <<ptlock, ticks, n, sleeping, killed, ticking>>

\* acquire(lk); sleep returns into the loop.
SleepReacquire(t) ==
  /\ Step(t, "acquire", "loop")
  /\ tickslock = Nobody /\ tickslock' = t
  /\ UNCHANGED <<ptlock, ticks, ticks0, n, sleeping, killed, ticking>>

-----------------------------------------------------------------------------
(* The timer interrupt and kill.                                           *)

\* acquire(&tickslock); ticks++.  MaxLag bounds the ticks that a thread in
\* sys_sleep can miss, far below the 2^32 that would wrap around it.
TimerTick ==
  /\ \A t \in Thread : spc[t] # "user" => Elapsed(t) < MaxLag
  /\ tickslock = Nobody /\ tickslock' = Timer
  /\ ticks' = (ticks + 1) % UINT
  /\ ticking' = TRUE
  /\ UNCHANGED <<ptlock, ticks0, n, sleeping, killed, spc>>

\* wakeup(&ticks), with ptable.lock; release(&tickslock).
TimerWakeup ==
  /\ ticking /\ ptlock = Nobody
  /\ sleeping' = [t \in Thread |-> FALSE]
  /\ ticking' = FALSE
  /\ tickslock' = Nobody
  /\ UNCHANGED <<ptlock, ticks, ticks0, n, killed, spc>>

\* kill(), by some other process: its critical section.
Kill(t) ==
  /\ ~killed[t] /\ ptlock = Nobody
  /\ killed' = [killed EXCEPT ![t] = TRUE]
  /\ sleeping' = [sleeping EXCEPT ![t] = FALSE]
  /\ UNCHANGED <<tickslock, ptlock, ticks, ticks0, n, spc, ticking>>

ThreadNext(t) ==
  \/ SleepDone(t) \/ SleepCall(t)
  \/ SleepAcquire(t) \/ SleepRelease(t) \/ SleepSched(t)
  \/ SleepResume(t) \/ SleepReacquire(t)

SleepNext ==
  \/ TimerTick \/ TimerWakeup
  \/ \E t \in Thread :
       ThreadNext(t) \/ Kill(t) \/ \E k \in Durations : SysSleep(t, k)

SleepSpec == SleepInit /\ [][SleepNext]_sleepVars

(***************************************************************************)
(* A process in the kernel gets the CPU again and again (see Proc), and on *)
(* one CPU finds the lock it wants free each time, since a holder cannot   *)
(* be preempted; the timer is periodic.                                    *)
(***************************************************************************)
FairSleepSpec ==
  /\ SleepSpec
  /\ SF_sleepVars(TimerTick) /\ WF_sleepVars(TimerWakeup)
  /\ \A t \in Thread : SF_sleepVars(ThreadNext(t))

-----------------------------------------------------------------------------
(* Properties.                                                             *)

\* sleep(): "we won't miss any wakeup".  When the timer is not in the middle
\* of a tick, no process is asleep whose time is over, even across a wrap of
\* ticks.
NoMissedWakeup == \A t \in Thread : sleeping[t] /\ ~ticking => MoreTicks(t)

\* A thread's place as the callers of sleep() see it: the release of lk is
\* the step in which it falls asleep.
Place(t) ==
  CASE spc[t] = "user" -> "out"
    [] spc[t] \in {"loop", "sleep", "release"} -> "in"
    [] spc[t] = "sched" \/ (spc[t] = "asleep" /\ sleeping[t]) -> "asleep"
    [] OTHER -> "awake"

Places == [t \in Thread |-> Place(t)]

Atomic == INSTANCE AtomicSleep WITH Waker <- Timer, lk <- tickslock, st <- Places

\* sleep() and wakeup(), step by step, implement the atomic sleep that the
\* comment above sleep() promises.
SleepIsAtomic == Atomic!Spec

\* Every sleep(n) returns.
SleepReturns == \A t \in Thread : (spc[t] = "loop") ~> (spc[t] = "user")
=============================================================================
