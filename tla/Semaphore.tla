------------------------------ MODULE Semaphore -----------------------------
(***************************************************************************)
(* Semaphores in shared memory (project4/sysfile.c: sys_sema_init,         *)
(* sys_sema_down, sys_sema_up), called by processes that run a fixed       *)
(* script of calls, as the repository's semaex.c and sematest.c do.        *)
(*                                                                         *)
(* sp->lock is explicit.  sleep() is atomic (see SleepWakeup); wakeup(),   *)
(* which takes only ptable.lock, is a step of its own.                     *)
(***************************************************************************)
EXTENDS Integers, Sequences, FiniteSets

CONSTANTS Proc,      \* the processes that have the shared pages
          Sem,       \* the semaphores, one to a page
          NoHolder,    \* a free sp->lock
          Initial,   \* [Sem -> Nat]: the argument of sema_init
          Script,    \* [Proc -> Seq([op : {"down", "up"}, sem : Sem])]
          Victims    \* the processes that kill() is called for

ASSUME SemaphoreAssumption ==
  /\ NoHolder \notin Proc
  /\ Initial \in [Sem -> Nat]
  /\ Script \in [Proc -> Seq([op : {"down", "up"}, sem : Sem])]
  /\ Victims \subseteq Proc

VARIABLES
  lock,     \* [Sem -> Proc or NoHolder]: sp->lock
  value,    \* [Sem -> Nat]: sp->value
  at,       \* [Proc -> SemaPC]
  ip,       \* [Proc -> Nat]: the call of its script that comes next
  doomed    \* [Proc -> BOOLEAN]: proc->killed

semaVars == <<lock, value, at, ip, doomed>>

SemaPC == {"user", "down", "asleep", "awake", "up", "woke", "exited"}

SemaTypeOK ==
  /\ lock \in [Sem -> Proc \cup {NoHolder}]
  /\ value \in [Sem -> Nat]
  /\ at \in [Proc -> SemaPC]
  /\ ip \in [Proc -> Nat] /\ \A p \in Proc : ip[p] \in 1 .. Len(Script[p]) + 1
  /\ doomed \in [Proc -> BOOLEAN]

\* sema_init() of all semaphores, before the processes are forked.
SemaInit ==
  /\ lock = [s \in Sem |-> NoHolder]
  /\ value = Initial
  /\ at = [p \in Proc |-> "user"]
  /\ ip = [p \in Proc |-> 1]
  /\ doomed = [p \in Proc |-> FALSE]

More(p) == ip[p] <= Len(Script[p])
Op(p)   == Script[p][ip[p]].op
S(p)    == Script[p][ip[p]].sem

GoOn(p, l) == at' = [at EXCEPT ![p] = l]

\* acquire(&sp->lock) of the current call, and the matching release.
Enter(p) == lock[S(p)] = NoHolder /\ lock' = [lock EXCEPT ![S(p)] = p]
Leave(p) == lock' = [lock EXCEPT ![S(p)] = NoHolder]

-----------------------------------------------------------------------------
(* sema_down                                                               *)

\* trap() lets a killed process make no more calls.
DownAcquire(p) ==
  /\ at[p] = "user" /\ ~doomed[p] /\ More(p) /\ Op(p) = "down"
  /\ Enter(p)
  /\ GoOn(p, "down")
  /\ UNCHANGED <<value, ip, doomed>>

\* Mutant: sleep() is called without the lock that it should release.
DownSleepKeepsLock(p) ==
  /\ at[p] = "down" /\ value[S(p)] = 0
  /\ GoOn(p, "asleep")
  /\ UNCHANGED <<lock, value, ip, doomed>>

\* sleep(&sp->value, &sp->lock): proc->killed is not looked at.
DownSleep(p) ==
  /\ at[p] = "down" /\ value[S(p)] = 0
  /\ Leave(p)
  /\ GoOn(p, "asleep")
  /\ UNCHANGED <<value, ip, doomed>>

\* Mutant: a woken process takes a unit without testing the value again.
DownAgainTakes(p) ==
  /\ at[p] = "awake" /\ lock[S(p)] = NoHolder
  /\ value' = [value EXCEPT ![S(p)] = @ - 1]
  /\ GoOn(p, "user")
  /\ ip' = [ip EXCEPT ![p] = @ + 1]
  /\ UNCHANGED <<lock, doomed>>

\* sleep() returns with sp->lock; the loop tests the value again.
DownAgain(p) ==
  /\ at[p] = "awake"
  /\ Enter(p)
  /\ GoOn(p, "down")
  /\ UNCHANGED <<value, ip, doomed>>

DownTake(p) ==
  /\ at[p] = "down" /\ value[S(p)] # 0
  /\ value' = [value EXCEPT ![S(p)] = @ - 1]
  /\ Leave(p)
  /\ GoOn(p, "user")
  /\ ip' = [ip EXCEPT ![p] = @ + 1]
  /\ UNCHANGED doomed

-----------------------------------------------------------------------------
(* sema_up                                                                 *)

UpAcquire(p) ==
  /\ at[p] = "user" /\ ~doomed[p] /\ More(p) /\ Op(p) = "up"
  /\ Enter(p)
  /\ GoOn(p, "up")
  /\ UNCHANGED <<value, ip, doomed>>

\* Mutant: wakeup(sp), a channel on which nobody sleeps.
UpWakeupStruct(p) ==
  /\ at[p] = "up"
  /\ GoOn(p, "woke")
  /\ UNCHANGED <<lock, value, ip, doomed>>

\* wakeup(&sp->value), before the value is incremented.
UpWakeup(p) ==
  /\ at[p] = "up"
  /\ at' = [q \in Proc |-> IF q = p THEN "woke"
                           ELSE IF at[q] = "asleep" /\ S(q) = S(p) THEN "awake" ELSE at[q]]
  /\ UNCHANGED <<lock, value, ip, doomed>>

UpRelease(p) ==
  /\ at[p] = "woke"
  /\ value' = [value EXCEPT ![S(p)] = @ + 1]
  /\ Leave(p)
  /\ GoOn(p, "user")
  /\ ip' = [ip EXCEPT ![p] = @ + 1]
  /\ UNCHANGED doomed

-----------------------------------------------------------------------------
(* kill() and the exit that trap() makes of it.                            *)

KillCaller(p) ==
  /\ ~doomed[p] /\ at[p] # "exited"
  /\ doomed' = [doomed EXCEPT ![p] = TRUE]
  /\ GoOn(p, IF at[p] = "asleep" THEN "awake" ELSE at[p])
  /\ UNCHANGED <<lock, value, ip>>

ExitCaller(p) ==
  /\ at[p] = "user" /\ (doomed[p] \/ ~More(p))
  /\ GoOn(p, "exited")
  /\ UNCHANGED <<lock, value, ip, doomed>>

SemaStep(p) ==
  \/ DownAcquire(p) \/ DownSleep(p) \/ DownAgain(p) \/ DownTake(p)
  \/ UpAcquire(p) \/ UpWakeup(p) \/ UpRelease(p)
  \/ ExitCaller(p)

SemaNext ==
  \/ \E p \in Proc : SemaStep(p)
  \/ \E p \in Victims : KillCaller(p)

SemaSpec == SemaInit /\ [][SemaNext]_semaVars

\* A process that can run is scheduled again and again (Proc), and on one CPU
\* it finds sp->lock free whenever it runs, since no holder is preempted.
FairSemaSpec == SemaSpec /\ \A p \in Proc : SF_semaVars(SemaStep(p))

-----------------------------------------------------------------------------
(* Properties.                                                             *)

\* The finished calls of a kind on a semaphore.
Calls(kind, s) ==
  UNION {{<<p, k>> : k \in {j \in 1 .. ip[p] - 1 : Script[p][j] = [op |-> kind, sem |-> s]}} :
         p \in Proc}

\* Every sema_down() that returned had a unit of its own, one that sema_init() or
\* a finished sema_up() put there: sema_up() wakes every sleeper and kill() wakes
\* one too early, but a process that finds the value taken again must not pass.
DownsCovered ==
  \A s \in Sem : Cardinality(Calls("down", s)) <= Initial[s] + Cardinality(Calls("up", s))

\* No lost wakeup: while sp->lock is free, nobody is asleep on a semaphore that
\* could be taken, although sema_up() wakes before it increments.
NobodyStranded ==
  \A p \in Proc : at[p] = "asleep" /\ lock[S(p)] = NoHolder => value[S(p)] = 0

\* The ping-pong of sematest.c does not hang: as long as nobody is killed, the
\* scripts run to their end, however the processes are scheduled.
Terminates ==
  <>((\A p \in Proc : at[p] = "exited") \/ (\E p \in Proc : doomed[p]))
=============================================================================
