---------------------------- MODULE AtomicSleep -----------------------------
(***************************************************************************)
(* What sleep() promises (proc.c: "Atomically release lock and sleep on    *)
(* chan.  Reacquires lock when awakened."), for one lock, one channel and  *)
(* one waker that changes the awaited condition while it holds the lock.   *)
(***************************************************************************)
CONSTANTS Thread, Waker, Nobody

VARIABLES lk,   \* who holds the lock
          st    \* [Thread -> {"out", "in", "asleep", "awake"}]

Init == lk = Nobody /\ st = [t \in Thread |-> "out"]

Move(t, from, to) == st[t] = from /\ st' = [st EXCEPT ![t] = to]

Enter(t)  == lk = Nobody /\ lk' = t /\ Move(t, "out", "in")
Leave(t)  == lk = t /\ lk' = Nobody /\ Move(t, "in", "out")
\* The lock is released and the thread is asleep in one step.
Sleep(t)  == lk = t /\ lk' = Nobody /\ Move(t, "in", "asleep")
Return(t) == lk = Nobody /\ lk' = t /\ Move(t, "awake", "in")
\* kill() ends a sleep early.
Rouse(t)  == Move(t, "asleep", "awake") /\ UNCHANGED lk

WakerEnter == lk = Nobody /\ lk' = Waker /\ UNCHANGED st
\* wakeup(): every sleeper wakes.
Wakeup ==
  /\ lk = Waker
  /\ lk' = Nobody
  /\ st' = [t \in Thread |-> IF st[t] = "asleep" THEN "awake" ELSE st[t]]

Next ==
  \/ WakerEnter
  \/ Wakeup
  \/ \E t \in Thread : Enter(t) \/ Leave(t) \/ Sleep(t) \/ Return(t) \/ Rouse(t)

Spec == Init /\ [][Next]_<<lk, st>>
=============================================================================
