------------------------------- MODULE MCSync --------------------------------
(***************************************************************************)
(* Three layers of synchronization in one run, each on its own: spin       *)
(* locks, sleep() over them, and the semaphores that sleep.  A behaviour   *)
(* picks one of the three and runs it, and the others stay in their        *)
(* initial states.  The programs that use semaphores are scripts, with     *)
(* fewer rounds.                                                           *)
(***************************************************************************)
EXTENDS Spinlock, SleepWakeup, Semaphore, SequencesExt

CONSTANTS p1, p2, p3, s1, s2

VARIABLE part      \* "spinlock", "sleep" or "semaphore"

allVars == <<part, vars, sleepVars, semaVars>>

Down(s) == [op |-> "down", sem |-> s]
Up(s)   == [op |-> "up", sem |-> s]

Rounds(call, k) == FlattenSeq([j \in 1 .. k |-> call])

\* sematest.c with a second child and a second ball: s1 starts at 2.
PingPong ==
  (p1 :> Rounds(<<Down(s1), Up(s2)>>, 4)) @@
  (p2 :> Rounds(<<Down(s2), Up(s1)>>, 2)) @@
  (p3 :> Rounds(<<Down(s2), Up(s1)>>, 2))

PingPongInit == (s1 :> 2) @@ (s2 :> 0)

\* The scripts have ended; a killed process may have left others asleep.
Stopped == (\A p \in Proc : at[p] \in {"asleep", "exited"}) /\ UNCHANGED semaVars

SyncInit == Init /\ SleepInit /\ SemaInit /\ part \in {"spinlock", "sleep", "semaphore"}

SyncNext ==
  /\ UNCHANGED part
  /\ \/ part = "spinlock" /\ Next /\ UNCHANGED <<sleepVars, semaVars>>
     \/ part = "sleep" /\ SleepNext /\ UNCHANGED <<vars, semaVars>>
     \/ part = "semaphore" /\ (SemaNext \/ Stopped) /\ UNCHANGED <<vars, sleepVars>>

\* The fairness of FairSleepSpec and of FairSemaSpec, each where its part runs.
SyncSpec ==
  /\ SyncInit /\ [][SyncNext]_allVars
  /\ SF_sleepVars(part = "sleep" /\ TimerTick) /\ WF_sleepVars(part = "sleep" /\ TimerWakeup)
  /\ \A t \in Thread : SF_sleepVars(part = "sleep" /\ ThreadNext(t))
  /\ \A p \in Proc : SF_semaVars(part = "semaphore" /\ SemaStep(p))

\* Terminates, where the semaphores run.
PingPongEnds == part = "semaphore" => Terminates
=============================================================================
