--------------------------- MODULE SemaphoreProofs --------------------------
(***************************************************************************)
(* Proofs about Semaphore, for any number of processes and semaphores, any *)
(* scripts of calls and any kills: no wakeup is lost, and nobody passes a  *)
(* semaphore without a unit of its own.                                    *)
(***************************************************************************)
EXTENDS Semaphore, FiniteSetTheorems, TLAPS

-----------------------------------------------------------------------------
(* The inductive invariant.                                                *)

\* A process inside a call has a call to be inside of.
InCall == \A p \in Proc : at[p] \notin {"user", "exited"} => More(p)

\* Between acquire(&sp->lock) and its release.
LockInv == \A p \in Proc : at[p] \in {"down", "up", "woke"} => lock[S(p)] = p

\* Between the wakeup() and the end of sema_up() nobody falls asleep, because
\* that takes sp->lock.
WokeInv ==
  \A p, q \in Proc : at[p] = "woke" /\ at[q] = "asleep" => S(q) # S(p)

\* Nobody is asleep on a positive value, whoever has sp->lock.
SleepInv == \A p \in Proc : at[p] = "asleep" => value[S(p)] = 0

\* A process is inside the call that its script names: the branch of the code
\* it is in and the entry it will be counted under agree.
OpInv ==
  \A p \in Proc :
    /\ at[p] \in {"down", "asleep", "awake"} => Op(p) = "down"
    /\ at[p] \in {"up", "woke"} => Op(p) = "up"

\* Only finitely many calls are finished, whatever the number of processes.
FiniteInv == \A kind \in {"down", "up"}, s \in Sem : IsFiniteSet(Calls(kind, s))

\* The value is what is left of the units; it counts none twice.
Conserved ==
  \A s \in Sem :
    value[s] = Initial[s] + Cardinality(Calls("up", s)) - Cardinality(Calls("down", s))

IInv == /\ SemaTypeOK /\ InCall /\ LockInv /\ WokeInv /\ SleepInv
        /\ OpInv /\ FiniteInv /\ Conserved
-----------------------------------------------------------------------------
(* Steps.                                                                  *)

\* An element of a sequence over T is in T.
LEMMA ElementOf ==
  ASSUME NEW T, NEW s \in Seq(T), NEW i \in 1 .. Len(s)
  PROVE  s[i] \in T
  OBVIOUS

\* The call that a process is in is one of its script.
LEMMA CallType ==
  ASSUME SemaTypeOK, NEW p \in Proc, More(p)
  PROVE  ip[p] \in 1 .. Len(Script[p]) /\ S(p) \in Sem /\ Op(p) \in {"down", "up"}
<1>1. Script[p] \in Seq([op : {"down", "up"}, sem : Sem])
  BY SemaphoreAssumption
<1>2. ip[p] \in 1 .. Len(Script[p])
  BY <1>1 DEF SemaTypeOK, More
<1>3. Script[p][ip[p]] \in [op : {"down", "up"}, sem : Sem]
  BY <1>1, <1>2, ElementOf
<1> QED
  BY <1>2, <1>3 DEF S, Op

\* An action moves at most one process on in its script.
LEMMA OthersStay ==
  ASSUME SemaTypeOK, NEW p \in Proc, SemaStep(p) \/ KillCaller(p), NEW q \in Proc,
         q # p \/ at'[p] \notin {"user", "exited"}
  PROVE  More(q)' = More(q) /\ S(q)' = S(q)
<1>1. ip'[q] = ip[q]
  BY DEF SemaTypeOK, SemaStep, KillCaller, GoOn, DownAcquire, DownSleep, DownAgain, DownTake,
     UpAcquire, UpWakeup, UpRelease, ExitCaller
<1> QED
  BY <1>1 DEF More, S

\* Every action keeps the types.
LEMMA TypeStep ==
  ASSUME SemaTypeOK, InCall, NEW p \in Proc, SemaStep(p) \/ KillCaller(p)
  PROVE  SemaTypeOK'
<1> USE DEF SemaTypeOK, SemaPC, InCall, More
<1>1. CASE DownAcquire(p)
  BY <1>1, CallType DEF DownAcquire, Enter, GoOn
<1>2. CASE DownSleep(p)
  BY <1>2, CallType DEF DownSleep, Leave, GoOn
<1>3. CASE DownAgain(p)
  BY <1>3, CallType DEF DownAgain, Enter, GoOn
<1>4. CASE DownTake(p)
  <2>1. ip[p] \in 1 .. Len(Script[p]) /\ S(p) \in Sem
    BY <1>4, CallType DEF DownTake
  <2>2. ip' \in [Proc -> Nat] /\ \A q \in Proc : ip'[q] \in 1 .. Len(Script[q]) + 1
    <3>1. Len(Script[p]) \in Nat
      BY SemaphoreAssumption
    <3> QED
      BY <1>4, <2>1, <3>1 DEF DownTake
  <2>3. value' \in [Sem -> Nat]
    BY <1>4, <2>1 DEF DownTake
  <2> QED
    BY <1>4, <2>2, <2>3 DEF DownTake, Leave, GoOn
<1>5. CASE UpAcquire(p)
  BY <1>5, CallType DEF UpAcquire, Enter, GoOn
<1>6. CASE UpWakeup(p)
  BY <1>6, CallType DEF UpWakeup
<1>7. CASE UpRelease(p)
  <2>1. ip[p] \in 1 .. Len(Script[p]) /\ S(p) \in Sem
    BY <1>7, CallType DEF UpRelease
  <2>2. ip' \in [Proc -> Nat] /\ \A q \in Proc : ip'[q] \in 1 .. Len(Script[q]) + 1
    <3>1. Len(Script[p]) \in Nat
      BY SemaphoreAssumption
    <3> QED
      BY <1>7, <2>1, <3>1 DEF UpRelease
  <2>3. value' \in [Sem -> Nat]
    BY <1>7, <2>1 DEF UpRelease
  <2> QED
    BY <1>7, <2>2, <2>3 DEF UpRelease, Leave, GoOn
<1>8. CASE KillCaller(p)
  BY <1>8, CallType DEF KillCaller, GoOn
<1>9. CASE ExitCaller(p)
  BY <1>9, CallType DEF ExitCaller, GoOn
<1> QED
  BY <1>1, <1>2, <1>3, <1>4, <1>5, <1>6, <1>7, <1>8, <1>9 DEF SemaStep

\* Every action keeps processes within their scripts.
LEMMA InCallStep ==
  ASSUME SemaTypeOK, InCall, NEW p \in Proc, SemaStep(p) \/ KillCaller(p)
  PROVE  InCall'
<1> USE DEF SemaTypeOK, InCall
<1>1. CASE DownAcquire(p)
  BY <1>1, OthersStay DEF DownAcquire, Enter, GoOn
<1>2. CASE DownSleep(p)
  BY <1>2, OthersStay DEF DownSleep, Leave, GoOn
<1>3. CASE DownAgain(p)
  BY <1>3, OthersStay DEF DownAgain, Enter, GoOn
<1>4. CASE DownTake(p)
  BY <1>4, OthersStay DEF DownTake, Leave, GoOn
<1>5. CASE UpAcquire(p)
  BY <1>5, OthersStay DEF UpAcquire, Enter, GoOn
<1>6. CASE UpWakeup(p)
  BY <1>6, OthersStay DEF UpWakeup
<1>7. CASE UpRelease(p)
  BY <1>7, OthersStay DEF UpRelease, Leave, GoOn
<1>8. CASE KillCaller(p)
  BY <1>8, OthersStay DEF KillCaller, GoOn
<1>9. CASE ExitCaller(p)
  BY <1>9, OthersStay DEF ExitCaller, GoOn
<1> QED
  BY <1>1, <1>2, <1>3, <1>4, <1>5, <1>6, <1>7, <1>8, <1>9 DEF SemaStep

\* Every action keeps sp->lock with the process that acquired it.
LEMMA LockStep ==
  ASSUME SemaTypeOK, InCall, LockInv, NEW p \in Proc, SemaStep(p) \/ KillCaller(p)
  PROVE  LockInv'
<1> USE DEF SemaTypeOK, InCall, LockInv
<1>1. CASE DownAcquire(p)
  BY <1>1, SemaphoreAssumption, CallType, OthersStay DEF DownAcquire, Enter, GoOn
<1>2. CASE DownSleep(p)
  BY <1>2, SemaphoreAssumption, CallType, OthersStay DEF DownSleep, Leave, GoOn
<1>3. CASE DownAgain(p)
  BY <1>3, SemaphoreAssumption, CallType, OthersStay DEF DownAgain, Enter, GoOn
<1>4. CASE DownTake(p)
  BY <1>4, SemaphoreAssumption, CallType, OthersStay DEF DownTake, Leave, GoOn
<1>5. CASE UpAcquire(p)
  BY <1>5, SemaphoreAssumption, CallType, OthersStay DEF UpAcquire, Enter, GoOn
<1>6. CASE UpWakeup(p)
  BY <1>6, SemaphoreAssumption, CallType, OthersStay DEF UpWakeup
<1>7. CASE UpRelease(p)
  BY <1>7, SemaphoreAssumption, CallType, OthersStay DEF UpRelease, Leave, GoOn
<1>8. CASE KillCaller(p)
  BY <1>8, SemaphoreAssumption, CallType, OthersStay DEF KillCaller, GoOn
<1>9. CASE ExitCaller(p)
  BY <1>9, SemaphoreAssumption, CallType, OthersStay DEF ExitCaller, GoOn
<1> QED
  BY <1>1, <1>2, <1>3, <1>4, <1>5, <1>6, <1>7, <1>8, <1>9 DEF SemaStep

\* Every action keeps sleepers away from a semaphore that is about to be raised.
LEMMA WokeStep ==
  ASSUME SemaTypeOK, InCall, LockInv, WokeInv, NEW p \in Proc, SemaStep(p) \/ KillCaller(p)
  PROVE  WokeInv'
<1> USE DEF SemaTypeOK, InCall, LockInv, WokeInv
<1>1. CASE DownAcquire(p)
  BY <1>1, SemaphoreAssumption, CallType, OthersStay DEF DownAcquire, Enter, GoOn
<1>2. CASE DownSleep(p)
  BY <1>2, SemaphoreAssumption, CallType, OthersStay DEF DownSleep, Leave, GoOn
<1>3. CASE DownAgain(p)
  BY <1>3, SemaphoreAssumption, CallType, OthersStay DEF DownAgain, Enter, GoOn
<1>4. CASE DownTake(p)
  BY <1>4, SemaphoreAssumption, CallType, OthersStay DEF DownTake, Leave, GoOn
<1>5. CASE UpAcquire(p)
  BY <1>5, SemaphoreAssumption, CallType, OthersStay DEF UpAcquire, Enter, GoOn
<1>6. CASE UpWakeup(p)
  BY <1>6, SemaphoreAssumption, CallType, OthersStay DEF UpWakeup
<1>7. CASE UpRelease(p)
  BY <1>7, SemaphoreAssumption, CallType, OthersStay DEF UpRelease, Leave, GoOn
<1>8. CASE KillCaller(p)
  <2>1. \A q \in Proc : S(q)' = S(q)
    BY <1>8 DEF KillCaller, S
  <2>2. \A q \in Proc : at'[q] \in {"woke", "asleep"} => at'[q] = at[q]
    BY <1>8 DEF KillCaller, GoOn
  <2> QED
    BY <2>1, <2>2
<1>9. CASE ExitCaller(p)
  BY <1>9, SemaphoreAssumption, CallType, OthersStay DEF ExitCaller, GoOn
<1> QED
  BY <1>1, <1>2, <1>3, <1>4, <1>5, <1>6, <1>7, <1>8, <1>9 DEF SemaStep

\* Every action keeps the value at zero while somebody sleeps.
LEMMA SleepStep ==
  ASSUME SemaTypeOK, InCall, LockInv, WokeInv, SleepInv, NEW p \in Proc, SemaStep(p) \/ KillCaller(p)
  PROVE  SleepInv'
<1> USE DEF SemaTypeOK, InCall, WokeInv, SleepInv
<1>1. CASE DownAcquire(p)
  BY <1>1, SemaphoreAssumption, CallType, OthersStay DEF DownAcquire, Enter, GoOn
<1>2. CASE DownSleep(p)
  BY <1>2, SemaphoreAssumption, CallType, OthersStay DEF DownSleep, Leave, GoOn
<1>3. CASE DownAgain(p)
  BY <1>3, SemaphoreAssumption, CallType, OthersStay DEF DownAgain, Enter, GoOn
<1>4. CASE DownTake(p)
  BY <1>4, SemaphoreAssumption, CallType, OthersStay DEF DownTake, Leave, GoOn
<1>5. CASE UpAcquire(p)
  BY <1>5, SemaphoreAssumption, CallType, OthersStay DEF UpAcquire, Enter, GoOn
<1>6. CASE UpWakeup(p)
  BY <1>6, SemaphoreAssumption, CallType, OthersStay DEF UpWakeup
<1>7. CASE UpRelease(p)
  BY <1>7, SemaphoreAssumption, CallType, OthersStay DEF UpRelease, Leave, GoOn
<1>8. CASE KillCaller(p)
  BY <1>8, SemaphoreAssumption, CallType, OthersStay DEF KillCaller, GoOn
<1>9. CASE ExitCaller(p)
  BY <1>9, SemaphoreAssumption, CallType, OthersStay DEF ExitCaller, GoOn
<1> QED
  BY <1>1, <1>2, <1>3, <1>4, <1>5, <1>6, <1>7, <1>8, <1>9 DEF SemaStep

\* The entry of its script that a process is at stays while its call lasts.
LEMMA OpStays ==
  ASSUME SemaTypeOK, NEW p \in Proc, SemaStep(p) \/ KillCaller(p), NEW q \in Proc,
         q # p \/ at'[p] \notin {"user", "exited"}
  PROVE  Op(q)' = Op(q)
<1>1. ip'[q] = ip[q]
  BY DEF SemaTypeOK, SemaStep, KillCaller, GoOn, DownAcquire, DownSleep, DownAgain, DownTake,
     UpAcquire, UpWakeup, UpRelease, ExitCaller
<1> QED
  BY <1>1 DEF Op

\* Every action keeps a process in the call that its script names.
LEMMA OpStep ==
  ASSUME SemaTypeOK, OpInv, NEW p \in Proc, SemaStep(p) \/ KillCaller(p)
  PROVE  OpInv'
<1> USE DEF SemaTypeOK, OpInv
<1>1. CASE DownAcquire(p)
  BY <1>1, OpStays DEF DownAcquire, GoOn
<1>2. CASE DownSleep(p)
  BY <1>2, OpStays DEF DownSleep, GoOn
<1>3. CASE DownAgain(p)
  BY <1>3, OpStays DEF DownAgain, GoOn
<1>4. CASE DownTake(p)
  BY <1>4, OpStays DEF DownTake, GoOn
<1>5. CASE UpAcquire(p)
  BY <1>5, OpStays DEF UpAcquire, GoOn
<1>6. CASE UpWakeup(p)
  BY <1>6, OpStays DEF UpWakeup
<1>7. CASE UpRelease(p)
  BY <1>7, OpStays DEF UpRelease, GoOn
<1>8. CASE KillCaller(p)
  BY <1>8, OpStays DEF KillCaller, GoOn
<1>9. CASE ExitCaller(p)
  BY <1>9, OpStays DEF ExitCaller, GoOn
<1> QED
  BY <1>1, <1>2, <1>3, <1>4, <1>5, <1>6, <1>7, <1>8, <1>9 DEF SemaStep

\* The finished calls of a kind are the entries before ip that are of it.
LEMMA Finished ==
  ASSUME NEW kind, NEW s, NEW x
  PROVE  x \in Calls(kind, s) <=>
           \E q \in Proc : \E k \in 1 .. ip[q] - 1 :
             Script[q][k] = [op |-> kind, sem |-> s] /\ x = <<q, k>>
BY DEF Calls

\* The same of the next state.
LEMMA FinishedNext ==
  ASSUME NEW kind, NEW s, NEW x
  PROVE  x \in Calls(kind, s)' <=>
           \E q \in Proc : \E k \in 1 .. ip'[q] - 1 :
             Script[q][k] = [op |-> kind, sem |-> s] /\ x = <<q, k>>
BY DEF Calls

\* A step that moves one process on finishes one call: the one of its entry.
LEMMA OneMore ==
  ASSUME SemaTypeOK, NEW p \in Proc, More(p), ip' = [ip EXCEPT ![p] = @ + 1],
         NEW kind, NEW s
  PROVE  /\ <<p, ip[p]>> \notin Calls(kind, s)
         /\ Op(p) = kind /\ S(p) = s => Calls(kind, s)' = Calls(kind, s) \cup {<<p, ip[p]>>}
         /\ ~(Op(p) = kind /\ S(p) = s) => Calls(kind, s)' = Calls(kind, s)
<1>1. /\ ip \in [Proc -> Nat] /\ ip[p] \in Nat /\ ip[p] >= 1
      /\ ip'[p] = ip[p] + 1 /\ \A q \in Proc : q # p => ip'[q] = ip[q]
  BY DEF SemaTypeOK
<1>2. Script[p][ip[p]] = [op |-> kind, sem |-> s] <=> Op(p) = kind /\ S(p) = s
  <2>1. Script[p] \in Seq([op : {"down", "up"}, sem : Sem]) /\ ip[p] \in 1 .. Len(Script[p])
    BY SemaphoreAssumption, CallType
  <2>2. Script[p][ip[p]] \in [op : {"down", "up"}, sem : Sem]
    BY <2>1, ElementOf
  <2> QED
    BY <2>2 DEF Op, S
<1>3. <<p, ip[p]>> \notin Calls(kind, s)
  <2> SUFFICES ASSUME <<p, ip[p]>> \in Calls(kind, s)
               PROVE  FALSE
    OBVIOUS
  <2>1. PICK q \in Proc : \E k \in 1 .. ip[q] - 1 :
          Script[q][k] = [op |-> kind, sem |-> s] /\ <<p, ip[p]>> = <<q, k>>
    BY Finished, Zenon
  <2> QED
    BY <1>1, <2>1
<1>4. \A x : x \in Calls(kind, s)' <=>
               \/ x \in Calls(kind, s)
               \/ (x = <<p, ip[p]>> /\ Op(p) = kind /\ S(p) = s)
  <2> TAKE x
  <2>1. ASSUME x \in Calls(kind, s) PROVE x \in Calls(kind, s)'
    <3>1. PICK q \in Proc : \E k \in 1 .. ip[q] - 1 :
            Script[q][k] = [op |-> kind, sem |-> s] /\ x = <<q, k>>
      BY <2>1, Finished
    <3>2. PICK k \in 1 .. ip[q] - 1 : Script[q][k] = [op |-> kind, sem |-> s] /\ x = <<q, k>>
      BY <3>1
    <3>3. k \in 1 .. ip'[q] - 1
      BY <1>1, <3>2
    <3> QED
      BY <3>2, <3>3, FinishedNext
  <2>2. ASSUME x = <<p, ip[p]>>, Op(p) = kind, S(p) = s PROVE x \in Calls(kind, s)'
    <3>1. ip[p] \in 1 .. ip'[p] - 1
      BY <1>1
    <3> QED
      BY <1>2, <2>2, <3>1, FinishedNext
  <2>3. ASSUME x \in Calls(kind, s)', x \notin Calls(kind, s)
        PROVE  x = <<p, ip[p]>> /\ Op(p) = kind /\ S(p) = s
    <3>1. PICK q \in Proc : \E k \in 1 .. ip'[q] - 1 :
            Script[q][k] = [op |-> kind, sem |-> s] /\ x = <<q, k>>
      BY <2>3, FinishedNext
    <3>2. PICK k \in 1 .. ip'[q] - 1 : Script[q][k] = [op |-> kind, sem |-> s] /\ x = <<q, k>>
      BY <3>1
    <3>3. k \notin 1 .. ip[q] - 1
      BY <2>3, <3>2, Finished
    <3>4. q = p /\ k = ip[p]
      BY <1>1, <3>2, <3>3
    <3> QED
      BY <1>2, <3>2, <3>4
  <2> QED
    BY <2>1, <2>2, <2>3
<1>5. Op(p) = kind /\ S(p) = s => Calls(kind, s)' = Calls(kind, s) \cup {<<p, ip[p]>>}
  BY <1>4, Zenon
<1>6. ~(Op(p) = kind /\ S(p) = s) => Calls(kind, s)' = Calls(kind, s)
  BY <1>4, Zenon
<1> QED
  BY <1>3, <1>5, <1>6

\* A step that moves nobody on finishes no call.
LEMMA NoneMore ==
  ASSUME ip' = ip, NEW kind, NEW s
  PROVE  Calls(kind, s)' = Calls(kind, s)
BY DEF Calls

\* Every action keeps the finished calls finite in number and the value what
\* they make it.
LEMMA CountStep ==
  ASSUME SemaTypeOK, InCall, OpInv, FiniteInv, Conserved, NEW p \in Proc, SemaStep(p) \/ KillCaller(p)
  PROVE  FiniteInv' /\ Conserved'
<1>1. CASE DownTake(p) \/ UpRelease(p)
  <2>1. /\ More(p) /\ ip' = [ip EXCEPT ![p] = @ + 1]
        /\ Op(p) = "down" \/ Op(p) = "up"
        /\ Op(p) = "down" => value' = [value EXCEPT ![S(p)] = @ - 1]
        /\ Op(p) = "up" => value' = [value EXCEPT ![S(p)] = @ + 1]
    BY <1>1 DEF DownTake, UpRelease, InCall, OpInv
  <2>2. S(p) \in Sem
    BY <2>1, CallType
  <2>3. ASSUME NEW kind \in {"down", "up"}, NEW s \in Sem
        PROVE  /\ IsFiniteSet(Calls(kind, s)) /\ Cardinality(Calls(kind, s)) \in Nat
               /\ IsFiniteSet(Calls(kind, s)')
               /\ Cardinality(Calls(kind, s)') =
                    Cardinality(Calls(kind, s)) + (IF Op(p) = kind /\ S(p) = s THEN 1 ELSE 0)
    <3>1. IsFiniteSet(Calls(kind, s)) /\ Cardinality(Calls(kind, s)) \in Nat
      BY FS_CardinalityType DEF FiniteInv
    <3>0. /\ <<p, ip[p]>> \notin Calls(kind, s)
          /\ Op(p) = kind /\ S(p) = s => Calls(kind, s)' = Calls(kind, s) \cup {<<p, ip[p]>>}
          /\ ~(Op(p) = kind /\ S(p) = s) => Calls(kind, s)' = Calls(kind, s)
      <4>1. More(p) /\ ip' = [ip EXCEPT ![p] = @ + 1]
        BY <2>1
      <4> QED
        BY <4>1, OneMore, Zenon
    <3>2. CASE Op(p) = kind /\ S(p) = s
      <4>1. /\ <<p, ip[p]>> \notin Calls(kind, s)
            /\ Calls(kind, s)' = Calls(kind, s) \cup {<<p, ip[p]>>}
        BY <3>0, <3>2
      <4> HIDE DEF Calls
      <4> QED
        BY <3>1, <3>2, <4>1, FS_AddElement
    <3>3. CASE ~(Op(p) = kind /\ S(p) = s)
      <4>1. Calls(kind, s)' = Calls(kind, s)
        BY <3>0, <3>3
      <4> QED
        BY <3>1, <3>3, <4>1
    <3> QED
      BY <3>2, <3>3
  <2>4. FiniteInv'
    BY <2>3 DEF FiniteInv
  <2>5. ASSUME NEW s \in Sem
        PROVE  value'[s] = Initial[s] + Cardinality(Calls("up", s)')
                           - Cardinality(Calls("down", s)')
    <3>1. /\ Cardinality(Calls("up", s)') =
               Cardinality(Calls("up", s)) + (IF Op(p) = "up" /\ S(p) = s THEN 1 ELSE 0)
          /\ Cardinality(Calls("down", s)') =
               Cardinality(Calls("down", s)) + (IF Op(p) = "down" /\ S(p) = s THEN 1 ELSE 0)
          /\ Cardinality(Calls("up", s)) \in Nat /\ Cardinality(Calls("down", s)) \in Nat
      BY <2>3
    <3>2. value[s] = Initial[s] + Cardinality(Calls("up", s)) - Cardinality(Calls("down", s))
      BY DEF Conserved
    <3>3. value \in [Sem -> Nat] /\ Initial[s] \in Nat /\ value[s] \in Nat
      BY SemaphoreAssumption DEF SemaTypeOK
    <3>4. CASE Op(p) = "down"
      <4>1. value'[s] = IF S(p) = s THEN value[s] - 1 ELSE value[s]
        BY <2>1, <2>2, <3>3, <3>4
      <4> QED
        BY <3>1, <3>2, <3>3, <3>4, <4>1
    <3>5. CASE Op(p) = "up"
      <4>1. value'[s] = IF S(p) = s THEN value[s] + 1 ELSE value[s]
        BY <2>1, <2>2, <3>3, <3>5
      <4> QED
        BY <3>1, <3>2, <3>3, <3>5, <4>1
    <3> QED
      BY <2>1, <3>4, <3>5
  <2> QED
    BY <2>4, <2>5 DEF Conserved
<1>2. CASE ~(DownTake(p) \/ UpRelease(p))
  <2>1. ip' = ip /\ value' = value
    BY <1>2 DEF SemaStep, KillCaller, DownAcquire, DownSleep, DownAgain, UpAcquire, UpWakeup, ExitCaller
  <2>2. \A kind, s : Calls(kind, s)' = Calls(kind, s)
    BY <2>1, NoneMore
  <2> QED
    BY <2>1, <2>2 DEF FiniteInv, Conserved
<1> QED
  BY <1>1, <1>2

-----------------------------------------------------------------------------
(* Theorems.                                                               *)

\* IInv holds in every reachable state.
THEOREM Inductive == SemaSpec => []IInv
<1>1. SemaInit => IInv
  <2> SUFFICES ASSUME SemaInit PROVE IInv
    OBVIOUS
  <2>1. SemaTypeOK /\ InCall /\ LockInv /\ WokeInv /\ SleepInv /\ OpInv
    BY SemaphoreAssumption
       DEF SemaInit, SemaTypeOK, SemaPC, InCall, LockInv, WokeInv, SleepInv, OpInv
  <2>2. \A kind, s : Calls(kind, s) = {}
    BY DEF SemaInit, Calls
  <2>3. FiniteInv /\ Conserved
    <3>1. IsFiniteSet({}) /\ Cardinality({}) = 0
      BY FS_EmptySet
    <3>2. FiniteInv
      BY <2>2, <3>1 DEF FiniteInv
    <3>3. ASSUME NEW s \in Sem
          PROVE  value[s] = Initial[s] + Cardinality(Calls("up", s)) - Cardinality(Calls("down", s))
      <4>1. value[s] = Initial[s] /\ Initial[s] \in Nat
        BY SemaphoreAssumption DEF SemaInit
      <4>2. Cardinality(Calls("up", s)) = 0 /\ Cardinality(Calls("down", s)) = 0
        BY <2>2, <3>1
      <4> QED
        BY <4>1, <4>2
    <3> QED
      BY <3>2, <3>3 DEF Conserved
  <2> QED
    BY <2>1, <2>3 DEF IInv
<1>2. IInv /\ [SemaNext]_semaVars => IInv'
  <2> SUFFICES ASSUME IInv, [SemaNext]_semaVars PROVE IInv'
    OBVIOUS
  <2>1. CASE SemaNext
    <3>1. PICK p \in Proc : SemaStep(p) \/ KillCaller(p)
      BY <2>1, SemaphoreAssumption DEF SemaNext
    <3> QED
      BY <3>1, TypeStep, InCallStep, LockStep, WokeStep, SleepStep, OpStep, CountStep DEF IInv
  <2>2. CASE UNCHANGED semaVars
    <3>1. SemaTypeOK' /\ InCall' /\ LockInv' /\ WokeInv' /\ SleepInv' /\ OpInv'
      BY <2>2 DEF semaVars, IInv, SemaTypeOK, InCall, More, S, Op, LockInv, WokeInv, SleepInv, OpInv
    <3>2. value' = value /\ \A kind, s : Calls(kind, s)' = Calls(kind, s)
      BY <2>2, NoneMore DEF semaVars
    <3>3. FiniteInv' /\ Conserved'
      BY <3>2 DEF IInv, FiniteInv, Conserved
    <3> QED
      BY <3>1, <3>3 DEF IInv
  <2> QED
    BY <2>1, <2>2
<1> QED
  BY <1>1, <1>2, PTL DEF SemaSpec

\* The value of a semaphore stays a natural number and every process within
\* its script.
THEOREM TypeCorrect == SemaSpec => []SemaTypeOK
BY Inductive, PTL DEF IInv

\* sema_up() loses no wakeup although it wakes before it increments, for any
\* number of processes, any scripts and kills.
THEOREM NoLostWakeup == SemaSpec => []NobodyStranded
<1>1. IInv => NobodyStranded
  BY DEF IInv, SleepInv, NobodyStranded
<1> QED
  BY <1>1, Inductive, PTL

\* No more sema_down() calls return than there were units, for any number of
\* processes that are woken at once, any scripts and kills: the value counts the
\* units that are left, and the test in the loop keeps it from falling below 0.
THEOREM NothingOversold == SemaSpec => []DownsCovered
<1>1. IInv => DownsCovered
  <2> SUFFICES ASSUME IInv, NEW s \in Sem
               PROVE  Cardinality(Calls("down", s)) <= Initial[s] + Cardinality(Calls("up", s))
    BY DEF DownsCovered
  <2>1. value[s] \in Nat /\ Initial[s] \in Nat
    BY SemaphoreAssumption DEF IInv, SemaTypeOK
  <2>2. Cardinality(Calls("up", s)) \in Nat /\ Cardinality(Calls("down", s)) \in Nat
    BY FS_CardinalityType DEF IInv, FiniteInv
  <2>3. value[s] = Initial[s] + Cardinality(Calls("up", s)) - Cardinality(Calls("down", s))
    BY DEF IInv, Conserved
  <2> QED BY <2>1, <2>2, <2>3
<1> QED
  BY <1>1, Inductive, PTL
=============================================================================
