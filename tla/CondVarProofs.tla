---------------------------- MODULE CondVarProofs ---------------------------
(***************************************************************************)
(* Proofs about CondVar, for every set of processes and any kills: the     *)
(* mutex excludes, nobody sleeps on a free mutex, and no condition_node is *)
(* used after the frame of cond_wait() that it is a local variable of.     *)
(***************************************************************************)
EXTENDS CondVar, TLAPS

-----------------------------------------------------------------------------
(* The inductive invariant.                                                *)

\* Between the LockTake() and the Release() of the mutex.
Holder(p) == pc[p] \in {"in", "release", "pop", "signal", "wake", "dead"}

\* mlk->value counts the holders.
HolderInv ==
  /\ \A p, q \in Proc : Holder(p) /\ Holder(q) => p = q
  /\ \A p \in Proc : Holder(p) => mvalue = 1
  /\ mvalue = 1 => \E p \in Proc : Holder(p)

\* The places of a process whose node may be queued or in hand: from
\* list_push_back() in cond_wait() to the end of its sleep().
Queueable(p) ==
  waiting[p] /\ pc[p] \in {"release", "wake", "node", "presleep", "nodesleep"}

\* A killed process that sleep() returned to with its node still in clist: on
\* its way to the mutex, or with it.
Left(p) ==
  /\ killed[p]
  /\ \/ waiting[p] /\ pc[p] \in {"nodewoken", "acquire", "test", "asleep"}
     \/ pc[p] \in {"in", "dead"}

\* clist holds nodes of such processes, each of them once.
ListInv ==
  /\ \A i \in 1 .. Len(clist) : Queueable(clist[i]) \/ Left(clist[i])
  /\ \A i, j \in 1 .. Len(clist) : clist[i] = clist[j] => i = j

\* Only a cond_signal(), which runs with the mutex, has a node in hand, and it
\* has taken it out of clist.  Without the mutex the node's process, though
\* killed, does not get out of cond_wait().
HandInv ==
  \A p \in Proc : node[p] # Nobody =>
    /\ pc[p] \in {"pop", "signal"}
    /\ waiting[node[p]]
    /\ \A i \in 1 .. Len(clist) : clist[i] # node[p]

IInv == TypeOK /\ HolderInv /\ MutexWaiterInformed /\ ListInv /\ HandInv

-----------------------------------------------------------------------------
(* One lemma for each part of the invariant, one step for each action.     *)

\* What list_push_back() does to clist.
LEMMA AppendFacts ==
  ASSUME NEW S, NEW s \in Seq(S), NEW x \in S
  PROVE  /\ Append(s, x) \in Seq(S)
         /\ Len(Append(s, x)) = Len(s) + 1
         /\ \A i \in 1 .. Len(s) : Append(s, x)[i] = s[i]
         /\ Append(s, x)[Len(s) + 1] = x
  OBVIOUS

\* What list_pop_front() does to clist.
LEMMA PopFacts ==
  ASSUME NEW S, NEW s \in Seq(S), s # <<>>
  PROVE  /\ Len(s) \in Nat \ {0}
         /\ Head(s) = s[1] /\ Head(s) \in S
         /\ Tail(s) \in Seq(S)
         /\ Len(Tail(s)) = Len(s) - 1
         /\ \A i \in 1 .. Len(s) - 1 : Tail(s)[i] = s[i + 1]
  OBVIOUS

\* Every action keeps the types.
LEMMA TypeStep ==
  ASSUME TypeOK,
         NEW p \in Proc, Kernel(p) \/ User(p) \/ Kill(p)
  PROVE  TypeOK'
<1> USE CondVarAssumption DEF TypeOK, PC
<1>1. CASE LockCall(p)
  BY <1>1 DEF LockCall, Call
<1>2. CASE LockEnter(p)
  BY <1>2 DEF LockEnter, Step
<1>3. CASE LockSleep(p)
  BY <1>3 DEF LockSleep, Step
<1>4. CASE LockTake(p)
  BY <1>4 DEF LockTake, Step
<1>5. CASE ReleaseCall(p)
  BY <1>5 DEF ReleaseCall, Call
<1>6. CASE ReleaseInWait(p)
  BY <1>6 DEF ReleaseInWait, Step
<1>7. CASE Release(p)
  BY <1>7 DEF Release
<1>8. CASE Wait(p)
  BY <1>8, AppendFacts DEF Wait, Call
<1>9. CASE NodeEnter(p)
  BY <1>9 DEF NodeEnter, Step
<1>10. CASE NodeSleep(p)
  BY <1>10 DEF NodeSleep, Step
<1>11. CASE NodeReturn(p)
  BY <1>11 DEF NodeReturn, Step
<1>12. CASE SignalPop(p)
  BY <1>12, PopFacts DEF SignalPop, Call
<1>13. CASE SignalEnter(p)
  BY <1>13 DEF SignalEnter, Step
<1>14. CASE SignalWake(p)
  BY <1>14 DEF SignalWake
<1>15. CASE Exit(p)
  BY <1>15 DEF Exit
<1>16. CASE Kill(p)
  BY <1>16 DEF Kill
<1> QED
  BY <1>1, <1>2, <1>3, <1>4, <1>5, <1>6, <1>7, <1>8, <1>9, <1>10, <1>11, <1>12,
     <1>13, <1>14, <1>15, <1>16 DEF Kernel, User

\* Every action keeps one holder at most, as mlk->value says.
LEMMA HolderStep ==
  ASSUME TypeOK, HolderInv,
         NEW p \in Proc, Kernel(p) \/ User(p) \/ Kill(p)
  PROVE  HolderInv'
<1> USE CondVarAssumption DEF TypeOK, HolderInv, Holder
<1>1. CASE LockCall(p)
  BY <1>1 DEF LockCall, Call
<1>2. CASE LockEnter(p)
  BY <1>2 DEF LockEnter, Step
<1>3. CASE LockSleep(p)
  BY <1>3 DEF LockSleep, Step
<1>4. CASE LockTake(p)
  BY <1>4 DEF LockTake, Step
<1>5. CASE ReleaseCall(p)
  BY <1>5 DEF ReleaseCall, Call
<1>6. CASE ReleaseInWait(p)
  BY <1>6 DEF ReleaseInWait, Step
<1>7. CASE Release(p)
  BY <1>7 DEF Release
<1>8. CASE Wait(p)
  BY <1>8 DEF Wait, Call
<1>9. CASE NodeEnter(p)
  BY <1>9 DEF NodeEnter, Step
<1>10. CASE NodeSleep(p)
  BY <1>10 DEF NodeSleep, Step
<1>11. CASE NodeReturn(p)
  BY <1>11 DEF NodeReturn, Step
<1>12. CASE SignalPop(p)
  BY <1>12 DEF SignalPop, Call
<1>13. CASE SignalEnter(p)
  BY <1>13 DEF SignalEnter, Step
<1>14. CASE SignalWake(p)
  BY <1>14 DEF SignalWake
<1>15. CASE Exit(p)
  BY <1>15 DEF Exit
<1>16. CASE Kill(p)
  BY <1>16 DEF Kill
<1> QED
  BY <1>1, <1>2, <1>3, <1>4, <1>5, <1>6, <1>7, <1>8, <1>9, <1>10, <1>11, <1>12,
     <1>13, <1>14, <1>15, <1>16 DEF Kernel, User

\* Every action that frees the mutex wakes those asleep on it.
LEMMA InformedStep ==
  ASSUME TypeOK, MutexWaiterInformed,
         NEW p \in Proc, Kernel(p) \/ User(p) \/ Kill(p)
  PROVE  MutexWaiterInformed'
<1> USE CondVarAssumption DEF TypeOK, MutexWaiterInformed
<1>1. CASE LockCall(p)
  BY <1>1 DEF LockCall, Call
<1>2. CASE LockEnter(p)
  BY <1>2 DEF LockEnter, Step
<1>3. CASE LockSleep(p)
  BY <1>3 DEF LockSleep, Step
<1>4. CASE LockTake(p)
  BY <1>4 DEF LockTake, Step
<1>5. CASE ReleaseCall(p)
  BY <1>5 DEF ReleaseCall, Call
<1>6. CASE ReleaseInWait(p)
  BY <1>6 DEF ReleaseInWait, Step
<1>7. CASE Release(p)
  BY <1>7 DEF Release
<1>8. CASE Wait(p)
  BY <1>8 DEF Wait, Call
<1>9. CASE NodeEnter(p)
  BY <1>9 DEF NodeEnter, Step
<1>10. CASE NodeSleep(p)
  BY <1>10 DEF NodeSleep, Step
<1>11. CASE NodeReturn(p)
  BY <1>11 DEF NodeReturn, Step
<1>12. CASE SignalPop(p)
  BY <1>12 DEF SignalPop, Call
<1>13. CASE SignalEnter(p)
  BY <1>13 DEF SignalEnter, Step
<1>14. CASE SignalWake(p)
  BY <1>14 DEF SignalWake
<1>15. CASE Exit(p)
  BY <1>15 DEF Exit
<1>16. CASE Kill(p)
  BY <1>16 DEF Kill
<1> QED
  BY <1>1, <1>2, <1>3, <1>4, <1>5, <1>6, <1>7, <1>8, <1>9, <1>10, <1>11, <1>12,
     <1>13, <1>14, <1>15, <1>16 DEF Kernel, User

\* Every action keeps the nodes in clist alive and apart.
LEMMA ListStep ==
  ASSUME TypeOK, ListInv, HandInv,
         NEW p \in Proc, Kernel(p) \/ User(p) \/ Kill(p)
  PROVE  ListInv'
<1> USE CondVarAssumption DEF TypeOK, ListInv, Queueable, Left
<1>1. CASE LockCall(p)
  BY <1>1 DEF LockCall, Call
<1>2. CASE LockEnter(p)
  BY <1>2 DEF LockEnter, Step
<1>3. CASE LockSleep(p)
  BY <1>3 DEF LockSleep, Step
<1>4. CASE LockTake(p)
  BY <1>4 DEF LockTake, Step
<1>5. CASE ReleaseCall(p)
  BY <1>5 DEF ReleaseCall, Call
<1>6. CASE ReleaseInWait(p)
  BY <1>6 DEF ReleaseInWait, Step
<1>7. CASE Release(p)
  BY <1>7 DEF Release
<1>8. CASE Wait(p)
  \* p is at "in", so it is not in clist yet
  <2>1. \A i \in 1 .. Len(clist) : clist[i] # p
    BY <1>8 DEF Wait, Call
  <2>2. \A i \in 1 .. Len(clist) : (Queueable(clist[i]) \/ Left(clist[i]))'
    <3> TAKE i \in 1 .. Len(clist)
    <3>1. clist[i] \in Proc /\ clist'[i] = clist[i]
      BY <1>8, AppendFacts DEF Wait
    <3> QED
      BY <1>8, <2>1, <3>1 DEF Wait, Call
  <2>3. Queueable(p)'
    BY <1>8 DEF Wait, Call
  <2>4. /\ Len(clist') = Len(clist) + 1
        /\ \A i \in 1 .. Len(clist) : clist'[i] = clist[i]
        /\ clist'[Len(clist) + 1] = p
    BY <1>8, AppendFacts DEF Wait
  <2>5. \A i \in 1 .. Len(clist') : i \in 1 .. Len(clist) \/ i = Len(clist) + 1
    BY <2>4
  <2>6. \A i, j \in 1 .. Len(clist') : clist'[i] = clist'[j] => i = j
    BY <2>1, <2>4, <2>5
  <2>7. \A i \in 1 .. Len(clist') : (Queueable(clist[i]) \/ Left(clist[i]))'
    BY <2>2, <2>3, <2>4, <2>5
  <2> QED
    BY <2>6, <2>7
<1>9. CASE NodeEnter(p)
  BY <1>9 DEF NodeEnter, Step
<1>10. CASE NodeSleep(p)
  BY <1>10 DEF NodeSleep, Step
<1>11. CASE NodeReturn(p)
  BY <1>11 DEF NodeReturn, Step
<1>12. CASE SignalPop(p)
  BY <1>12 DEF SignalPop, Call
<1>13. CASE SignalEnter(p)
  BY <1>13 DEF SignalEnter, Step
<1>14. CASE SignalWake(p)
  \* the process that is woken is not in clist, and neither is p
  <2>1. \A i \in 1 .. Len(clist) : clist[i] # node[p] /\ clist[i] # p
    BY <1>14 DEF SignalWake, HandInv
  <2>2. \A i \in 1 .. Len(clist) : pc'[clist[i]] = pc[clist[i]]
    BY <1>14, <2>1 DEF SignalWake
  <2> QED
    BY <1>14, <2>2 DEF SignalWake
<1>15. CASE Exit(p)
  BY <1>15 DEF Exit
<1>16. CASE Kill(p)
  BY <1>16 DEF Kill
<1> QED
  BY <1>1, <1>2, <1>3, <1>4, <1>5, <1>6, <1>7, <1>8, <1>9, <1>10, <1>11, <1>12,
     <1>13, <1>14, <1>15, <1>16 DEF Kernel, User

\* Every action keeps the node in hand alive and out of clist.
LEMMA HandStep ==
  ASSUME TypeOK, HolderInv, ListInv, HandInv,
         NEW p \in Proc, Kernel(p) \/ User(p) \/ Kill(p)
  PROVE  HandInv'
<1> USE CondVarAssumption DEF TypeOK, HolderInv, Holder, ListInv, HandInv, Queueable, Left
<1>1. CASE LockCall(p)
  BY <1>1 DEF LockCall, Call
<1>2. CASE LockEnter(p)
  BY <1>2 DEF LockEnter, Step
<1>3. CASE LockSleep(p)
  BY <1>3 DEF LockSleep, Step
<1>4. CASE LockTake(p)
  BY <1>4 DEF LockTake, Step
<1>5. CASE ReleaseCall(p)
  BY <1>5 DEF ReleaseCall, Call
<1>6. CASE ReleaseInWait(p)
  BY <1>6 DEF ReleaseInWait, Step
<1>7. CASE Release(p)
  BY <1>7 DEF Release
<1>8. CASE Wait(p)
  BY <1>8 DEF Wait, Call
<1>9. CASE NodeEnter(p)
  BY <1>9 DEF NodeEnter, Step
<1>10. CASE NodeSleep(p)
  BY <1>10 DEF NodeSleep, Step
<1>11. CASE NodeReturn(p)
  BY <1>11 DEF NodeReturn, Step
<1>12. CASE SignalPop(p)
  BY <1>12 DEF SignalPop, Call
<1>13. CASE SignalEnter(p)
  BY <1>13 DEF SignalEnter, Step
<1>14. CASE SignalWake(p)
  BY <1>14 DEF SignalWake
<1>15. CASE Exit(p)
  BY <1>15 DEF Exit
<1>16. CASE Kill(p)
  BY <1>16 DEF Kill
<1> QED
  BY <1>1, <1>2, <1>3, <1>4, <1>5, <1>6, <1>7, <1>8, <1>9, <1>10, <1>11, <1>12,
     <1>13, <1>14, <1>15, <1>16 DEF Kernel, User

-----------------------------------------------------------------------------
(* Theorems.                                                               *)

\* IInv holds in every reachable state.
THEOREM Inductive == Spec => []IInv
<1>1. Init => IInv
  BY CondVarAssumption DEF Init, IInv, TypeOK, PC, HolderInv, Holder,
     MutexWaiterInformed, ListInv, HandInv
<1>2. IInv /\ [Next]_vars => IInv'
  <2> SUFFICES ASSUME IInv, [Next]_vars PROVE IInv'
    OBVIOUS
  <2>1. CASE Next
    <3>1. PICK p \in Proc : Kernel(p) \/ User(p) \/ Kill(p)
      BY <2>1, CondVarAssumption DEF Next
    <3> QED
      BY <3>1, TypeStep, HolderStep, InformedStep, ListStep, HandStep DEF IInv
  <2>2. CASE UNCHANGED vars
    BY <2>2 DEF vars, IInv, TypeOK, HolderInv, Holder, MutexWaiterInformed,
       ListInv, HandInv, Queueable, Left
  <2> QED
    BY <2>1, <2>2
<1> QED
  BY <1>1, <1>2, PTL DEF Spec

\* The variables of the mutex and of the condition variable keep their types.
THEOREM TypeCorrect == Spec => []TypeOK
BY Inductive, PTL DEF IInv

\* lock_acquire() and lock_release() exclude, also when cond_wait() calls
\* them, for any number of processes.
THEOREM Exclusion == Spec => []MutexExcludes
<1>1. IInv => MutexExcludes
  BY DEF IInv, HolderInv, Holder, MutexExcludes, HasMutex
<1> QED
  BY <1>1, Inductive, PTL

\* Nobody sleeps on a mutex that is free.
THEOREM Informed == Spec => []MutexWaiterInformed
BY Inductive, PTL DEF IInv

\* No node in clist or in the hands of cond_signal() is out of scope, and none
\* is there twice.
THEOREM Scope == Spec => []NodesInScope
<1>1. IInv => NodesInScope
  BY DEF IInv, TypeOK, ListInv, HandInv, Queueable, Left, NodesInScope
<1> QED
  BY <1>1, Inductive, PTL
=============================================================================
