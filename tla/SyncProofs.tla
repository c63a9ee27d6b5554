----------------------------- MODULE SyncProofs -----------------------------
(***************************************************************************)
(* Proofs about Spinlock, for every set of CPUs and every number of locks, *)
(* and about SleepWakeup, for any number of threads and any width of       *)
(* ticks: no wakeup is missed, and sleep() and wakeup() implement the      *)
(* atomic sleep that the comment above sleep() promises.                   *)
(***************************************************************************)
EXTENDS Spinlock, SleepWakeup, FiniteSetTheorems, TLAPS

-----------------------------------------------------------------------------
(* Spin locks.                                                             *)

\* Cardinalities of sets of locks.
LEMMA HeldCardinality ==
  ASSUME NEW S \in SUBSET Lock, NEW x \in Lock
  PROVE  /\ Cardinality(S) \in Nat
         /\ Cardinality(S) = 0 <=> S = {}
         /\ x \notin S => Cardinality(S \cup {x}) = Cardinality(S) + 1
         /\ x \in S => Cardinality(S \ {x}) = Cardinality(S) - 1
<1>1. IsFiniteSet(Lock)
  BY SpinlockAssumption, FS_Interval DEF Lock
<1>2. IsFiniteSet(S)
  BY <1>1, FS_Subset
<1> QED
  BY <1>2, FS_CardinalityType, FS_EmptySet, FS_AddElement, FS_RemoveElement

\* The same for the locks that an activation holds.
LEMMA HeldCounts ==
  ASSUME TypeOK
  PROVE  \A c \in CPU : \A k \in Level :
           /\ Cardinality(held[c][k]) \in Nat
           /\ Cardinality(held[c][k]) = 0 <=> held[c][k] = {}
<1>1. IsFiniteSet(Lock)
  BY SpinlockAssumption, FS_Interval DEF Lock
<1>2. ASSUME NEW c \in CPU, NEW k \in Level PROVE IsFiniteSet(held[c][k])
  BY <1>1, FS_Subset DEF TypeOK
<1> QED
  BY <1>2, FS_CardinalityType, FS_EmptySet

\* The depth of an activation, in a call of spinlock.c and outside.
LEMMA DepthFacts ==
  ASSUME TypeOK, NEW c \in CPU, NEW k \in Level
  PROVE  /\ InCall(c, k) => Depth(c, k) = Cardinality(held[c][k]) + 1
         /\ ~InCall(c, k) => Depth(c, k) = Cardinality(held[c][k])
         /\ Depth(c, k) \in Nat
         /\ Depth(c, k) = 0 <=> held[c][k] = {} /\ ~InCall(c, k)
<1>1. /\ Cardinality(held[c][k]) \in Nat
      /\ Cardinality(held[c][k]) = 0 <=> held[c][k] = {}
  BY HeldCounts
<1>2. CASE InCall(c, k)
  BY <1>1, <1>2 DEF Depth
<1>3. CASE ~InCall(c, k)
  BY <1>1, <1>3 DEF Depth
<1> QED
  BY <1>2, <1>3

\* Every initial state satisfies the inductive invariant.
LEMMA InitIInv == Init => IInv
<1> SUFFICES ASSUME Init PROVE IInv
  OBVIOUS
<1> USE SpinlockAssumption DEF Init
<1>1. TypeOK
  BY DEF TypeOK, PC, Level
<1>2. CallInv /\ LevelInv
  BY DEF CallInv, LevelInv, Level
<1>3. CliInv
  BY FS_EmptySet DEF CliInv, CliOK, Depth, InCall, Level
<1>4. OwnerInv /\ MutualExclusion /\ NoPanic
  BY DEF OwnerInv, MutualExclusion, NoPanic, Owns, Level
<1> QED
  BY <1>1, <1>2, <1>3, <1>4 DEF IInv

\* The call of acquire: nothing is pushed and no lock changes hands yet.
LEMMA AcquireCallStep ==
  ASSUME IInv, NEW c \in CPU, NEW k \in Level, NEW l \in Lock, AcquireCall(c, k, l)
  PROVE  IInv'
<1> USE SpinlockAssumption DEF AcquireCall, At, Goto, PanicIf, cpuvars, Level
<1>0. /\ CliOK(c)
      /\ \A j \in Level : /\ Cardinality(held[c][j]) \in Nat
                           /\ Cardinality(held[c][j]) = 0 <=> held[c][j] = {}
  BY HeldCounts DEF IInv, CliInv
<1>1. TypeOK'
  BY DEF IInv, TypeOK, PC, CallInv, Holding
<1>2. CallInv'
  BY DEF IInv, TypeOK, CallInv
<1>3. LevelInv'
  BY <1>0 DEF IInv, TypeOK, LevelInv, CliOK, Depth, InCall
<1>4. CliInv'
  <2>1. ASSUME NEW d \in CPU, d # c PROVE CliOK(d)'
    BY <2>1 DEF IInv, TypeOK, CliInv, CliOK, Depth, InCall
  <2>2. CliOK(c)'
    BY <1>0 DEF IInv, TypeOK, CallInv, LevelInv, CliOK, Depth, InCall
  <2> QED
    BY <2>1, <2>2 DEF CliInv
<1>5. OwnerInv'
  BY DEF IInv, TypeOK, CallInv, LevelInv, OwnerInv, MutualExclusion, Owns
<1>6. MutualExclusion'
  BY DEF IInv, TypeOK, CallInv, OwnerInv, MutualExclusion, Owns
<1>7. NoPanic'
  BY <1>0 DEF IInv, TypeOK, CallInv, LevelInv, OwnerInv, CliOK, Depth, InCall, NoPanic, Holding
<1> QED
  BY <1>1, <1>2, <1>3, <1>4, <1>5, <1>6, <1>7 DEF IInv

\* pushcli's second half: the depth grows with the call that is now open.
LEMMA PushCliStep ==
  ASSUME IInv, NEW c \in CPU, NEW k \in Level, PushCli(c, k)
  PROVE  IInv'
<1> USE SpinlockAssumption DEF PushCli, At, Goto, PanicIf, cpuvars, Level
<1>0. /\ CliOK(c)
      /\ \A j \in Level : /\ Cardinality(held[c][j]) \in Nat
                           /\ Cardinality(held[c][j]) = 0 <=> held[c][j] = {}
  BY HeldCounts DEF IInv, CliInv
<1>1. TypeOK'
  BY DEF IInv, TypeOK, PC, CallInv, Holding
<1>2. CallInv'
  BY DEF IInv, TypeOK, CallInv
<1>3. LevelInv'
  BY <1>0 DEF IInv, TypeOK, LevelInv, CliOK, Depth, InCall
<1>4. CliInv'
  <2>1. ASSUME NEW d \in CPU, d # c PROVE CliOK(d)'
    BY <2>1 DEF IInv, TypeOK, CliInv, CliOK, Depth, InCall
  <2>2. CliOK(c)'
    <3>1. level[c] = k /\ pc[c][k] = "push" /\ pc'[c][k] = "hold"
      BY DEF IInv, TypeOK
    <3>2. held' = held /\ level' = level /\ ncli[c] = Cardinality(held[c][k])
      <4>1. ~InCall(c, k) /\ ncli[c] = Depth(c, k)
        BY <1>0, <3>1 DEF CliOK, InCall
      <4> QED
        BY <4>1, DepthFacts DEF IInv
    <3>3. ncli'[c] = ncli[c] + 1 /\ ncli'[c] = Depth(c, level[c])' /\ ncli'[c] > 0
      BY <1>0, <3>1, <3>2 DEF IInv, TypeOK, Depth, InCall
    <3>4. intena'[c] <=> level[c] = 0
      BY <1>0, <3>2 DEF IInv, TypeOK, CliOK
    <3>5. ~IF_'[c]
      BY DEF IInv, TypeOK
    <3> QED
      BY <1>0, <3>2, <3>3, <3>4, <3>5 DEF IInv, TypeOK, CliOK
  <2> QED
    BY <2>1, <2>2 DEF CliInv
<1>5. OwnerInv'
  BY DEF IInv, TypeOK, CallInv, LevelInv, OwnerInv, MutualExclusion, Owns
<1>6. MutualExclusion'
  BY DEF IInv, TypeOK, CallInv, OwnerInv, MutualExclusion, Owns
<1>7. NoPanic'
  BY <1>0 DEF IInv, TypeOK, CallInv, LevelInv, OwnerInv, CliOK, Depth, InCall, NoPanic, Holding
<1> QED
  BY <1>1, <1>2, <1>3, <1>4, <1>5, <1>6, <1>7 DEF IInv

\* acquire's holding() test never fires: the lock order keeps the argument
\* out of the locks that this CPU already holds.
LEMMA AcquireCheckStep ==
  ASSUME IInv, NEW c \in CPU, NEW k \in Level, AcquireCheck(c, k)
  PROVE  IInv'
<1> USE SpinlockAssumption DEF AcquireCheck, At, Goto, PanicIf, cpuvars, Level
<1>0. /\ CliOK(c)
      /\ \A j \in Level : /\ Cardinality(held[c][j]) \in Nat
                           /\ Cardinality(held[c][j]) = 0 <=> held[c][j] = {}
  BY HeldCounts DEF IInv, CliInv
<1>1. TypeOK'
  BY DEF IInv, TypeOK, PC, CallInv, Holding
<1>2. CallInv'
  BY DEF IInv, TypeOK, CallInv
<1>3. LevelInv'
  BY <1>0 DEF IInv, TypeOK, LevelInv, CliOK, Depth, InCall
<1>4. CliInv'
  <2>1. ASSUME NEW d \in CPU, d # c PROVE CliOK(d)'
    BY <2>1 DEF IInv, TypeOK, CliInv, CliOK, Depth, InCall
  <2>2. CliOK(c)'
    BY <1>0 DEF IInv, TypeOK, CallInv, LevelInv, CliOK, Depth, InCall
  <2> QED
    BY <2>1, <2>2 DEF CliInv
<1>5. OwnerInv'
  BY DEF IInv, TypeOK, CallInv, LevelInv, OwnerInv, MutualExclusion, Owns
<1>6. MutualExclusion'
  BY DEF IInv, TypeOK, CallInv, OwnerInv, MutualExclusion, Owns
<1>7. NoPanic'
  <2>1. lk[c][k] \in Lock /\ \A j \in Level : lk[c][k] \notin held[c][j]
    BY SMTT(30) DEF IInv, TypeOK, CallInv, LevelInv, Lock
  <2>2. ~Holding(c, lk[c][k])
    BY <2>1 DEF IInv, OwnerInv, Holding
  <2> QED
    BY <2>2 DEF IInv, TypeOK, NoPanic
<1> QED
  BY <1>1, <1>2, <1>3, <1>4, <1>5, <1>6, <1>7 DEF IInv

\* The winning xchg makes its activation the only owner.
LEMMA XchgStep ==
  ASSUME IInv, NEW c \in CPU, NEW k \in Level, Xchg(c, k)
  PROVE  IInv'
<1> USE SpinlockAssumption DEF Xchg, At, Goto, PanicIf, cpuvars, Level
<1>0. /\ CliOK(c)
      /\ \A j \in Level : /\ Cardinality(held[c][j]) \in Nat
                           /\ Cardinality(held[c][j]) = 0 <=> held[c][j] = {}
  BY HeldCounts DEF IInv, CliInv
<1>1. TypeOK'
  BY DEF IInv, TypeOK, PC, CallInv, Holding
<1>2. CallInv'
  BY DEF IInv, TypeOK, CallInv
<1>3. LevelInv'
  BY <1>0 DEF IInv, TypeOK, LevelInv, CliOK, Depth, InCall
<1>4. CliInv'
  <2>1. ASSUME NEW d \in CPU, d # c PROVE CliOK(d)'
    BY <2>1 DEF IInv, TypeOK, CliInv, CliOK, Depth, InCall
  <2>2. CliOK(c)'
    BY <1>0 DEF IInv, TypeOK, CallInv, LevelInv, CliOK, Depth, InCall
  <2> QED
    BY <2>1, <2>2 DEF CliInv
<1>5. OwnerInv'
  BY DEF IInv, TypeOK, CallInv, LevelInv, OwnerInv, MutualExclusion, Owns
<1>6. MutualExclusion'
  BY DEF IInv, TypeOK, CallInv, OwnerInv, MutualExclusion, Owns
<1>7. NoPanic'
  BY <1>0 DEF IInv, TypeOK, CallInv, LevelInv, OwnerInv, CliOK, Depth, InCall, NoPanic, Holding
<1> QED
  BY <1>1, <1>2, <1>3, <1>4, <1>5, <1>6, <1>7 DEF IInv

\* The return from acquire turns the open call into a held lock.
LEMMA AcquireReturnStep ==
  ASSUME IInv, NEW c \in CPU, NEW k \in Level, AcquireReturn(c, k)
  PROVE  IInv'
<1> USE SpinlockAssumption DEF AcquireReturn, At, Goto, PanicIf, cpuvars, Level
<1>0. /\ CliOK(c)
      /\ \A j \in Level : /\ Cardinality(held[c][j]) \in Nat
                           /\ Cardinality(held[c][j]) = 0 <=> held[c][j] = {}
  BY HeldCounts DEF IInv, CliInv
<1>1. TypeOK'
  BY DEF IInv, TypeOK, PC, CallInv, Holding
<1>2. CallInv'
  BY DEF IInv, TypeOK, CallInv
<1>3. LevelInv'
  BY <1>0 DEF IInv, TypeOK, LevelInv, CliOK, Depth, InCall
<1>4. CliInv'
  <2>1. ASSUME NEW d \in CPU, d # c PROVE CliOK(d)'
    BY <2>1 DEF IInv, TypeOK, CliInv, CliOK, Depth, InCall
  <2>2. CliOK(c)'
    <3>1. level[c] = k /\ pc[c][k] = "own" /\ pc'[c][k] = "run"
      BY DEF IInv, TypeOK
    <3>2. held[c][k] \in SUBSET Lock /\ lk[c][k] \in Lock /\ lk[c][k] \notin held[c][k]
      BY DEF IInv, TypeOK, CallInv, Lock
    <3>3. held'[c][k] = held[c][k] \cup {lk[c][k]}
      BY DEF IInv, TypeOK
    <3>4. Cardinality(held'[c][k]) = Cardinality(held[c][k]) + 1
      BY <3>2, <3>3, HeldCardinality
    <3>5. ncli'[c] = Depth(c, level[c])'
      BY <1>0, <3>1, <3>4 DEF IInv, TypeOK, CliOK, Depth, InCall
    <3> QED
      BY <1>0, <3>5 DEF IInv, TypeOK, CliOK
  <2> QED
    BY <2>1, <2>2 DEF CliInv
<1>5. OwnerInv'
  BY DEF IInv, TypeOK, CallInv, LevelInv, OwnerInv, MutualExclusion, Owns
<1>6. MutualExclusion'
  BY DEF IInv, TypeOK, CallInv, OwnerInv, MutualExclusion, Owns
<1>7. NoPanic'
  BY <1>0 DEF IInv, TypeOK, CallInv, LevelInv, OwnerInv, CliOK, Depth, InCall, NoPanic, Holding
<1> QED
  BY <1>1, <1>2, <1>3, <1>4, <1>5, <1>6, <1>7 DEF IInv

\* release's holding() test never fires on a held lock, and the held lock
\* becomes an open call again.
LEMMA ReleaseCallStep ==
  ASSUME IInv, NEW c \in CPU, NEW k \in Level, NEW l \in Lock, ReleaseCall(c, k, l)
  PROVE  IInv'
<1> USE SpinlockAssumption DEF ReleaseCall, At, Goto, PanicIf, cpuvars, Level
<1>0. /\ CliOK(c)
      /\ \A j \in Level : /\ Cardinality(held[c][j]) \in Nat
                           /\ Cardinality(held[c][j]) = 0 <=> held[c][j] = {}
  BY HeldCounts DEF IInv, CliInv
<1>1. TypeOK'
  BY DEF IInv, TypeOK, PC, CallInv, Holding
<1>2. CallInv'
  BY DEF IInv, TypeOK, CallInv
<1>3. LevelInv'
  BY <1>0 DEF IInv, TypeOK, LevelInv, CliOK, Depth, InCall
<1>4. CliInv'
  <2>1. ASSUME NEW d \in CPU, d # c PROVE CliOK(d)'
    BY <2>1 DEF IInv, TypeOK, CliInv, CliOK, Depth, InCall
  <2>2. CliOK(c)'
    <3>1. level[c] = k /\ pc[c][k] = "run" /\ pc'[c][k] = "drop"
      BY DEF IInv, TypeOK
    <3>2. held[c][k] \in SUBSET Lock /\ l \in held[c][k]
      BY DEF IInv, TypeOK
    <3>3. held'[c][k] = held[c][k] \ {l}
      BY DEF IInv, TypeOK
    <3>4. Cardinality(held'[c][k]) = Cardinality(held[c][k]) - 1
      BY <3>2, <3>3, HeldCardinality
    <3>5. ncli'[c] = Depth(c, level[c])'
      <4>1. ncli[c] = Cardinality(held[c][k])
        BY <1>0, <3>1, DepthFacts DEF IInv, CliOK, InCall
      <4>2. Depth(c, k)' = Cardinality(held'[c][k]) + 1
        BY <3>1 DEF Depth, InCall
      <4>3. Cardinality(held[c][k]) \in Nat
        BY HeldCounts, Zenon DEF IInv
      <4>4. Cardinality(held'[c][k]) + 1 = Cardinality(held[c][k])
        BY <3>4, <4>3
      <4>5. ncli'[c] = ncli[c] /\ level'[c] = k
        BY <3>1
      <4> QED
        BY <4>1, <4>2, <4>4, <4>5 DEF Depth, InCall
    <3>6. \A j \in Level : pc'[c][j] = "push" => j # k /\ held'[c][j] = held[c][j] /\ pc[c][j] = "push"
      BY DEF IInv, TypeOK
    <3> QED
      BY <1>0, <3>5, <3>6 DEF IInv, TypeOK, CliOK
  <2> QED
    BY <2>1, <2>2 DEF CliInv
<1>5. OwnerInv'
  BY DEF IInv, TypeOK, CallInv, LevelInv, OwnerInv, MutualExclusion, Owns
<1>6. MutualExclusion'
  BY DEF IInv, TypeOK, CallInv, OwnerInv, MutualExclusion, Owns
<1>7. NoPanic'
  <2>1. Owns(c, k, l)
    BY DEF Owns
  <2>2. Holding(c, l)
    BY <2>1 DEF IInv, OwnerInv, Holding
  <2> QED
    BY <2>2 DEF IInv, TypeOK, NoPanic
<1> QED
  BY <1>1, <1>2, <1>3, <1>4, <1>5, <1>6, <1>7 DEF IInv

\* The releasing xchg leaves the lock without an owner.
LEMMA UnlockStep ==
  ASSUME IInv, NEW c \in CPU, NEW k \in Level, Unlock(c, k)
  PROVE  IInv'
<1> USE SpinlockAssumption DEF Unlock, At, Goto, PanicIf, cpuvars, Level
<1>0. /\ CliOK(c)
      /\ \A j \in Level : /\ Cardinality(held[c][j]) \in Nat
                           /\ Cardinality(held[c][j]) = 0 <=> held[c][j] = {}
  BY HeldCounts DEF IInv, CliInv
<1>1. TypeOK'
  BY DEF IInv, TypeOK, PC, CallInv, Holding
<1>2. CallInv'
  BY DEF IInv, TypeOK, CallInv
<1>3. LevelInv'
  BY <1>0 DEF IInv, TypeOK, LevelInv, CliOK, Depth, InCall
<1>4. CliInv'
  <2>1. ASSUME NEW d \in CPU, d # c PROVE CliOK(d)'
    BY <2>1 DEF IInv, TypeOK, CliInv, CliOK, Depth, InCall
  <2>2. CliOK(c)'
    BY <1>0 DEF IInv, TypeOK, CallInv, LevelInv, CliOK, Depth, InCall
  <2> QED
    BY <2>1, <2>2 DEF CliInv
<1>5. OwnerInv'
  BY DEF IInv, TypeOK, CallInv, LevelInv, OwnerInv, MutualExclusion, Owns
<1>6. MutualExclusion'
  BY DEF IInv, TypeOK, CallInv, OwnerInv, MutualExclusion, Owns
<1>7. NoPanic'
  BY <1>0 DEF IInv, TypeOK, CallInv, LevelInv, OwnerInv, CliOK, Depth, InCall, NoPanic, Holding
<1> QED
  BY <1>1, <1>2, <1>3, <1>4, <1>5, <1>6, <1>7 DEF IInv

\* popcli finds interrupts off and a positive depth, and turns interrupts on
\* only at level 0 and depth 0.
LEMMA PopCliStep ==
  ASSUME IInv, NEW c \in CPU, NEW k \in Level, PopCli(c, k)
  PROVE  IInv'
<1> USE SpinlockAssumption DEF PopCli, At, Goto, PanicIf, cpuvars, Level
<1>0. /\ CliOK(c)
      /\ \A j \in Level : /\ Cardinality(held[c][j]) \in Nat
                           /\ Cardinality(held[c][j]) = 0 <=> held[c][j] = {}
  BY HeldCounts DEF IInv, CliInv
<1>1. TypeOK'
  <2>1. IF_' \in [CPU -> BOOLEAN] /\ panicked' \in [CPU -> BOOLEAN]
    BY DEF IInv, TypeOK
  <2>2. ncli' \in [CPU -> Nat]
    <3>1. ncli[c] \in Nat /\ ncli \in [CPU -> Nat]
      BY DEF IInv, TypeOK
    <3>2. (IF ncli[c] = 0 THEN 0 ELSE ncli[c] - 1) \in Nat
      BY <3>1
    <3> QED
      BY <3>1, <3>2
  <2> QED
    BY <2>1, <2>2 DEF IInv, TypeOK, PC
<1>2. CallInv'
  BY DEF IInv, TypeOK, CallInv
<1>3. LevelInv'
  BY <1>0 DEF IInv, TypeOK, LevelInv, CliOK, Depth, InCall
<1>4. CliInv'
  <2>1. ASSUME NEW d \in CPU, d # c PROVE CliOK(d)'
    BY <2>1 DEF IInv, TypeOK, CliInv, CliOK, Depth, InCall
  <2>2. CliOK(c)'
    <3>1. level[c] = k /\ pc[c][k] = "pop" /\ pc'[c][k] = "run"
      BY DEF IInv, TypeOK
    <3>2. held' = held /\ level' = level /\ ncli[c] = Cardinality(held[c][k]) + 1
      BY <1>0, <3>1 DEF IInv, TypeOK, CliOK, Depth, InCall
    <3>3. ncli'[c] = ncli[c] - 1 /\ ncli'[c] = Depth(c, level[c])'
      <4>1. ncli[c] # 0 /\ ncli[c] - 1 = Cardinality(held[c][k])
        <5>1. Cardinality(held[c][k]) \in Nat
          BY HeldCounts, Zenon DEF IInv
        <5> QED
          BY <3>2, <5>1
      <4>2. ncli'[c] = ncli[c] - 1
        BY <4>1 DEF IInv, TypeOK
      <4>3. Depth(c, k)' = Cardinality(held[c][k])
        <5>1. ~InCall(c, k)'
          BY <3>1 DEF InCall
        <5>2. Cardinality(held[c][k]) \in Nat
          BY HeldCounts, Zenon DEF IInv
        <5> QED
          BY <3>2, <5>1, <5>2 DEF Depth
      <4> QED
        BY <3>1, <3>2, <4>1, <4>2, <4>3
    <3>4. IF_'[c] <=> (ncli[c] = 1 /\ intena[c])
      BY DEF IInv, TypeOK
    <3>5. \A j \in Level : pc'[c][j] = "push" => pc[c][j] = "push"
      BY DEF IInv, TypeOK
    <3> QED
      BY <1>0, <3>2, <3>3, <3>4, <3>5 DEF IInv, TypeOK, CliOK
  <2> QED
    BY <2>1, <2>2 DEF CliInv
<1>5. OwnerInv'
  BY DEF IInv, TypeOK, CallInv, LevelInv, OwnerInv, MutualExclusion, Owns
<1>6. MutualExclusion'
  BY DEF IInv, TypeOK, CallInv, OwnerInv, MutualExclusion, Owns
<1>7. NoPanic'
  <2>1. pc[c][k] = "pop" /\ level[c] = k
    OBVIOUS
  <2>2. ncli[c] # 0 /\ ~IF_[c]
    <3>1. ncli[c] # 0
      BY <1>0, <2>1, DepthFacts DEF IInv, CliOK, InCall
    <3> QED
      BY <1>0, <3>1 DEF CliOK
  <2> QED
    BY <2>2 DEF IInv, TypeOK, NoPanic
<1> QED
  BY <1>1, <1>2, <1>3, <1>4, <1>5, <1>6, <1>7 DEF IInv

\* An interrupt is taken only while level 0 holds no lock.
LEMMA InterruptStep ==
  ASSUME IInv, NEW c \in CPU, Interrupt(c)
  PROVE  IInv'
<1> USE SpinlockAssumption DEF Interrupt, At, Goto, PanicIf, cpuvars, Level
<1>0. /\ CliOK(c)
      /\ \A j \in Level : /\ Cardinality(held[c][j]) \in Nat
                           /\ Cardinality(held[c][j]) = 0 <=> held[c][j] = {}
  BY HeldCounts DEF IInv, CliInv
<1>1. TypeOK'
  BY DEF IInv, TypeOK, PC, CallInv, Holding
<1>2. CallInv'
  BY DEF IInv, TypeOK, CallInv
<1>3. LevelInv'
  <2>1. held[c][0] = {} /\ ~InCall(c, 0)
    <3>1. Depth(c, 0) = 0
      BY <1>0 DEF CliOK
    <3> QED
      BY <3>1, DepthFacts DEF IInv
  <2>2. pc[c][0] \in {"run", "push"}
    BY <2>1 DEF IInv, TypeOK, PC, InCall
  <2> QED
    BY <2>1, <2>2 DEF IInv, TypeOK, LevelInv
<1>4. CliInv'
  <2>1. ASSUME NEW d \in CPU, d # c PROVE CliOK(d)'
    BY <2>1 DEF IInv, TypeOK, CliInv, CliOK, Depth, InCall
  <2>2. CliOK(c)'
    BY <1>0 DEF IInv, TypeOK, CallInv, LevelInv, CliOK, Depth, InCall
  <2> QED
    BY <2>1, <2>2 DEF CliInv
<1>5. OwnerInv'
  BY DEF IInv, TypeOK, CallInv, LevelInv, OwnerInv, MutualExclusion, Owns
<1>6. MutualExclusion'
  BY DEF IInv, TypeOK, CallInv, OwnerInv, MutualExclusion, Owns
<1>7. NoPanic'
  BY <1>0 DEF IInv, TypeOK, CallInv, LevelInv, OwnerInv, CliOK, Depth, InCall, NoPanic, Holding
<1> QED
  BY <1>1, <1>2, <1>3, <1>4, <1>5, <1>6, <1>7 DEF IInv

\* The handler returns with nothing held and interrupts as it found them.
LEMMA IretStep ==
  ASSUME IInv, NEW c \in CPU, Iret(c)
  PROVE  IInv'
<1> USE SpinlockAssumption DEF Iret, At, Goto, PanicIf, cpuvars, Level
<1>0. /\ CliOK(c)
      /\ \A j \in Level : /\ Cardinality(held[c][j]) \in Nat
                           /\ Cardinality(held[c][j]) = 0 <=> held[c][j] = {}
  BY HeldCounts DEF IInv, CliInv
<1>1. TypeOK'
  BY DEF IInv, TypeOK, PC, CallInv, Holding
<1>2. CallInv'
  BY DEF IInv, TypeOK, CallInv
<1>3. LevelInv'
  BY <1>0 DEF IInv, TypeOK, LevelInv, CliOK, Depth, InCall
<1>4. CliInv'
  <2>1. ASSUME NEW d \in CPU, d # c PROVE CliOK(d)'
    BY <2>1 DEF IInv, TypeOK, CliInv, CliOK, Depth, InCall
  <2>2. CliOK(c)'
    BY <1>0 DEF IInv, TypeOK, CallInv, LevelInv, CliOK, Depth, InCall
  <2> QED
    BY <2>1, <2>2 DEF CliInv
<1>5. OwnerInv'
  BY DEF IInv, TypeOK, CallInv, LevelInv, OwnerInv, MutualExclusion, Owns
<1>6. MutualExclusion'
  BY DEF IInv, TypeOK, CallInv, OwnerInv, MutualExclusion, Owns
<1>7. NoPanic'
  BY <1>0 DEF IInv, TypeOK, CallInv, LevelInv, OwnerInv, CliOK, Depth, InCall, NoPanic, Holding
<1> QED
  BY <1>1, <1>2, <1>3, <1>4, <1>5, <1>6, <1>7 DEF IInv

\* Every step of a CPU in acquire, release or an interrupt preserves IInv.
LEMMA Inductive == IInv /\ [Next]_vars => IInv'
<1> SUFFICES ASSUME IInv, [Next]_vars PROVE IInv'
  OBVIOUS
<1>1. CASE UNCHANGED vars
  BY <1>1 DEF vars, IInv, TypeOK, CallInv, LevelInv, CliInv, CliOK, Depth, InCall, OwnerInv,
     MutualExclusion, Owns, NoPanic
<1>2. CASE Next
  BY <1>2, AcquireCallStep, PushCliStep, AcquireCheckStep, XchgStep, AcquireReturnStep, ReleaseCallStep, UnlockStep, PopCliStep, InterruptStep, IretStep DEF Next
<1> QED
  BY <1>1, <1>2

\* The inductive invariant holds in every reachable state.
THEOREM SpecIInv == Spec => []IInv
  BY InitIInv, Inductive, PTL DEF Spec

\* Type correctness; in particular ncli never becomes negative.
THEOREM TypeCorrect == Spec => []TypeOK
<1>1. IInv => TypeOK
  BY DEF IInv
<1> QED
  BY <1>1, SpecIInv, PTL

\* acquire and release exclude each other, over CPUs and interrupt levels.
THEOREM Exclusion == Spec => []MutualExclusion
<1>1. IInv => MutualExclusion
  BY DEF IInv
<1> QED
  BY <1>1, SpecIInv, PTL

\* The panics of acquire, release and popcli are unreachable for callers that
\* follow the lock order.
THEOREM PanicFree == Spec => []NoPanic
<1>1. IInv => NoPanic
  BY DEF IInv
<1> QED
  BY <1>1, SpecIInv, PTL

\* No CPU is interruptible from its winning to its releasing xchg, and no
\* interrupt handler ever is.
THEOREM Uninterruptible == Spec => []NotInterruptible
<1>1. IInv => NotInterruptible
  <2> SUFFICES ASSUME IInv, NEW c \in CPU, NEW k \in Level
               PROVE  /\ level[c] = 1 => ~IF_[c]
                      /\ (\E l \in Lock : Owns(c, k, l)) => ~IF_[c]
    BY DEF NotInterruptible
  <2>1. CliOK(c)
    BY DEF IInv, CliInv
  <2>2. ASSUME NEW l \in Lock, Owns(c, k, l) PROVE ~IF_[c]
    <3>1. held[c][k] # {} \/ InCall(c, k)
      BY <2>2 DEF Owns, InCall
    <3>2. level[c] = k
      BY <3>1 DEF IInv, TypeOK, LevelInv, Level, InCall
    <3>3. ncli[c] # 0
      BY <2>1, <3>1, <3>2, DepthFacts DEF IInv, CliOK
    <3> QED
      BY <2>1, <3>3 DEF CliOK
  <2> QED
    BY <2>1, <2>2 DEF CliOK
<1> QED
  BY <1>1, SpecIInv, PTL

\* A CPU spins only for a lock whose owner is being executed by another CPU.
THEOREM NoSelfWait == Spec => []SpinsOnRunningOwner
<1>1. IInv => SpinsOnRunningOwner
  <2> SUFFICES ASSUME IInv, NEW c \in CPU, NEW k \in Level,
                      level[c] = k, pc[c][k] = "spin", locked[lk[c][k]]
               PROVE  \E d \in CPU \ {c} : Owns(d, level[d], lk[c][k])
    BY DEF SpinsOnRunningOwner
  <2>1. lk[c][k] \in Lock
    BY DEF IInv, CallInv
  <2>2. PICK d \in CPU, j \in Level : Owns(d, j, lk[c][k])
    BY <2>1 DEF IInv, OwnerInv
  <2>3. level[d] = j
    BY <2>2 DEF IInv, TypeOK, LevelInv, Level, Owns
  <2>4. d # c
    BY <2>1, <2>2, <2>3 DEF IInv, TypeOK, CallInv, Owns, Lock
  <2> QED
    BY <2>2, <2>3, <2>4
<1> QED
  BY <1>1, SpecIInv, PTL

\* Matching pushes and pops leave level 0 with its interrupts on again.
THEOREM Restored == Spec => []InterruptsRestored
<1>1. IInv => InterruptsRestored
  <2> SUFFICES ASSUME IInv, NEW c \in CPU,
                      level[c] = 0, pc[c][0] = "run", held[c][0] = {}
               PROVE  IF_[c] /\ ncli[c] = 0
    BY DEF InterruptsRestored
  <2>1. CliOK(c) /\ ~InCall(c, 0)
    BY DEF IInv, CliInv, InCall
  <2>2. ncli[c] = 0
    BY <2>1, DepthFacts DEF IInv, CliOK, Level
  <2> QED
    BY <2>1, <2>2 DEF CliOK
<1> QED
  BY <1>1, SpecIInv, PTL

-----------------------------------------------------------------------------
(* The inductive invariant.                                                *)

PlaceType == spc \in [Thread -> SleepPC] /\ sleeping \in [Thread -> BOOLEAN]

\* tickslock is held from sys_sleep()'s acquire() to sleep()'s release(lk), and
\* by the timer during a tick; ptable.lock from there to sched().
LockInv ==
  /\ \A t \in Thread : spc[t] \in {"loop", "sleep", "release"} => tickslock = t
  /\ \A t \in Thread : spc[t] \in {"release", "sched"} => ptlock = t
  /\ ticking => tickslock = Timer

\* SLEEPING is set by the thread itself, in sched().
SleepingInv == \A t \in Thread : sleeping[t] => spc[t] = "asleep"

\* Committed to sleep: the condition was tested and no wakeup() has come since.
Committed(t) == spc[t] \in {"sleep", "release", "sched"} \/ sleeping[t]

\* Who is committed to sleep has time left, or the timer that ended it has yet
\* to call wakeup(): the lock of one hand does not go before the other comes.
CommittedInv == \A t \in Thread : Committed(t) => ticking \/ MoreTicks(t)

SleepIInv == PlaceType /\ LockInv /\ SleepingInv /\ CommittedInv
-----------------------------------------------------------------------------
(* Steps.                                                                  *)

\* A step of a thread leaves the clock, and other threads' deadlines, alone.
LEMMA DeadlineStays ==
  ASSUME NEW t \in Thread, ticks' = ticks, ticks0'[t] = ticks0[t], n'[t] = n[t]
  PROVE  MoreTicks(t)' = MoreTicks(t)
BY DEF MoreTicks, Elapsed

\* Every action keeps the types.
LEMMA TypeStep ==
  ASSUME SleepIInv, SleepNext
  PROVE  PlaceType'
<1> USE SleepWakeupAssumption DEF SleepIInv, PlaceType, SleepPC
<1>1. ASSUME NEW t \in Thread, NEW k \in Durations, SysSleep(t, k) PROVE PlaceType'
  BY <1>1 DEF SysSleep, Step
<1>2. ASSUME NEW t \in Thread, SleepDone(t) PROVE PlaceType'
  BY <1>2 DEF SleepDone, Step
<1>3. ASSUME NEW t \in Thread, SleepCall(t) PROVE PlaceType'
  BY <1>3 DEF SleepCall, Step
<1>4. ASSUME NEW t \in Thread, SleepAcquire(t) PROVE PlaceType'
  BY <1>4 DEF SleepAcquire, Step
<1>5. ASSUME NEW t \in Thread, SleepRelease(t) PROVE PlaceType'
  BY <1>5 DEF SleepRelease, Step
<1>6. ASSUME NEW t \in Thread, SleepSched(t) PROVE PlaceType'
  BY <1>6 DEF SleepSched, Step
<1>7. ASSUME NEW t \in Thread, SleepResume(t) PROVE PlaceType'
  BY <1>7 DEF SleepResume, Step
<1>8. ASSUME NEW t \in Thread, SleepReacquire(t) PROVE PlaceType'
  BY <1>8 DEF SleepReacquire, Step
<1>9. ASSUME NEW t \in Thread, Kill(t) PROVE PlaceType'
  BY <1>9 DEF Kill
<1>10. CASE TimerTick
  BY <1>10 DEF TimerTick
<1>11. CASE TimerWakeup
  BY <1>11 DEF TimerWakeup
<1> QED
  BY <1>1, <1>2, <1>3, <1>4, <1>5, <1>6, <1>7, <1>8, <1>9, <1>10, <1>11 DEF SleepNext, ThreadNext

\* Every action hands both locks on as the code says.
LEMMA LockStep ==
  ASSUME SleepIInv, SleepNext
  PROVE  LockInv'
<1> USE SleepWakeupAssumption DEF SleepIInv, PlaceType, LockInv
<1>1. ASSUME NEW t \in Thread, NEW k \in Durations, SysSleep(t, k) PROVE LockInv'
  BY <1>1 DEF SysSleep, Step
<1>2. ASSUME NEW t \in Thread, SleepDone(t) PROVE LockInv'
  BY <1>2 DEF SleepDone, Step
<1>3. ASSUME NEW t \in Thread, SleepCall(t) PROVE LockInv'
  BY <1>3 DEF SleepCall, Step
<1>4. ASSUME NEW t \in Thread, SleepAcquire(t) PROVE LockInv'
  BY <1>4 DEF SleepAcquire, Step
<1>5. ASSUME NEW t \in Thread, SleepRelease(t) PROVE LockInv'
  BY <1>5 DEF SleepRelease, Step
<1>6. ASSUME NEW t \in Thread, SleepSched(t) PROVE LockInv'
  BY <1>6 DEF SleepSched, Step
<1>7. ASSUME NEW t \in Thread, SleepResume(t) PROVE LockInv'
  BY <1>7 DEF SleepResume, Step
<1>8. ASSUME NEW t \in Thread, SleepReacquire(t) PROVE LockInv'
  BY <1>8 DEF SleepReacquire, Step
<1>9. ASSUME NEW t \in Thread, Kill(t) PROVE LockInv'
  BY <1>9 DEF Kill
<1>10. CASE TimerTick
  BY <1>10 DEF TimerTick
<1>11. CASE TimerWakeup
  BY <1>11 DEF TimerWakeup
<1> QED
  BY <1>1, <1>2, <1>3, <1>4, <1>5, <1>6, <1>7, <1>8, <1>9, <1>10, <1>11 DEF SleepNext, ThreadNext

\* Every action leaves SLEEPING to the threads in sleep().
LEMMA SleepingStep ==
  ASSUME SleepIInv, SleepNext
  PROVE  SleepingInv'
<1> USE SleepWakeupAssumption DEF SleepIInv, PlaceType, SleepingInv
<1>1. ASSUME NEW t \in Thread, NEW k \in Durations, SysSleep(t, k) PROVE SleepingInv'
  BY <1>1 DEF SysSleep, Step
<1>2. ASSUME NEW t \in Thread, SleepDone(t) PROVE SleepingInv'
  BY <1>2 DEF SleepDone, Step
<1>3. ASSUME NEW t \in Thread, SleepCall(t) PROVE SleepingInv'
  BY <1>3 DEF SleepCall, Step
<1>4. ASSUME NEW t \in Thread, SleepAcquire(t) PROVE SleepingInv'
  BY <1>4 DEF SleepAcquire, Step
<1>5. ASSUME NEW t \in Thread, SleepRelease(t) PROVE SleepingInv'
  BY <1>5 DEF SleepRelease, Step
<1>6. ASSUME NEW t \in Thread, SleepSched(t) PROVE SleepingInv'
  BY <1>6 DEF SleepSched, Step
<1>7. ASSUME NEW t \in Thread, SleepResume(t) PROVE SleepingInv'
  BY <1>7 DEF SleepResume, Step
<1>8. ASSUME NEW t \in Thread, SleepReacquire(t) PROVE SleepingInv'
  BY <1>8 DEF SleepReacquire, Step
<1>9. ASSUME NEW t \in Thread, Kill(t) PROVE SleepingInv'
  BY <1>9 DEF Kill
<1>10. CASE TimerTick
  BY <1>10 DEF TimerTick
<1>11. CASE TimerWakeup
  BY <1>11 DEF TimerWakeup
<1> QED
  BY <1>1, <1>2, <1>3, <1>4, <1>5, <1>6, <1>7, <1>8, <1>9, <1>10, <1>11 DEF SleepNext, ThreadNext

\* No action leaves a committed thread without a time or a wakeup() to come.
LEMMA CommittedStep ==
  ASSUME SleepIInv, SleepNext
  PROVE  CommittedInv'
<1> USE SleepWakeupAssumption DEF SleepIInv, PlaceType, LockInv, SleepingInv, CommittedInv, Committed
<1>1. ASSUME NEW t \in Thread, NEW k \in Durations, SysSleep(t, k) PROVE CommittedInv'
  BY <1>1, DeadlineStays DEF SysSleep, Step
<1>2. ASSUME NEW t \in Thread, SleepDone(t) PROVE CommittedInv'
  BY <1>2, DeadlineStays DEF SleepDone, Step
<1>3. ASSUME NEW t \in Thread, SleepCall(t) PROVE CommittedInv'
  BY <1>3, DeadlineStays DEF SleepCall, Step
<1>4. ASSUME NEW t \in Thread, SleepAcquire(t) PROVE CommittedInv'
  BY <1>4, DeadlineStays DEF SleepAcquire, Step
<1>5. ASSUME NEW t \in Thread, SleepRelease(t) PROVE CommittedInv'
  BY <1>5, DeadlineStays DEF SleepRelease, Step
<1>6. ASSUME NEW t \in Thread, SleepSched(t) PROVE CommittedInv'
  BY <1>6, DeadlineStays DEF SleepSched, Step
<1>7. ASSUME NEW t \in Thread, SleepResume(t) PROVE CommittedInv'
  BY <1>7, DeadlineStays DEF SleepResume, Step
<1>8. ASSUME NEW t \in Thread, SleepReacquire(t) PROVE CommittedInv'
  BY <1>8, DeadlineStays DEF SleepReacquire, Step
<1>9. ASSUME NEW t \in Thread, Kill(t) PROVE CommittedInv'
  BY <1>9, DeadlineStays DEF Kill
<1>10. CASE TimerTick
  BY <1>10, DeadlineStays DEF TimerTick
<1>11. CASE TimerWakeup
  BY <1>11, DeadlineStays DEF TimerWakeup
<1> QED
  BY <1>1, <1>2, <1>3, <1>4, <1>5, <1>6, <1>7, <1>8, <1>9, <1>10, <1>11 DEF SleepNext, ThreadNext

-----------------------------------------------------------------------------
(* Theorems.                                                               *)

\* SleepIInv holds in every reachable state.
THEOREM SleepInductive == SleepSpec => []SleepIInv
<1>1. SleepInit => SleepIInv
  BY DEF SleepInit, SleepIInv, PlaceType, SleepPC, LockInv, SleepingInv, CommittedInv, Committed
<1>2. SleepIInv /\ [SleepNext]_sleepVars => SleepIInv'
  <2> SUFFICES ASSUME SleepIInv, [SleepNext]_sleepVars PROVE SleepIInv'
    OBVIOUS
  <2>1. CASE SleepNext
    BY <2>1, TypeStep, LockStep, SleepingStep, CommittedStep DEF SleepIInv
  <2>2. CASE UNCHANGED sleepVars
    BY <2>2 DEF sleepVars, SleepIInv, PlaceType, LockInv, SleepingInv, CommittedInv,
       Committed, MoreTicks, Elapsed
  <2> QED
    BY <2>1, <2>2
<1> QED
  BY <1>1, <1>2, PTL DEF SleepSpec

\* sleep() misses no wakeup(): outside of a tick, nobody sleeps whose time is
\* over, for any number of threads and across a wrap of ticks.
THEOREM NoWakeupMissed == SleepSpec => []NoMissedWakeup
<1>1. SleepIInv => NoMissedWakeup
  BY DEF SleepIInv, CommittedInv, Committed, NoMissedWakeup
<1> QED
  BY <1>1, SleepInductive, PTL

-----------------------------------------------------------------------------
(* The refinement.                                                         *)

\* How a thread's place, and nobody else's, changes.
LEMMA PlaceMoves ==
  ASSUME NEW t \in Thread, NEW from, NEW to, Place(t) = from, Place(t)' = to,
         \A u \in Thread \ {t} : Place(u)' = Place(u)
  PROVE  Atomic!Move(t, from, to)
BY DEF Atomic!Move, Places

\* Where nobody's place changes, neither does the abstract st.
LEMMA PlaceStays ==
  ASSUME \A u \in Thread : Place(u)' = Place(u)
  PROVE  UNCHANGED Places
BY DEF Places

\* Every step is a step of AtomicSleep, or changes nothing there.
LEMMA StepRefines ==
  ASSUME SleepIInv, SleepNext
  PROVE  Atomic!Next \/ UNCHANGED <<tickslock, Places>>
<1> USE SleepWakeupAssumption DEF SleepIInv, PlaceType, SleepPC, LockInv, SleepingInv
<1>1. ASSUME NEW t \in Thread, NEW k \in Durations, SysSleep(t, k)
      PROVE Atomic!Next \/ UNCHANGED <<tickslock, Places>>
  <2>1. Place(t) = "out" /\ Place(t)' = "in"
    BY <1>1 DEF SysSleep, Step, Place
  <2>2. \A u \in Thread \ {t} : Place(u)' = Place(u)
    BY <1>1 DEF SysSleep, Step, Place
  <2> QED
    BY <1>1, <2>1, <2>2, PlaceMoves DEF SysSleep, Step, Atomic!Enter, Atomic!Next
<1>2. ASSUME NEW t \in Thread, SleepDone(t)
      PROVE Atomic!Next \/ UNCHANGED <<tickslock, Places>>
  <2>1. Place(t) = "in" /\ Place(t)' = "out"
    BY <1>2 DEF SleepDone, Step, Place
  <2>2. \A u \in Thread \ {t} : Place(u)' = Place(u)
    BY <1>2 DEF SleepDone, Step, Place
  <2> QED
    BY <1>2, <2>1, <2>2, PlaceMoves DEF SleepDone, Step, Atomic!Leave, Atomic!Next
<1>3. ASSUME NEW t \in Thread, SleepCall(t)
      PROVE Atomic!Next \/ UNCHANGED <<tickslock, Places>>
  <2>1. \A u \in Thread : Place(u)' = Place(u)
    BY <1>3 DEF SleepCall, Step, Place
  <2> QED
    BY <1>3, <2>1, PlaceStays DEF SleepCall
<1>4. ASSUME NEW t \in Thread, SleepAcquire(t)
      PROVE Atomic!Next \/ UNCHANGED <<tickslock, Places>>
  <2>1. \A u \in Thread : Place(u)' = Place(u)
    BY <1>4 DEF SleepAcquire, Step, Place
  <2> QED
    BY <1>4, <2>1, PlaceStays DEF SleepAcquire
<1>5. ASSUME NEW t \in Thread, SleepRelease(t)
      PROVE Atomic!Next \/ UNCHANGED <<tickslock, Places>>
  \* the release of tickslock is where the abstract thread falls asleep
  <2>1. Place(t) = "in" /\ Place(t)' = "asleep"
    BY <1>5 DEF SleepRelease, Step, Place
  <2>2. \A u \in Thread \ {t} : Place(u)' = Place(u)
    BY <1>5 DEF SleepRelease, Step, Place
  <2> QED
    BY <1>5, <2>1, <2>2, PlaceMoves DEF SleepRelease, Step, Atomic!Sleep, Atomic!Next
<1>6. ASSUME NEW t \in Thread, SleepSched(t)
      PROVE Atomic!Next \/ UNCHANGED <<tickslock, Places>>
  <2>1. \A u \in Thread : Place(u)' = Place(u)
    BY <1>6 DEF SleepSched, Step, Place
  <2> QED
    BY <1>6, <2>1, PlaceStays DEF SleepSched
<1>7. ASSUME NEW t \in Thread, SleepResume(t)
      PROVE Atomic!Next \/ UNCHANGED <<tickslock, Places>>
  <2>1. \A u \in Thread : Place(u)' = Place(u)
    BY <1>7 DEF SleepResume, Step, Place
  <2> QED
    BY <1>7, <2>1, PlaceStays DEF SleepResume
<1>8. ASSUME NEW t \in Thread, SleepReacquire(t)
      PROVE Atomic!Next \/ UNCHANGED <<tickslock, Places>>
  <2>1. Place(t) = "awake" /\ Place(t)' = "in"
    BY <1>8 DEF SleepReacquire, Step, Place
  <2>2. \A u \in Thread \ {t} : Place(u)' = Place(u)
    BY <1>8 DEF SleepReacquire, Step, Place
  <2> QED
    BY <1>8, <2>1, <2>2, PlaceMoves DEF SleepReacquire, Step, Atomic!Return, Atomic!Next
<1>9. ASSUME NEW t \in Thread, Kill(t)
      PROVE Atomic!Next \/ UNCHANGED <<tickslock, Places>>
  <2>1. \A u \in Thread \ {t} : Place(u)' = Place(u)
    BY <1>9 DEF Kill, Place
  <2>2. CASE sleeping[t]
    <3>1. Place(t) = "asleep" /\ Place(t)' = "awake"
      BY <1>9, <2>2 DEF Kill, Place
    <3> QED
      BY <1>9, <2>1, <3>1, PlaceMoves DEF Kill, Atomic!Rouse, Atomic!Next
  <2>3. CASE ~sleeping[t]
    <3>1. Place(t)' = Place(t)
      BY <1>9, <2>3 DEF Kill, Place
    <3> QED
      BY <1>9, <2>1, <3>1, PlaceStays DEF Kill
  <2> QED
    BY <2>2, <2>3
<1>10. CASE TimerTick
  <2>1. \A u \in Thread : Place(u)' = Place(u)
    BY <1>10 DEF TimerTick, Place
  <2> QED
    BY <1>10, <2>1, PlaceStays DEF TimerTick, Atomic!WakerEnter, Atomic!Next
<1>11. CASE TimerWakeup
  \* ptable.lock is free: no thread is between the release of tickslock and sched()
  <2>1. \A u \in Thread : Place(u)' = IF Place(u) = "asleep" THEN "awake" ELSE Place(u)
    BY <1>11 DEF TimerWakeup, Place
  <2> QED
    BY <1>11, <2>1 DEF TimerWakeup, Places, Atomic!Wakeup, Atomic!Next
<1> QED
  BY <1>1, <1>2, <1>3, <1>4, <1>5, <1>6, <1>7, <1>8, <1>9, <1>10, <1>11 DEF SleepNext, ThreadNext

\* "Atomically release lock and sleep on chan": sleep() and wakeup(), with two
\* locks and step by step, implement AtomicSleep.
THEOREM Refinement == SleepSpec => SleepIsAtomic
<1>1. SleepInit => Atomic!Init
  BY DEF SleepInit, Atomic!Init, Place, Places
<1>2. SleepIInv /\ [SleepNext]_sleepVars => [Atomic!Next]_<<tickslock, Places>>
  <2> SUFFICES ASSUME SleepIInv, [SleepNext]_sleepVars
               PROVE  [Atomic!Next]_<<tickslock, Places>>
    OBVIOUS
  <2>1. CASE SleepNext
    BY <2>1, StepRefines
  <2>2. CASE UNCHANGED sleepVars
    BY <2>2 DEF sleepVars, Place, Places
  <2> QED
    BY <2>1, <2>2
<1> QED
  BY <1>1, <1>2, SleepInductive, PTL DEF SleepSpec, SleepIsAtomic, Atomic!Spec

-----------------------------------------------------------------------------
(* The types, which need the arithmetic of ticks.                          *)

\* ticks and the durations are uints.
LEMMA TicksType ==
  /\ UINT \in Nat \ {0} /\ 0 \in 0 .. UINT - 1 /\ Durations \subseteq 0 .. UINT - 1
  /\ \A k \in Nat : (k + 1) % UINT \in 0 .. UINT - 1
<1>1. UINT \in Nat /\ MaxLag \in Nat /\ MaxLag < UINT /\ Durations \subseteq 0 .. MaxLag
  BY SleepWakeupAssumption DEF UINT
<1>2. UINT \in Nat \ {0} /\ 0 \in 0 .. UINT - 1 /\ Durations \subseteq 0 .. UINT - 1
  BY <1>1
<1> QED
  BY <1>2

\* The locks, ticks and the locals of sys_sleep() keep their types, ticks also
\* when it wraps.
THEOREM SleepTypeCorrect == SleepSpec => []SleepTypeOK
<1> DEFINE U == 0 .. UINT - 1
           Typed == /\ tickslock \in Thread \cup {Timer, Nobody} /\ ptlock \in Thread \cup {Nobody}
                    /\ ticks \in U /\ ticks0 \in [Thread -> U] /\ n \in [Thread -> U]
                    /\ sleeping \in [Thread -> BOOLEAN] /\ killed \in [Thread -> BOOLEAN]
                    /\ spc \in [Thread -> SleepPC] /\ ticking \in BOOLEAN
<1>0. 0 \in U /\ Durations \subseteq U /\ \A k \in U : (k + 1) % UINT \in U
  BY TicksType
<1> HIDE DEF U
<1>1. SleepInit => Typed
  BY <1>0 DEF SleepInit, SleepPC
<1>2. Typed /\ [SleepNext]_sleepVars => Typed'
  <2> SUFFICES ASSUME Typed, [SleepNext]_sleepVars PROVE Typed'
    OBVIOUS
  <2>1. ASSUME TimerTick PROVE Typed'
    BY <1>0, <2>1 DEF TimerTick
  <2>2. ASSUME TimerWakeup PROVE Typed'
    BY <2>2 DEF TimerWakeup
  <2>3. ASSUME NEW t \in Thread, SleepDone(t) \/ SleepCall(t) \/ SleepAcquire(t) PROVE Typed'
    BY <2>3 DEF SleepDone, SleepCall, SleepAcquire, Step, SleepPC
  <2>4. ASSUME NEW t \in Thread, SleepRelease(t) \/ SleepSched(t) PROVE Typed'
    BY <2>4 DEF SleepRelease, SleepSched, Step, SleepPC
  <2>5. ASSUME NEW t \in Thread, SleepResume(t) \/ SleepReacquire(t) PROVE Typed'
    BY <2>5 DEF SleepResume, SleepReacquire, Step, SleepPC
  <2>6. ASSUME NEW t \in Thread, Kill(t) PROVE Typed'
    BY <2>6 DEF Kill
  <2>7. ASSUME NEW t \in Thread, NEW k \in Durations, SysSleep(t, k) PROVE Typed'
    BY <1>0, <2>7 DEF SysSleep, Step, SleepPC
  <2>8. ASSUME UNCHANGED sleepVars PROVE Typed'
    BY <2>8 DEF sleepVars
  <2> QED
    BY <2>1, <2>2, <2>3, <2>4, <2>5, <2>6, <2>7, <2>8 DEF SleepNext, ThreadNext
<1>3. Typed => SleepTypeOK
  BY DEF SleepTypeOK, U
<1> QED
  BY <1>1, <1>2, <1>3, PTL DEF SleepSpec

=============================================================================
