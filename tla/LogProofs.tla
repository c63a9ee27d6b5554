----------------------------- MODULE LogProofs ------------------------------
(***************************************************************************)
(* Proofs about Log, for any threads, blocks, sizes and number of crashes: *)
(* as long as the log does not outgrow its area of the disk, log.c         *)
(* implements AtomicDisk, and its only panic is the one for a full log.    *)
(***************************************************************************)
EXTENDS Log, FiniteSetTheorems, FunctionTheorems, TLAPS

-----------------------------------------------------------------------------
(* The inductive invariant.                                                *)

InLog(b) == \E i \in DOMAIN lh : lh[i] = b

\* commit() and recovery run while no call is in progress, and each phase
\* finds in log.lh and in the header what the one before has left there.
ModeInv ==
  /\ committing => phase \in {"write_log", "install", "done"}
  /\ phase \in {"write_log", "done"} => committing
  /\ Open # {} => phase = "none"
  /\ phase \in {"done", "read_head"} => lh = <<>>
  /\ phase = "none" /\ Open = {} => lh = <<>>
  /\ phase \notin {"install", "read_head"} => head = <<>>
  /\ phase = "install" => head = lh
  /\ phase \in {"write_log", "install"} => tail <= Len(lh) + 1

\* A call has one buffer while it is in log_write(), and none otherwise.
CallInv ==
  /\ outstanding = Cardinality(Open)
  /\ \A t \in Thread :
       /\ t \notin Open => wrote[t] = {}
       /\ Cardinality(wrote[t]) <= OPBLOCKS
       /\ buf[t] \subseteq wrote[t]
       /\ pc[t] # "log_write" => buf[t] = {}
       /\ \A b, d \in buf[t] : b = d
       /\ \A b \in buf[t] : cache[b] # NotCached

\* No block is in the log twice; what is not in the log is clean, and what is in
\* it stays in the cache until it is installed.
CacheInv ==
  /\ \A i, j \in DOMAIN lh : lh[i] = lh[j] => i = j
  /\ \A i, j \in DOMAIN head : head[i] = head[j] => i = j
  /\ \A b \in Block : ~InLog(b) /\ ~Busy(b) => cache[b] \in {NotCached, home[b]}
  /\ \A i \in DOMAIN lh : Up /\ (phase = "install" => tail <= i) =>
       lh[i] \in dirty /\ cache[lh[i]] # NotCached

\* The log holds what the calls have written, and then so do the home blocks.
CopyInv ==
  /\ phase = "write_log" => \A i \in 1 .. tail - 1 : logblk[i] = Data(lh[i])
  /\ phase = "install" =>
       /\ committing => \A i \in DOMAIN lh : logblk[i] = Data(lh[i])
       /\ \A i \in 1 .. tail - 1 :
            home[lh[i]] = logblk[i] /\ cache[lh[i]] \in {NotCached, logblk[i]}

IInv == TypeOK /\ ModeInv /\ CallInv /\ OnlyFullPanics /\ CacheInv /\ CopyInv

-----------------------------------------------------------------------------
(* Steps.                                                                  *)

\* The next block of the log.
LEMMA Appended ==
  ASSUME TypeOK, NEW b \in Block
  PROVE  /\ Append(lh, b) \in Seq(Block)
         /\ Len(Append(lh, b)) = Len(lh) + 1
         /\ DOMAIN Append(lh, b) = 1 .. Len(lh) + 1
         /\ \A i \in DOMAIN lh : Append(lh, b)[i] = lh[i]
         /\ Append(lh, b)[Len(lh) + 1] = b
BY DEF TypeOK

\* The indices of the log.
LEMMA Indices ==
  ASSUME TypeOK
  PROVE  /\ DOMAIN lh = 1 .. Len(lh) /\ Len(lh) \in Nat /\ tail \in Nat \ {0}
         /\ \A i \in DOMAIN lh : i \in Nat /\ i \in 1 .. LOGSIZE /\ lh[i] \in Block
<1>1. LOGSIZE \in Nat /\ lh \in Seq(Block) /\ Len(lh) <= LOGSIZE /\ tail \in 1 .. LOGSIZE + 1
  BY LogAssumption DEF TypeOK
<1> QED
  BY <1>1

\* The open calls are finitely many.
LEMMA OpenFinite == IsFiniteSet(Open) /\ Cardinality(Open) \in Nat
BY LogAssumption, FS_Subset, FS_CardinalityType DEF Open

\* begin_op() opens a call, end_op() closes one.
LEMMA Begun ==
  ASSUME TypeOK, NEW t \in Thread, BeginOp(t)
  PROVE  t \in Thread \ Open /\ Open' = Open \cup {t}
BY DEF TypeOK, BeginOp, Open

\* The call that end_op() closes is no longer open.
LEMMA Ended ==
  ASSUME TypeOK, NEW t \in Thread, EndOp(t) \/ EndOpLast(t)
  PROVE  t \in Open /\ Open' = Open \ {t}
BY DEF TypeOK, EndOp, EndOpLast, Open, Wake

\* The other steps open and close no call.
LEMMA SameOpen ==
  ASSUME TypeOK, NEW t \in Thread,
         BeginSleep(t) \/ LogAppend(t) \/ CommitDone(t) \/ \E b \in Block : LogWrite(t, b)
  PROVE  Open' = Open
BY DEF TypeOK, BeginSleep, LogAppend, CommitDone, LogWrite, Open, Wake

\* end_op() takes the branch to commit() for the last call, and only then.
LEMMA LastEnded ==
  ASSUME TypeOK, CallInv, NEW t \in Thread
  PROVE  /\ EndOpLast(t) => Open' = {}
         /\ EndOp(t) => Open' # {}
<1>1. ASSUME t \in Open PROVE Cardinality(Open \ {t}) = Cardinality(Open) - 1
  BY <1>1, OpenFinite, FS_RemoveElement
<1>2. IsFiniteSet(Open \ {t})
  BY OpenFinite, FS_RemoveElement
<1>3. Cardinality(Open \ {t}) = 0 <=> Open \ {t} = {}
  BY <1>2, FS_EmptySet
<1>4. ASSUME EndOpLast(t) PROVE Open' = {}
  <2>1. t \in Open /\ Open' = Open \ {t} /\ Cardinality(Open) = 1
    BY <1>4, Ended DEF EndOpLast, CallInv
  <2> HIDE DEF Open
  <2> QED
    BY <1>1, <1>3, <2>1
<1>5. ASSUME EndOp(t) PROVE Open' # {}
  <2>1. t \in Open /\ Open' = Open \ {t} /\ Cardinality(Open) > 1
    BY <1>5, Ended DEF EndOp, CallInv
  <2> HIDE DEF Open
  <2> QED
    BY <1>1, <1>3, <2>1, OpenFinite
<1> QED
  BY <1>4, <1>5

\* An open call finds the log at rest, and is counted.
LEMMA Calling ==
  ASSUME TypeOK, ModeInv, CallInv, Open # {}
  PROVE  phase = "none" /\ committing = FALSE /\ Up /\ outstanding \in Nat \ {0}
<1>1. phase = "none" /\ committing = FALSE
  BY DEF ModeInv, TypeOK
<1>2. Cardinality(Open) # 0
  BY OpenFinite, FS_EmptySet
<1> QED
  BY <1>1, <1>2, OpenFinite DEF CallInv, Up

\* commit(), recovery and calls keep to their phases.
LEMMA ModeStep ==
  ASSUME TypeOK, ModeInv, CallInv, CacheInv, CopyInv, Next
  PROVE  ModeInv'
<1> USE DEF disk, TypeOK, Open, ModeInv
<1>1. CASE WriteLog
  BY <1>1, LogAssumption DEF WriteLog
<1>2. CASE WriteHead
  BY <1>2, LogAssumption DEF WriteHead
<1>3. CASE InstallTrans
  BY <1>3, LogAssumption DEF InstallTrans
<1>4. CASE ClearHead
  BY <1>4, LogAssumption DEF ClearHead
<1>5. CASE ReadHead
  BY <1>5, LogAssumption DEF ReadHead
<1>6. CASE Crash
  BY <1>6, LogAssumption DEF Crash, Booted
<1>7. ASSUME NEW b \in Block, Bread(b) PROVE ModeInv'
  BY <1>7, LogAssumption DEF Bread
<1>8. ASSUME NEW b \in Block, Recycle(b) PROVE ModeInv'
  BY <1>8, LogAssumption DEF Recycle
<1>9. ASSUME NEW t \in Thread, BeginOp(t) PROVE ModeInv'
  <2>1. phase = "none" /\ committing = FALSE
    BY <1>9 DEF BeginOp, Up
  <2>2. Open' # {}
    BY <1>9, Begun
  <2>3. UNCHANGED <<phase, committing, lh, head, tail>>
    BY <1>9 DEF BeginOp
  <2> HIDE DEF Open
  <2> QED
    BY <2>1, <2>2, <2>3
<1>10. ASSUME NEW t \in Thread, BeginSleep(t) PROVE ModeInv'
  BY <1>10, LogAssumption DEF BeginSleep
<1>11. ASSUME NEW t \in Thread, LogAppend(t) PROVE ModeInv'
  BY <1>11, LogAssumption DEF LogAppend
<1>12. ASSUME NEW t \in Thread, EndOpLast(t) PROVE ModeInv'
  <2>1. phase = "none" /\ committing = FALSE
    BY <1>12, Calling, Ended
  <2>2. Open' = {}
    BY <1>12, LastEnded
  <2>3. /\ committing' = TRUE /\ tail' = 1
        /\ phase' = IF lh = <<>> THEN "done" ELSE "write_log"
        /\ lh' = lh /\ head' = head
    BY <1>12 DEF EndOpLast
  <2> HIDE DEF Open
  <2> QED
    BY <2>1, <2>2, <2>3
<1>13. ASSUME NEW t \in Thread, EndOp(t) PROVE ModeInv'
  <2>1. phase = "none" /\ committing = FALSE
    BY <1>13, Calling, Ended
  <2>2. Open' # {}
    BY <1>13, LastEnded
  <2>3. UNCHANGED <<phase, committing, lh, head, tail>>
    BY <1>13 DEF EndOp
  <2> HIDE DEF Open
  <2> QED
    BY <2>1, <2>2, <2>3
<1>14. ASSUME NEW t \in Thread, CommitDone(t) PROVE ModeInv'
  BY <1>14, LogAssumption DEF CommitDone
<1>15. ASSUME NEW t \in Thread, NEW b \in Block, LogWrite(t, b) PROVE ModeInv'
  <2>1. t \in Open
    BY <1>15 DEF LogWrite
  <2>2. Open' = Open
    BY <1>15, SameOpen
  <2>3. UNCHANGED <<phase, committing, lh, head, tail>>
    BY <1>15 DEF LogWrite
  <2> HIDE DEF Open
  <2> QED
    BY <2>2, <2>3
<1> QED
  BY <1>1, <1>2, <1>3, <1>4, <1>5, <1>6, <1>7, <1>8, <1>9, <1>10, <1>11, <1>12,
     <1>13, <1>14, <1>15
  DEF Next, Commit, Finish

\* The blocks of a call are finitely many.
LEMMA WroteFinite ==
  ASSUME TypeOK, NEW t \in Thread
  PROVE  IsFiniteSet(wrote[t]) /\ Cardinality(wrote[t]) \in Nat
BY LogAssumption, FS_Subset, FS_CardinalityType DEF TypeOK

\* Calls keep their buffers and their shares.
LEMMA CallStep ==
  ASSUME TypeOK, CallInv, Next
  PROVE  CallInv'
<1> USE DEF disk, TypeOK, Open, NotCached, CallInv
<1>1. CASE WriteLog
  BY <1>1, LogAssumption DEF WriteLog
<1>2. CASE WriteHead
  BY <1>2, LogAssumption DEF WriteHead
<1>3. CASE InstallTrans
  BY <1>3, LogAssumption, SMTT(40) DEF InstallTrans
<1>4. CASE ClearHead
  BY <1>4, LogAssumption DEF ClearHead
<1>5. CASE ReadHead
  BY <1>5, LogAssumption DEF ReadHead
<1>6. CASE Crash
  <2>1. Open' = {} /\ Cardinality({}) = 0
    BY <1>6, FS_EmptySet DEF Crash, Booted
  <2> HIDE DEF Open
  <2> QED
    BY <1>6, <2>1, LogAssumption DEF Crash, Booted
<1>7. ASSUME NEW b \in Block, Bread(b) PROVE CallInv'
  BY <1>7, LogAssumption DEF Bread
<1>8. ASSUME NEW b \in Block, Recycle(b) PROVE CallInv'
  BY <1>8 DEF Recycle, Busy
<1>9. ASSUME NEW t \in Thread, BeginOp(t) PROVE CallInv'
  <2>1. t \notin Open /\ Open' = Open \cup {t}
    BY <1>9, Begun
  <2>2. outstanding' = Cardinality(Open')
    BY <1>9, <2>1, OpenFinite, FS_AddElement DEF BeginOp
  <2>3. pc' = [pc EXCEPT ![t] = "op"] /\ wrote' = wrote /\ buf' = buf /\ cache' = cache
    BY <1>9 DEF BeginOp
  <2> HIDE DEF Open
  <2> QED
    BY <2>1, <2>2, <2>3
<1>10. ASSUME NEW t \in Thread, BeginSleep(t) PROVE CallInv'
  <2>1. Open' = Open
    BY <1>10, SameOpen
  <2>2. /\ pc[t] = "idle" /\ pc' = [pc EXCEPT ![t] = "asleep"]
        /\ UNCHANGED <<wrote, buf, cache, outstanding>>
    BY <1>10 DEF BeginSleep
  <2> HIDE DEF Open
  <2> QED
    BY <2>1, <2>2
<1>11. ASSUME NEW t \in Thread, LogAppend(t) PROVE CallInv'
  <2>1. Open' = Open
    BY <1>11, SameOpen
  <2>2. /\ pc' = [pc EXCEPT ![t] = "op"] /\ buf' = [buf EXCEPT ![t] = {}]
        /\ UNCHANGED <<wrote, cache, outstanding>>
    BY <1>11 DEF LogAppend
  <2> HIDE DEF Open
  <2> QED
    BY <2>1, <2>2
<1>12. ASSUME NEW t \in Thread, EndOpLast(t) PROVE CallInv'
  <2>1. t \in Open /\ Open' = Open \ {t}
    BY <1>12, Ended
  <2>2. outstanding' = Cardinality(Open')
    <3>1. outstanding = Cardinality(Open) /\ outstanding' = outstanding - 1
      BY <1>12 DEF EndOpLast
    <3> HIDE DEF Open
    <3>2. Cardinality(Open \ {t}) = Cardinality(Open) - 1
      BY <2>1, OpenFinite, FS_RemoveElement
    <3> QED
      BY <2>1, <3>1, <3>2
  <2>3. /\ pc[t] = "op" /\ wrote' = [wrote EXCEPT ![t] = {}]
        /\ buf' = buf /\ cache' = cache
    BY <1>12 DEF EndOpLast
  <2>4. \A u \in Thread : u # t => (pc'[u] = "log_write" <=> pc[u] = "log_write")
    BY <1>12 DEF EndOpLast, Wake
  <2>5. Cardinality({}) = 0
    BY FS_EmptySet
  <2> HIDE DEF Open
  <2> QED
    BY <2>1, <2>2, <2>3, <2>4, <2>5, LogAssumption
<1>13. ASSUME NEW t \in Thread, EndOp(t) PROVE CallInv'
  <2>1. t \in Open /\ Open' = Open \ {t}
    BY <1>13, Ended
  <2>2. outstanding' = Cardinality(Open')
    <3>1. outstanding = Cardinality(Open) /\ outstanding' = outstanding - 1
      BY <1>13 DEF EndOp
    <3> HIDE DEF Open
    <3>2. Cardinality(Open \ {t}) = Cardinality(Open) - 1
      BY <2>1, OpenFinite, FS_RemoveElement
    <3> QED
      BY <2>1, <3>1, <3>2
  <2>3. /\ pc[t] = "op" /\ wrote' = [wrote EXCEPT ![t] = {}]
        /\ buf' = buf /\ cache' = cache
    BY <1>13 DEF EndOp
  <2>4. \A u \in Thread : u # t => (pc'[u] = "log_write" <=> pc[u] = "log_write")
    BY <1>13 DEF EndOp, Wake
  <2>5. Cardinality({}) = 0
    BY FS_EmptySet
  <2> HIDE DEF Open
  <2> QED
    BY <2>1, <2>2, <2>3, <2>4, <2>5, LogAssumption
<1>14. ASSUME NEW t \in Thread, CommitDone(t) PROVE CallInv'
  <2>1. Open' = Open
    BY <1>14, SameOpen
  <2>2. UNCHANGED <<wrote, buf, cache, outstanding>>
    BY <1>14 DEF CommitDone
  <2>3. \A u \in Thread : pc'[u] = "log_write" <=> pc[u] = "log_write"
    BY <1>14 DEF CommitDone, Wake
  <2> HIDE DEF Open
  <2> QED
    BY <2>1, <2>2, <2>3
<1>15. ASSUME NEW t \in Thread, NEW b \in Block, LogWrite(t, b) PROVE CallInv'
  <2>1. Open' = Open /\ t \in Open
    BY <1>15, SameOpen DEF LogWrite
  <2>2. /\ pc[t] = "op" /\ pc' = [pc EXCEPT ![t] = "log_write"]
        /\ buf' = [buf EXCEPT ![t] = {b}]
        /\ wrote' = [wrote EXCEPT ![t] = wrote[t] \cup {b}]
        /\ outstanding' = outstanding
    BY <1>15 DEF LogWrite
  <2>3. Cardinality(wrote[t] \cup {b}) <= OPBLOCKS
    BY <1>15 DEF LogWrite
  <2>4. cache' = [cache EXCEPT ![b] = (Data(b) + 1) % NVAL]
    BY <1>15 DEF LogWrite
  <2>5. (Data(b) + 1) % NVAL # NVAL
    BY LogAssumption DEF Data
  <2>6. \A d \in Block : cache[d] # NVAL => cache'[d] # NVAL
    BY <2>4, <2>5
  <2>7. cache'[b] # NVAL
    BY <2>4, <2>5
  <2> HIDE DEF Open
  <2> QED
    BY <2>1, <2>2, <2>3, <2>6, <2>7
<1> QED
  BY <1>1, <1>2, <1>3, <1>4, <1>5, <1>6, <1>7, <1>8, <1>9, <1>10, <1>11, <1>12,
     <1>13, <1>14, <1>15
  DEF Next, Commit, Finish

\* A number of threads.
LEMMA ThreadCount ==
  ASSUME NEW O \in SUBSET Thread
  PROVE  Cardinality(O) \in 0 .. Cardinality(Thread)
<1>1. IsFiniteSet(O) /\ Cardinality(O) <= Cardinality(Thread)
  BY LogAssumption, FS_Subset
<1>2. Cardinality(O) \in Nat /\ Cardinality(Thread) \in Nat
  BY <1>1, LogAssumption, FS_CardinalityType
<1> QED
  BY <1>1, <1>2

\* Data of a block is a version.
LEMMA DataType ==
  ASSUME TypeOK, NEW b \in Block
  PROVE  Data(b) \in 0 .. NVAL - 1 /\ (Data(b) + 1) % NVAL \in 0 .. NVAL - 1
BY LogAssumption, SMTT(40) DEF TypeOK, Data, NotCached

\* Every action keeps the types.
LEMMA TypeStep ==
  ASSUME TypeOK, CallInv, CallInv', Fits', Next
  PROVE  TypeOK'
<1> USE DEF disk, TypeOK, PC, Phase
<1>1. CASE WriteLog
  <2>1. lh[tail] \in Block /\ tail + 1 \in 1 .. LOGSIZE + 1
    BY <1>1, LogAssumption, SMTT(40) DEF WriteLog
  <2>2. logblk' \in [1 .. LOGSIZE -> 0 .. NVAL - 1]
    BY <1>1, <2>1, DataType DEF WriteLog
  <2> QED
    BY <1>1, <2>1, <2>2 DEF WriteLog
<1>2. CASE WriteHead
  BY <1>2, LogAssumption DEF WriteHead
<1>3. CASE InstallTrans
  <2>1. /\ lh[tail] \in Block /\ tail \in 1 .. LOGSIZE
        /\ tail + 1 \in 1 .. LOGSIZE + 1
    BY <1>3, LogAssumption, SMTT(40) DEF InstallTrans
  <2>2. logblk[tail] \in 0 .. NVAL - 1 /\ logblk[tail] \in 0 .. NVAL
    BY <2>1, LogAssumption
  <2>3. home' \in [Block -> 0 .. NVAL - 1] /\ cache' \in [Block -> 0 .. NVAL]
    BY <1>3, <2>1, <2>2 DEF InstallTrans
  <2>4. dirty' \subseteq Block /\ tail' \in 1 .. LOGSIZE + 1
    BY <1>3, <2>1 DEF InstallTrans
  <2>5. UNCHANGED <<logblk, head, lh, outstanding, committing, phase, pc, buf, wrote,
                    crashes, panicked>>
    BY <1>3 DEF InstallTrans
  <2> QED
    BY <2>3, <2>4, <2>5
<1>4. CASE ClearHead
  BY <1>4, LogAssumption, SMTT(40) DEF ClearHead
<1>5. CASE ReadHead
  BY <1>5, LogAssumption DEF ReadHead
<1>6. CASE Crash
  <2>1. outstanding' \in 0 .. Cardinality(Thread)
    BY ThreadCount DEF CallInv, Open
  <2>2. cache' \in [Block -> 0 .. NVAL]
    BY <1>6, LogAssumption DEF Crash, Booted, NotCached
  <2>3. crashes' \in 0 .. MaxCrashes /\ tail' \in 1 .. LOGSIZE + 1
    BY <1>6, LogAssumption DEF Crash, Booted
  <2>4. lh' \in Seq(Block) /\ Len(lh') <= LOGSIZE
    BY <1>6, LogAssumption DEF Crash, Booted
  <2>5. /\ dirty' \subseteq Block /\ committing' \in BOOLEAN /\ phase' \in Phase
        /\ pc' \in [Thread -> PC]
        /\ buf' \in [Thread -> SUBSET Block] /\ wrote' \in [Thread -> SUBSET Block]
    BY <1>6 DEF Crash, Booted
  <2>6. UNCHANGED <<disk, panicked>>
    BY <1>6 DEF Crash
  <2> QED
    BY <2>1, <2>2, <2>3, <2>4, <2>5, <2>6
<1>7. ASSUME NEW b \in Block, Bread(b) PROVE TypeOK'
  BY <1>7, LogAssumption, SMTT(40) DEF Bread
<1>8. ASSUME NEW b \in Block, Recycle(b) PROVE TypeOK'
  BY <1>8, LogAssumption, SMTT(40) DEF Recycle, NotCached
<1>9. ASSUME NEW t \in Thread, BeginOp(t) PROVE TypeOK'
  <2>1. outstanding' \in 0 .. Cardinality(Thread)
    BY ThreadCount DEF CallInv, Open
  <2> QED
    BY <1>9, <2>1 DEF BeginOp
<1>10. ASSUME NEW t \in Thread, BeginSleep(t) PROVE TypeOK'
  BY <1>10, LogAssumption DEF BeginSleep
<1>11. ASSUME NEW t \in Thread, LogAppend(t) PROVE TypeOK'
  <2>1. PICK b \in buf[t] :
          /\ lh' = IF \E i \in DOMAIN lh : lh[i] = b THEN lh ELSE Append(lh, b)
          /\ dirty' = dirty \cup {b}
    BY <1>11 DEF LogAppend
  <2>2. lh' \in Seq(Block)
    BY <2>1
  <2>3. Len(lh') <= LOGSIZE
    BY <2>2, LogAssumption DEF Fits
  <2>4. dirty' \subseteq Block
    BY <2>1
  <2>5. buf' \in [Thread -> SUBSET Block] /\ pc' \in [Thread -> PC]
    BY <1>11 DEF LogAppend
  <2>6. UNCHANGED <<disk, cache, outstanding, committing, phase, tail, wrote, crashes, panicked>>
    BY <1>11 DEF LogAppend
  <2> QED
    BY <2>2, <2>3, <2>4, <2>5, <2>6
<1>12. ASSUME NEW t \in Thread, EndOpLast(t) PROVE TypeOK'
  <2>1. outstanding' \in 0 .. Cardinality(Thread)
    BY ThreadCount DEF CallInv, Open
  <2>2. pc' \in [Thread -> PC] /\ tail' \in 1 .. LOGSIZE + 1
    BY <1>12, LogAssumption DEF EndOpLast, Wake
  <2>3. panicked' \in BOOLEAN /\ committing' \in BOOLEAN /\ phase' \in Phase
    BY <1>12 DEF EndOpLast
  <2>4. wrote' \in [Thread -> SUBSET Block]
    BY <1>12 DEF EndOpLast
  <2>5. UNCHANGED <<disk, cache, dirty, lh, buf, crashes>>
    BY <1>12 DEF EndOpLast
  <2> QED
    BY <2>1, <2>2, <2>3, <2>4, <2>5
<1>13. ASSUME NEW t \in Thread, EndOp(t) PROVE TypeOK'
  <2>1. outstanding' \in 0 .. Cardinality(Thread)
    BY ThreadCount DEF CallInv, Open
  <2>2. pc' \in [Thread -> PC] /\ tail' \in 1 .. LOGSIZE + 1
    BY <1>13, LogAssumption DEF EndOp, Wake
  <2>3. panicked' \in BOOLEAN /\ committing' \in BOOLEAN /\ phase' \in Phase
    BY <1>13 DEF EndOp
  <2>4. wrote' \in [Thread -> SUBSET Block]
    BY <1>13 DEF EndOp
  <2>5. UNCHANGED <<disk, cache, dirty, lh, buf, crashes>>
    BY <1>13 DEF EndOp
  <2> QED
    BY <2>1, <2>2, <2>3, <2>4, <2>5
<1>14. ASSUME NEW t \in Thread, CommitDone(t) PROVE TypeOK'
  <2>1. pc' \in [Thread -> PC]
    BY <1>14 DEF CommitDone, Wake
  <2> QED
    BY <1>14, <2>1 DEF CommitDone
<1>15. ASSUME NEW t \in Thread, NEW b \in Block, LogWrite(t, b) PROVE TypeOK'
  <2>1. cache' \in [Block -> 0 .. NVAL]
    <3>1. (Data(b) + 1) % NVAL \in 0 .. NVAL - 1
      BY DataType
    <3>2. (Data(b) + 1) % NVAL \in 0 .. NVAL
      BY <3>1, LogAssumption
    <3> QED
      BY <1>15, <3>2 DEF LogWrite
  <2>2. panicked' \in BOOLEAN
    BY <1>15 DEF LogWrite
  <2>3. /\ buf' \in [Thread -> SUBSET Block] /\ wrote' \in [Thread -> SUBSET Block]
        /\ pc' \in [Thread -> PC]
    BY <1>15 DEF LogWrite
  <2>4. UNCHANGED <<disk, dirty, lh, outstanding, committing, phase, tail, crashes>>
    BY <1>15 DEF LogWrite
  <2> QED
    BY <2>1, <2>2, <2>3, <2>4
<1> QED
  BY <1>1, <1>2, <1>3, <1>4, <1>5, <1>6, <1>7, <1>8, <1>9, <1>10, <1>11, <1>12,
     <1>13, <1>14, <1>15
  DEF Next, Commit, Finish

\* A buffer that is recycled holds what the disk holds.
LEMMA RecycledClean ==
  ASSUME TypeOK, ModeInv, CacheInv, CopyInv, NEW b \in Block, Recycle(b)
  PROVE  cache[b] = home[b]
<1>1. Up /\ cache[b] # NotCached /\ ~Busy(b) /\ b \notin dirty
  BY DEF Recycle
<1>2. CASE ~InLog(b)
  BY <1>1, <1>2 DEF CacheInv
<1>3. CASE InLog(b)
  <2>1. PICK i \in DOMAIN lh : lh[i] = b
    BY <1>3 DEF InLog
  <2>2. phase = "install" /\ i < tail
    BY <1>1, <2>1 DEF CacheInv, TypeOK
  <2>3. i \in 1 .. tail - 1
    BY <2>2, SMTT(40) DEF TypeOK
  <2> QED
    BY <1>1, <2>1, <2>2, <2>3 DEF CopyInv
<1> QED
  BY <1>2, <1>3

\* bread() and the recycling of buffers change no data that can be read.
LEMMA SameData ==
  ASSUME TypeOK, ModeInv, CacheInv, CopyInv, NEW b \in Block, Bread(b) \/ Recycle(b)
  PROVE  \A d \in Block : Data(d)' = Data(d)
<1>1. CASE Bread(b)
  <2>1. cache[b] = NVAL /\ cache' = [cache EXCEPT ![b] = home[b]] /\ home' = home
    BY <1>1 DEF Bread, disk, NotCached
  <2>2. home[b] # NVAL
    BY LogAssumption DEF TypeOK
  <2> QED
    BY <2>1, <2>2 DEF Data, TypeOK, NotCached
<1>2. CASE Recycle(b)
  <2>1. cache' = [cache EXCEPT ![b] = NVAL] /\ home' = home
    BY <1>2 DEF Recycle, disk, NotCached
  <2>2. cache[b] = home[b]
    BY <1>2, RecycledClean
  <2> QED
    BY <2>1, <2>2 DEF Data, TypeOK, NotCached
<1> QED
  BY <1>1, <1>2

\* A written block has an entry in the cache, and so has an installed one.
LEMMA NotNotCached ==
  ASSUME TypeOK, NEW b \in Block
  PROVE  (Data(b) + 1) % NVAL # NotCached /\ \A i \in 1 .. LOGSIZE : logblk[i] # NotCached
<1>1. (Data(b) + 1) % NVAL \in 0 .. NVAL - 1
  BY DataType
<1> QED
  BY <1>1, LogAssumption DEF TypeOK, NotCached

\* Copies are made and kept.
LEMMA CopyStep ==
  ASSUME TypeOK, ModeInv, CallInv, CacheInv, CopyInv, Next
  PROVE  CopyInv'
<1> USE DEF CopyInv
<1>1. CASE WriteLog
  <2>1. /\ phase = "write_log" /\ tail <= Len(lh) /\ tail' = tail + 1 /\ phase' = phase
        /\ logblk' = [logblk EXCEPT ![tail] = Data(lh[tail])]
        /\ UNCHANGED <<home, cache, lh, committing>>
    BY <1>1 DEF WriteLog
  <2>2. tail \in 1 .. LOGSIZE
    BY <2>1, LogAssumption DEF TypeOK
  <2>3. \A d \in Block : Data(d)' = Data(d)
    BY <2>1 DEF Data
  <2>4. \A i \in DOMAIN lh : lh[i] \in Block
    BY DEF TypeOK
  <2>5. ASSUME NEW i \in 1 .. tail' - 1 PROVE logblk'[i] = Data(lh[i])
    <3>1. i \in 1 .. LOGSIZE /\ (i = tail \/ i \in 1 .. tail - 1)
      BY <2>1, <2>2, LogAssumption, SMTT(40) DEF TypeOK
    <3> QED
      BY <2>1, <2>2, <3>1 DEF TypeOK
  <2>6. \A i \in 1 .. tail' - 1 : i \in DOMAIN lh
    BY <2>1, <2>2 DEF TypeOK
  <2> HIDE DEF Data
  <2> QED
    BY <2>1, <2>3, <2>4, <2>5, <2>6
<1>2. CASE WriteHead
  <2>1. /\ phase = "write_log" /\ tail > Len(lh) /\ tail' = 1 /\ phase' = "install"
        /\ UNCHANGED <<home, logblk, cache, lh, committing>>
    BY <1>2 DEF WriteHead
  <2>2. \A i \in DOMAIN lh : i \in 1 .. tail - 1
    BY <2>1 DEF TypeOK
  <2>3. \A i \in DOMAIN lh : logblk[i] = Data(lh[i])
    BY <2>1, <2>2
  <2> QED
    BY <2>1, <2>3 DEF Data
<1>3. CASE InstallTrans
  <2>1. /\ phase = "install" /\ tail <= Len(lh) /\ tail' = tail + 1 /\ phase' = phase
        /\ home' = [home EXCEPT ![lh[tail]] = logblk[tail]]
        /\ cache' = [cache EXCEPT ![lh[tail]] = logblk[tail]]
        /\ UNCHANGED <<logblk, lh, committing>>
    BY <1>3 DEF InstallTrans
  <2>2. /\ tail \in DOMAIN lh /\ tail \in 1 .. LOGSIZE
        /\ \A i \in DOMAIN lh : lh[i] \in Block
    <3>1. tail \in DOMAIN lh
      BY <2>1, Indices DEF TypeOK
    <3> QED
      BY <3>1, Indices
  <2>3. \A i \in DOMAIN lh : i # tail => lh[i] # lh[tail]
    BY <2>2 DEF CacheInv
  <2>4. \A i \in 1 .. tail' - 1 : i \in DOMAIN lh /\ (i = tail \/ i \in 1 .. tail - 1)
    BY <2>1, <2>2, SMTT(40) DEF TypeOK
  <2>5. home'[lh[tail]] = logblk[tail] /\ cache'[lh[tail]] = logblk[tail]
    BY <2>1, <2>2 DEF TypeOK
  <2>6. \A i \in DOMAIN lh : i # tail =>
          home'[lh[i]] = home[lh[i]] /\ cache'[lh[i]] = cache[lh[i]]
    BY <2>1, <2>2, <2>3 DEF TypeOK
  <2>7. logblk[tail] # NotCached
    BY <2>2, NotNotCached
  <2>8. ASSUME committing, NEW i \in DOMAIN lh PROVE logblk[i] = Data(lh[i])'
    <3>1. logblk[i] = Data(lh[i])
      BY <2>1, <2>8
    <3>2. CASE i = tail
      BY <2>1, <2>5, <2>7, <3>2 DEF Data
    <3>3. CASE i # tail
      BY <2>1, <2>6, <3>1, <3>3 DEF Data
    <3> QED
      BY <3>2, <3>3
  <2>9. \A i \in 1 .. tail' - 1 :
          home'[lh[i]] = logblk[i] /\ cache'[lh[i]] \in {NotCached, logblk[i]}
    BY <2>1, <2>4, <2>5, <2>6
  <2> HIDE DEF Data
  <2> QED
    BY <2>1, <2>8, <2>9
<1>4. CASE ClearHead
  <2>1. phase' \in {"done", "none"}
    BY <1>4 DEF ClearHead
  <2> QED
    BY <2>1
<1>5. CASE ReadHead
  <2>1. tail' = 1 /\ phase' = "install" /\ committing' = committing
    BY <1>5 DEF ReadHead
  <2>2. ~committing
    BY <1>5 DEF ReadHead, ModeInv
  <2> QED
    BY <2>1, <2>2
<1>6. CASE Crash
  <2>1. phase' = "read_head"
    BY <1>6 DEF Crash, Booted
  <2> QED
    BY <2>1
<1>7. ASSUME NEW b \in Block, Bread(b) PROVE CopyInv'
  <2>1. UNCHANGED <<home, logblk, lh, phase, tail, committing>>
    BY <1>7 DEF Bread, disk
  <2>2. \A d \in Block : Data(d)' = Data(d)
    BY <1>7, SameData
  <2>3. \A i \in DOMAIN lh : lh[i] \in Block
    BY DEF TypeOK
  <2>4. phase \in {"write_log", "install"} => 1 .. tail - 1 \subseteq DOMAIN lh
    BY DEF ModeInv, TypeOK
  <2>5. \A d \in Block : cache'[d] \in {cache[d], home[d], NotCached}
    BY <1>7 DEF Bread, TypeOK
  <2>6. phase = "install" => \A i \in 1 .. tail - 1 : cache'[lh[i]] \in {NotCached, logblk[i]}
    BY <2>3, <2>4, <2>5
  <2> HIDE DEF Data
  <2> QED
    BY <2>1, <2>2, <2>3, <2>4, <2>6
<1>8. ASSUME NEW b \in Block, Recycle(b) PROVE CopyInv'
  <2>1. UNCHANGED <<home, logblk, lh, phase, tail, committing>>
    BY <1>8 DEF Recycle, disk
  <2>2. \A d \in Block : Data(d)' = Data(d)
    BY <1>8, SameData
  <2>3. \A i \in DOMAIN lh : lh[i] \in Block
    BY DEF TypeOK
  <2>4. phase \in {"write_log", "install"} => 1 .. tail - 1 \subseteq DOMAIN lh
    BY DEF ModeInv, TypeOK
  <2>5. \A d \in Block : cache'[d] \in {cache[d], home[d], NotCached}
    BY <1>8 DEF Recycle, TypeOK
  <2>6. phase = "install" => \A i \in 1 .. tail - 1 : cache'[lh[i]] \in {NotCached, logblk[i]}
    BY <2>3, <2>4, <2>5
  <2> HIDE DEF Data
  <2> QED
    BY <2>1, <2>2, <2>3, <2>4, <2>6
<1>9. ASSUME NEW t \in Thread, BeginOp(t) PROVE CopyInv'
  <2>1. UNCHANGED <<home, logblk, cache, lh, phase, tail, committing>>
    BY <1>9 DEF BeginOp, disk
  <2> QED
    BY <2>1 DEF Data
<1>10. ASSUME NEW t \in Thread, BeginSleep(t) PROVE CopyInv'
  <2>1. UNCHANGED <<home, logblk, cache, lh, phase, tail, committing>>
    BY <1>10 DEF BeginSleep, disk
  <2> QED
    BY <2>1 DEF Data
<1>11. ASSUME NEW t \in Thread, LogAppend(t) PROVE CopyInv'
  <2>1. phase = "none" /\ phase' = phase
    BY <1>11, Calling DEF LogAppend, Open
  <2> QED
    BY <2>1
<1>12. ASSUME NEW t \in Thread, EndOpLast(t) PROVE CopyInv'
  <2>1. tail' = 1 /\ phase' # "install"
    BY <1>12 DEF EndOpLast
  <2> QED
    BY <2>1
<1>13. ASSUME NEW t \in Thread, EndOp(t) PROVE CopyInv'
  <2>1. phase = "none" /\ phase' = phase
    BY <1>13, Calling DEF EndOp, Open
  <2> QED
    BY <2>1
<1>14. ASSUME NEW t \in Thread, CommitDone(t) PROVE CopyInv'
  <2>1. phase' = "none"
    BY <1>14 DEF CommitDone
  <2> QED
    BY <2>1
<1>15. ASSUME NEW t \in Thread, NEW b \in Block, LogWrite(t, b) PROVE CopyInv'
  <2>1. phase = "none" /\ phase' = phase
    BY <1>15, Calling DEF LogWrite, Open
  <2> QED
    BY <2>1
<1> QED
  BY <1>1, <1>2, <1>3, <1>4, <1>5, <1>6, <1>7, <1>8, <1>9, <1>10, <1>11, <1>12,
     <1>13, <1>14, <1>15
  DEF Next, Commit, Finish

\* The log has no block twice, and the cache keeps what the log needs.
LEMMA CacheStep ==
  ASSUME TypeOK, ModeInv, CallInv, CacheInv, CopyInv, Next
  PROVE  CacheInv'
<1> USE DEF CacheInv
<1>1. CASE WriteLog
  <2>1. /\ phase = "write_log" /\ phase' = phase
        /\ UNCHANGED <<home, head, cache, dirty, lh, committing, buf>>
    BY <1>1 DEF WriteLog
  <2> QED
    BY <2>1 DEF InLog, Busy, Up
<1>2. CASE WriteHead
  <2>1. /\ phase = "write_log" /\ head' = lh
        /\ UNCHANGED <<home, cache, dirty, lh, committing, buf>>
    BY <1>2 DEF WriteHead
  <2>2. Up
    BY <2>1 DEF ModeInv, Up
  <2> QED
    BY <2>1, <2>2 DEF InLog, Busy
<1>3. CASE InstallTrans
  <2>1. /\ phase = "install" /\ tail <= Len(lh) /\ tail' = tail + 1 /\ phase' = phase
        /\ home' = [home EXCEPT ![lh[tail]] = logblk[tail]]
        /\ cache' = [cache EXCEPT ![lh[tail]] = logblk[tail]]
        /\ dirty' = dirty \ {lh[tail]}
        /\ UNCHANGED <<lh, head, committing, buf>>
    BY <1>3 DEF InstallTrans
  <2>2. tail \in DOMAIN lh /\ \A i \in DOMAIN lh : i \in Nat /\ lh[i] \in Block
    <3>1. tail \in DOMAIN lh
      BY <2>1, Indices DEF TypeOK
    <3> QED
      BY <3>1, Indices
  <2>3. \A i \in DOMAIN lh : tail + 1 <= i => tail <= i /\ lh[i] # lh[tail]
    BY <2>2, SMTT(40) DEF TypeOK
  <2>4. \A d \in Block : d # lh[tail] => cache'[d] = cache[d] /\ home'[d] = home[d]
    BY <2>1, <2>2 DEF TypeOK
  <2>5. \A d \in Block : ~InLog(d)' /\ ~Busy(d)' => cache'[d] \in {NotCached, home'[d]}
    BY <2>1, <2>2, <2>4 DEF InLog, Busy
  <2>6. ASSUME NEW i \in DOMAIN lh, Up', tail' <= i
        PROVE  lh[i] \in dirty' /\ cache'[lh[i]] # NotCached
    <3>1. Up
      BY <2>1, <2>6 DEF Up
    <3>2. tail <= i /\ lh[i] # lh[tail]
      BY <2>1, <2>3, <2>6
    <3> QED
      BY <2>1, <2>2, <2>4, <3>1, <3>2
  <2> QED
    BY <2>1, <2>5, <2>6
<1>4. CASE ClearHead
  <2>1. /\ phase = "install" /\ tail > Len(lh) /\ lh' = <<>> /\ head' = <<>>
        /\ UNCHANGED <<home, cache, buf>>
    BY <1>4 DEF ClearHead
  <2>2. \A i \in DOMAIN lh : i \in 1 .. tail - 1
    BY <2>1 DEF TypeOK
  <2>3. ASSUME NEW d \in Block, ~Busy(d)' PROVE cache'[d] \in {NotCached, home'[d]}
    <3>1. ~Busy(d)
      BY <2>1, <2>3 DEF Busy
    <3>2. CASE InLog(d)
      BY <2>1, <2>2, <3>2 DEF CopyInv, InLog
    <3>3. CASE ~InLog(d)
      BY <2>1, <3>1, <3>3
    <3> QED
      BY <3>2, <3>3
  <2> QED
    BY <2>1, <2>3
<1>5. CASE ReadHead
  <2>1. /\ phase = "read_head" /\ lh' = head /\ head' = head /\ phase' = "install"
        /\ UNCHANGED <<home, cache, buf, committing>>
    BY <1>5 DEF ReadHead, disk
  <2>2. lh = <<>> /\ ~committing
    BY <2>1 DEF ModeInv
  <2>3. ~Up'
    BY <2>1, <2>2 DEF Up
  <2>4. \A d \in Block : ~InLog(d)
    BY <2>2 DEF InLog
  <2>5. \A d \in Block : ~Busy(d)' => ~Busy(d)
    BY <2>1 DEF Busy
  <2> HIDE DEF Up
  <2> QED
    BY <2>1, <2>3, <2>4, <2>5
<1>6. CASE Crash
  <2>1. /\ phase' = "read_head" /\ lh' = <<>> /\ head' = head
        /\ cache' = [d \in Block |-> NotCached]
    BY <1>6 DEF Crash, Booted, disk
  <2> QED
    BY <2>1
<1>7. ASSUME NEW b \in Block, Bread(b) PROVE CacheInv'
  <2>1. /\ cache' = [cache EXCEPT ![b] = home[b]]
        /\ UNCHANGED <<home, head, dirty, lh, phase, tail, committing, buf>>
    BY <1>7 DEF Bread, disk
  <2>2. home[b] # NotCached
    BY LogAssumption DEF TypeOK, NotCached
  <2>3. \A d \in Block : cache'[d] = cache[d] \/ (d = b /\ cache'[d] = home[d])
    BY <2>1 DEF TypeOK
  <2>4. \A d \in Block : cache[d] # NotCached => cache'[d] # NotCached
    BY <2>2, <2>3
  <2>5. \A d \in Block : cache[d] \in {NotCached, home[d]} => cache'[d] \in {NotCached, home[d]}
    BY <2>3
  <2>6. \A i \in DOMAIN lh : lh[i] \in Block
    BY DEF TypeOK
  <2> QED
    BY <2>1, <2>4, <2>5, <2>6 DEF InLog, Busy, Up
<1>8. ASSUME NEW b \in Block, Recycle(b) PROVE CacheInv'
  <2>1. /\ cache' = [cache EXCEPT ![b] = NotCached] /\ b \notin dirty
        /\ UNCHANGED <<home, head, dirty, lh, phase, tail, committing, buf>>
    BY <1>8 DEF Recycle, disk
  <2>2. \A d \in Block : cache'[d] = IF d = b THEN NotCached ELSE cache[d]
    BY <2>1 DEF TypeOK
  <2>3. \A d \in Block : cache[d] \in {NotCached, home[d]} => cache'[d] \in {NotCached, home[d]}
    BY <2>2
  <2>4. \A i \in DOMAIN lh : lh[i] \in dirty => cache'[lh[i]] = cache[lh[i]]
    BY <2>1, <2>2 DEF TypeOK
  <2> QED
    BY <2>1, <2>3, <2>4 DEF InLog, Busy, Up
<1>9. ASSUME NEW t \in Thread, BeginOp(t) PROVE CacheInv'
  <2>1. UNCHANGED <<home, head, cache, dirty, lh, phase, tail, committing, buf>>
    BY <1>9 DEF BeginOp, disk
  <2> QED
    BY <2>1 DEF InLog, Busy, Up
<1>10. ASSUME NEW t \in Thread, BeginSleep(t) PROVE CacheInv'
  <2>1. UNCHANGED <<home, head, cache, dirty, lh, phase, tail, committing, buf>>
    BY <1>10 DEF BeginSleep, disk
  <2> QED
    BY <2>1 DEF InLog, Busy, Up
<1>11. ASSUME NEW t \in Thread, LogAppend(t) PROVE CacheInv'
  <2>1. PICK b \in buf[t] :
          /\ lh' = IF \E i \in DOMAIN lh : lh[i] = b THEN lh ELSE Append(lh, b)
          /\ dirty' = dirty \cup {b}
    BY <1>11 DEF LogAppend
  <2>2. /\ buf' = [buf EXCEPT ![t] = {}]
        /\ UNCHANGED <<home, head, cache, phase, tail, committing>>
    BY <1>11 DEF LogAppend, disk
  <2>3. b \in Block /\ cache[b] # NotCached /\ \A d \in buf[t] : d = b
    BY DEF TypeOK, CallInv
  <2>4. phase = "none" /\ Up
    BY <1>11, Calling DEF LogAppend, Open
  <2>5. ASSUME NEW d \in Block, d # b, Busy(d) PROVE Busy(d)'
    BY <2>2, <2>3, <2>5 DEF Busy, TypeOK
  <2>6. \A i \in DOMAIN lh : lh[i] \in dirty /\ cache[lh[i]] # NotCached
    BY <2>4
  <2>7. CASE InLog(b)
    <3>1. lh' = lh
      BY <2>1, <2>7 DEF InLog
    <3>2. \A d \in Block : InLog(d)' <=> InLog(d)
      BY <3>1 DEF InLog
    <3> HIDE DEF Busy
    <3>3. \A d \in Block : ~InLog(d)' /\ ~Busy(d)' => cache'[d] \in {NotCached, home'[d]}
      BY <2>2, <2>5, <2>7, <3>2
    <3> QED
      BY <2>1, <2>2, <2>6, <3>1, <3>3
  <2>8. CASE ~InLog(b)
    <3>1. lh' = Append(lh, b)
      BY <2>1, <2>8 DEF InLog
    <3>2. /\ DOMAIN lh' = 1 .. Len(lh) + 1
          /\ \A i \in DOMAIN lh : lh'[i] = lh[i]
          /\ lh'[Len(lh) + 1] = b
      BY <2>3, <3>1, Appended
    <3>3. Len(lh) \in Nat /\ DOMAIN lh = 1 .. Len(lh)
      BY DEF TypeOK
    <3>4. \A i \in DOMAIN lh' : (i \in DOMAIN lh /\ lh'[i] = lh[i]) \/ (i = Len(lh) + 1 /\ lh'[i] = b)
      BY <3>2, <3>3
    <3>5. \A i \in DOMAIN lh : lh[i] # b
      BY <2>8 DEF InLog
    <3>6. \A i, j \in DOMAIN lh' : lh'[i] = lh'[j] => i = j
      BY <3>4, <3>5
    <3>7. InLog(b)' /\ \A d \in Block : InLog(d) => InLog(d)'
      BY <3>2, <3>3 DEF InLog
    <3> HIDE DEF Busy, InLog
    <3>8. \A d \in Block : ~InLog(d)' /\ ~Busy(d)' => cache'[d] \in {NotCached, home'[d]}
      BY <2>2, <2>5, <3>7
    <3>9. \A i \in DOMAIN lh' : lh'[i] \in dirty' /\ cache'[lh'[i]] # NotCached
      BY <2>1, <2>2, <2>3, <2>6, <3>4
    <3> QED
      BY <2>2, <3>6, <3>8, <3>9
  <2> QED
    BY <2>7, <2>8
<1>12. ASSUME NEW t \in Thread, EndOpLast(t) PROVE CacheInv'
  <2>1. UNCHANGED <<home, head, cache, dirty, lh, buf>>
    BY <1>12 DEF EndOpLast, disk
  <2>2. phase = "none" /\ Up
    BY <1>12, Calling, Ended
  <2> QED
    BY <2>1, <2>2 DEF InLog, Busy
<1>13. ASSUME NEW t \in Thread, EndOp(t) PROVE CacheInv'
  <2>1. UNCHANGED <<home, head, cache, dirty, lh, phase, tail, committing, buf>>
    BY <1>13 DEF EndOp, disk
  <2> QED
    BY <2>1 DEF InLog, Busy, Up
<1>14. ASSUME NEW t \in Thread, CommitDone(t) PROVE CacheInv'
  <2>1. UNCHANGED <<home, head, cache, dirty, lh, buf>> /\ phase = "done"
    BY <1>14 DEF CommitDone, disk
  <2>2. lh = <<>>
    BY <2>1 DEF ModeInv
  <2> QED
    BY <2>1, <2>2 DEF InLog, Busy
<1>15. ASSUME NEW t \in Thread, NEW b \in Block, LogWrite(t, b) PROVE CacheInv'
  <2>1. /\ buf' = [buf EXCEPT ![t] = {b}] /\ pc[t] = "op"
        /\ cache' = [cache EXCEPT ![b] = (Data(b) + 1) % NVAL]
        /\ UNCHANGED <<home, head, lh, dirty, phase, tail, committing>>
    BY <1>15 DEF LogWrite, disk
  <2>2. \A d \in Block : d # b => cache'[d] = cache[d]
    BY <2>1 DEF TypeOK
  <2>3. cache'[b] # NotCached
    BY <2>1, NotNotCached DEF TypeOK
  <2>4. Busy(b)'
    BY <2>1 DEF Busy, TypeOK
  <2>5. buf[t] = {}
    BY <2>1 DEF CallInv
  <2>6. \A d \in Block : Busy(d) => Busy(d)'
    BY <2>1, <2>5 DEF Busy, TypeOK
  <2>7. \A d \in Block : InLog(d)' <=> InLog(d)
    BY <2>1 DEF InLog
  <2>8. Up' = Up
    BY <2>1 DEF Up
  <2>9. \A i \in DOMAIN lh : lh[i] \in Block
    BY DEF TypeOK
  <2> HIDE DEF Busy, InLog, Up
  <2>10. \A d \in Block : ~InLog(d)' /\ ~Busy(d)' => cache'[d] \in {NotCached, home'[d]}
    BY <2>1, <2>2, <2>4, <2>6, <2>7
  <2> QED
    BY <2>1, <2>2, <2>3, <2>8, <2>9, <2>10
<1> QED
  BY <1>1, <1>2, <1>3, <1>4, <1>5, <1>6, <1>7, <1>8, <1>9, <1>10, <1>11, <1>12,
     <1>13, <1>14, <1>15
  DEF Next, Commit, Finish

-----------------------------------------------------------------------------
(* Recovery.                                                               *)

\* Recovery copies the blocks that the header names and no others.
Copies ==
  /\ \A b \in Block : (\A i \in DOMAIN head : head[i] # b) => Recovered[b] = home[b]
  /\ \A i \in DOMAIN head : Recovered[head[i]] = logblk[i]

\* This is so for a header without duplicates.
LEMMA RecoveredIs == TypeOK /\ CacheInv => Copies
<1> SUFFICES ASSUME TypeOK, CacheInv PROVE Copies
  OBVIOUS
<1> DEFINE I(b) == {i \in DOMAIN head : head[i] = b}
<1>1. \A b \in Block : Recovered[b] =
        IF I(b) = {} THEN home[b] ELSE logblk[CHOOSE i \in I(b) : \A j \in I(b) : j <= i]
  BY DEF Recovered
<1>2. ASSUME NEW b \in Block, \A i \in DOMAIN head : head[i] # b PROVE Recovered[b] = home[b]
  <2>1. I(b) = {}
    BY <1>2
  <2> HIDE DEF I
  <2> QED
    BY <1>1, <2>1
<1>3. ASSUME NEW i \in DOMAIN head PROVE Recovered[head[i]] = logblk[i]
  <2>1. head[i] \in Block /\ i \in Nat
    BY DEF TypeOK
  <2>2. I(head[i]) = {i}
    BY DEF CacheInv
  <2>3. (CHOOSE k \in {i} : \A j \in {i} : j <= k) = i
    BY <2>1
  <2> HIDE DEF I
  <2> QED
    BY <1>1, <2>1, <2>2, <2>3
<1> QED
  BY <1>2, <1>3 DEF Copies

\* So it is after a step that keeps the invariant.
LEMMA RecoveredNext == TypeOK' /\ CacheInv' => Copies'
BY RecoveredIs, PTL

\* With an empty header nothing is to be recovered.
LEMMA EmptyHeader ==
  ASSUME TypeOK, CacheInv, head = <<>>
  PROVE  \A b \in Block : Recovered[b] = home[b]
BY RecoveredIs DEF Copies

\* At rest and with no call in progress the cache agrees with the disk.
LEMMA Quiet ==
  ASSUME TypeOK, ModeInv, CallInv, CacheInv, phase = "none", Open = {}, NEW b \in Block
  PROVE  Recovered[b] = Data(b)
<1>1. lh = <<>> /\ head = <<>>
  BY DEF ModeInv
<1>2. ~InLog(b) /\ ~Busy(b)
  BY <1>1 DEF InLog, Busy, CallInv, TypeOK, Open
<1>3. cache[b] \in {NotCached, home[b]}
  BY <1>2 DEF CacheInv
<1> QED
  BY <1>1, <1>3, EmptyHeader DEF Data

-----------------------------------------------------------------------------
(* Theorems.                                                               *)

\* After mkfs, the invariant holds.
LEMMA InitIInv == Init => IInv
<1> SUFFICES ASSUME Init PROVE IInv
  OBVIOUS
<1>1. Open = {} /\ Cardinality({}) = 0
  BY FS_EmptySet DEF Init, Open
<1>2. TypeOK
  <2>1. home \in [Block -> 0 .. NVAL - 1] /\ cache \in [Block -> 0 .. NVAL]
    BY LogAssumption DEF Init, NotCached
  <2>2. logblk \in [1 .. LOGSIZE -> 0 .. NVAL - 1]
    BY LogAssumption DEF Init
  <2>3. /\ head \in Seq(Block) /\ Len(head) <= LOGSIZE
        /\ lh \in Seq(Block) /\ Len(lh) <= LOGSIZE
    BY LogAssumption DEF Init
  <2>4. outstanding \in 0 .. Cardinality(Thread)
    BY <1>1, ThreadCount DEF Init
  <2>5. tail \in 1 .. LOGSIZE + 1 /\ crashes \in 0 .. MaxCrashes
    BY LogAssumption DEF Init
  <2>6. /\ dirty \subseteq Block /\ committing \in BOOLEAN /\ phase \in Phase
        /\ pc \in [Thread -> PC] /\ panicked \in BOOLEAN
        /\ buf \in [Thread -> SUBSET Block] /\ wrote \in [Thread -> SUBSET Block]
    BY DEF Init, Phase, PC
  <2> QED
    BY <2>1, <2>2, <2>3, <2>4, <2>5, <2>6 DEF TypeOK
<1>3. ModeInv
  BY <1>1 DEF Init, ModeInv
<1>4. CallInv
  BY <1>1, LogAssumption DEF Init, CallInv
<1>5. OnlyFullPanics
  BY DEF Init, OnlyFullPanics
<1>6. CacheInv /\ CopyInv
  BY DEF Init, CacheInv, CopyInv, Up
<1> QED
  BY <1>2, <1>3, <1>4, <1>5, <1>6 DEF IInv

\* A step that changes nothing keeps the invariant.
LEMMA Stutter == IInv /\ UNCHANGED vars => IInv'
<1> SUFFICES ASSUME IInv, UNCHANGED vars PROVE IInv'
  OBVIOUS
<1> USE DEF IInv, vars, disk
<1>1. TypeOK'
  BY DEF TypeOK
<1>2. ModeInv' /\ CallInv'
  BY DEF ModeInv, CallInv, Open
<1>3. OnlyFullPanics'
  BY DEF OnlyFullPanics
<1>4. CacheInv' /\ CopyInv'
  BY DEF CacheInv, CopyInv, InLog, Busy, Up, Data
<1> QED
  BY <1>1, <1>2, <1>3, <1>4

\* log_write() and end_op() panic for a full log only: a call that is open is
\* counted, and no commit is on its way.
LEMMA PanicStep ==
  ASSUME TypeOK, ModeInv, CallInv, OnlyFullPanics, Next
  PROVE  OnlyFullPanics'
<1>1. ASSUME NEW t \in Thread, NEW b \in Block, LogWrite(t, b) PROVE OnlyFullPanics'
  <2>1. outstanding \in Nat \ {0}
    BY <1>1, Calling DEF LogWrite, Open
  <2>2. /\ panicked' = (Len(lh) >= LOGSIZE \/ Len(lh) >= NLOG - 1 \/ outstanding < 1)
        /\ lh' = lh
    BY <1>1 DEF LogWrite
  <2>3. Len(lh) \in Nat /\ NLOG \in Nat /\ LOGSIZE \in Nat /\ NLOG <= LOGSIZE
    BY LogAssumption DEF TypeOK
  <2>4. panicked' => Len(lh) >= NLOG - 1
    <3>1. Len(lh) >= LOGSIZE \/ Len(lh) >= NLOG - 1 \/ outstanding < 1 => Len(lh) >= NLOG - 1
      BY <2>1, <2>3
    <3> QED
      BY <2>2, <3>1, Zenon
  <2> QED
    BY <2>2, <2>4, Zenon DEF OnlyFullPanics
<1>2. ASSUME NEW t \in Thread, EndOpLast(t) \/ EndOp(t) PROVE OnlyFullPanics'
  <2>1. committing = FALSE
    BY <1>2, Calling, Ended
  <2>2. panicked' = committing
    BY <1>2 DEF EndOpLast, EndOp
  <2> QED
    BY <2>1, <2>2 DEF OnlyFullPanics
<1>3. CASE \/ Commit \/ Crash
           \/ \E b \in Block : Bread(b) \/ Recycle(b)
           \/ \E t \in Thread :
                BeginOp(t) \/ BeginSleep(t) \/ LogAppend(t) \/ CommitDone(t)
  <2>1. panicked' = panicked
    BY <1>3 DEF Commit, WriteLog, WriteHead, InstallTrans, ClearHead, ReadHead, Crash,
       Bread, Recycle, BeginOp, BeginSleep, LogAppend, CommitDone
  <2>2. ~panicked
    BY DEF Next
  <2> QED
    BY <2>1, <2>2 DEF OnlyFullPanics
<1> QED
  BY <1>1, <1>2, <1>3 DEF Next, Finish

\* Every step keeps the invariant, if the log does not outgrow its area.
LEMMA StepIInv == IInv /\ Fits' /\ Next => IInv'
<1> SUFFICES ASSUME IInv, Fits', Next PROVE IInv'
  OBVIOUS
<1>1. CallInv'
  BY CallStep DEF IInv
<1>2. TypeOK' /\ ModeInv' /\ OnlyFullPanics' /\ CacheInv' /\ CopyInv'
  BY <1>1, TypeStep, ModeStep, PanicStep, CacheStep, CopyStep DEF IInv
<1> QED
  BY <1>1, <1>2 DEF IInv

\* Whatever the threads, the disk and power failures do, the invariant holds
\* as long as the blocks of log.lh have their places on the disk.
THEOREM Inductive == Spec /\ []Fits => []IInv
<1>1. IInv /\ Fits' /\ [Next]_vars => IInv'
  BY Stutter, StepIInv
<1> QED
  BY <1>1, InitIInv, PTL DEF Spec

\* The log and the cache keep their types.
THEOREM TypeCorrect == Spec /\ []Fits => []TypeOK
<1>1. IInv => TypeOK
  BY DEF IInv
<1> QED
  BY <1>1, Inductive, PTL

\* No call begins during a commit and none writes outside of a transaction, with
\* any number of calls that write what they like: log_write() panics of a full
\* log, and end_op() does not panic.
THEOREM PanicsOfFullLog == Spec /\ []Fits => []OnlyFullPanics
<1>1. IInv => OnlyFullPanics
  BY DEF IInv
<1> QED
  BY <1>1, Inductive, PTL

\* Once the last end_op() has committed, a crash loses nothing.
THEOREM Synchronous == Spec /\ []Fits => []QuietDurable
<1>1. IInv => QuietDurable
  <2> SUFFICES ASSUME IInv, phase = "none", outstanding = 0, NEW b \in Block
               PROVE  Recovered[b] = Data(b)
    BY DEF QuietDurable
  <2>1. Open = {}
    BY OpenFinite, FS_EmptySet DEF IInv, CallInv
  <2> QED
    BY <2>1, Quiet DEF IInv
<1> QED
  BY <1>1, Inductive, PTL

-----------------------------------------------------------------------------
(* The refinement.                                                         *)

\* Recovered is a function on Block.
LEMMA SameRecovered ==
  ASSUME \A b \in Block : Recovered'[b] = Recovered[b]
  PROVE  Recovered' = Recovered
BY DEF Recovered

\* What can be read stays the same.
LEMMA SameMem ==
  ASSUME Up' = Up, Recovered' = Recovered, \A b \in Block : Data(b)' = Data(b)
  PROVE  Mem' = Mem
BY DEF Mem

\* Recovery makes the same of the same disk.
LEMMA SameDisk == ASSUME UNCHANGED disk PROVE Recovered' = Recovered
BY DEF disk, Recovered

\* Every step is a step of AtomicDisk, or changes nothing there.
LEMMA StepRefines ==
  ASSUME IInv, IInv', Next
  PROVE  AtomicLog!Next \/ UNCHANGED <<Mem, Recovered, Open>>
<1> USE DEF IInv
<1>1. CASE WriteLog
  <2>1. /\ phase = "write_log" /\ head' = head /\ home' = home
        /\ UNCHANGED <<cache, phase, committing, pc>>
    BY <1>1 DEF WriteLog
  <2>2. head = <<>>
    BY <2>1 DEF ModeInv
  <2>3. Recovered' = Recovered
    BY <2>1, <2>2, RecoveredIs, RecoveredNext, SameRecovered DEF Copies
  <2>4. Up' = Up /\ Open' = Open /\ \A d \in Block : Data(d)' = Data(d)
    BY <2>1 DEF Up, Open, Data
  <2> QED
    BY <2>3, <2>4, SameMem
<1>2. CASE WriteHead
  <2>1. /\ phase = "write_log" /\ tail > Len(lh) /\ head' = lh /\ phase' = "install"
        /\ UNCHANGED <<home, logblk, cache, lh, committing, pc>>
    BY <1>2 DEF WriteHead
  <2>2. committing /\ Open = {}
    BY <2>1 DEF ModeInv
  <2>3. Up /\ Up' /\ Open' = Open /\ \A d \in Block : Data(d)' = Data(d)
    BY <2>1, <2>2 DEF Up, Open, Data
  <2>4. Mem = [d \in Block |-> Data(d)] /\ Mem' = Mem
    BY <2>3 DEF Mem
  <2>5. ASSUME NEW d \in Block PROVE Recovered'[d] = Data(d)
    <3>1. CASE InLog(d)
      <4>1. PICK i \in DOMAIN lh : lh[i] = d
        BY <3>1 DEF InLog
      <4>2. i \in 1 .. tail - 1
        BY <2>1, Indices
      <4>3. logblk[i] = Data(d)
        BY <2>1, <4>1, <4>2 DEF CopyInv
      <4> QED
        BY <2>1, <4>1, <4>3, RecoveredNext DEF Copies
    <3>2. CASE ~InLog(d)
      <4>1. ~Busy(d)
        BY <2>2 DEF CallInv, Busy, Open
      <4>2. Data(d) = home[d]
        BY <3>2, <4>1 DEF CacheInv, Data
      <4> QED
        BY <2>1, <3>2, <4>2, RecoveredNext DEF Copies, InLog
    <3> QED
      BY <3>1, <3>2
  <2>6. Recovered' = Mem
    BY <2>4, <2>5 DEF Recovered
  <2> QED
    BY <2>2, <2>3, <2>4, <2>6 DEF AtomicLog!Next, AtomicLog!Commit
<1>3. CASE InstallTrans
  <2>1. /\ phase = "install" /\ tail <= Len(lh) /\ phase' = phase
        /\ home' = [home EXCEPT ![lh[tail]] = logblk[tail]]
        /\ cache' = [cache EXCEPT ![lh[tail]] = logblk[tail]]
        /\ UNCHANGED <<logblk, lh, head, committing, pc>>
    BY <1>3 DEF InstallTrans
  <2>2. head = lh
    BY <2>1 DEF ModeInv
  <2>3. tail \in DOMAIN lh /\ lh[tail] \in Block /\ tail \in 1 .. LOGSIZE
    <3>1. tail \in DOMAIN lh
      BY <2>1, Indices DEF TypeOK
    <3> QED
      BY <3>1, Indices
  <2>4. \A d \in Block : d # lh[tail] => home'[d] = home[d] /\ cache'[d] = cache[d]
    BY <2>1, <2>3 DEF TypeOK
  <2>5. ASSUME NEW d \in Block PROVE Recovered'[d] = Recovered[d]
    <3>1. CASE \E i \in DOMAIN head : head[i] = d
      BY <2>1, <3>1, RecoveredIs, RecoveredNext DEF Copies
    <3>2. CASE \A i \in DOMAIN head : head[i] # d
      BY <2>1, <2>2, <2>3, <2>4, <3>2, RecoveredIs, RecoveredNext DEF Copies
    <3> QED
      BY <3>1, <3>2
  <2>6. Recovered' = Recovered
    BY <2>5, SameRecovered
  <2>7. Up' = Up /\ Open' = Open
    BY <2>1 DEF Up, Open
  <2>8. CASE ~committing
    <3>1. ~Up
      BY <2>1, <2>8 DEF Up
    <3> QED
      BY <2>6, <2>7, <3>1 DEF Mem
  <2>9. CASE committing
    <3>1. logblk[tail] = Data(lh[tail]) /\ logblk[tail] # NotCached
      BY <2>1, <2>3, <2>9, NotNotCached DEF CopyInv
    <3>2. cache'[lh[tail]] = logblk[tail]
      BY <2>1, <2>3 DEF TypeOK
    <3>3. ASSUME NEW d \in Block PROVE Data(d)' = Data(d)
      <4>1. CASE d = lh[tail]
        BY <3>1, <3>2, <4>1 DEF Data
      <4>2. CASE d # lh[tail]
        BY <2>4, <4>2 DEF Data
      <4> QED
        BY <4>1, <4>2
    <3> QED
      BY <2>6, <2>7, <3>3, SameMem
  <2> QED
    BY <2>8, <2>9
<1>4. CASE ClearHead
  <2>1. /\ phase = "install" /\ tail > Len(lh) /\ lh' = <<>> /\ head' = <<>>
        /\ phase' = (IF committing THEN "done" ELSE "none")
        /\ UNCHANGED <<home, logblk, cache, committing, pc>>
    BY <1>4 DEF ClearHead
  <2>2. head = lh
    BY <2>1 DEF ModeInv
  <2>3. \A d \in Block : Recovered'[d] = home[d]
    BY <2>1, RecoveredNext DEF Copies
  <2>4. ASSUME NEW d \in Block PROVE Recovered[d] = home[d]
    <3>1. CASE InLog(d)
      <4>1. PICK i \in DOMAIN lh : lh[i] = d
        BY <3>1 DEF InLog
      <4>2. i \in 1 .. tail - 1
        BY <2>1, Indices
      <4>3. home[d] = logblk[i]
        BY <2>1, <4>1, <4>2 DEF CopyInv
      <4> QED
        BY <2>2, <4>1, <4>3, RecoveredIs DEF Copies
    <3>2. CASE ~InLog(d)
      BY <2>2, <3>2, RecoveredIs DEF Copies, InLog
    <3> QED
      BY <3>1, <3>2
  <2>5. Recovered' = Recovered
    BY <2>3, <2>4, SameRecovered
  <2>6. Open' = Open /\ Open = {}
    BY <2>1 DEF Open, ModeInv
  <2>7. \A d \in Block : Data(d)' = Data(d)
    BY <2>1 DEF Data
  <2>8. CASE committing
    <3>1. Up' = Up
      BY <2>1, <2>8 DEF Up
    <3> QED
      BY <2>5, <2>6, <2>7, <3>1, SameMem
  <2>9. CASE ~committing
    <3>1. ~Up /\ Up'
      BY <2>1, <2>9 DEF Up
    <3>2. ASSUME NEW d \in Block PROVE Data(d)' = Recovered[d]
      <4>1. phase' = "none" /\ Open' = {}
        BY <2>1, <2>6, <2>9
      <4>2. ~InLog(d)' /\ ~Busy(d)'
        BY <2>1, <4>1 DEF InLog, Busy, CallInv, Open
      <4>3. cache'[d] \in {NotCached, home'[d]}
        BY <4>2 DEF CacheInv
      <4> QED
        BY <2>1, <2>4, <4>3 DEF Data
    <3>3. Mem' = Mem
      BY <2>5, <3>1, <3>2 DEF Mem, Recovered
    <3> QED
      BY <2>5, <2>6, <3>3
  <2> QED
    BY <2>8, <2>9
<1>5. CASE ReadHead
  <2>1. /\ phase = "read_head" /\ phase' = "install"
        /\ UNCHANGED <<disk, committing, pc>>
    BY <1>5 DEF ReadHead
  <2>2. ~committing
    BY <2>1 DEF ModeInv
  <2>3. ~Up /\ ~Up' /\ Open' = Open
    BY <2>1, <2>2 DEF Up, Open
  <2> QED
    BY <2>1, <2>3, SameDisk DEF Mem
<1>6. CASE Crash
  <2>1. UNCHANGED disk /\ phase' = "read_head" /\ committing' = FALSE
    BY <1>6 DEF Crash, Booted
  <2>2. ~Up' /\ Open' = {}
    BY <1>6, <2>1 DEF Crash, Booted, Up, Open
  <2>3. Recovered' = Recovered
    BY <2>1, SameDisk
  <2> QED
    BY <2>2, <2>3 DEF Mem, AtomicLog!Next, AtomicLog!Crash
<1>7. ASSUME NEW b \in Block, Bread(b) 
      PROVE AtomicLog!Next \/ UNCHANGED <<Mem, Recovered, Open>>
  <2>1. Recovered' = Recovered
    BY <1>7, SameDisk DEF Bread
  <2>2. Up' = Up /\ Open' = Open
    BY <1>7 DEF Bread, Up, Open
  <2>3. \A d \in Block : Data(d)' = Data(d)
    BY <1>7, SameData
  <2> QED
    BY <2>1, <2>2, <2>3, SameMem
<1>8. ASSUME NEW b \in Block, Recycle(b) 
      PROVE AtomicLog!Next \/ UNCHANGED <<Mem, Recovered, Open>>
  <2>1. Recovered' = Recovered
    BY <1>8, SameDisk DEF Recycle
  <2>2. Up' = Up /\ Open' = Open
    BY <1>8 DEF Recycle, Up, Open
  <2>3. \A d \in Block : Data(d)' = Data(d)
    BY <1>8, SameData
  <2> QED
    BY <2>1, <2>2, <2>3, SameMem
<1>9. ASSUME NEW t \in Thread, BeginOp(t) 
      PROVE AtomicLog!Next \/ UNCHANGED <<Mem, Recovered, Open>>
  <2>1. UNCHANGED <<disk, home, cache, phase, committing>>
    BY <1>9 DEF BeginOp, disk
  <2>2. Up' = Up /\ \A d \in Block : Data(d)' = Data(d)
    BY <2>1 DEF Up, Data
  <2>3. Recovered' = Recovered /\ Mem' = Mem
    BY <2>1, <2>2, SameDisk, SameMem
  <2>4. t \notin Open /\ Open' = Open \cup {t}
    BY <1>9, Begun
  <2> QED
    BY <2>3, <2>4 DEF AtomicLog!Next, AtomicLog!Begin
<1>10. ASSUME NEW t \in Thread, BeginSleep(t) 
      PROVE AtomicLog!Next \/ UNCHANGED <<Mem, Recovered, Open>>
  <2>1. UNCHANGED <<disk, home, cache, phase, committing>>
    BY <1>10 DEF BeginSleep, disk
  <2>2. Up' = Up /\ \A d \in Block : Data(d)' = Data(d)
    BY <2>1 DEF Up, Data
  <2>3. Open' = Open
    BY <1>10, SameOpen
  <2> QED
    BY <2>1, <2>2, <2>3, SameDisk, SameMem
<1>11. ASSUME NEW t \in Thread, LogAppend(t) 
      PROVE AtomicLog!Next \/ UNCHANGED <<Mem, Recovered, Open>>
  <2>1. UNCHANGED <<disk, home, cache, phase, committing>>
    BY <1>11 DEF LogAppend, disk
  <2>2. Up' = Up /\ \A d \in Block : Data(d)' = Data(d)
    BY <2>1 DEF Up, Data
  <2>3. Open' = Open
    BY <1>11, SameOpen
  <2> QED
    BY <2>1, <2>2, <2>3, SameDisk, SameMem
<1>12. ASSUME NEW t \in Thread, EndOpLast(t) 
      PROVE AtomicLog!Next \/ UNCHANGED <<Mem, Recovered, Open>>
  <2>1. UNCHANGED <<disk, home, cache>>
    BY <1>12 DEF EndOpLast, disk
  <2>2. t \in Open /\ Open' = Open \ {t}
    BY <1>12, Ended
  <2>3. Up
    BY <2>2, Calling
  <2>4. Up' /\ \A d \in Block : Data(d)' = Data(d)
    BY <1>12, <2>1, <2>3 DEF EndOpLast, Up, Data
  <2>5. Recovered' = Recovered /\ Mem' = Mem
    BY <2>1, <2>3, <2>4, SameDisk, SameMem
  <2> QED
    BY <2>2, <2>5 DEF AtomicLog!Next, AtomicLog!End
<1>13. ASSUME NEW t \in Thread, EndOp(t) 
      PROVE AtomicLog!Next \/ UNCHANGED <<Mem, Recovered, Open>>
  <2>1. UNCHANGED <<disk, home, cache>>
    BY <1>13 DEF EndOp, disk
  <2>2. t \in Open /\ Open' = Open \ {t}
    BY <1>13, Ended
  <2>3. Up
    BY <2>2, Calling
  <2>4. Up' /\ \A d \in Block : Data(d)' = Data(d)
    BY <1>13, <2>1, <2>3 DEF EndOp, Up, Data
  <2>5. Recovered' = Recovered /\ Mem' = Mem
    BY <2>1, <2>3, <2>4, SameDisk, SameMem
  <2> QED
    BY <2>2, <2>5 DEF AtomicLog!Next, AtomicLog!End
<1>14. ASSUME NEW t \in Thread, CommitDone(t) 
      PROVE AtomicLog!Next \/ UNCHANGED <<Mem, Recovered, Open>>
  <2>1. UNCHANGED <<disk, home, cache>> /\ phase = "done" /\ phase' = "none"
    BY <1>14 DEF CommitDone, disk
  <2>2. committing
    BY <2>1 DEF ModeInv
  <2>3. Up' = Up /\ \A d \in Block : Data(d)' = Data(d)
    BY <2>1, <2>2 DEF Up, Data
  <2>4. Open' = Open
    BY <1>14, SameOpen
  <2> QED
    BY <2>1, <2>3, <2>4, SameDisk, SameMem
<1>15. ASSUME NEW t \in Thread, NEW b \in Block, LogWrite(t, b) 
      PROVE AtomicLog!Next \/ UNCHANGED <<Mem, Recovered, Open>>
  <2>1. /\ UNCHANGED <<disk, home, phase, committing>>
        /\ cache' = [cache EXCEPT ![b] = (Data(b) + 1) % NVAL]
    BY <1>15 DEF LogWrite, disk
  <2>2. t \in Open /\ Open' = Open
    BY <1>15, SameOpen DEF LogWrite, Open
  <2>3. Up /\ Up'
    BY <2>1, <2>2, Calling DEF Up
  <2>4. Recovered' = Recovered
    BY <2>1, SameDisk
  <2>5. Data(b)' = (Data(b) + 1) % NVAL
    <3>1. cache'[b] = (Data(b) + 1) % NVAL
      BY <2>1 DEF TypeOK
    <3>2. cache'[b] # NotCached
      BY <3>1, NotNotCached
    <3> QED
      BY <3>1, <3>2 DEF Data
  <2>6. \A d \in Block : d # b => Data(d)' = Data(d)
    BY <2>1 DEF Data, TypeOK
  <2>7. Mem = [d \in Block |-> Data(d)] /\ Mem' = [d \in Block |-> Data(d)']
    BY <2>3 DEF Mem
  <2> HIDE DEF Data
  <2>8. Mem' = [Mem EXCEPT ![b] = (@ + 1) % NVAL]
    BY <2>5, <2>6, <2>7
  <2> QED
    BY <2>2, <2>4, <2>8 DEF AtomicLog!Next, AtomicLog!Write
<1> QED
  BY <1>1, <1>2, <1>3, <1>4, <1>5, <1>6, <1>7, <1>8, <1>9, <1>10, <1>11, <1>12,
     <1>13, <1>14, <1>15
  DEF Next, Commit, Finish

\* "The log is a physical re-do log": log.c implements AtomicDisk, so that a crash
\* anywhere, in recovery too, leaves all of a group of calls or nothing of it.
THEOREM Refinement == Spec /\ []Fits => LogIsAtomic
<1>1. Init => AtomicLog!Init
  <2> SUFFICES ASSUME Init PROVE AtomicLog!Init
    OBVIOUS
  <2>1. ~Up /\ Open = {}
    BY DEF Init, Up, Open
  <2>2. \A b \in Block : Recovered[b] = 0
    BY InitIInv, EmptyHeader DEF Init, IInv
  <2>3. Recovered = [b \in Block |-> 0]
    BY <2>2 DEF Recovered
  <2> QED
    BY <2>1, <2>3 DEF AtomicLog!Init, Mem
<1>2. IInv /\ IInv' /\ [Next]_vars => [AtomicLog!Next]_<<Mem, Recovered, Open>>
  <2> SUFFICES ASSUME IInv, IInv', [Next]_vars
               PROVE  [AtomicLog!Next]_<<Mem, Recovered, Open>>
    OBVIOUS
  <2>1. CASE Next
    BY <2>1, StepRefines
  <2>2. CASE UNCHANGED vars
    BY <2>2 DEF vars, disk, Mem, Recovered, Open, Up, Data
  <2> QED
    BY <2>1, <2>2
<1> QED
  BY <1>1, <1>2, Inductive, PTL DEF Spec, LogIsAtomic, AtomicLog!Spec
=============================================================================
