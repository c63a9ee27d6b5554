----------------------------- MODULE DiskProofs -----------------------------
(***************************************************************************)
(* Proofs about Disk, for any number of buffers, blocks and processes:     *)
(* whoever holds a buffer sees what was last put into its block.           *)
(***************************************************************************)
EXTENDS Disk, FiniteSetTheorems, FunctionTheorems, TLAPS

-----------------------------------------------------------------------------
(* The inductive invariant.                                                *)

\* B_BUSY is set in the buffers that somebody holds, each has one holder, and
\* it is a buffer of a block.
HeldInv ==
  /\ \A p \in Proc : \A b \in held[p] : busy[b] /\ blockno[b] # 0
  /\ \A b \in Buf : busy[b] => \E p \in Proc : b \in held[p]
  /\ \A p, q \in Proc : \A b \in Buf : b \in held[p] /\ b \in held[q] => p = q

\* A block is in one buffer.
OneBuffer == \A b, c \in Buf : blockno[b] = blockno[c] /\ blockno[b] # 0 => b = c

\* A process in bget() wants a block, one in iderw() holds the buffer.
PcInv ==
  \A p \in Proc : /\ (pc[p] \in {"bget", "sleep bget"} => want[p] # 0)
                  /\ (InIO(p) => chan[p] \in held[p])

\* A valid buffer is current, a dirty one is valid, and an invalid one is only
\* held by a process that is about to have it read.
DataInv ==
  /\ \A b \in Buf : valid[b] => blockno[b] # 0 /\ data[b] = cur[blockno[b]]
  /\ \A b \in Buf : dirty[b] => valid[b]
  /\ \A p \in Proc : \A b \in held[p] : valid[b] \/ (InIO(p) /\ chan[p] = b)

Queued(b) == \E i \in 1 .. Len(idequeue) : idequeue[i] = b

\* A process enters iderw() with something to do, sleeps while its buffer is
\* queued, and is woken when the request is done.
SleepInv ==
  \A p \in Proc : /\ (pc[p] = "iderw" => ~Finished(chan[p]) /\ ~Queued(chan[p]))
                  /\ (pc[p] = "sleep ide" => Queued(chan[p]))
                  /\ (pc[p] = "ide" => Finished(chan[p]))

\* A buffer is queued once, by a process that sleeps, until its request is done.
QueueInv ==
  /\ \A i \in 1 .. Len(idequeue) :
       /\ ~Finished(idequeue[i])
       /\ \E p \in Proc : pc[p] = "sleep ide" /\ chan[p] = idequeue[i]
  /\ \A i, j \in 1 .. Len(idequeue) : idequeue[i] = idequeue[j] => i = j

\* The disk works on the command of the first buffer of the queue, as the buffer
\* still is.
DevInv == dev = IF idequeue = <<>> THEN Idle ELSE Idestart(Head(idequeue))

\* The parts of the invariant besides the types.
Rest ==
  /\ HeldInv /\ OneBuffer /\ PcInv /\ DataInv /\ SleepInv /\ QueueInv /\ DevInv
  /\ CleanIsOnDisk /\ NoMisuse

IInv == TypeOK /\ Rest

-----------------------------------------------------------------------------
(* Steps of processes.                                                     *)

\* The contents of a block stay in their range.
LEMMA ModType ==
  ASSUME NEW x \in Nat
  PROVE  (x + 1) % NVAL \in 0 .. NVAL - 1
BY DiskAssumption

\* A block is a number above that of no block.
LEMMA BlockType ==
  ASSUME NEW k \in Block
  PROVE  k \in 0 .. NBLOCKS /\ k # 0
BY DiskAssumption DEF Block

\* What idestart() gives to the disk is a command.
LEMMA IdestartType ==
  ASSUME TypeOK, NEW b \in Buf
  PROVE  Idestart(b) \in Command
<1>0. 0 \in 0 .. NVAL - 1
  BY DiskAssumption
<1>1. blockno[b] \in 0 .. NBLOCKS /\ data[b] \in 0 .. NVAL - 1
  BY DEF TypeOK, BufType
<1>2. CASE dirty[b]
  BY <1>0, <1>1, <1>2 DEF Idestart, Command
<1>3. CASE ~dirty[b]
  BY <1>0, <1>1, <1>3 DEF Idestart, Command
<1> QED
  BY <1>2, <1>3

\* Every step of a process keeps the types of the buffers.
LEMMA BufTypeStep ==
  ASSUME TypeOK, NEW p \in Proc, Step(p)
  PROVE  BufType'
<1> USE DEF BufType
<1>1. ASSUME NEW k \in Block, Bread(p, k) PROVE BufType'
  BY <1>1 DEF Bread, At, Goto, buf, ide, proc, TypeOK
<1>2. CASE BgetHit(p)
  BY <1>2 DEF BgetHit, At, Goto, Got, Cached, buf, ide, proc, TypeOK
<1>3. CASE BgetSleep(p)
  BY <1>3 DEF BgetSleep, At, Goto, Cached, buf, ide, proc, TypeOK
<1>4. CASE BgetMiss(p)
  <2>1. PICK b \in Buf : Recycled(b, want[p])
    BY <1>4 DEF BgetMiss
  <2>2. want[p] \in 0 .. NBLOCKS
    BY DEF TypeOK, ProcType
  <2>3. UNCHANGED <<data, mru>>
    BY <1>4 DEF BgetMiss
  <2> QED
    BY <2>1, <2>2, <2>3 DEF TypeOK, Recycled
<1>5. CASE BgetFull(p)
  BY <1>5 DEF BgetFull, At, buf, ide, proc, TypeOK
<1>6. CASE Iderw(p)
  BY <1>6 DEF Iderw, At, Goto, buf, ide, proc, TypeOK
<1>7. CASE IdeAgain(p)
  BY <1>7 DEF IdeAgain, At, Goto, buf, ide, proc, TypeOK
<1>8. ASSUME NEW b \in Buf, Bwrite(p, b) PROVE BufType'
  <2>1. /\ data \in [Buf -> 0 .. NVAL - 1] /\ data' = [data EXCEPT ![b] = (@ + 1) % NVAL]
        /\ dirty \in [Buf -> BOOLEAN] /\ dirty' = [dirty EXCEPT ![b] = TRUE]
        /\ UNCHANGED <<blockno, busy, valid, mru>>
    BY <1>8 DEF Bwrite, Change, TypeOK
  <2>2. (data[b] + 1) % NVAL \in 0 .. NVAL - 1
    BY <2>1, ModType, DiskAssumption
  <2> QED
    BY <2>1, <2>2 DEF TypeOK
<1>9. ASSUME NEW b \in Buf, Pin(p, b) PROVE BufType'
  <2>1. /\ data \in [Buf -> 0 .. NVAL - 1] /\ data' = [data EXCEPT ![b] = (@ + 1) % NVAL]
        /\ dirty \in [Buf -> BOOLEAN] /\ dirty' = [dirty EXCEPT ![b] = TRUE]
        /\ UNCHANGED <<blockno, busy, valid, mru>>
    BY <1>9 DEF Pin, Change, TypeOK
  <2>2. (data[b] + 1) % NVAL \in 0 .. NVAL - 1
    BY <2>1, ModType, DiskAssumption
  <2> QED
    BY <2>1, <2>2 DEF TypeOK
<1>10. ASSUME NEW b \in Buf, Install(p, b) PROVE BufType'
  BY <1>10 DEF Install, At, Goto, buf, ide, proc, TypeOK
<1>11. ASSUME NEW b \in Buf, Brelse(p, b) PROVE BufType'
  <2>1. /\ mru' = Front(b) /\ busy' = [busy EXCEPT ![b] = FALSE]
        /\ UNCHANGED <<blockno, valid, dirty, data>>
    BY <1>11 DEF Brelse
  <2>2. \A k \in 1 .. NBUF : k # 1 => k - 1 \in 1 .. NBUF
    BY DiskAssumption
  <2>3. mru \in [1 .. NBUF -> Buf]
    BY DEF TypeOK
  <2>4. Front(b) \in [1 .. NBUF -> Buf]
    BY <2>2, <2>3 DEF Front
  <2> QED
    BY <2>1, <2>4 DEF TypeOK
<1> QED
  BY <1>1, <1>2, <1>3, <1>4, <1>5, <1>6, <1>7, <1>8, <1>9, <1>10, <1>11 DEF Step, InKernel

\* Every step of a process keeps the types of the disk.
LEMMA IdeTypeStep ==
  ASSUME TypeOK, HeldInv, PcInv, NEW p \in Proc, Step(p)
  PROVE  IdeType'
<1> USE DEF IdeType
<1>1. ASSUME NEW k \in Block, Bread(p, k) PROVE IdeType'
  BY <1>1 DEF Bread, At, Goto, buf, ide, proc, TypeOK
<1>2. CASE BgetHit(p)
  BY <1>2 DEF BgetHit, At, Goto, Got, Cached, buf, ide, proc, TypeOK
<1>3. CASE BgetSleep(p)
  BY <1>3 DEF BgetSleep, At, Goto, Cached, buf, ide, proc, TypeOK
<1>4. CASE BgetMiss(p)
  BY <1>4 DEF BgetMiss, At, Goto, Got, Cached, Recycled, Victim, Recyclable, buf, ide,
     proc, TypeOK
<1>5. CASE BgetFull(p)
  BY <1>5 DEF BgetFull, At, buf, ide, proc, TypeOK
<1>6. CASE Iderw(p)
  <2>1. /\ idequeue' = Append(idequeue, chan[p]) /\ UNCHANGED <<disk, cur>>
        /\ dev' = IF idequeue = <<>> THEN Idestart(chan[p]) ELSE dev
    BY <1>6 DEF Iderw
  <2>2. chan[p] \in Buf
    BY <1>6 DEF Iderw, At, PcInv, InIO, TypeOK, ProcType
  <2>3. Idestart(chan[p]) \in Command
    BY <2>2, IdestartType
  <2>4. idequeue \in Seq(Buf) /\ dev \in Command /\ UNCHANGED <<disk, cur>>
    BY <2>1 DEF TypeOK
  <2>5. dev' \in Command
    BY <2>1, <2>3, <2>4
  <2>6. idequeue' \in Seq(Buf)
    BY <2>1, <2>2, <2>4
  <2> QED
    BY <2>4, <2>5, <2>6 DEF TypeOK
<1>7. CASE IdeAgain(p)
  BY <1>7 DEF IdeAgain, At, Goto, buf, ide, proc, TypeOK
<1>8. ASSUME NEW b \in Buf, Bwrite(p, b) PROVE IdeType'
  <2>1. /\ cur \in [Block -> 0 .. NVAL - 1] /\ UNCHANGED ide
        /\ cur' = [cur EXCEPT ![blockno[b]] = (@ + 1) % NVAL]
    BY <1>8 DEF Bwrite, Change, TypeOK
  <2>2. blockno[b] \in Block => (cur[blockno[b]] + 1) % NVAL \in 0 .. NVAL - 1
    BY <2>1, ModType, DiskAssumption
  <2> QED
    BY <2>1, <2>2 DEF TypeOK, ide
<1>9. ASSUME NEW b \in Buf, Pin(p, b) PROVE IdeType'
  <2>1. /\ cur \in [Block -> 0 .. NVAL - 1] /\ UNCHANGED ide
        /\ cur' = [cur EXCEPT ![blockno[b]] = (@ + 1) % NVAL]
    BY <1>9 DEF Pin, Change, TypeOK
  <2>2. blockno[b] \in Block => (cur[blockno[b]] + 1) % NVAL \in 0 .. NVAL - 1
    BY <2>1, ModType, DiskAssumption
  <2> QED
    BY <2>1, <2>2 DEF TypeOK, ide
<1>10. ASSUME NEW b \in Buf, Install(p, b) PROVE IdeType'
  BY <1>10 DEF Install, At, Goto, buf, ide, proc, TypeOK
<1>11. ASSUME NEW b \in Buf, Brelse(p, b) PROVE IdeType'
  BY <1>11 DEF Brelse, BrelseWakes, Wakeup, At, buf, ide, proc, TypeOK
<1> QED
  BY <1>1, <1>2, <1>3, <1>4, <1>5, <1>6, <1>7, <1>8, <1>9, <1>10, <1>11 DEF Step, InKernel

\* Every step of a process keeps the types of the processes.
LEMMA ProcTypeStep ==
  ASSUME TypeOK, NEW p \in Proc, Step(p)
  PROVE  ProcType'
<1> USE DEF ProcType
<1>1. ASSUME NEW k \in Block, Bread(p, k) PROVE ProcType'
  <2>1. /\ n \in [Proc -> 0 .. MaxCalls] /\ n[p] \in 0 .. MaxCalls /\ n[p] < MaxCalls
        /\ n' = [n EXCEPT ![p] = @ + 1]
    BY <1>1 DEF Bread, At, TypeOK
  <2>2. n[p] + 1 \in 0 .. MaxCalls
    BY <2>1, DiskAssumption
  <2>3. n' \in [Proc -> 0 .. MaxCalls]
    BY <2>1, <2>2
  <2>4. /\ pc' \in [Proc -> {"user", "bget", "sleep bget", "iderw", "sleep ide", "ide"}]
        /\ want' \in [Proc -> 0 .. NBLOCKS] /\ chan' \in [Proc -> Buf \cup {NoBuf}]
        /\ held' = held
    BY <1>1, BlockType DEF Bread, At, Goto, TypeOK
  <2> QED
    BY <2>3, <2>4 DEF TypeOK
<1>2. CASE BgetHit(p)
  <2>1. PICK b \in Buf : Got(p, b, valid[b])
    BY <1>2 DEF BgetHit, Cached
  <2>2. held' \in [Proc -> SUBSET Buf]
    BY <2>1 DEF Got, TypeOK
  <2>3. pc' \in [Proc -> {"user", "bget", "sleep bget", "iderw", "sleep ide", "ide"}]
    BY <2>1 DEF Got, Goto, TypeOK
  <2>4. 0 \in 0 .. NBLOCKS
    BY DiskAssumption
  <2>5. want' \in [Proc -> 0 .. NBLOCKS]
    BY <2>1, <2>4 DEF Got, TypeOK
  <2>6. chan' \in [Proc -> Buf \cup {NoBuf}]
    BY <2>1 DEF Got, TypeOK
  <2> QED
    BY <1>2, <2>2, <2>3, <2>5, <2>6 DEF BgetHit, TypeOK
<1>3. CASE BgetSleep(p)
  BY <1>3 DEF BgetSleep, At, Goto, Cached, buf, ide, proc, TypeOK
<1>4. CASE BgetMiss(p)
  <2>1. PICK b \in Buf : Got(p, b, valid'[b])
    BY <1>4 DEF BgetMiss
  <2>2. held' \in [Proc -> SUBSET Buf]
    BY <2>1 DEF Got, TypeOK
  <2>3. pc' \in [Proc -> {"user", "bget", "sleep bget", "iderw", "sleep ide", "ide"}]
    BY <2>1 DEF Got, Goto, TypeOK
  <2>4. 0 \in 0 .. NBLOCKS
    BY DiskAssumption
  <2>5. want' \in [Proc -> 0 .. NBLOCKS]
    BY <2>1, <2>4 DEF Got, TypeOK
  <2>6. chan' \in [Proc -> Buf \cup {NoBuf}]
    BY <2>1 DEF Got, TypeOK
  <2> QED
    BY <1>4, <2>2, <2>3, <2>5, <2>6 DEF BgetMiss, TypeOK
<1>5. CASE BgetFull(p)
  BY <1>5 DEF BgetFull, At, buf, ide, proc, TypeOK
<1>6. CASE Iderw(p)
  BY <1>6 DEF Iderw, At, Goto, buf, ide, proc, TypeOK
<1>7. CASE IdeAgain(p)
  BY <1>7 DEF IdeAgain, At, Goto, buf, ide, proc, TypeOK
<1>8. ASSUME NEW b \in Buf, Bwrite(p, b) PROVE ProcType'
  <2>1. /\ n \in [Proc -> 0 .. MaxCalls] /\ n[p] \in 0 .. MaxCalls /\ n[p] < MaxCalls
        /\ n' = [n EXCEPT ![p] = @ + 1]
    BY <1>8 DEF Bwrite, Change, At, TypeOK
  <2>2. n[p] + 1 \in 0 .. MaxCalls
    BY <2>1, DiskAssumption
  <2>3. n' \in [Proc -> 0 .. MaxCalls]
    BY <2>1, <2>2
  <2>4. /\ pc' \in [Proc -> {"user", "bget", "sleep bget", "iderw", "sleep ide", "ide"}]
        /\ want' \in [Proc -> 0 .. NBLOCKS] /\ chan' \in [Proc -> Buf \cup {NoBuf}]
        /\ held' = held
    BY <1>8 DEF Bwrite, Change, At, Goto, TypeOK
  <2> QED
    BY <2>3, <2>4 DEF TypeOK
<1>9. ASSUME NEW b \in Buf, Pin(p, b) PROVE ProcType'
  <2>1. /\ n \in [Proc -> 0 .. MaxCalls] /\ n[p] \in 0 .. MaxCalls /\ n[p] < MaxCalls
        /\ n' = [n EXCEPT ![p] = @ + 1]
    BY <1>9 DEF Pin, Change, At, TypeOK
  <2>2. n[p] + 1 \in 0 .. MaxCalls
    BY <2>1, DiskAssumption
  <2>3. n' \in [Proc -> 0 .. MaxCalls]
    BY <2>1, <2>2
  <2>4. /\ pc' \in [Proc -> {"user", "bget", "sleep bget", "iderw", "sleep ide", "ide"}]
        /\ want' \in [Proc -> 0 .. NBLOCKS] /\ chan' \in [Proc -> Buf \cup {NoBuf}]
        /\ held' = held
    BY <1>9 DEF Pin, Change, At, Goto, TypeOK
  <2> QED
    BY <2>3, <2>4 DEF TypeOK
<1>10. ASSUME NEW b \in Buf, Install(p, b) PROVE ProcType'
  BY <1>10 DEF Install, At, Goto, buf, ide, proc, TypeOK
<1>11. ASSUME NEW b \in Buf, Brelse(p, b) PROVE ProcType'
  <2>1. held' \in [Proc -> SUBSET Buf]
    BY <1>11 DEF Brelse, TypeOK
  <2>2. pc' \in [Proc -> {"user", "bget", "sleep bget", "iderw", "sleep ide", "ide"}]
    BY <1>11 DEF Brelse, BrelseWakes, Wakeup, TypeOK
  <2> QED
    BY <1>11, <2>1, <2>2 DEF Brelse, TypeOK
<1> QED
  BY <1>1, <1>2, <1>3, <1>4, <1>5, <1>6, <1>7, <1>8, <1>9, <1>10, <1>11 DEF Step, InKernel

\* The queue stays as it is while its buffers and sleepers do.
LEMMA QueueKept ==
  ASSUME QueueInv, idequeue' = idequeue,
         \A i \in 1 .. Len(idequeue) :
           valid'[idequeue[i]] /\ ~dirty'[idequeue[i]] => Finished(idequeue[i]),
         \A q \in Proc : pc[q] = "sleep ide" => pc'[q] = "sleep ide" /\ chan'[q] = chan[q]
  PROVE  QueueInv'
<1>1. ASSUME NEW i \in 1 .. Len(idequeue)
      PROVE  \E q \in Proc : pc'[q] = "sleep ide" /\ chan'[q] = idequeue[i]
  <2>1. PICK q \in Proc : pc[q] = "sleep ide" /\ chan[q] = idequeue[i]
    BY <1>1 DEF QueueInv
  <2>2. pc'[q] = "sleep ide" /\ chan'[q] = idequeue[i]
    BY <2>1
  <2> QED
    BY <2>2
<1>2. \A i \in 1 .. Len(idequeue) : ~(valid'[idequeue[i]] /\ ~dirty'[idequeue[i]])
  BY DEF QueueInv
<1> QED
  BY <1>1, <1>2 DEF QueueInv, Finished

\* A step that leaves buffers, queue and disk alone, and moves nobody into or
\* within iderw(), nor out of it before its request is done.
LEMMA QuietStep ==
  ASSUME TypeOK, Rest, UNCHANGED <<blockno, busy, valid, dirty, data, idequeue, dev, disk, cur, held>>,
         panicked' \in {"", "bget"},
         \A q \in Proc : /\ (InIO(q)' => pc'[q] = pc[q] /\ chan'[q] = chan[q])
                         /\ (InIO(q) => InIO(q)' \/ pc[q] = "ide")
                         /\ (pc'[q] \in {"bget", "sleep bget"} => want'[q] # 0)
  PROVE  Rest'
<1>1. HeldInv' /\ OneBuffer' /\ DevInv' /\ CleanIsOnDisk' /\ NoMisuse'
  BY DEF Rest, HeldInv, OneBuffer, DevInv, CleanIsOnDisk, NoMisuse, Idestart
<1>2. PcInv'
  BY DEF Rest, PcInv, InIO
<1>3. DataInv'
  <2>1. \A b \in Buf : valid'[b] => blockno'[b] # 0 /\ data'[b] = cur'[blockno'[b]]
    BY DEF Rest, DataInv
  <2>2. \A b \in Buf : dirty'[b] => valid'[b]
    BY DEF Rest, DataInv
  <2>3. ASSUME NEW q \in Proc, NEW b \in held'[q], ~valid'[b] PROVE InIO(q)' /\ chan'[q] = b
    <3>1. InIO(q) /\ chan[q] = b
      BY <2>3 DEF Rest, DataInv
    <3>2. pc[q] # "ide"
      BY <2>3, <3>1 DEF Rest, SleepInv, Finished
    <3> QED
      BY <3>1, <3>2
  <2> QED
    BY <2>1, <2>2, <2>3 DEF DataInv
<1>4. (\A x : Finished(x)' <=> Finished(x)) /\ (\A x : Queued(x)' <=> Queued(x))
  BY DEF Finished, Queued
<1>5. SleepInv'
  <2>1. \A q \in Proc : pc'[q] \in {"iderw", "sleep ide", "ide"} => pc'[q] = pc[q] /\ chan'[q] = chan[q]
    BY DEF InIO
  <2> QED
    BY <1>4, <2>1 DEF Rest, SleepInv
<1>6. QueueInv'
  <2>1. \A q \in Proc : pc[q] = "sleep ide" => pc'[q] = "sleep ide" /\ chan'[q] = chan[q]
    BY DEF InIO
  <2> QED
    BY <2>1, QueueKept DEF Rest, Finished
<1> QED
  BY <1>1, <1>2, <1>3, <1>5, <1>6 DEF Rest

\* bread() is called.
LEMMA BreadStep ==
  ASSUME TypeOK, Rest, NEW p \in Proc, NEW k \in Block, Bread(p, k)
  PROVE  Rest'
<1>1. /\ UNCHANGED <<blockno, busy, valid, dirty, data, idequeue, dev, disk, cur, held, chan, panicked>>
      /\ pc[p] = "user" /\ panicked = ""
  BY DEF Bread, At, buf, ide
<1>2. /\ pc'[p] = "bget" /\ want'[p] = k /\ k # 0
      /\ \A q \in Proc : q # p => pc'[q] = pc[q] /\ want'[q] = want[q]
  BY BlockType DEF Bread, Goto, TypeOK, ProcType
<1>3. \A q \in Proc : /\ (InIO(q)' => pc'[q] = pc[q] /\ chan'[q] = chan[q])
                      /\ (InIO(q) => InIO(q)' \/ pc[q] = "ide")
                      /\ (pc'[q] \in {"bget", "sleep bget"} => want'[q] # 0)
  BY <1>1, <1>2 DEF Rest, PcInv, InIO
<1> QED
  BY <1>1, <1>3, QuietStep

\* bget() finds its block in a buffer that is busy.
LEMMA BgetSleepStep ==
  ASSUME TypeOK, Rest, NEW p \in Proc, BgetSleep(p)
  PROVE  Rest'
<1>1. /\ UNCHANGED <<blockno, busy, valid, dirty, data, idequeue, dev, disk, cur, held, want, panicked>>
      /\ pc[p] = "bget" /\ panicked = ""
  BY DEF BgetSleep, At, buf, ide
<1>2. /\ pc'[p] = "sleep bget"
      /\ \A q \in Proc : q # p => pc'[q] = pc[q] /\ chan'[q] = chan[q]
  BY DEF BgetSleep, Goto, TypeOK, ProcType
<1>3. \A q \in Proc : /\ (InIO(q)' => pc'[q] = pc[q] /\ chan'[q] = chan[q])
                      /\ (InIO(q) => InIO(q)' \/ pc[q] = "ide")
                      /\ (pc'[q] \in {"bget", "sleep bget"} => want'[q] # 0)
  BY <1>1, <1>2 DEF Rest, PcInv, InIO
<1> QED
  BY <1>1, <1>3, QuietStep

\* bget() panics.
LEMMA BgetFullStep ==
  ASSUME TypeOK, Rest, NEW p \in Proc, BgetFull(p)
  PROVE  Rest'
<1>1. /\ UNCHANGED <<blockno, busy, valid, dirty, data, idequeue, dev, disk, cur, held, want, pc, chan>>
      /\ panicked' = "bget"
  BY DEF BgetFull, buf, ide, proc
<1>2. \A q \in Proc : /\ (InIO(q)' => pc'[q] = pc[q] /\ chan'[q] = chan[q])
                      /\ (InIO(q) => InIO(q)' \/ pc[q] = "ide")
                      /\ (pc'[q] \in {"bget", "sleep bget"} => want'[q] # 0)
  BY <1>1 DEF Rest, PcInv, InIO
<1> QED
  BY <1>1, <1>2, QuietStep

\* A process woken in iderw() returns from it.
LEMMA IdeAgainStep ==
  ASSUME TypeOK, Rest, NEW p \in Proc, IdeAgain(p)
  PROVE  Rest'
<1>1. /\ UNCHANGED <<blockno, busy, valid, dirty, data, idequeue, dev, disk, cur, held, want, chan, panicked>>
      /\ pc[p] = "ide" /\ panicked = ""
  BY DEF IdeAgain, At, buf, ide
<1>2. /\ pc'[p] = "user"
      /\ \A q \in Proc : q # p => pc'[q] = pc[q]
  BY <1>1 DEF IdeAgain, Goto, TypeOK, ProcType, Rest, SleepInv
<1>3. \A q \in Proc : /\ (InIO(q)' => pc'[q] = pc[q] /\ chan'[q] = chan[q])
                      /\ (InIO(q) => InIO(q)' \/ pc[q] = "ide")
                      /\ (pc'[q] \in {"bget", "sleep bget"} => want'[q] # 0)
  BY <1>1, <1>2 DEF Rest, PcInv, InIO
<1> QED
  BY <1>1, <1>3, QuietStep

\* Nobody does I/O with a buffer that is free, or whose holder is elsewhere.
LEMMA NoIO ==
  ASSUME TypeOK, Rest, NEW b \in Buf,
         ~busy[b] \/ \E p \in Proc : b \in held[p] /\ ~InIO(p)
  PROVE  /\ \A q \in Proc : InIO(q) => chan[q] # b
         /\ \A i \in 1 .. Len(idequeue) : idequeue[i] # b
         /\ ~Queued(b)
<1>1. \A q \in Proc : InIO(q) => chan[q] # b
  BY DEF Rest, PcInv, HeldInv
<1>2. ASSUME NEW i \in 1 .. Len(idequeue) PROVE idequeue[i] # b
  <2>1. PICK q \in Proc : pc[q] = "sleep ide" /\ chan[q] = idequeue[i]
    BY DEF Rest, QueueInv
  <2> QED
    BY <1>1, <2>1 DEF InIO
<1> QED
  BY <1>1, <1>2 DEF Queued

\* The queue is one of buffers, and has a first one unless it is empty.
LEMMA QueueType ==
  ASSUME TypeOK
  PROVE  /\ idequeue \in Seq(Buf)
         /\ \A i \in 1 .. Len(idequeue) : idequeue[i] \in Buf
         /\ idequeue # <<>> => Head(idequeue) = idequeue[1] /\ 1 \in 1 .. Len(idequeue)
<1>1. idequeue \in Seq(Buf)
  BY DEF TypeOK, IdeType
<1> QED
  BY <1>1

\* The disk keeps its command while the first buffer of the queue stays.
LEMMA DevKept ==
  ASSUME TypeOK, DevInv, idequeue' = idequeue, dev' = dev,
         \A i \in 1 .. Len(idequeue) :
           /\ blockno'[idequeue[i]] = blockno[idequeue[i]]
           /\ dirty'[idequeue[i]] = dirty[idequeue[i]]
           /\ data'[idequeue[i]] = data[idequeue[i]]
  PROVE  DevInv'
<1>1. CASE idequeue = <<>>
  BY <1>1 DEF DevInv
<1>2. CASE idequeue # <<>>
  <2>1. Head(idequeue) = idequeue[1] /\ 1 \in 1 .. Len(idequeue)
    BY <1>2, QueueType
  <2> QED
    BY <1>2, <2>1 DEF DevInv, Idestart
<1> QED
  BY <1>1, <1>2

\* bget() finds its block in a free buffer.
LEMMA BgetHitStep ==
  ASSUME TypeOK, Rest, NEW p \in Proc, BgetHit(p)
  PROVE  Rest'
<1>1. PICK b \in Buf : /\ blockno[b] = want[p] /\ ~busy[b]
                       /\ busy' = [busy EXCEPT ![b] = TRUE] /\ Got(p, b, valid[b])
  BY DEF BgetHit, Cached
<1>2. /\ UNCHANGED <<blockno, valid, dirty, data, idequeue, dev, disk, cur, panicked>>
      /\ pc[p] = "bget" /\ panicked = ""
  BY DEF BgetHit, At, ide
<1>3. \A c \in Buf : busy'[c] <=> c = b \/ busy[c]
  BY <1>1 DEF TypeOK, BufType
<1>4. /\ pc'[p] = (IF valid[b] THEN "user" ELSE "iderw") /\ chan'[p] = b
      /\ held'[p] = held[p] \cup {b}
      /\ \A q \in Proc : q # p => /\ pc'[q] = pc[q] /\ want'[q] = want[q]
                                  /\ chan'[q] = chan[q] /\ held'[q] = held[q]
  BY <1>1 DEF Got, Goto, TypeOK, ProcType
<1>5. blockno[b] # 0
  BY <1>1, <1>2 DEF Rest, PcInv
<1>6. /\ \A q \in Proc : InIO(q) => chan[q] # b
      /\ \A i \in 1 .. Len(idequeue) : idequeue[i] # b
      /\ ~Queued(b)
  BY <1>1, NoIO
<1>7. \A q \in Proc : held[q] \subseteq Buf /\ b \notin held[q]
  BY <1>1 DEF Rest, HeldInv, TypeOK, ProcType
<1>8. HeldInv'
  <2>1. ASSUME NEW q \in Proc, NEW c \in held'[q] PROVE busy'[c] /\ blockno'[c] # 0
    <3>1. c = b \/ c \in held[q]
      BY <1>4
    <3>2. (busy[c] /\ blockno[c] # 0) \/ c = b
      BY <3>1 DEF Rest, HeldInv
    <3>3. c \in Buf
      BY <1>7, <3>1
    <3> QED
      BY <1>2, <1>3, <1>5, <3>2, <3>3
  <2>2. \A c \in Buf : busy'[c] => \E q \in Proc : c \in held'[q]
    BY <1>3, <1>4 DEF Rest, HeldInv
  <2>3. \A q, r \in Proc : \A c \in Buf : c \in held'[q] /\ c \in held'[r] => q = r
    BY <1>4, <1>7 DEF Rest, HeldInv
  <2> QED
    BY <2>1, <2>2, <2>3 DEF HeldInv
<1>9. OneBuffer' /\ CleanIsOnDisk' /\ NoMisuse'
  BY <1>2 DEF Rest, OneBuffer, CleanIsOnDisk, NoMisuse
<1>10. PcInv'
  BY <1>2, <1>4 DEF Rest, PcInv, InIO
<1>11. DataInv'
  <2>1. /\ \A c \in Buf : valid'[c] => blockno'[c] # 0 /\ data'[c] = cur'[blockno'[c]]
        /\ \A c \in Buf : dirty'[c] => valid'[c]
    BY <1>2 DEF Rest, DataInv
  <2>2. ASSUME NEW q \in Proc, NEW c \in held'[q], ~valid'[c] PROVE InIO(q)' /\ chan'[q] = c
    <3>1. (q = p /\ c = b) \/ c \in held[q]
      BY <1>4
    <3>2. CASE q = p /\ c = b
      BY <1>2, <1>4, <2>2, <3>2 DEF InIO
    <3>3. CASE c \in held[q]
      <4>1. InIO(q) /\ chan[q] = c
        BY <1>2, <2>2, <3>3 DEF Rest, DataInv
      <4>2. q # p
        BY <1>2, <4>1 DEF InIO
      <4> QED
        BY <1>4, <4>1, <4>2 DEF InIO
    <3> QED
      BY <3>1, <3>2, <3>3
  <2> QED
    BY <2>1, <2>2 DEF DataInv
<1>12. (\A x : Finished(x)' <=> Finished(x)) /\ (\A x : Queued(x)' <=> Queued(x))
  BY <1>2 DEF Finished, Queued
<1>13. SleepInv'
  <2>1. ~valid[b] => ~Finished(b)
    BY DEF Finished
  <2> QED
    BY <1>4, <1>6, <1>12, <2>1, ZenonT(40) DEF Rest, SleepInv
<1>14. QueueInv'
  BY <1>2, <1>4, QueueKept DEF Rest, Finished
<1>15. DevInv'
  BY <1>2, DevKept DEF Rest
<1> QED
  BY <1>8, <1>9, <1>10, <1>11, <1>13, <1>14, <1>15 DEF Rest

\* bget() recycles a buffer.
LEMMA BgetMissStep ==
  ASSUME TypeOK, Rest, NEW p \in Proc, BgetMiss(p)
  PROVE  Rest'
<1>1. PICK b \in Buf : Recyclable(b) /\ Recycled(b, want[p]) /\ Got(p, b, valid'[b])
  BY DEF BgetMiss, Victim
<1>2. /\ UNCHANGED <<data, idequeue, dev, disk, cur, panicked>>
      /\ pc[p] = "bget" /\ panicked = "" /\ \A c \in Buf : blockno[c] # want[p]
  BY DEF BgetMiss, At, ide, Cached
<1>3. /\ \A c \in Buf : busy'[c] <=> c = b \/ busy[c]
      /\ \A c \in Buf : valid'[c] <=> c # b /\ valid[c]
      /\ \A c \in Buf : dirty'[c] <=> c # b /\ dirty[c]
  BY <1>1 DEF Recycled, TypeOK, BufType
<1>4. blockno'[b] = want[p] /\ \A c \in Buf : c # b => blockno'[c] = blockno[c]
  BY <1>1 DEF Recycled, TypeOK, BufType
<1>5. ~busy[b] /\ ~dirty[b] /\ want[p] # 0
  BY <1>1, <1>2 DEF Recyclable, Rest, PcInv
<1>6. /\ pc'[p] = "iderw" /\ chan'[p] = b
      /\ held'[p] = held[p] \cup {b}
      /\ \A q \in Proc : q # p => /\ pc'[q] = pc[q] /\ want'[q] = want[q]
                                  /\ chan'[q] = chan[q] /\ held'[q] = held[q]
  BY <1>1, <1>3 DEF Got, Goto, TypeOK, ProcType
<1>7. /\ \A q \in Proc : InIO(q) => chan[q] # b
      /\ \A i \in 1 .. Len(idequeue) : idequeue[i] # b
      /\ ~Queued(b)
  BY <1>5, NoIO
<1>8. \A q \in Proc : held[q] \subseteq Buf /\ b \notin held[q]
  BY <1>5 DEF Rest, HeldInv, TypeOK, ProcType
<1>9. HeldInv'
  <2>1. \A q \in Proc : \A c \in held'[q] : busy'[c] /\ blockno'[c] # 0
    BY <1>3, <1>4, <1>5, <1>6, <1>8 DEF Rest, HeldInv
  <2>2. \A c \in Buf : busy'[c] => \E q \in Proc : c \in held'[q]
    BY <1>3, <1>6 DEF Rest, HeldInv
  <2>3. \A q, r \in Proc : \A c \in Buf : c \in held'[q] /\ c \in held'[r] => q = r
    BY <1>6, <1>8 DEF Rest, HeldInv
  <2> QED
    BY <2>1, <2>2, <2>3 DEF HeldInv
<1>10. OneBuffer' /\ NoMisuse'
  BY <1>2, <1>4 DEF Rest, OneBuffer, NoMisuse
<1>11. CleanIsOnDisk'
  <2> SUFFICES ASSUME NEW k \in Block, \A c \in Buf : blockno'[c] = k => ~dirty'[c]
               PROVE  disk[k] = cur[k]
    BY <1>2 DEF CleanIsOnDisk
  <2>1. \A c \in Buf : blockno[c] = k => ~dirty[c]
    BY <1>3, <1>4, <1>5
  <2> QED
    BY <2>1 DEF Rest, CleanIsOnDisk
<1>12. PcInv'
  BY <1>2, <1>6 DEF Rest, PcInv, InIO
<1>13. DataInv'
  <2>1. \A c \in Buf : valid'[c] => blockno'[c] # 0 /\ data'[c] = cur'[blockno'[c]]
    BY <1>2, <1>3, <1>4 DEF Rest, DataInv
  <2>2. \A c \in Buf : dirty'[c] => valid'[c]
    BY <1>3 DEF Rest, DataInv
  <2>3. ASSUME NEW q \in Proc, NEW c \in held'[q], ~valid'[c] PROVE InIO(q)' /\ chan'[q] = c
    <3>1. (q = p /\ c = b) \/ c \in held[q]
      BY <1>6
    <3>2. CASE q = p /\ c = b
      BY <1>6, <3>2 DEF InIO
    <3>3. CASE c \in held[q]
      <4>1. c \in Buf /\ c # b
        BY <1>8, <3>3
      <4>2. InIO(q) /\ chan[q] = c
        BY <1>3, <2>3, <3>3, <4>1 DEF Rest, DataInv
      <4>3. q # p
        BY <1>2, <4>2 DEF InIO
      <4> QED
        BY <1>6, <4>2, <4>3 DEF InIO
    <3> QED
      BY <3>1, <3>2, <3>3
  <2> QED
    BY <2>1, <2>2, <2>3 DEF DataInv
<1>14. \A x \in Buf : x # b => (Finished(x)' <=> Finished(x))
  BY <1>3 DEF Finished
<1>15. ~Finished(b)' /\ \A x : Queued(x)' <=> Queued(x)
  BY <1>2, <1>3 DEF Finished, Queued
<1>16. SleepInv'
  <2>1. \A q \in Proc : InIO(q) => chan[q] \in Buf
    BY <1>8 DEF Rest, PcInv
  <2> QED
    BY <1>6, <1>7, <1>14, <1>15, <2>1 DEF Rest, SleepInv, InIO
<1>17. \A i \in 1 .. Len(idequeue) : idequeue[i] \in Buf
  BY QueueType
<1>18. QueueInv'
  BY <1>2, <1>3, <1>6, <1>7, <1>17, QueueKept DEF Rest, Finished
<1>19. DevInv'
  <2>1. \A c \in Buf : c # b => blockno'[c] = blockno[c] /\ dirty'[c] = dirty[c] /\ data'[c] = data[c]
    BY <1>1, <1>2 DEF Recycled, TypeOK, BufType
  <2> QED
    BY <1>2, <1>7, <1>17, <2>1, DevKept DEF Rest
<1> QED
  BY <1>9, <1>10, <1>11, <1>12, <1>13, <1>16, <1>18, <1>19 DEF Rest

\* A process changes a block that it holds.
LEMMA ChangeData ==
  ASSUME TypeOK, Rest, NEW p \in Proc, NEW b \in Buf, Change(p, b),
         UNCHANGED <<blockno, valid, disk>>
  PROVE  /\ valid[b] /\ \A c \in Buf : c # b => dirty'[c] = dirty[c] /\ data'[c] = data[c]
         /\ \A c \in Buf : dirty'[c] <=> c = b \/ dirty[c]
         /\ \A c \in Buf : valid'[c] => blockno'[c] # 0 /\ data'[c] = cur'[blockno'[c]]
         /\ \A c \in Buf : dirty'[c] => valid'[c]
         /\ CleanIsOnDisk'
<1>1. /\ pc[p] = "user" /\ b \in held[p]
      /\ cur' = [cur EXCEPT ![blockno[b]] = (@ + 1) % NVAL]
      /\ data' = [data EXCEPT ![b] = (@ + 1) % NVAL]
      /\ dirty' = [dirty EXCEPT ![b] = TRUE]
  BY DEF Change, At
<1>2. valid[b] /\ blockno[b] # 0 /\ data[b] = cur[blockno[b]]
  BY <1>1 DEF Rest, DataInv, InIO
<1>3. blockno[b] \in Block
  <2>1. blockno[b] \in 0 .. NBLOCKS
    BY DEF TypeOK, BufType
  <2> QED
    BY <1>2, <2>1, DiskAssumption DEF Block
<1>4. /\ cur'[blockno[b]] = (cur[blockno[b]] + 1) % NVAL
      /\ \A k \in Block : k # blockno[b] => cur'[k] = cur[k]
  BY <1>1, <1>3 DEF TypeOK, IdeType
<1>5. /\ data'[b] = (data[b] + 1) % NVAL
      /\ \A c \in Buf : c # b => dirty'[c] = dirty[c] /\ data'[c] = data[c]
      /\ \A c \in Buf : dirty'[c] <=> c = b \/ dirty[c]
  BY <1>1 DEF TypeOK, BufType
<1>6. ASSUME NEW c \in Buf, valid'[c] PROVE blockno'[c] # 0 /\ data'[c] = cur'[blockno'[c]]
  <2>1. valid[c] /\ blockno[c] # 0 /\ data[c] = cur[blockno[c]]
    BY <1>6 DEF Rest, DataInv
  <2>2. CASE c = b
    BY <1>2, <1>4, <1>5, <2>1, <2>2
  <2>3. CASE c # b
    <3>1. blockno[c] # blockno[b]
      BY <2>1, <2>3 DEF Rest, OneBuffer
    <3>2. blockno[c] \in Block
      <4>1. blockno[c] \in 0 .. NBLOCKS
        BY DEF TypeOK, BufType
      <4> QED
        BY <2>1, <4>1, DiskAssumption DEF Block
    <3> QED
      BY <1>4, <1>5, <2>1, <2>3, <3>1, <3>2
  <2> QED
    BY <2>2, <2>3
<1>7. \A c \in Buf : dirty'[c] => valid'[c]
  BY <1>2, <1>5 DEF Rest, DataInv
<1>8. CleanIsOnDisk'
  <2> SUFFICES ASSUME NEW k \in Block, \A c \in Buf : blockno[c] = k => ~dirty'[c]
               PROVE  disk[k] = cur'[k]
    BY DEF CleanIsOnDisk
  <2>1. k # blockno[b]
    BY <1>5
  <2>2. \A c \in Buf : blockno[c] = k => ~dirty[c]
    BY <1>5
  <2> QED
    BY <1>4, <2>1, <2>2 DEF Rest, CleanIsOnDisk
<1> QED
  BY <1>2, <1>5, <1>6, <1>7, <1>8

\* log_write().
LEMMA PinStep ==
  ASSUME TypeOK, Rest, NEW p \in Proc, NEW b \in Buf, Pin(p, b)
  PROVE  Rest'
<1>1. /\ UNCHANGED <<blockno, busy, valid, idequeue, dev, disk, pc, want, chan, held, panicked>>
      /\ Change(p, b) /\ pc[p] = "user" /\ b \in held[p]
  BY DEF Pin, Change, At, ide
<1>2. /\ valid[b] /\ \A c \in Buf : c # b => dirty'[c] = dirty[c] /\ data'[c] = data[c]
      /\ \A c \in Buf : dirty'[c] <=> c = b \/ dirty[c]
      /\ \A c \in Buf : valid'[c] => blockno'[c] # 0 /\ data'[c] = cur'[blockno'[c]]
      /\ \A c \in Buf : dirty'[c] => valid'[c]
      /\ CleanIsOnDisk'
  BY <1>1, ChangeData
<1>3. /\ \A q \in Proc : InIO(q) => chan[q] # b
      /\ \A i \in 1 .. Len(idequeue) : idequeue[i] # b
      /\ ~Queued(b)
  BY <1>1, NoIO DEF InIO
<1>4. HeldInv' /\ OneBuffer' /\ NoMisuse' /\ PcInv'
  BY <1>1 DEF Rest, HeldInv, OneBuffer, NoMisuse, PcInv, InIO
<1>5. DataInv'
  <2>1. \A q \in Proc : \A c \in held'[q] : valid'[c] \/ (InIO(q)' /\ chan'[q] = c)
    BY <1>1 DEF Rest, DataInv, InIO
  <2> QED
    BY <1>2, <2>1 DEF DataInv
<1>6. \A x \in Buf : x # b => (Finished(x)' <=> Finished(x))
  BY <1>1, <1>2 DEF Finished
<1>7. \A x : Queued(x)' <=> Queued(x)
  BY <1>1 DEF Queued
<1>8. SleepInv'
  <2>1. \A q \in Proc : InIO(q) => chan[q] \in Buf
    BY DEF Rest, PcInv, TypeOK, ProcType
  <2> QED
    BY <1>1, <1>3, <1>6, <1>7, <2>1 DEF Rest, SleepInv, InIO
<1>9. \A i \in 1 .. Len(idequeue) : idequeue[i] \in Buf
  BY QueueType
<1>10. QueueInv'
  BY <1>1, <1>2, <1>3, <1>9, QueueKept DEF Rest, Finished
<1>11. DevInv'
  BY <1>1, <1>2, <1>3, <1>9, DevKept DEF Rest
<1> QED
  BY <1>2, <1>4, <1>5, <1>8, <1>10, <1>11 DEF Rest

\* bwrite() marks a buffer.
LEMMA BwriteStep ==
  ASSUME TypeOK, Rest, NEW p \in Proc, NEW b \in Buf, Bwrite(p, b)
  PROVE  Rest'
<1>1. /\ UNCHANGED <<blockno, busy, valid, idequeue, dev, disk, want, held>>
      /\ Change(p, b) /\ pc[p] = "user" /\ b \in held[p]
  BY DEF Bwrite, Change, At, ide
<1>2. /\ valid[b] /\ \A c \in Buf : c # b => dirty'[c] = dirty[c] /\ data'[c] = data[c]
      /\ \A c \in Buf : dirty'[c] <=> c = b \/ dirty[c]
      /\ \A c \in Buf : valid'[c] => blockno'[c] # 0 /\ data'[c] = cur'[blockno'[c]]
      /\ \A c \in Buf : dirty'[c] => valid'[c]
      /\ CleanIsOnDisk'
  BY <1>1, ChangeData
<1>3. /\ \A q \in Proc : InIO(q) => chan[q] # b
      /\ \A i \in 1 .. Len(idequeue) : idequeue[i] # b
      /\ ~Queued(b)
  BY <1>1, NoIO DEF InIO
<1>4. /\ pc'[p] = "iderw" /\ chan'[p] = b
      /\ \A q \in Proc : q # p => pc'[q] = pc[q] /\ chan'[q] = chan[q]
  BY DEF Bwrite, Goto, TypeOK, ProcType
<1>5. NoMisuse'
  <2>1. busy[b]
    BY <1>1 DEF Rest, HeldInv
  <2>2. panicked' = IF busy[b] THEN "" ELSE "bwrite"
    BY DEF Bwrite
  <2> QED
    BY <2>1, <2>2 DEF NoMisuse
<1>6. HeldInv' /\ OneBuffer'
  BY <1>1 DEF Rest, HeldInv, OneBuffer
<1>7. PcInv'
  BY <1>1, <1>4 DEF Rest, PcInv, InIO
<1>8. DataInv'
  <2>1. ASSUME NEW q \in Proc, NEW c \in held'[q], ~valid'[c] PROVE InIO(q)' /\ chan'[q] = c
    <3>1. InIO(q) /\ chan[q] = c
      BY <1>1, <2>1 DEF Rest, DataInv
    <3> QED
      BY <1>1, <1>4, <3>1 DEF InIO
  <2> QED
    BY <1>2, <2>1 DEF DataInv
<1>9. (\A x \in Buf : x # b => (Finished(x)' <=> Finished(x))) /\ ~Finished(b)'
  BY <1>1, <1>2 DEF Finished
<1>10. \A x : Queued(x)' <=> Queued(x)
  BY <1>1 DEF Queued
<1>11. SleepInv'
  <2>1. \A q \in Proc : InIO(q) => chan[q] \in Buf
    BY DEF Rest, PcInv, TypeOK, ProcType
  <2> QED
    BY <1>1, <1>3, <1>4, <1>9, <1>10, <2>1 DEF Rest, SleepInv, InIO
<1>12. \A i \in 1 .. Len(idequeue) : idequeue[i] \in Buf
  BY QueueType
<1>13. QueueInv'
  BY <1>1, <1>2, <1>3, <1>4, <1>12, QueueKept DEF Rest, Finished
<1>14. DevInv'
  BY <1>1, <1>2, <1>3, <1>12, DevKept DEF Rest
<1> QED
  BY <1>2, <1>5, <1>6, <1>7, <1>8, <1>11, <1>13, <1>14 DEF Rest

\* install_trans() writes a pinned buffer home.
LEMMA InstallStep ==
  ASSUME TypeOK, Rest, NEW p \in Proc, NEW b \in Buf, Install(p, b)
  PROVE  Rest'
<1>1. /\ UNCHANGED <<blockno, busy, valid, dirty, data, idequeue, dev, disk, cur, want, held>>
      /\ pc[p] = "user" /\ b \in held[p] /\ dirty[b]
  BY DEF Install, At, buf, ide
<1>2. /\ \A q \in Proc : InIO(q) => chan[q] # b
      /\ \A i \in 1 .. Len(idequeue) : idequeue[i] # b
      /\ ~Queued(b)
  BY <1>1, NoIO DEF InIO
<1>3. /\ pc'[p] = "iderw" /\ chan'[p] = b
      /\ \A q \in Proc : q # p => pc'[q] = pc[q] /\ chan'[q] = chan[q]
  BY DEF Install, Goto, TypeOK, ProcType
<1>4. NoMisuse'
  <2>1. busy[b]
    BY <1>1 DEF Rest, HeldInv
  <2>2. panicked' = IF busy[b] THEN "" ELSE "bwrite"
    BY DEF Install
  <2> QED
    BY <2>1, <2>2 DEF NoMisuse
<1>5. HeldInv' /\ OneBuffer' /\ CleanIsOnDisk'
  BY <1>1 DEF Rest, HeldInv, OneBuffer, CleanIsOnDisk
<1>6. PcInv'
  BY <1>1, <1>3 DEF Rest, PcInv, InIO
<1>7. DataInv'
  <2>1. /\ \A c \in Buf : valid'[c] => blockno'[c] # 0 /\ data'[c] = cur'[blockno'[c]]
        /\ \A c \in Buf : dirty'[c] => valid'[c]
    BY <1>1 DEF Rest, DataInv
  <2>2. ASSUME NEW q \in Proc, NEW c \in held'[q], ~valid'[c] PROVE InIO(q)' /\ chan'[q] = c
    <3>1. InIO(q) /\ chan[q] = c
      BY <1>1, <2>2 DEF Rest, DataInv
    <3> QED
      BY <1>1, <1>3, <3>1 DEF InIO
  <2> QED
    BY <2>1, <2>2 DEF DataInv
<1>8. /\ \A x : Finished(x)' <=> Finished(x)
      /\ \A x : Queued(x)' <=> Queued(x)
      /\ ~Finished(b)
  BY <1>1 DEF Finished, Queued
<1>9. SleepInv'
  BY <1>1, <1>2, <1>3, <1>8 DEF Rest, SleepInv
<1>10. QueueInv'
  BY <1>1, <1>3, QueueKept DEF Rest, Finished
<1>11. DevInv'
  BY <1>1, DevKept DEF Rest
<1> QED
  BY <1>4, <1>5, <1>6, <1>7, <1>9, <1>10, <1>11 DEF Rest

\* brelse().
LEMMA BrelseStep ==
  ASSUME TypeOK, Rest, NEW p \in Proc, NEW b \in Buf, Brelse(p, b)
  PROVE  Rest'
<1>1. /\ UNCHANGED <<blockno, valid, dirty, data, idequeue, dev, disk, cur, want, chan>>
      /\ pc[p] = "user" /\ b \in held[p] /\ pc' = Wakeup(pc, b)
      /\ panicked' = IF busy[b] THEN "" ELSE "brelse"
  BY DEF Brelse, BrelseWakes, At, ide
<1>2. /\ \A q \in Proc : InIO(q) => chan[q] # b
      /\ \A i \in 1 .. Len(idequeue) : idequeue[i] # b
      /\ ~Queued(b)
  BY <1>1, NoIO DEF InIO
<1>3. /\ \A c \in Buf : busy'[c] <=> c # b /\ busy[c]
      /\ held'[p] = held[p] \ {b} /\ \A q \in Proc : q # p => held'[q] = held[q]
  BY DEF Brelse, TypeOK, BufType, ProcType
<1>4. \A q \in Proc : pc'[q] = pc[q] \/ (pc[q] = "sleep bget" /\ pc'[q] = "bget")
  BY <1>1, <1>2 DEF Wakeup, InIO
<1>5. NoMisuse'
  <2>1. busy[b]
    BY <1>1 DEF Rest, HeldInv
  <2> QED
    BY <1>1, <2>1 DEF NoMisuse
<1>6. \A q \in Proc : held[q] \subseteq Buf /\ (q # p => b \notin held[q])
  BY <1>1 DEF Rest, HeldInv, TypeOK, ProcType
<1>7. HeldInv'
  <2>1. ASSUME NEW q \in Proc, NEW c \in held'[q] PROVE busy'[c] /\ blockno'[c] # 0
    <3>1. c \in held[q] /\ c # b /\ c \in Buf
      BY <1>3, <1>6
    <3>2. busy[c] /\ blockno[c] # 0
      BY <3>1 DEF Rest, HeldInv
    <3> QED
      BY <1>1, <1>3, <3>1, <3>2
  <2>2. ASSUME NEW c \in Buf, busy'[c] PROVE \E q \in Proc : c \in held'[q]
    <3>1. PICK q \in Proc : c \in held[q]
      BY <1>3, <2>2 DEF Rest, HeldInv
    <3> QED
      BY <1>3, <2>2, <3>1
  <2>3. \A q, r \in Proc : \A c \in Buf : c \in held'[q] /\ c \in held'[r] => q = r
    BY <1>3 DEF Rest, HeldInv
  <2> QED
    BY <2>1, <2>2, <2>3 DEF HeldInv
<1>8. OneBuffer' /\ CleanIsOnDisk'
  BY <1>1 DEF Rest, OneBuffer, CleanIsOnDisk
<1>9. PcInv'
  <2>1. \A q \in Proc : InIO(q)' => InIO(q)
    BY <1>4 DEF InIO
  <2>2. \A q \in Proc : InIO(q)' => chan'[q] \in held'[q]
    BY <1>1, <1>2, <1>3, <2>1 DEF Rest, PcInv
  <2>3. \A q \in Proc : pc'[q] \in {"bget", "sleep bget"} => want'[q] # 0
    BY <1>1, <1>4 DEF Rest, PcInv
  <2> QED
    BY <2>2, <2>3 DEF PcInv
<1>10. DataInv'
  <2>1. /\ \A c \in Buf : valid'[c] => blockno'[c] # 0 /\ data'[c] = cur'[blockno'[c]]
        /\ \A c \in Buf : dirty'[c] => valid'[c]
    BY <1>1 DEF Rest, DataInv
  <2>2. ASSUME NEW q \in Proc, NEW c \in held'[q], ~valid'[c] PROVE InIO(q)' /\ chan'[q] = c
    <3>1. c \in held[q]
      BY <1>3
    <3>2. InIO(q) /\ chan[q] = c
      BY <1>1, <2>2, <3>1 DEF Rest, DataInv
    <3> QED
      BY <1>1, <1>4, <3>2 DEF InIO
  <2> QED
    BY <2>1, <2>2 DEF DataInv
<1>11. (\A x : Finished(x)' <=> Finished(x)) /\ (\A x : Queued(x)' <=> Queued(x))
  BY <1>1 DEF Finished, Queued
<1>12. SleepInv'
  BY <1>1, <1>4, <1>11 DEF Rest, SleepInv
<1>13. QueueInv'
  BY <1>1, <1>4, QueueKept DEF Rest, Finished
<1>14. DevInv'
  BY <1>1, DevKept DEF Rest
<1> QED
  BY <1>5, <1>7, <1>8, <1>9, <1>10, <1>12, <1>13, <1>14 DEF Rest

\* What Append does.
LEMMA AppendProps ==
  ASSUME NEW T, NEW s \in Seq(T), NEW e \in T
  PROVE  /\ Len(s) \in Nat /\ Len(Append(s, e)) = Len(s) + 1
         /\ \A i \in 1 .. Len(s) : Append(s, e)[i] = s[i]
         /\ Append(s, e)[Len(s) + 1] = e
         /\ Append(s, e) # <<>> /\ Head(Append(s, e)) = Append(s, e)[1]
OBVIOUS

\* iderw() appends its buffer to the queue.
LEMMA IderwStep ==
  ASSUME TypeOK, Rest, NEW p \in Proc, Iderw(p)
  PROVE  Rest'
<1>0. PICK b \in Buf : b = chan[p]
  BY DEF Iderw, At, Rest, PcInv, InIO, TypeOK, ProcType
<1>1. /\ UNCHANGED <<blockno, busy, valid, dirty, data, disk, cur, want, chan, held>>
      /\ pc[p] = "iderw" /\ idequeue' = Append(idequeue, b)
      /\ dev' = IF idequeue = <<>> THEN Idestart(b) ELSE dev
      /\ panicked' = IF ~busy[b] \/ Finished(b) THEN "iderw" ELSE ""
  BY <1>0 DEF Iderw, At, buf
<1>2. b \in held[p] /\ ~Finished(b) /\ ~Queued(b)
  BY <1>0, <1>1 DEF Rest, PcInv, SleepInv, InIO
<1>3. busy[b]
  BY <1>2 DEF Rest, HeldInv
<1>4. pc'[p] = "sleep ide" /\ \A q \in Proc : q # p => pc'[q] = pc[q]
  BY DEF Iderw, Goto, TypeOK, ProcType
<1>5. /\ idequeue \in Seq(Buf) /\ Len(idequeue) \in Nat /\ Len(idequeue') = Len(idequeue) + 1
      /\ \A i \in 1 .. Len(idequeue) : idequeue'[i] = idequeue[i]
      /\ idequeue'[Len(idequeue) + 1] = b
  <2>1. idequeue \in Seq(Buf)
    BY QueueType
  <2>2. /\ Len(idequeue) \in Nat /\ Len(Append(idequeue, b)) = Len(idequeue) + 1
        /\ \A i \in 1 .. Len(idequeue) : Append(idequeue, b)[i] = idequeue[i]
        /\ Append(idequeue, b)[Len(idequeue) + 1] = b
    BY <2>1, AppendProps
  <2>3. idequeue' = Append(idequeue, b)
    BY <1>1
  <2> QED
    BY <2>1, <2>2, <2>3
<1>6. \A i \in 1 .. Len(idequeue') : i \in 1 .. Len(idequeue) \/ i = Len(idequeue) + 1
  BY <1>5
<1>7. HeldInv' /\ OneBuffer' /\ CleanIsOnDisk'
  BY <1>1 DEF Rest, HeldInv, OneBuffer, CleanIsOnDisk
<1>8. NoMisuse'
  BY <1>1, <1>2, <1>3 DEF NoMisuse
<1>9. PcInv'
  BY <1>1, <1>4 DEF Rest, PcInv, InIO
<1>10. DataInv'
  <2>1. /\ \A c \in Buf : valid'[c] => blockno'[c] # 0 /\ data'[c] = cur'[blockno'[c]]
        /\ \A c \in Buf : dirty'[c] => valid'[c]
    BY <1>1 DEF Rest, DataInv
  <2>2. ASSUME NEW q \in Proc, NEW c \in held'[q], ~valid'[c] PROVE InIO(q)' /\ chan'[q] = c
    <3>1. InIO(q) /\ chan[q] = c
      BY <1>1, <2>2 DEF Rest, DataInv
    <3> QED
      BY <1>1, <1>4, <3>1 DEF InIO
  <2> QED
    BY <2>1, <2>2 DEF DataInv
<1>11. \A x : Finished(x)' <=> Finished(x)
  BY <1>1 DEF Finished
<1>12. \A x : Queued(x)' <=> x = b \/ Queued(x)
  <2> TAKE x
  <2>1. ASSUME Queued(x) PROVE Queued(x)'
    <3>1. PICK i \in 1 .. Len(idequeue) : idequeue[i] = x
      BY <2>1 DEF Queued
    <3>2. i \in 1 .. Len(idequeue') /\ idequeue'[i] = x
      BY <1>5, <3>1
    <3> QED
      BY <3>2 DEF Queued
  <2>2. Queued(b)'
    <3>1. Len(idequeue) + 1 \in 1 .. Len(idequeue')
      BY <1>5
    <3>2. \E i \in 1 .. Len(idequeue') : idequeue'[i] = b
      BY <1>5, <3>1
    <3> QED
      BY <3>2 DEF Queued
  <2>3. ASSUME Queued(x)' PROVE x = b \/ Queued(x)
    <3>1. PICK i \in 1 .. Len(idequeue') : idequeue'[i] = x
      BY <2>3 DEF Queued
    <3> QED
      BY <1>5, <1>6, <3>1 DEF Queued
  <2> QED
    BY <2>1, <2>2, <2>3
<1>13. SleepInv'
  <2>1. \A q \in Proc : q # p /\ InIO(q) => chan[q] # b
    BY <1>2, <1>3 DEF Rest, PcInv, HeldInv
  <2> QED
    BY <1>0, <1>1, <1>4, <1>11, <1>12, <2>1 DEF Rest, SleepInv, InIO
<1>14. QueueInv'
  <2>1. ASSUME NEW i \in 1 .. Len(idequeue')
        PROVE  /\ ~(valid'[idequeue'[i]] /\ ~dirty'[idequeue'[i]])
               /\ \E q \in Proc : pc'[q] = "sleep ide" /\ chan'[q] = idequeue'[i]
    <3>1. CASE i \in 1 .. Len(idequeue)
      <4>1. PICK q \in Proc : pc[q] = "sleep ide" /\ chan[q] = idequeue[i]
        BY <3>1 DEF Rest, QueueInv
      <4>2. pc'[q] = "sleep ide" /\ chan'[q] = idequeue'[i]
        BY <1>1, <1>4, <1>5, <3>1, <4>1
      <4>3. ~Finished(idequeue[i])
        BY <3>1 DEF Rest, QueueInv
      <4> QED
        BY <1>1, <1>5, <3>1, <4>2, <4>3 DEF Finished
    <3>2. CASE i = Len(idequeue) + 1
      <4>1. idequeue'[i] = b /\ chan'[p] = b
        BY <1>0, <1>1, <1>5, <3>2
      <4> QED
        BY <1>1, <1>2, <1>4, <4>1 DEF Finished
    <3> QED
      BY <1>6, <3>1, <3>2
  <2>2. ASSUME NEW i \in 1 .. Len(idequeue'), NEW j \in 1 .. Len(idequeue'),
               idequeue'[i] = idequeue'[j]
        PROVE  i = j
    <3>1. \A k \in 1 .. Len(idequeue) : idequeue[k] # b
      BY <1>2 DEF Queued
    <3> QED
      BY <1>5, <1>6, <2>2, <3>1, ZenonT(40) DEF Rest, QueueInv
  <2> QED
    BY <2>1, <2>2 DEF QueueInv, Finished
<1>15. DevInv'
  <2>1. idequeue' # <<>> /\ Head(idequeue') = idequeue'[1]
    BY <1>1, QueueType, AppendProps, ZenonT(40)
  <2>2. CASE idequeue = <<>>
    <3>1. idequeue'[1] = b
      BY <1>5, <2>2
    <3> QED
      BY <1>1, <2>1, <2>2, <3>1 DEF DevInv, Idestart
  <2>3. CASE idequeue # <<>>
    <3>1. Head(idequeue) = idequeue[1] /\ idequeue'[1] = idequeue[1]
      BY <1>5, <2>3, QueueType
    <3>2. dev = Idestart(Head(idequeue))
      BY <2>3 DEF Rest, DevInv
    <3> QED
      BY <1>1, <2>1, <2>3, <3>1, <3>2 DEF DevInv, Idestart
  <2> QED
    BY <2>2, <2>3
<1> QED
  BY <1>7, <1>8, <1>9, <1>10, <1>13, <1>14, <1>15 DEF Rest

-----------------------------------------------------------------------------
(* The disk interrupt.                                                     *)

\* What ideintr() finds: its buffer is the first of the queue, held by the one
\* process that sleeps for it, and dev is its command.
LEMMA DoneFinds ==
  ASSUME TypeOK, Rest, DiskDone
  PROVE  /\ idequeue # <<>> /\ Head(idequeue) = idequeue[1] /\ 1 \in 1 .. Len(idequeue)
         /\ Head(idequeue) \in Buf /\ blockno[Head(idequeue)] \in Block
         /\ dev = Idestart(Head(idequeue)) /\ ~Finished(Head(idequeue))
         /\ \E p \in Proc : /\ pc[p] = "sleep ide" /\ chan[p] = Head(idequeue)
                            /\ Head(idequeue) \in held[p]
                            /\ \A q \in Proc : q # p => ~(InIO(q) /\ chan[q] = Head(idequeue))
<1>1. idequeue # <<>>
  BY DEF Rest, DevInv, DiskDone, Idle
<1>2. Head(idequeue) = idequeue[1] /\ 1 \in 1 .. Len(idequeue) /\ Head(idequeue) \in Buf
  BY <1>1, QueueType
<1>3. PICK p \in Proc : pc[p] = "sleep ide" /\ chan[p] = Head(idequeue)
  BY <1>2 DEF Rest, QueueInv
<1>4. Head(idequeue) \in held[p]
  BY <1>3 DEF Rest, PcInv, InIO
<1>5. \A q \in Proc : q # p => ~(InIO(q) /\ chan[q] = Head(idequeue))
  BY <1>2, <1>4, ZenonT(40) DEF Rest, PcInv, HeldInv
<1>6. blockno[Head(idequeue)] \in Block
  <2>1. blockno[Head(idequeue)] # 0
    BY <1>4 DEF Rest, HeldInv
  <2>2. blockno[Head(idequeue)] \in 0 .. NBLOCKS
    BY <1>2 DEF TypeOK, BufType
  <2> QED
    BY <2>1, <2>2, DiskAssumption DEF Block
<1>7. dev = Idestart(Head(idequeue)) /\ ~Finished(Head(idequeue))
  BY <1>1, <1>2 DEF Rest, DevInv, QueueInv
<1> QED
  BY <1>1, <1>2, <1>3, <1>4, <1>5, <1>6, <1>7

\* ideintr() keeps the types.
LEMMA DoneType ==
  ASSUME TypeOK, Rest, DiskDone
  PROVE  TypeOK'
<1> DEFINE b == Head(idequeue)
<1>1. /\ idequeue # <<>> /\ b \in Buf /\ blockno[b] \in Block /\ dev = Idestart(b)
  BY DoneFinds
<1>2. UNCHANGED <<blockno, busy, mru, cur, want, chan, held, n, panicked>>
  BY DEF DiskDone
<1>3. /\ dev.blockno = blockno[b] /\ dev.data \in 0 .. NVAL - 1
  BY <1>1 DEF Idestart, TypeOK, IdeType, Command
<1>4. disk \in [Block -> 0 .. NVAL - 1] /\ data \in [Buf -> 0 .. NVAL - 1]
  BY DEF TypeOK, IdeType, BufType
<1>5. disk' \in [Block -> 0 .. NVAL - 1]
  BY <1>1, <1>3, <1>4 DEF DiskDone
<1>6. data' \in [Buf -> 0 .. NVAL - 1]
  BY <1>1, <1>3, <1>4 DEF DiskDone
<1>7. valid' \in [Buf -> BOOLEAN] /\ dirty' \in [Buf -> BOOLEAN]
  BY DEF DiskDone, TypeOK, BufType
<1>8. pc' \in [Proc -> {"user", "bget", "sleep bget", "iderw", "sleep ide", "ide"}]
  BY DEF DiskDone, Wakeup, TypeOK, ProcType
<1>9. idequeue \in Seq(Buf) /\ idequeue' = Tail(idequeue)
  BY QueueType DEF DiskDone
<1>10. Tail(idequeue) \in Seq(Buf) /\ (Tail(idequeue) # <<>> => Head(Tail(idequeue)) \in Buf)
  BY <1>1, <1>9
<1>11. dev' \in Command
  <2>1. dev' = IF Tail(idequeue) = <<>> THEN Idle ELSE Idestart(Head(Tail(idequeue)))
    BY DEF DiskDone
  <2>2. 0 \in 0 .. NBLOCKS /\ 0 \in 0 .. NVAL - 1
    BY DiskAssumption
  <2>3. Idle \in Command
    BY <2>2 DEF Idle, Command
  <2> QED
    BY <1>10, <2>1, <2>3, IdestartType
<1>12. BufType'
  BY <1>2, <1>6, <1>7 DEF TypeOK, BufType
<1>13. IdeType'
  BY <1>2, <1>5, <1>9, <1>10, <1>11 DEF TypeOK, IdeType, Command
<1>14. ProcType'
  BY <1>2, <1>8 DEF TypeOK, ProcType
<1> QED
  BY <1>2, <1>12, <1>13, <1>14 DEF TypeOK

\* ideintr() completes the first request of the queue.
LEMMA DoneStep ==
  ASSUME TypeOK, Rest, DiskDone
  PROVE  Rest'
<1>0. PICK b \in Buf : b = Head(idequeue)
  BY DoneFinds
<1>1. /\ idequeue # <<>> /\ b = idequeue[1] /\ 1 \in 1 .. Len(idequeue)
      /\ blockno[b] \in Block /\ dev = Idestart(b) /\ ~Finished(b)
  BY <1>0, DoneFinds
<1>2. PICK p \in Proc : /\ pc[p] = "sleep ide" /\ chan[p] = b /\ b \in held[p]
                        /\ \A q \in Proc : q # p => ~(InIO(q) /\ chan[q] = b)
  BY <1>0, DoneFinds
<1>3. /\ UNCHANGED <<blockno, busy, cur, want, chan, held, panicked>>
      /\ idequeue' = Tail(idequeue) /\ pc' = Wakeup(pc, b)
      /\ valid' = [valid EXCEPT ![b] = TRUE] /\ dirty' = [dirty EXCEPT ![b] = FALSE]
      /\ dev' = IF Tail(idequeue) = <<>> THEN Idle ELSE Idestart(Head(Tail(idequeue)))
  BY <1>0 DEF DiskDone
<1>4. /\ dirty[b] => /\ disk' = [disk EXCEPT ![blockno[b]] = data[b]]
                     /\ data' = data
      /\ ~dirty[b] => /\ disk' = disk
                      /\ data' = [data EXCEPT ![b] = disk[blockno[b]]]
  BY <1>0, <1>1 DEF DiskDone, Idestart
<1>5. /\ \A c \in Buf : valid'[c] <=> c = b \/ valid[c]
      /\ \A c \in Buf : dirty'[c] <=> c # b /\ dirty[c]
      /\ \A c \in Buf : c # b => dirty'[c] = dirty[c]
  BY <1>1, <1>3 DEF TypeOK, BufType
<1>6. \A q \in Proc :
        /\ (q = p => pc'[q] = "ide")
        /\ (q # p => pc'[q] = pc[q] \/ (pc[q] = "sleep bget" /\ pc'[q] = "bget"))
  <2> TAKE q \in Proc
  <2>1. pc'[q] = IF chan[q] = b /\ pc[q] = "sleep bget" THEN "bget"
                 ELSE IF chan[q] = b /\ pc[q] = "sleep ide" THEN "ide" ELSE pc[q]
    BY <1>3 DEF Wakeup
  <2>2. q # p => ~(chan[q] = b /\ pc[q] = "sleep ide")
    BY <1>2 DEF InIO
  <2> QED
    BY <1>2, <2>1, <2>2
<1>7. ASSUME NEW c \in Buf, c # b PROVE blockno[c] # blockno[b]
  <2>1. blockno[b] # 0
    BY <1>1, BlockType
  <2> QED
    BY <1>1, <1>7, <2>1 DEF Rest, OneBuffer
<1>8. data'[b] = cur[blockno[b]] /\ disk'[blockno[b]] = cur[blockno[b]]
  <2>1. CASE dirty[b]
    <3>1. valid[b] /\ data[b] = cur[blockno[b]]
      BY <1>1, <2>1 DEF Rest, DataInv
    <3> QED
      BY <1>1, <1>4, <2>1, <3>1 DEF TypeOK, IdeType
  <2>2. CASE ~dirty[b]
    <3>1. \A c \in Buf : blockno[c] = blockno[b] => ~dirty[c]
      BY <1>7, <2>2
    <3>2. disk[blockno[b]] = cur[blockno[b]]
      BY <1>1, <3>1 DEF Rest, CleanIsOnDisk
    <3> QED
      BY <1>1, <1>4, <2>2, <3>2 DEF TypeOK, BufType
  <2> QED
    BY <2>1, <2>2
<1>9. /\ \A c \in Buf : c # b => data'[c] = data[c]
      /\ \A k \in Block : k # blockno[b] => disk'[k] = disk[k]
  BY <1>1, <1>4 DEF TypeOK, IdeType, BufType
<1>10. /\ idequeue \in Seq(Buf) /\ Len(idequeue) \in Nat /\ Len(idequeue') = Len(idequeue) - 1
       /\ \A i \in 1 .. Len(idequeue') : idequeue'[i] = idequeue[i + 1]
                                         /\ i + 1 \in 1 .. Len(idequeue)
  BY <1>1, <1>3, QueueType
<1>11. \A i \in 1 .. Len(idequeue') : idequeue'[i] # b /\ idequeue'[i] \in Buf
  <2> TAKE i \in 1 .. Len(idequeue')
  <2>1. idequeue'[i] = idequeue[i + 1] /\ i + 1 \in 1 .. Len(idequeue) /\ i + 1 # 1
    BY <1>10
  <2> QED
    BY <1>1, <2>1, QueueType DEF Rest, QueueInv
<1>12. HeldInv' /\ OneBuffer' /\ NoMisuse'
  BY <1>3 DEF Rest, HeldInv, OneBuffer, NoMisuse
<1>13. PcInv'
  BY <1>2, <1>3, <1>6 DEF Rest, PcInv, InIO
<1>14. CleanIsOnDisk'
  <2> SUFFICES ASSUME NEW k \in Block, \A c \in Buf : blockno[c] = k => ~dirty'[c]
               PROVE  disk'[k] = cur[k]
    BY <1>3 DEF CleanIsOnDisk
  <2>1. CASE k = blockno[b]
    BY <1>8, <2>1
  <2>2. CASE k # blockno[b]
    <3>1. \A c \in Buf : blockno[c] = k => ~dirty[c]
      BY <1>5, <2>2
    <3> QED
      BY <1>9, <2>2, <3>1 DEF Rest, CleanIsOnDisk
  <2> QED
    BY <2>1, <2>2
<1>15. DataInv'
  <2>1. ASSUME NEW c \in Buf, valid'[c] PROVE blockno'[c] # 0 /\ data'[c] = cur'[blockno'[c]]
    <3>1. CASE c = b
      BY <1>1, <1>3, <1>8, <3>1, BlockType
    <3>2. CASE c # b
      <4>1. valid[c]
        BY <1>5, <2>1, <3>2
      <4> QED
        BY <1>3, <1>9, <3>2, <4>1 DEF Rest, DataInv
    <3> QED
      BY <3>1, <3>2
  <2>2. \A c \in Buf : dirty'[c] => valid'[c]
    BY <1>5 DEF Rest, DataInv
  <2>3. ASSUME NEW q \in Proc, NEW c \in held'[q], ~valid'[c] PROVE InIO(q)' /\ chan'[q] = c
    <3>1. c \in held[q] /\ c \in Buf
      BY <1>3 DEF TypeOK, ProcType
    <3>2. InIO(q) /\ chan[q] = c
      BY <1>5, <2>3, <3>1 DEF Rest, DataInv
    <3>3. c # b
      BY <1>5, <2>3, <3>1
    <3>4. q # p
      BY <1>2, <3>2, <3>3
    <3> QED
      BY <1>3, <1>6, <3>2, <3>4 DEF InIO
  <2> QED
    BY <2>1, <2>2, <2>3 DEF DataInv
<1>16. Finished(b)' /\ \A x \in Buf : x # b => (Finished(x)' <=> Finished(x))
  <2>1. valid'[b] /\ ~dirty'[b] /\ \A x \in Buf : x # b => (valid'[x] <=> valid[x]) /\ (dirty'[x] <=> dirty[x])
    BY <1>1, <1>5
  <2> QED
    BY <2>1 DEF Finished
<1>17. Queued(b) /\ ~Queued(b)' /\ \A x : x # b => (Queued(x)' <=> Queued(x))
  <2>1. ASSUME NEW x, Queued(x), x # b PROVE Queued(x)'
    <3>1. PICK i \in 1 .. Len(idequeue) : idequeue[i] = x
      BY <2>1 DEF Queued
    <3>2. i # 1
      BY <1>1, <2>1, <3>1
    <3>3. i - 1 \in 1 .. Len(idequeue') /\ idequeue'[i - 1] = idequeue[(i - 1) + 1] /\ (i - 1) + 1 = i
      BY <1>10, <3>2
    <3> QED
      BY <3>1, <3>3 DEF Queued
  <2>2. ASSUME NEW x, Queued(x)' PROVE Queued(x)
    <3>1. PICK i \in 1 .. Len(idequeue') : idequeue'[i] = x
      BY <2>2 DEF Queued
    <3> QED
      BY <1>10, <3>1 DEF Queued
  <2>3. Queued(b) /\ ~Queued(b)'
    BY <1>1, <1>11 DEF Queued
  <2> QED
    BY <2>1, <2>2, <2>3
<1>18. SleepInv'
  <2>1. \A q \in Proc : InIO(q) => chan[q] \in Buf
    BY DEF Rest, PcInv, TypeOK, ProcType
  <2>2. ASSUME NEW q \in Proc, q # p
        PROVE  /\ (pc'[q] = "iderw" => ~Finished(chan[q])' /\ ~Queued(chan[q])')
               /\ (pc'[q] = "sleep ide" => Queued(chan[q])')
               /\ (pc'[q] = "ide" => Finished(chan[q])')
    <3>1. pc'[q] \in {"iderw", "sleep ide", "ide"} =>
            pc[q] = pc'[q] /\ chan[q] # b /\ chan[q] \in Buf /\ chan'[q] = chan[q]
      BY <1>2, <1>3, <1>6, <2>1, <2>2 DEF InIO
    <3>2. pc'[q] \in {"iderw", "sleep ide", "ide"} =>
            /\ Finished(chan[q])' <=> Finished(chan[q])
            /\ Queued(chan[q])' <=> Queued(chan[q])
      <4>1. SUFFICES ASSUME NEW c \in Buf, c # b, c = chan[q], c = chan'[q]
                     PROVE  /\ Finished(chan[q])' <=> Finished(chan[q])
                            /\ Queued(chan[q])' <=> Queued(chan[q])
        BY <3>1
      <4>2. (Finished(c)' <=> Finished(c)) /\ (Queued(c)' <=> Queued(c))
        BY <1>16, <1>17, <4>1
      <4> QED
        BY <4>1, <4>2 DEF Finished, Queued
    <3> QED
      BY <3>1, <3>2 DEF Rest, SleepInv
  <2>3. pc'[p] = "ide" /\ chan'[p] = b
    BY <1>2, <1>3, <1>6
  <2>4. Finished(chan[p])'
    BY <1>16, <2>3 DEF Finished
  <2> QED
    BY <2>2, <2>3, <2>4 DEF SleepInv
<1>19. QueueInv'
  <2>1. ASSUME NEW i \in 1 .. Len(idequeue')
        PROVE  /\ ~(valid'[idequeue'[i]] /\ ~dirty'[idequeue'[i]])
               /\ \E q \in Proc : pc'[q] = "sleep ide" /\ chan'[q] = idequeue'[i]
    <3>1. idequeue'[i] = idequeue[i + 1] /\ i + 1 \in 1 .. Len(idequeue)
      BY <1>10
    <3>2. PICK q \in Proc : pc[q] = "sleep ide" /\ chan[q] = idequeue'[i]
      BY <3>1 DEF Rest, QueueInv
    <3>3. q # p
      BY <1>2, <1>11, <3>2
    <3>4. pc'[q] = "sleep ide" /\ chan'[q] = idequeue'[i]
      BY <1>3, <1>6, <3>2, <3>3
    <3>5. ~Finished(idequeue[i + 1])
      BY <3>1 DEF Rest, QueueInv
    <3>6. ~(valid[idequeue'[i]] /\ ~dirty[idequeue'[i]])
      BY <3>1, <3>5 DEF Finished
    <3> QED
      BY <1>5, <1>11, <3>4, <3>6
  <2>2. ASSUME NEW i \in 1 .. Len(idequeue'), NEW j \in 1 .. Len(idequeue'),
               idequeue'[i] = idequeue'[j]
        PROVE  i = j
    <3>1. /\ i + 1 \in 1 .. Len(idequeue) /\ j + 1 \in 1 .. Len(idequeue)
          /\ idequeue[i + 1] = idequeue[j + 1]
      BY <1>10, <2>2
    <3>2. i + 1 = j + 1
      BY <3>1 DEF Rest, QueueInv
    <3> QED
      BY <3>2, <1>10
  <2> QED
    BY <2>1, <2>2 DEF QueueInv, Finished
<1>20. DevInv'
  <2>1. CASE Tail(idequeue) = <<>>
    BY <1>3, <2>1 DEF DevInv
  <2>2. CASE Tail(idequeue) # <<>>
    <3>1. idequeue' \in Seq(Buf)
      BY <1>1, <1>3, <1>10
    <3>2. Head(idequeue') = idequeue'[1] /\ 1 \in 1 .. Len(idequeue')
      BY <1>3, <2>2, <3>1
    <3>3. Head(idequeue') # b /\ Head(idequeue') \in Buf
      BY <1>11, <3>2
    <3>4. /\ blockno'[Head(idequeue')] = blockno[Head(idequeue')]
          /\ dirty'[Head(idequeue')] = dirty[Head(idequeue')]
          /\ data'[Head(idequeue')] = data[Head(idequeue')]
      BY <1>3, <1>5, <1>9, <3>3
    <3>5. dev' = Idestart(Head(Tail(idequeue)))
      BY <1>3, <2>2
    <3> QED
      BY <1>3, <2>2, <3>4, <3>5 DEF DevInv, Idestart
  <2> QED
    BY <2>1, <2>2
<1> QED
  BY <1>12, <1>13, <1>14, <1>15, <1>18, <1>19, <1>20 DEF Rest

-----------------------------------------------------------------------------
(* The theorems.                                                           *)

\* Initially nothing is cached, held or queued.
LEMMA InitInv == Init => IInv
<1> SUFFICES ASSUME Init PROVE IInv
  OBVIOUS
<1>1. 0 \in 0 .. NBLOCKS /\ 0 \in 0 .. NVAL - 1 /\ 0 \in 0 .. MaxCalls
  BY DiskAssumption
<1>2. \A k \in 1 .. NBUF : NBUF + 1 - k \in 1 .. NBUF
  BY DiskAssumption
<1>3. BufType
  BY <1>1, <1>2 DEF Init, BufType, Buf
<1>4. Idle \in Command /\ <<>> \in Seq(Buf)
  BY <1>1 DEF Idle, Command
<1>5. IdeType
  BY <1>1, <1>4 DEF Init, IdeType
<1>6. ProcType
  BY <1>1 DEF Init, ProcType
<1>7. TypeOK
  BY <1>3, <1>5, <1>6 DEF Init, TypeOK
<1>8. /\ \A p \in Proc : held[p] = {} /\ pc[p] = "user"
      /\ \A b \in Buf : blockno[b] = 0 /\ ~busy[b] /\ ~valid[b] /\ ~dirty[b]
      /\ \A k \in Block : disk[k] = cur[k]
      /\ idequeue = <<>> /\ dev = Idle /\ panicked = ""
  BY DEF Init
<1>9. HeldInv /\ OneBuffer /\ PcInv
  BY <1>8 DEF HeldInv, OneBuffer, PcInv, InIO
<1>10. DataInv /\ CleanIsOnDisk
  BY <1>8 DEF DataInv, CleanIsOnDisk
<1>11. SleepInv /\ DevInv /\ NoMisuse
  BY <1>8 DEF SleepInv, DevInv, NoMisuse
<1>12. QueueInv
  <2>1. Len(idequeue) = 0
    BY <1>8
  <2> QED
    BY <2>1 DEF QueueInv
<1> QED
  BY <1>7, <1>9, <1>10, <1>11, <1>12 DEF IInv, Rest

\* Every step keeps the invariant.
LEMMA NextInv == IInv /\ [Next]_vars => IInv'
<1> SUFFICES ASSUME IInv, [Next]_vars PROVE IInv'
  OBVIOUS
<1>0. TypeOK /\ Rest
  BY DEF IInv
<1>1. ASSUME NEW p \in Proc, Step(p) PROVE IInv'
  <2>1. BufType' /\ IdeType' /\ ProcType'
    BY <1>0, <1>1, BufTypeStep, IdeTypeStep, ProcTypeStep DEF Rest
  <2>2. ASSUME NEW k \in Block, Bread(p, k) PROVE Rest'
    BY <1>0, <2>2, BreadStep
  <2>3. ASSUME InKernel(p) PROVE Rest'
    BY <1>0, <2>3, BgetHitStep, BgetSleepStep, BgetMissStep, BgetFullStep, IderwStep, IdeAgainStep
       DEF InKernel
  <2>4. ASSUME NEW b \in Buf, Bwrite(p, b) \/ Pin(p, b) \/ Install(p, b) \/ Brelse(p, b)
        PROVE  Rest'
    BY <1>0, <2>4, BwriteStep, PinStep, InstallStep, BrelseStep
  <2>5. Rest'
    BY <1>1, <2>2, <2>3, <2>4 DEF Step
  <2>6. panicked' \in {"", "bget", "bwrite", "iderw", "brelse"}
    BY <2>5 DEF Rest, NoMisuse
  <2> QED
    BY <2>1, <2>5, <2>6 DEF IInv, TypeOK
<1>2. ASSUME DiskDone PROVE IInv'
  BY <1>0, <1>2, DoneType, DoneStep DEF IInv
<1>3. ASSUME UNCHANGED vars PROVE IInv'
  <2>1. UNCHANGED <<blockno, busy, valid, dirty, data, mru, idequeue, dev, disk, cur, pc, want,
                    chan, held, n, panicked>>
    BY <1>3 DEF vars, buf, ide, proc
  <2>2. TypeOK'
    BY <1>0, <2>1 DEF TypeOK, BufType, IdeType, ProcType
  <2>3. Rest'
    BY <1>0, <2>1, QuietStep DEF Rest, PcInv, NoMisuse, InIO
  <2> QED
    BY <2>2, <2>3 DEF IInv
<1> QED
  BY <1>1, <1>2, <1>3 DEF Next

\* The invariant is inductive.
THEOREM Inductive == Spec => []IInv
<1> QED
  BY InitInv, NextInv, PTL DEF Spec

\* The types of bio.c and ide.c's state hold in every state.
THEOREM TypeCorrect == Spec => []TypeOK
<1>1. IInv => TypeOK
  BY DEF IInv
<1> QED
  BY <1>1, Inductive, PTL

\* bread() gives a process the only buffer of the block, to itself and with what
\* was last put into the block; what is in no dirty buffer is on the disk; and the
\* panics of iderw(), bwrite() and brelse() are never reached.
THEOREM Current == Spec => []CacheCurrent
<1>1. IInv => HolderCurrent
  <2> SUFFICES ASSUME IInv PROVE HolderCurrent
    OBVIOUS
  <2>1. \A b, c \in Buf : blockno[b] = blockno[c] /\ blockno[b] # 0 => b = c
    BY DEF IInv, Rest, OneBuffer
  <2>2. ASSUME NEW p \in Proc, pc[p] = "user", NEW b \in held[p]
        PROVE  /\ busy[b] /\ valid[b] /\ data[b] = cur[blockno[b]]
               /\ \A q \in Proc \ {p} : b \notin held[q]
    <3>1. b \in Buf
      BY DEF IInv, TypeOK, ProcType
    <3>2. busy[b] /\ \A q \in Proc \ {p} : b \notin held[q]
      BY <3>1 DEF IInv, Rest, HeldInv
    <3>3. valid[b]
      BY <2>2 DEF IInv, Rest, DataInv, InIO
    <3> QED
      BY <3>1, <3>2, <3>3 DEF IInv, Rest, DataInv
  <2> QED
    BY <2>1, <2>2 DEF HolderCurrent
<1>2. IInv => CacheCurrent
  BY <1>1 DEF IInv, Rest, CacheCurrent
<1> QED
  BY <1>2, Inductive, PTL

=============================================================================
