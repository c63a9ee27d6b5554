-------------------------------- MODULE Log ---------------------------------
(***************************************************************************)
(* The file system log (project4/log.c) with what it needs of the buffer   *)
(* cache (bio.c: B_BUSY, B_DIRTY, recycling), crashes and recovery.        *)
(*                                                                         *)
(* A critical section of log.lock is one step, and so is sleep() (see      *)
(* SleepWakeup).  Every disk write is a step, so a crash can fall between  *)
(* any two of them; the write of one block is atomic.  commit() runs       *)
(* without log.lock.                                                       *)
(*                                                                         *)
(* A panic stops the machine.  What commit() would write behind the log's  *)
(* area, if log.lh outgrew it, is not modelled: Fits says when it does.    *)
(***************************************************************************)
EXTENDS Integers, Sequences, FiniteSets

CONSTANTS Thread,       \* the processes in file system calls
          Block,        \* home blocks
          NVAL,         \* versions of a block are counted modulo NVAL
          MAXOPBLOCKS,  \* what begin_op() reserves for a call
          LOGSIZE,      \* what begin_op() believes the log holds
          NLOG,         \* sb.nlog, set by mkfs: header block and data blocks
          OPBLOCKS,     \* how many blocks a call really writes, at most
          MaxCrashes    \* bound on crashes

ASSUME LogAssumption ==
  /\ NVAL \in Nat \ {0} /\ MAXOPBLOCKS \in Nat /\ LOGSIZE \in Nat
  /\ NLOG \in 1 .. LOGSIZE /\ OPBLOCKS \in Nat /\ MaxCrashes \in Nat
  /\ IsFiniteSet(Thread) /\ IsFiniteSet(Block)

VARIABLES
  \* the disk
  home,         \* [Block -> 0 .. NVAL - 1]
  logblk,       \* [1 .. LOGSIZE -> 0 .. NVAL - 1]: the data blocks of the log
  head,         \* Seq(Block): the header block
  \* memory
  cache,        \* [Block -> 0 .. NVAL - 1, or NVAL when not cached]
  dirty,        \* SUBSET Block: B_DIRTY
  lh,           \* Seq(Block): log.lh
  outstanding, committing,
  phase, tail,  \* of commit() or of recover_from_log()
  pc,           \* [Thread -> PC]
  buf,          \* [Thread -> SUBSET Block]: the B_BUSY buffer it has
  wrote,        \* [Thread -> SUBSET Block]: blocks written by this call
  crashes, panicked

disk == <<home, logblk, head>>
vars == <<disk, cache, dirty, lh, outstanding, committing, phase, tail, pc, buf,
          wrote, crashes, panicked>>

NotCached == NVAL
PC == {"idle", "asleep", "op", "log_write", "commit"}
Phase == {"none", "read_head", "write_log", "install", "done"}

TypeOK ==
  /\ home \in [Block -> 0 .. NVAL - 1]
  /\ logblk \in [1 .. LOGSIZE -> 0 .. NVAL - 1]
  /\ head \in Seq(Block) /\ Len(head) <= LOGSIZE
  /\ cache \in [Block -> 0 .. NVAL]
  /\ dirty \subseteq Block
  /\ lh \in Seq(Block) /\ Len(lh) <= LOGSIZE
  /\ outstanding \in 0 .. Cardinality(Thread)
  /\ committing \in BOOLEAN
  /\ phase \in Phase
  /\ tail \in 1 .. LOGSIZE + 1
  /\ pc \in [Thread -> PC]
  /\ buf \in [Thread -> SUBSET Block]
  /\ wrote \in [Thread -> SUBSET Block]
  /\ crashes \in 0 .. MaxCrashes
  /\ panicked \in BOOLEAN

\* What a power failure, or the first boot, leaves of memory.
Booted ==
  /\ cache' = [b \in Block |-> NotCached]
  /\ dirty' = {} /\ lh' = <<>>
  /\ outstanding' = 0 /\ committing' = FALSE
  /\ phase' = "read_head" /\ tail' = 1
  /\ pc' = [t \in Thread |-> "idle"]
  /\ buf' = [t \in Thread |-> {}]
  /\ wrote' = [t \in Thread |-> {}]

\* mkfs has made the disk; the kernel boots and calls initlog().
Init ==
  /\ home = [b \in Block |-> 0]
  /\ logblk = [i \in 1 .. LOGSIZE |-> 0]
  /\ head = <<>>
  /\ cache = [b \in Block |-> NotCached]
  /\ dirty = {} /\ lh = <<>>
  /\ outstanding = 0 /\ committing = FALSE
  /\ phase = "read_head" /\ tail = 1
  /\ pc = [t \in Thread |-> "idle"]
  /\ buf = [t \in Thread |-> {}]
  /\ wrote = [t \in Thread |-> {}]
  /\ crashes = 0 /\ panicked = FALSE

\* initlog() has returned.
Up == phase = "none" \/ committing

\* The data that bread(b) returns.
Data(b) == IF cache[b] = NotCached THEN home[b] ELSE cache[b]
Busy(b) == \E t \in Thread : b \in buf[t]

\* wakeup(&log)
Wake == [t \in Thread |-> IF pc[t] = "asleep" THEN "idle" ELSE pc[t]]

-----------------------------------------------------------------------------
(* The buffer cache.                                                       *)

\* bread() of a block, by anyone, and brelse().
Bread(b) ==
  /\ Up /\ cache[b] = NotCached
  /\ cache' = [cache EXCEPT ![b] = home[b]]
  /\ UNCHANGED <<disk, dirty, lh, outstanding, committing, phase, tail, pc, buf, wrote, crashes, panicked>>

\* bget() of some other block recycles a buffer that is clean and not busy.
Recycle(b) ==
  /\ Up /\ cache[b] # NotCached /\ ~Busy(b) /\ b \notin dirty
  /\ cache' = [cache EXCEPT ![b] = NotCached]
  /\ UNCHANGED <<disk, dirty, lh, outstanding, committing, phase, tail, pc, buf, wrote, crashes, panicked>>

-----------------------------------------------------------------------------
(* begin_op, log_write, end_op                                             *)

\* "this op might exhaust log space"
NoSpace == Len(lh) + (outstanding + 1) * MAXOPBLOCKS > LOGSIZE

\* Mutant: log.committing is not looked at.
BeginOpCommitting(t) ==
  /\ Up /\ pc[t] = "idle"
  /\ ~NoSpace
  /\ outstanding' = outstanding + 1
  /\ pc' = [pc EXCEPT ![t] = "op"]
  /\ UNCHANGED <<disk, cache, dirty, lh, committing, phase, tail, buf, wrote, crashes, panicked>>

BeginOp(t) ==
  /\ Up /\ pc[t] = "idle"
  /\ ~committing /\ ~NoSpace
  /\ outstanding' = outstanding + 1
  /\ pc' = [pc EXCEPT ![t] = "op"]
  /\ UNCHANGED <<disk, cache, dirty, lh, committing, phase, tail, buf, wrote, crashes, panicked>>

BeginSleep(t) ==
  /\ Up /\ pc[t] = "idle"
  /\ committing \/ NoSpace
  /\ pc' = [pc EXCEPT ![t] = "asleep"]
  /\ UNCHANGED <<disk, cache, dirty, lh, outstanding, committing, phase, tail, buf, wrote, crashes, panicked>>

\* bread(b), modify it, call log_write(b): its panics, before log.lock.
LogWrite(t, b) ==
  /\ pc[t] = "op" /\ ~Busy(b)
  /\ Cardinality(wrote[t] \cup {b}) <= OPBLOCKS
  /\ buf' = [buf EXCEPT ![t] = {b}]
  /\ wrote' = [wrote EXCEPT ![t] = @ \cup {b}]
  /\ cache' = [cache EXCEPT ![b] = (Data(b) + 1) % NVAL]
  /\ panicked' = (Len(lh) >= LOGSIZE \/ Len(lh) >= NLOG - 1 \/ outstanding < 1)
  /\ pc' = [pc EXCEPT ![t] = "log_write"]
  /\ UNCHANGED <<disk, dirty, lh, outstanding, committing, phase, tail, crashes>>

\* The rest of log_write(), under log.lock, and brelse().
LogAppend(t) ==
  /\ pc[t] = "log_write"
  /\ \E b \in buf[t] :
       /\ lh' = IF \E i \in DOMAIN lh : lh[i] = b THEN lh ELSE Append(lh, b)
       /\ dirty' = dirty \cup {b}
  /\ buf' = [buf EXCEPT ![t] = {}]
  /\ pc' = [pc EXCEPT ![t] = "op"]
  /\ UNCHANGED <<disk, cache, outstanding, committing, phase, tail, wrote, crashes, panicked>>

\* Mutant: the last call commits only a log that is full to the last block.
EndOpLazy(t) ==
  /\ pc[t] = "op" /\ outstanding = 1
  /\ outstanding' = 0
  /\ panicked' = committing
  /\ committing' = TRUE
  /\ pc' = [pc EXCEPT ![t] = "commit"]
  /\ phase' = IF Len(lh) < LOGSIZE THEN "done" ELSE "write_log"
  /\ tail' = 1
  /\ wrote' = [wrote EXCEPT ![t] = {}]
  /\ UNCHANGED <<disk, cache, dirty, lh, buf, crashes>>

\* end_op() of the last outstanding call: on to commit().
EndOpLast(t) ==
  /\ pc[t] = "op" /\ outstanding = 1
  /\ outstanding' = 0
  /\ panicked' = committing
  /\ committing' = TRUE
  /\ pc' = [pc EXCEPT ![t] = "commit"]
  /\ phase' = IF lh = <<>> THEN "done" ELSE "write_log"
  /\ tail' = 1
  /\ wrote' = [wrote EXCEPT ![t] = {}]
  /\ UNCHANGED <<disk, cache, dirty, lh, buf, crashes>>

\* end_op() of another call: "begin_op() may be waiting for log space".
EndOp(t) ==
  /\ pc[t] = "op" /\ outstanding > 1
  /\ outstanding' = outstanding - 1
  /\ panicked' = committing
  /\ pc' = [Wake EXCEPT ![t] = "idle"]
  /\ wrote' = [wrote EXCEPT ![t] = {}]
  /\ UNCHANGED <<disk, cache, dirty, lh, committing, phase, tail, buf, crashes>>

-----------------------------------------------------------------------------
(* commit and recovery                                                     *)

\* write_log(): one block.
WriteLog ==
  /\ phase = "write_log" /\ tail <= Len(lh)
  /\ logblk' = [logblk EXCEPT ![tail] = Data(lh[tail])]
  /\ tail' = tail + 1
  /\ UNCHANGED <<home, head, cache, dirty, lh, outstanding, committing, phase, pc, buf, wrote, crashes, panicked>>

\* Mutant: the header goes out before the last log block.
WriteHeadEarly ==
  /\ phase = "write_log" /\ tail >= Len(lh)
  /\ head' = lh
  /\ phase' = "install" /\ tail' = 1
  /\ UNCHANGED <<home, logblk, cache, dirty, lh, outstanding, committing, pc, buf, wrote, crashes, panicked>>

\* write_head(): "the real commit".
WriteHead ==
  /\ phase = "write_log" /\ tail > Len(lh)
  /\ head' = lh
  /\ phase' = "install" /\ tail' = 1
  /\ UNCHANGED <<home, logblk, cache, dirty, lh, outstanding, committing, pc, buf, wrote, crashes, panicked>>

\* install_trans(), in commit() or in recovery: one block.
InstallTrans ==
  /\ phase = "install" /\ tail <= Len(lh)
  /\ home' = [home EXCEPT ![lh[tail]] = logblk[tail]]
  /\ cache' = [cache EXCEPT ![lh[tail]] = logblk[tail]]
  /\ dirty' = dirty \ {lh[tail]}
  /\ tail' = tail + 1
  /\ UNCHANGED <<logblk, head, lh, outstanding, committing, phase, pc, buf, wrote, crashes, panicked>>

\* log.lh.n = 0; write_head(): "Erase the transaction from the log".
ClearHead ==
  /\ phase = "install" /\ tail > Len(lh)
  /\ lh' = <<>> /\ head' = <<>>
  /\ phase' = IF committing THEN "done" ELSE "none"
  /\ tail' = 1
  /\ UNCHANGED <<home, logblk, cache, dirty, outstanding, committing, pc, buf, wrote, crashes, panicked>>

\* Mutant: no wakeup(&log) after commit().
CommitDoneQuiet(t) ==
  /\ pc[t] = "commit" /\ phase = "done"
  /\ committing' = FALSE /\ phase' = "none"
  /\ pc' = [pc EXCEPT ![t] = "idle"]
  /\ UNCHANGED <<disk, cache, dirty, lh, outstanding, tail, buf, wrote, crashes, panicked>>

\* The end of end_op(): log.committing = 0; wakeup(&log).
CommitDone(t) ==
  /\ pc[t] = "commit" /\ phase = "done"
  /\ committing' = FALSE /\ phase' = "none"
  /\ pc' = [Wake EXCEPT ![t] = "idle"]
  /\ UNCHANGED <<disk, cache, dirty, lh, outstanding, tail, buf, wrote, crashes, panicked>>

\* recover_from_log(): read_head(); install_trans() and the rest follow.
ReadHead ==
  /\ phase = "read_head"
  /\ lh' = head
  /\ phase' = "install" /\ tail' = 1
  /\ UNCHANGED <<disk, cache, dirty, outstanding, committing, pc, buf, wrote, crashes, panicked>>

\* The machine stops at any point and boots again.
Crash ==
  /\ crashes < MaxCrashes
  /\ crashes' = crashes + 1
  /\ Booted
  /\ UNCHANGED <<disk, panicked>>

-----------------------------------------------------------------------------
Commit == WriteLog \/ WriteHead \/ InstallTrans \/ ClearHead \/ ReadHead

Finish(t) == EndOpLast(t) \/ EndOp(t) \/ CommitDone(t)

Next ==
  /\ ~panicked
  /\ \/ Commit \/ Crash
     \/ \E b \in Block : Bread(b) \/ Recycle(b)
     \/ \E t \in Thread :
          BeginOp(t) \/ BeginSleep(t) \/ LogAppend(t) \/ Finish(t)
          \/ \E b \in Block : LogWrite(t, b)

Spec == Init /\ [][Next]_vars

\* The disk answers, and a process inside a call is scheduled; a call writes
\* finitely many blocks and ends.
FairSpec ==
  /\ Spec
  /\ WF_vars(Commit)
  /\ \A t \in Thread : WF_vars(LogAppend(t)) /\ SF_vars(Finish(t))

-----------------------------------------------------------------------------
(* Properties.                                                             *)

\* What begin_op() waits for: the calls that it lets in do not exhaust the log.
NoPanic == ~panicked

\* No call is let in while a commit is on its way, and none writes outside of a
\* transaction, however calls, commits and crashes interleave: the only panic
\* of log.c that can be reached is the one for a log that is full.
OnlyFullPanics == panicked => Len(lh) >= NLOG - 1

\* The blocks of log.lh have their places in the log's area of the disk.
Fits == Len(lh) < NLOG

\* What recovery would make of the disk as it is now.
Recovered ==
  [b \in Block |->
     LET I == {i \in DOMAIN head : head[i] = b}
     IN  IF I = {} THEN home[b] ELSE logblk[CHOOSE i \in I : \A j \in I : j <= i]]

\* What a read returns, once recovery is over: until then, nothing is read.
Mem == IF Up THEN [b \in Block |-> Data(b)] ELSE Recovered

\* The calls between begin_op() and end_op().
Open == {t \in Thread : pc[t] \in {"op", "log_write"}}

AtomicLog == INSTANCE AtomicDisk WITH mem <- Mem, dur <- Recovered, open <- Open

\* log.c as a whole implements AtomicDisk: a transaction is all or nothing
\* across every crash point, the ones inside recovery included.
LogIsAtomic == AtomicLog!Spec

\* "Log appends are synchronous": when no call is active and commit() is
\* over, everything that can be read is durable.
QuietDurable ==
  phase = "none" /\ outstanding = 0 => \A b \in Block : Recovered[b] = Data(b)

\* No lost wakeup: a call that sleeps in begin_op(), for a commit or for log
\* space, is woken, unless a panic stops the machine.
SleepersWoken == \A t \in Thread : (pc[t] = "asleep") ~> (pc[t] # "asleep" \/ panicked)
=============================================================================
