-------------------------------- MODULE Disk --------------------------------
(***************************************************************************)
(* The buffer cache (project4/bio.c) on the disk driver (ide.c): processes *)
(* that get, change, write and release buffers, the most-recently-used     *)
(* list, the request queue and the disk interrupt.                         *)
(*                                                                         *)
(* A step is a section under bcache.lock or idelock.  sleep() is atomic,   *)
(* as SleepWakeup shows.  The callers of bread() hold at most two buffers, *)
(* and blocks are numbered in the order in which they take two: a log      *)
(* block before the block it is copied from or to (write_log(),            *)
(* install_trans()), an indirect block before a block of the bitmap        *)
(* (bmap(), itrunc()).                                                     *)
(* The disk reports each command by one interrupt and makes no errors.     *)
(***************************************************************************)
EXTENDS Naturals, Sequences, FiniteSets

CONSTANTS NBUF,        \* buffers
          NBLOCKS,     \* blocks that are used
          Proc,        \* processes
          NVAL,        \* contents of a block count modulo this
          MaxPins,     \* blocks that log_write() pins before they are installed
          MaxCalls     \* calls by each process: of bread(), and to change a block

ASSUME DiskAssumption ==
  /\ NBUF \in Nat /\ NBLOCKS \in Nat /\ MaxPins \in Nat /\ MaxCalls \in Nat
  /\ NVAL \in Nat \ {0} /\ IsFiniteSet(Proc)

VARIABLES blockno, busy, valid, dirty, data,    \* struct buf: the buffers
          mru,         \* bcache.head: the buffers, most recently used first
          idequeue,    \* the buffers waiting for the disk
          dev,         \* the command that the disk works on
          disk,        \* the blocks on the disk
          cur,         \* what was last put into each block
          pc, want,    \* where each process is, and the block it wants
          chan,        \* the buffer that it sleeps on or last got
          held,        \* the buffers that it has
          n,           \* the calls that it has made
          panicked     \* the function that has called panic()

buf == <<blockno, busy, valid, dirty, data>>
ide == <<idequeue, dev, disk>>
proc == <<pc, want, chan, held, n>>
vars == <<buf, mru, ide, cur, proc, panicked>>

Buf == 1 .. NBUF
Block == 1 .. NBLOCKS
NoBuf == 0
Idle == [cmd |-> "none", blockno |-> 0, data |-> 0]

BufType ==
  /\ blockno \in [Buf -> 0 .. NBLOCKS] /\ busy \in [Buf -> BOOLEAN]
  /\ valid \in [Buf -> BOOLEAN] /\ dirty \in [Buf -> BOOLEAN]
  /\ data \in [Buf -> 0 .. NVAL - 1] /\ mru \in [1 .. NBUF -> Buf]
Command == [cmd : {"none", "read", "write"}, blockno : 0 .. NBLOCKS, data : 0 .. NVAL - 1]
IdeType ==
  /\ idequeue \in Seq(Buf)
  /\ dev \in Command
  /\ disk \in [Block -> 0 .. NVAL - 1] /\ cur \in [Block -> 0 .. NVAL - 1]
ProcType ==
  /\ pc \in [Proc -> {"user", "bget", "sleep bget", "iderw", "sleep ide", "ide"}]
  /\ want \in [Proc -> 0 .. NBLOCKS] /\ chan \in [Proc -> Buf \cup {NoBuf}]
  /\ held \in [Proc -> SUBSET Buf] /\ n \in [Proc -> 0 .. MaxCalls]

TypeOK == BufType /\ IdeType /\ ProcType /\ panicked \in {"", "bget", "bwrite", "iderw", "brelse"}

\* binit() puts each buffer in front of the ones before it; dev = -1 is no block.
Init ==
  /\ blockno = [b \in Buf |-> 0] /\ busy = [b \in Buf |-> FALSE]
  /\ valid = [b \in Buf |-> FALSE] /\ dirty = [b \in Buf |-> FALSE] /\ data = [b \in Buf |-> 0]
  /\ mru = [k \in 1 .. NBUF |-> NBUF + 1 - k]
  /\ idequeue = <<>> /\ dev = Idle
  /\ disk = [k \in Block |-> 0] /\ cur = [k \in Block |-> 0]
  /\ pc = [p \in Proc |-> "user"] /\ want = [p \in Proc |-> 0]
  /\ chan = [p \in Proc |-> NoBuf] /\ held = [p \in Proc |-> {}] /\ n = [p \in Proc |-> 0]
  /\ panicked = ""

At(p, l) == pc[p] = l /\ panicked = ""
Goto(p, l) == pc' = [pc EXCEPT ![p] = l]

\* pc after wakeup(b), on top of q: those asleep on b run again.
Wakeup(q, b) ==
  [p \in Proc |-> IF chan[p] = b /\ q[p] = "sleep bget" THEN "bget"
                  ELSE IF chan[p] = b /\ q[p] = "sleep ide" THEN "ide" ELSE q[p]]

-----------------------------------------------------------------------------
(* bread() and bget()                                                      *)

Bread(p, k) ==
  /\ At(p, "user") /\ n[p] < MaxCalls
  /\ \/ held[p] = {}
     \/ \E b \in Buf : held[p] = {b} /\ blockno[b] < k
  /\ Goto(p, "bget") /\ want' = [want EXCEPT ![p] = k] /\ n' = [n EXCEPT ![p] = @ + 1]
  /\ UNCHANGED <<buf, mru, ide, cur, chan, held, panicked>>

Cached(k) == {b \in Buf : blockno[b] = k}

Recyclable(b) == ~busy[b] /\ ~dirty[b]

\* The least recently used one that can be recycled.
Victim(b) ==
  \E j \in 1 .. NBUF : /\ mru[j] = b /\ Recyclable(b)
                       /\ \A i \in j + 1 .. NBUF : ~Recyclable(mru[i])

\* The process has buffer b; bread() goes on to iderw() unless it is valid.
Got(p, b, v) ==
  /\ Goto(p, IF v THEN "user" ELSE "iderw")
  /\ want' = [want EXCEPT ![p] = 0] /\ chan' = [chan EXCEPT ![p] = b]
  /\ held' = [held EXCEPT ![p] = @ \cup {b}]

BgetHit(p) ==
  /\ At(p, "bget")
  /\ \E b \in Cached(want[p]) :
       /\ ~busy[b]
       /\ busy' = [busy EXCEPT ![b] = TRUE]
       /\ Got(p, b, valid[b])
  /\ UNCHANGED <<blockno, valid, dirty, data, mru, ide, cur, n, panicked>>

BgetSleep(p) ==
  /\ At(p, "bget")
  /\ \E b \in Cached(want[p]) : busy[b] /\ chan' = [chan EXCEPT ![p] = b]
  /\ Goto(p, "sleep bget")
  /\ UNCHANGED <<buf, mru, ide, cur, want, held, n, panicked>>

\* Mutant: the flags of the recycled buffer stay.
RecycledStale(b, k) ==
  /\ blockno' = [blockno EXCEPT ![b] = k] /\ busy' = [busy EXCEPT ![b] = TRUE]
  /\ UNCHANGED <<valid, dirty>>
Recycled(b, k) ==
  /\ blockno' = [blockno EXCEPT ![b] = k] /\ busy' = [busy EXCEPT ![b] = TRUE]
  /\ valid' = [valid EXCEPT ![b] = FALSE] /\ dirty' = [dirty EXCEPT ![b] = FALSE]
BgetMiss(p) ==
  /\ At(p, "bget") /\ Cached(want[p]) = {}
  /\ \E b \in Buf : Victim(b) /\ Recycled(b, want[p]) /\ Got(p, b, valid'[b])
  /\ UNCHANGED <<data, mru, ide, cur, n, panicked>>

BgetFull(p) ==
  /\ At(p, "bget") /\ Cached(want[p]) = {} /\ \A b \in Buf : ~Recyclable(b)
  /\ panicked' = "bget"
  /\ UNCHANGED <<buf, mru, ide, cur, proc>>

-----------------------------------------------------------------------------
(* The driver                                                              *)

\* idestart(b): the command and, for a write, the data go to the disk.
Idestart(b) ==
  [cmd |-> IF dirty[b] THEN "write" ELSE "read", blockno |-> blockno[b],
   data |-> IF dirty[b] THEN data[b] ELSE 0]

Finished(b) == valid[b] /\ ~dirty[b]

\* iderw() up to its sleep.
Iderw(p) ==
  /\ At(p, "iderw")
  /\ panicked' = IF ~busy[chan[p]] \/ Finished(chan[p]) THEN "iderw" ELSE ""
  /\ idequeue' = Append(idequeue, chan[p])
  /\ dev' = IF idequeue = <<>> THEN Idestart(chan[p]) ELSE dev
  /\ Goto(p, "sleep ide")
  /\ UNCHANGED <<buf, mru, disk, cur, want, chan, held, n>>

\* The process is woken: it sleeps again or returns from iderw().
IdeAgain(p) ==
  /\ At(p, "ide")
  /\ Goto(p, IF Finished(chan[p]) THEN "user" ELSE "sleep ide")
  /\ UNCHANGED <<buf, mru, ide, cur, want, chan, held, n, panicked>>

\* The disk has done its command and interrupts: ideintr().
DiskDone ==
  /\ dev.cmd # "none" /\ panicked = ""
  /\ disk' = IF dev.cmd = "write" THEN [disk EXCEPT ![dev.blockno] = dev.data] ELSE disk
  /\ LET b == Head(idequeue)
     IN  /\ data' = IF dirty[b] THEN data ELSE [data EXCEPT ![b] = disk[dev.blockno]]
         /\ valid' = [valid EXCEPT ![b] = TRUE] /\ dirty' = [dirty EXCEPT ![b] = FALSE]
         /\ pc' = Wakeup(pc, b)
  /\ idequeue' = Tail(idequeue)
  /\ dev' = IF Tail(idequeue) = <<>> THEN Idle ELSE Idestart(Head(Tail(idequeue)))
  /\ UNCHANGED <<blockno, busy, mru, cur, want, chan, held, n, panicked>>

-----------------------------------------------------------------------------
(* The holder of a buffer                                                  *)

\* The holder changes the block.
Change(p, b) ==
  /\ At(p, "user") /\ b \in held[p] /\ n[p] < MaxCalls
  /\ cur' = [cur EXCEPT ![blockno[b]] = (@ + 1) % NVAL]
  /\ data' = [data EXCEPT ![b] = (@ + 1) % NVAL]
  /\ dirty' = [dirty EXCEPT ![b] = TRUE]
  /\ n' = [n EXCEPT ![p] = @ + 1]

\* It writes it through: bwrite(), of blocks that are not in the log's header.
Bwrite(p, b) ==
  /\ Change(p, b) /\ ~dirty[b]
  /\ panicked' = IF busy[b] THEN "" ELSE "bwrite"
  /\ Goto(p, "iderw") /\ chan' = [chan EXCEPT ![p] = b]
  /\ UNCHANGED <<blockno, busy, valid, mru, ide, want, held>>

\* The buffers that log_write() has marked and nobody is writing home.
InIO(p) == pc[p] \in {"iderw", "sleep ide", "ide"}
Pinned == {b \in Buf : dirty[b] /\ \A p \in Proc : ~(InIO(p) /\ chan[p] = b)}

\* It leaves the writing to the log: log_write().
Pin(p, b) ==
  /\ Change(p, b) /\ (dirty[b] \/ Cardinality(Pinned) < MaxPins)
  /\ UNCHANGED <<blockno, busy, valid, mru, ide, pc, want, chan, held, panicked>>

\* install_trans(): bwrite() of a pinned block as it is.
Install(p, b) ==
  /\ At(p, "user") /\ b \in held[p] /\ dirty[b]
  /\ panicked' = IF busy[b] THEN "" ELSE "bwrite"
  /\ Goto(p, "iderw") /\ chan' = [chan EXCEPT ![p] = b]
  /\ UNCHANGED <<buf, mru, ide, cur, want, held, n>>

\* Mutant: brelse() wakes no one.
BrelseWakesNot(q, b) == q
BrelseWakes(q, b) == Wakeup(q, b)

\* The list with b moved to its front.
Front(b) ==
  [k \in 1 .. NBUF |-> IF k = 1 THEN b
                       ELSE IF \E j \in k .. NBUF : mru[j] = b THEN mru[k - 1] ELSE mru[k]]

Brelse(p, b) ==
  /\ At(p, "user") /\ b \in held[p]
  /\ panicked' = IF busy[b] THEN "" ELSE "brelse"
  /\ mru' = Front(b)
  /\ busy' = [busy EXCEPT ![b] = FALSE]
  /\ held' = [held EXCEPT ![p] = @ \ {b}]
  /\ pc' = BrelseWakes(pc, b)
  /\ UNCHANGED <<blockno, valid, dirty, data, ide, cur, want, chan, n>>

-----------------------------------------------------------------------------

InKernel(p) == BgetHit(p) \/ BgetSleep(p) \/ BgetMiss(p) \/ BgetFull(p) \/ Iderw(p) \/ IdeAgain(p)

Step(p) ==
  \/ \E k \in Block : Bread(p, k)
  \/ InKernel(p)
  \/ \E b \in Buf : Bwrite(p, b) \/ Pin(p, b) \/ Install(p, b) \/ Brelse(p, b)

Next == (\E p \in Proc : Step(p)) \/ DiskDone

Spec == Init /\ [][Next]_vars

\* A process that has the lock it needs gets on, and in the end lets go of what
\* it holds; the disk answers.
Fairness ==
  /\ WF_vars(DiskDone)
  /\ \A p \in Proc : WF_vars(InKernel(p)) /\ WF_vars(\E b \in Buf : Brelse(p, b))

FairSpec == Spec /\ Fairness

-----------------------------------------------------------------------------
(* Properties                                                              *)

\* A block is never in two buffers, and a process that bread() gave a buffer to is
\* its only holder and sees what was last put into the block, by whomever and
\* through whichever buffer: no recycled, half-read or overtaken data.
HolderCurrent ==
  /\ \A b, c \in Buf : blockno[b] = blockno[c] /\ blockno[b] # 0 => b = c
  /\ \A p \in Proc : pc[p] = "user" =>
       \A b \in held[p] :
         /\ busy[b] /\ valid[b] /\ data[b] = cur[blockno[b]]
         /\ \A q \in Proc \ {p} : b \notin held[q]

\* What is in no dirty buffer is on the disk: bget() can forget a clean buffer
\* and read the block again.
CleanIsOnDisk ==
  \A k \in Block : (\A b \in Buf : blockno[b] = k => ~dirty[b]) => disk[k] = cur[k]

\* iderw() never meets a buffer that is free or has nothing to do, nor bwrite()
\* or brelse() one that is free.
NoMisuse == panicked \in {"", "bget"}

\* The buffer cache shows every process what was last put into a block, may
\* forget what is clean, and is never used in a way that it panics at, whoever
\* sleeps, is woken by the disk or by brelse(), and finds its buffer recycled.
CacheCurrent == HolderCurrent /\ CleanIsOnDisk /\ NoMisuse

\* The sleeps on a buffer, for its holder and for the disk, share one channel;
\* nobody's call is stuck in either, unless bget() has found no buffer.
CallsReturn == \A p \in Proc : pc[p] # "user" ~> (pc[p] = "user" \/ panicked # "")
=============================================================================
