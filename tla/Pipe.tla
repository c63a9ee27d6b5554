-------------------------------- MODULE Pipe --------------------------------
(***************************************************************************)
(* Kernel pipes (project4/pipe.c), with the references to the file of each *)
(* end (file.c: filedup() by fork(), fileclose() by close() and exit())    *)
(* and the kill() that can interrupt a reader or writer (proc.c).          *)
(*                                                                         *)
(* p->lock is explicit and a step handles one byte; a critical section of  *)
(* ftable.lock is one step.  sleep() is atomic (see SleepWakeup); the test *)
(* of proc->killed and the sleep after it are two steps, because kill()    *)
(* does not take p->lock.  A process uses one of the two ends.             *)
(***************************************************************************)
EXTENDS Integers, Sequences, FiniteSets

CONSTANTS Writer, Reader,  \* the processes that use the write or the read end
          Late,            \* those of them that fork() makes later on
          Nobody,          \* a free p->lock
          PIPESIZE,
          Width,           \* bits of the uints nread and nwrite
          WriteLen,        \* n of write(fd, addr, n)
          ReadLen,         \* n of read(fd, addr, n)
          MaxWrites        \* bound: write calls of each writer

ASSUME PipeAssumption ==
  /\ Writer \cap Reader = {} /\ Nobody \notin Writer \cup Reader
  /\ IsFiniteSet(Writer) /\ IsFiniteSet(Reader)
  /\ ~(Writer \subseteq Late) /\ ~(Reader \subseteq Late)
  /\ PIPESIZE \in Nat \ {0} /\ Width \in Nat
  /\ PIPESIZE < 2^Width /\ 2^Width % PIPESIZE = 0
  /\ WriteLen \in Nat /\ ReadLen \in Nat \ {0} /\ MaxWrites \in Nat

UINT == 2^Width
Proc == Writer \cup Reader

VARIABLES
  lock,                  \* holder of p->lock
  data,                  \* [0 .. PIPESIZE - 1 -> Nat]: the number of each byte
  nread, nwrite,         \* 0 .. UINT - 1
  readopen, writeopen,
  freed,                 \* how often kfree() was called for the page
  readref, writeref,     \* f->ref of the files of the two ends
  pc,                    \* [Proc -> PC]
  i,                     \* [Proc -> Nat]: the loop variable of the call
  calls,                 \* [Proc -> Nat]: finished write calls
  open,                  \* [Proc -> BOOLEAN]: proc->ofile has the file of its end
  killed,                \* [Proc -> BOOLEAN]
  panicked,              \* of filedup() or fileclose()
  sent, rcvd             \* history: bytes put into and taken from the pipe,
                         \* and rcvd is the sequence of their numbers

vars == <<lock, data, nread, nwrite, readopen, writeopen, freed, readref, writeref, pc, i,
          calls, open, killed, panicked, sent, rcvd>>

PC == {"unborn", "user", "write", "wsleep", "wasleep", "wtest", "rtest", "rsleep", "rasleep",
       "copy", "close", "shut", "kfree"}

TypeOK ==
  /\ lock \in Proc \cup {Nobody}
  /\ data \in [0 .. PIPESIZE - 1 -> Nat]
  /\ nread \in 0 .. UINT - 1 /\ nwrite \in 0 .. UINT - 1
  /\ readopen \in BOOLEAN /\ writeopen \in BOOLEAN /\ freed \in Nat
  /\ readref \in Int /\ writeref \in Int
  /\ pc \in [Proc -> PC]
  /\ i \in [Proc -> Nat]
  /\ calls \in [Proc -> 0 .. MaxWrites]
  /\ open \in [Proc -> BOOLEAN]
  /\ killed \in [Proc -> BOOLEAN]
  /\ panicked \in BOOLEAN
  /\ sent \in Nat /\ rcvd \in Seq(Nat)

\* pipealloc() made the files, and fork() the first processes that share them.
Init ==
  /\ lock = Nobody
  /\ data = [k \in 0 .. PIPESIZE - 1 |-> 0]
  /\ nread = 0 /\ nwrite = 0
  /\ readopen = TRUE /\ writeopen = TRUE /\ freed = 0
  /\ readref = Cardinality(Reader \ Late) /\ writeref = Cardinality(Writer \ Late)
  /\ pc = [p \in Proc |-> IF p \in Late THEN "unborn" ELSE "user"]
  /\ i = [p \in Proc |-> 0]
  /\ calls = [p \in Proc |-> 0]
  /\ open = [p \in Proc |-> p \notin Late]
  /\ killed = [p \in Proc |-> FALSE]
  /\ panicked = FALSE
  /\ sent = 0 /\ rcvd = <<>>

ends == <<readopen, writeopen, freed, readref, writeref, panicked>>
pipe == <<data, nread, nwrite, ends>>
rest == <<calls, open, killed>>

At(p, l) == pc[p] = l /\ lock = p
Goto(p, l) == pc' = [pc EXCEPT ![p] = l]

\* wakeup(&nread) wakes "rasleep", wakeup(&nwrite) wakes "wasleep": those
\* processes are at l afterwards, and must get p->lock again.
Woken(from, to) == [p \in Proc |-> IF pc[p] = from THEN to ELSE pc[p]]

Full  == nwrite = (nread + PIPESIZE) % UINT
Empty == nread = nwrite

-----------------------------------------------------------------------------
(* pipewrite                                                               *)

\* A call, or a woken writer: acquire(&p->lock).
WriteAcquire(p) ==
  /\ lock = Nobody /\ lock' = p
  /\ \/ pc[p] = "user" /\ ~killed[p] /\ open[p] /\ calls[p] < MaxWrites
        /\ i' = [i EXCEPT ![p] = 0]
     \/ pc[p] = "wtest" /\ UNCHANGED i
  /\ Goto(p, "write")
  /\ UNCHANGED <<pipe, rest, sent, rcvd>>

\* Mutant: a full pipe is overwritten.
WriteByteUnchecked(p) ==
  /\ At(p, "write") /\ i[p] < WriteLen
  /\ data' = [data EXCEPT ![nwrite % PIPESIZE] = sent + 1]
  /\ nwrite' = (nwrite + 1) % UINT
  /\ i' = [i EXCEPT ![p] = @ + 1]
  /\ sent' = sent + 1
  /\ UNCHANGED <<lock, nread, ends, pc, rest, rcvd>>

WriteByte(p) ==
  /\ At(p, "write") /\ i[p] < WriteLen /\ ~Full
  /\ data' = [data EXCEPT ![nwrite % PIPESIZE] = sent + 1]
  /\ nwrite' = (nwrite + 1) % UINT
  /\ i' = [i EXCEPT ![p] = @ + 1]
  /\ sent' = sent + 1
  /\ UNCHANGED <<lock, nread, ends, pc, rest, rcvd>>

\* Full, and no reader is left or the process was killed: return -1.
WriteFail(p) ==
  /\ At(p, "write") /\ i[p] < WriteLen /\ Full
  /\ ~readopen \/ killed[p]
  /\ lock' = Nobody
  /\ Goto(p, "user")
  /\ calls' = [calls EXCEPT ![p] = @ + 1]
  /\ UNCHANGED <<pipe, i, open, killed, sent, rcvd>>

\* Full: wakeup(&p->nread), and on to sleep().
WriteFull(p) ==
  /\ At(p, "write") /\ i[p] < WriteLen /\ Full
  /\ readopen /\ ~killed[p]
  /\ pc' = [Woken("rasleep", "rtest") EXCEPT ![p] = "wsleep"]
  /\ UNCHANGED <<lock, pipe, i, rest, sent, rcvd>>

\* sleep(&p->nwrite, &p->lock).
WriteSleep(p) ==
  /\ At(p, "wsleep")
  /\ lock' = Nobody
  /\ Goto(p, "wasleep")
  /\ UNCHANGED <<pipe, i, rest, sent, rcvd>>

\* wakeup(&p->nread); release; return n.
WriteDone(p) ==
  /\ At(p, "write") /\ i[p] = WriteLen
  /\ lock' = Nobody
  /\ pc' = [Woken("rasleep", "rtest") EXCEPT ![p] = "user"]
  /\ calls' = [calls EXCEPT ![p] = @ + 1]
  /\ UNCHANGED <<pipe, i, open, killed, sent, rcvd>>

-----------------------------------------------------------------------------
(* piperead                                                                *)

ReadAcquire(p) ==
  /\ lock = Nobody /\ lock' = p
  /\ \/ pc[p] = "user" /\ ~killed[p] /\ open[p]
     \/ pc[p] = "rtest"
  /\ i' = [i EXCEPT ![p] = 0]
  /\ Goto(p, "rtest")
  /\ UNCHANGED <<pipe, rest, sent, rcvd>>

\* Empty, a writer is left, but the process was killed: return -1.
ReadFail(p) ==
  /\ At(p, "rtest") /\ Empty /\ writeopen /\ killed[p]
  /\ lock' = Nobody
  /\ Goto(p, "user")
  /\ UNCHANGED <<pipe, i, rest, sent, rcvd>>

\* Empty: on to sleep().
ReadEmpty(p) ==
  /\ At(p, "rtest") /\ Empty /\ writeopen /\ ~killed[p]
  /\ Goto(p, "rsleep")
  /\ UNCHANGED <<lock, pipe, i, rest, sent, rcvd>>

\* sleep(&p->nread, &p->lock).
ReadSleep(p) ==
  /\ At(p, "rsleep")
  /\ lock' = Nobody
  /\ Goto(p, "rasleep")
  /\ UNCHANGED <<pipe, i, rest, sent, rcvd>>

\* Mutant: a pipe without writers is not at its end.
ReadReadyNoEOF(p) ==
  /\ At(p, "rtest") /\ ~Empty
  /\ Goto(p, "copy")
  /\ UNCHANGED <<lock, pipe, i, rest, sent, rcvd>>

\* Data, or no writer: leave the loop.
ReadReady(p) ==
  /\ At(p, "rtest") /\ (~Empty \/ ~writeopen)
  /\ Goto(p, "copy")
  /\ UNCHANGED <<lock, pipe, i, rest, sent, rcvd>>

ReadByte(p) ==
  /\ At(p, "copy") /\ i[p] < ReadLen /\ ~Empty
  /\ rcvd' = Append(rcvd, data[nread % PIPESIZE])
  /\ nread' = (nread + 1) % UINT
  /\ i' = [i EXCEPT ![p] = @ + 1]
  /\ UNCHANGED <<lock, data, nwrite, ends, pc, rest, sent>>

\* wakeup(&p->nwrite); release; return i.
ReadDone(p) ==
  /\ At(p, "copy") /\ (i[p] = ReadLen \/ Empty)
  /\ lock' = Nobody
  /\ pc' = [Woken("wasleep", "wtest") EXCEPT ![p] = "user"]
  /\ UNCHANGED <<pipe, i, rest, sent, rcvd>>

-----------------------------------------------------------------------------
(* fork, close, exit and kill                                              *)

\* fork() of a process that uses the same end: filedup() of its file.
Fork(p, q) ==
  /\ pc[p] = "user" /\ ~killed[p] /\ open[p] /\ pc[q] = "unborn"
  /\ Goto(q, "user")
  /\ open' = [open EXCEPT ![q] = TRUE]
  /\ \/ {p, q} \subseteq Reader
        /\ readref' = readref + 1 /\ panicked' = (readref < 1) /\ UNCHANGED writeref
     \/ {p, q} \subseteq Writer
        /\ writeref' = writeref + 1 /\ panicked' = (writeref < 1) /\ UNCHANGED readref
  /\ UNCHANGED <<lock, data, nread, nwrite, readopen, writeopen, freed, i, calls, killed, sent, rcvd>>

\* fileclose() of a read end, by close() or exit(): the process that drops the
\* last reference goes on to pipeclose(p, 0).
CloseRead(p) ==
  /\ pc[p] = "user" /\ open[p]
  /\ open' = [open EXCEPT ![p] = FALSE]
  /\ panicked' = (readref < 1)
  /\ readref' = readref - 1
  /\ Goto(p, IF readref > 1 THEN "user" ELSE "close")
  /\ UNCHANGED <<lock, data, nread, nwrite, readopen, writeopen, freed, writeref, i, calls, killed,
                 sent, rcvd>>

\* The same for a write end, and pipeclose(p, 1).
CloseWrite(p) ==
  /\ pc[p] = "user" /\ open[p]
  /\ open' = [open EXCEPT ![p] = FALSE]
  /\ panicked' = (writeref < 1)
  /\ writeref' = writeref - 1
  /\ Goto(p, IF writeref > 1 THEN "user" ELSE "close")
  /\ UNCHANGED <<lock, data, nread, nwrite, readopen, writeopen, freed, readref, i, calls, killed,
                 sent, rcvd>>

\* pipeclose(p, 0): acquire(&p->lock); p->readopen = 0; wakeup(&p->nwrite).
ShutRead(p) ==
  /\ pc[p] = "close" /\ lock = Nobody /\ lock' = p
  /\ readopen' = FALSE
  /\ pc' = [Woken("wasleep", "wtest") EXCEPT ![p] = "shut"]
  /\ UNCHANGED <<data, nread, nwrite, writeopen, freed, readref, writeref, panicked, i, rest, sent, rcvd>>

\* pipeclose(p, 1): acquire(&p->lock); p->writeopen = 0; wakeup(&p->nread).
ShutWrite(p) ==
  /\ pc[p] = "close" /\ lock = Nobody /\ lock' = p
  /\ writeopen' = FALSE
  /\ pc' = [Woken("rasleep", "rtest") EXCEPT ![p] = "shut"]
  /\ UNCHANGED <<data, nread, nwrite, readopen, freed, readref, writeref, panicked, i, rest, sent, rcvd>>

\* Mutant: one closed end is enough to free the page.
LastCloseEither(p) ==
  /\ At(p, "shut")
  /\ lock' = Nobody
  /\ Goto(p, IF ~readopen \/ ~writeopen THEN "kfree" ELSE "user")
  /\ UNCHANGED <<pipe, i, rest, sent, rcvd>>

\* The test of both ends and release(&p->lock).
LastClose(p) ==
  /\ At(p, "shut")
  /\ lock' = Nobody
  /\ Goto(p, IF ~readopen /\ ~writeopen THEN "kfree" ELSE "user")
  /\ UNCHANGED <<pipe, i, rest, sent, rcvd>>

\* kfree((char*)p), without a lock.
Kfree(p) ==
  /\ pc[p] = "kfree"
  /\ freed' = freed + 1
  /\ Goto(p, "user")
  /\ UNCHANGED <<lock, data, nread, nwrite, readopen, writeopen, readref, writeref, panicked, i, rest,
                 sent, rcvd>>

\* kill(): wakes the process if it sleeps; p->lock is not involved.
Kill(p) ==
  /\ ~killed[p] /\ open[p]
  /\ killed' = [killed EXCEPT ![p] = TRUE]
  /\ pc' = [pc EXCEPT ![p] = CASE @ = "wasleep" -> "wtest"
                               [] @ = "rasleep" -> "rtest"
                               [] OTHER -> @]
  /\ UNCHANGED <<lock, pipe, i, calls, open, sent, rcvd>>

WriterNext(p) ==
  \/ WriteAcquire(p) \/ WriteByte(p) \/ WriteFail(p) \/ WriteFull(p)
  \/ WriteSleep(p) \/ WriteDone(p)

ReaderNext(p) ==
  \/ ReadAcquire(p) \/ ReadFail(p) \/ ReadEmpty(p) \/ ReadSleep(p)
  \/ ReadReady(p) \/ ReadByte(p) \/ ReadDone(p)

\* pipeclose(), in which nothing can interrupt the process.
Pipeclose(p) ==
  \/ p \in Reader /\ ShutRead(p)
  \/ p \in Writer /\ ShutWrite(p)
  \/ LastClose(p) \/ Kfree(p)

Next ==
  \/ \E p \in Writer : WriterNext(p) \/ CloseWrite(p)
  \/ \E p \in Reader : ReaderNext(p) \/ CloseRead(p)
  \/ \E p \in Proc : Pipeclose(p) \/ Kill(p)
  \/ \E p, q \in Proc : Fork(p, q)

Spec == Init /\ [][Next]_vars

(***************************************************************************)
(* Every process is scheduled and, on one CPU, finds p->lock free again    *)
(* and again (Spinlock, Proc); a writer that has written everything, and   *)
(* any killed process, exits; a reader reads to the end of the file.       *)
(***************************************************************************)
FairSpec ==
  /\ Spec
  /\ \A p \in Writer :
       /\ SF_vars(WriterNext(p))
       /\ SF_vars((killed[p] \/ calls[p] = MaxWrites) /\ CloseWrite(p))
  /\ \A p \in Reader :
       /\ SF_vars(ReaderNext(p))
       /\ SF_vars((killed[p] \/ (Empty /\ ~writeopen)) /\ CloseRead(p))
  /\ \A p \in Proc : SF_vars(Pipeclose(p))

-----------------------------------------------------------------------------
(* Properties.                                                             *)

\* The bytes come out once each and in the order in which they went in, over
\* sleeps, several writers and readers, and the wrap of nread and nwrite.
FirstInFirstOut ==
  /\ \A k \in 1 .. Len(rcvd) : rcvd[k] = k
  /\ sent - Len(rcvd) = (nwrite + UINT - nread) % UINT
  /\ sent - Len(rcvd) <= PIPESIZE

\* However the last references to the two ends are dropped, by processes that
\* close and fork at the same time, pipeclose() frees the page once at most, and
\* when nobody is inside the pipe or can still get there; readers see the end
\* of the file only when no writer is left; and file.c does not panic.
FreedUnused ==
  /\ freed <= 1 /\ ~panicked
  /\ freed = 1 => lock = Nobody /\ \A p \in Proc : ~open[p] /\ pc[p] \in {"user", "unborn"}
  /\ ~writeopen => \A p \in Writer : ~open[p] /\ pc[p] \notin {"write", "wsleep", "wasleep", "wtest"}

\* Readers and writers never wait for each other for ever: everybody finishes,
\* and the page of the pipe is freed.
EverybodyFinishes == <>(freed = 1 /\ \A p \in Proc : ~open[p])
=============================================================================
