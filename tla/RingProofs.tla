----------------------------- MODULE RingProofs -----------------------------
(***************************************************************************)
(* Proofs about the three rings of the system, each with indices that only *)
(* grow or wrap: the kernel's pipes (Pipe), the user-level pipe (UPipe)    *)
(* and the console's input (Console).  What comes out is what went in,     *)
(* once each and in order, for any size of the ring, any number of         *)
(* processes and any order of their steps; and the page of a kernel pipe   *)
(* is freed when nobody can use it.                                        *)
(***************************************************************************)
EXTENDS Pipe, Rings, Integers, FiniteSetTheorems, WellFoundedInduction, TLAPS

-----------------------------------------------------------------------------
(* Kernel pipes: the inductive invariant.                                  *)

\* The counters are the numbers of bytes put in and taken out, wrapped; the
\* bytes between them are in data, byte k in slot (k - 1) % PIPESIZE.
RingInv ==
  /\ nread = Len(rcvd) % UINT /\ nwrite = sent % UINT
  /\ Len(rcvd) <= sent /\ sent <= Len(rcvd) + PIPESIZE
  /\ \A k \in 1 .. Len(rcvd) : rcvd[k] = k
  /\ \A k \in Len(rcvd) + 1 .. sent : data[(k - 1) % PIPESIZE] = k

Calling == {"write", "wsleep", "wasleep", "wtest", "rtest", "rsleep", "rasleep", "copy"}
Closing == {"close", "shut", "kfree"}

\* The processes that have an end open.
Opens(E) == {p \in E : open[p]}

\* A process in a call has its end open, and one in pipeclose() has not.
CallsInv ==
  \A p \in Proc : /\ pc[p] \in Calling => open[p]
                  /\ pc[p] \in Closing \cup {"unborn"} => ~open[p]

\* p->lock is held in the places that hold it, and there only.
LockInv ==
  /\ \A p \in Proc : pc[p] \in {"write", "wsleep", "rsleep", "copy", "shut"} => lock = p
  /\ lock # Nobody => pc[lock] \in {"write", "wsleep", "rtest", "rsleep", "copy", "shut"}

\* f->ref counts the processes that have the end open.  One process is in
\* pipeclose() for it, when none has it open, and the flag falls on its way.
\* (P is pc, and n the number of those processes.)
EndInv(E, P, n, ref, flag) ==
  /\ ref = n
  /\ flag \/ ref = 0
  /\ \A p \in E : /\ P[p] \in Closing => ref = 0
                  /\ P[p] = "close" => flag
                  /\ P[p] \in {"shut", "kfree"} => ~flag
  /\ \A p, q \in E : P[p] \in Closing /\ P[q] \in Closing => p = q

\* kfree() is called by the last process in pipeclose(), with both flags down.
FreeInv ==
  /\ freed \in {0, 1}
  /\ \A p \in Proc : pc[p] = "kfree" =>
       /\ ~readopen /\ ~writeopen /\ freed = 0
       /\ \A q \in Proc : pc[q] \in Closing => q = p
  /\ freed = 1 => ~readopen /\ ~writeopen /\ \A q \in Proc : pc[q] \notin Closing

OpenInv ==
  /\ CallsInv /\ LockInv /\ ~panicked
  /\ EndInv(Reader, pc, Cardinality(Opens(Reader)), readref, readopen)
  /\ EndInv(Writer, pc, Cardinality(Opens(Writer)), writeref, writeopen)
  /\ FreeInv

\* A write in progress is one of those that MaxWrites allows.
CallInv ==
  \A p \in Proc : pc[p] \in {"write", "wsleep", "wasleep", "wtest"} => calls[p] < MaxWrites

IInv == TypeOK /\ RingInv /\ OpenInv /\ CallInv

-----------------------------------------------------------------------------
(* Arithmetic.                                                             *)

\* Division with remainder.
LEMMA ModDef ==
  \A a \in Int, m \in Nat \ {0} :
    /\ a \div m \in Int /\ a % m \in 0 .. m - 1
    /\ a = m * (a \div m) + (a % m)
OBVIOUS

\* The remainder is unique.
LEMMA ModUnique ==
  \A a, q, r \in Int, m \in Nat \ {0} : a = m * q + r /\ r \in 0 .. m - 1 => a % m = r
OBVIOUS

\* A counter that wraps at m can be incremented before or after the wrap.
LEMMA ModAdd ==
  ASSUME NEW a \in Int, NEW b \in Int, NEW m \in Nat \ {0}
  PROVE  ((a % m) + b) % m = (a + b) % m
<1> DEFINE q == a \div m
           r == a % m
           k == (r + b) \div m
           s == (r + b) % m
<1>1. q \in Int /\ r \in 0 .. m - 1 /\ a = m * q + r
  BY ModDef
<1>2. r \in Int /\ r + b \in Int
  BY <1>1
<1>3. k \in Int /\ s \in 0 .. m - 1 /\ r + b = m * k + s
  <2> HIDE DEF r
  <2> QED BY <1>2, ModDef, Zenon
<1> HIDE DEF q, r, k, s
<1>4. s \in Int /\ q + k \in Int /\ a + b \in Int
  BY <1>1, <1>3
<1>5. a + b = m * (q + k) + s
  BY <1>1, <1>2, <1>3, <1>4
<1>6. (a + b) % m = s
  BY <1>3, <1>4, <1>5, ModUnique, ZenonT(40)
<1> QED BY <1>6 DEF r, s

\* A wrap at a multiple of p does not disturb the remainder modulo p.
LEMMA ModMod ==
  ASSUME NEW a \in Int, NEW m \in Nat \ {0}, NEW p \in Nat \ {0}, m % p = 0
  PROVE  (a % m) % p = a % p
<1> DEFINE q == a \div m
           r == a % m
           k == r \div p
           s == r % p
           n == m \div p
           w == n * q + k
<1>1. q \in Int /\ r \in 0 .. m - 1 /\ a = m * q + r
  BY ModDef
<1>2. r \in Int /\ m \in Int
  BY <1>1
<1>3. k \in Int /\ s \in 0 .. p - 1 /\ r = p * k + s
  <2> HIDE DEF r
  <2> QED BY <1>2, ModDef, Zenon
<1>4. n \in Int /\ m = p * n + (m % p)
  BY <1>2, ModDef, Zenon
<1> HIDE DEF q, r, k, s, n
<1>5. n \in Int /\ m = p * n
  BY <1>4
<1>6. s \in Int /\ w \in Int
  BY <1>1, <1>3, <1>5
<1>7. a = p * w + s
  BY <1>1, <1>3, <1>5, <1>6
<1> HIDE DEF w
<1>8. a % p = s
  BY <1>3, <1>6, <1>7, ModUnique, ZenonT(40)
<1> QED BY <1>8 DEF r, s

\* Numbers less than m apart are told apart by their remainders.
LEMMA ModClose ==
  ASSUME NEW a \in Int, NEW b \in Int, NEW m \in Nat \ {0}, a <= b, b - a < m,
         a % m = b % m
  PROVE  a = b
<1> DEFINE q == a \div m
           k == b \div m
           r == a % m
<1>1. q \in Int /\ k \in Int /\ r \in 0 .. m - 1 /\ a = m * q + r /\ b = m * k + r
  BY ModDef
<1> HIDE DEF q, k, r
<1>3. b - a = m * (k - q)
  BY <1>1
<1>4. k - q = 0
  BY <1>1, <1>3
<1> QED BY <1>1, <1>3, <1>4
\* The range of nread and nwrite, and the buffer that divides it.
LEMMA SizeFacts ==
  /\ UINT \in Nat \ {0} /\ PIPESIZE \in Nat \ {0}
  /\ PIPESIZE < UINT /\ UINT % PIPESIZE = 0
BY PipeAssumption DEF UINT

\* A multiple of n plus or minus n, and the next multiple.
LEMMA Multiples ==
  ASSUME NEW n \in Nat \ {0}, NEW a \in Nat, NEW b \in Nat, a % n = 0, b % n = 0
  PROVE  /\ a < b => a + n <= b
         /\ (a + n) % n = 0 /\ (a - n) % n = 0
<1> DEFINE q == a \div n
           k == b \div n
           more == a + n
           less == a - n
           up1 == q + 1
           down1 == q - 1
           z == 0
<1>1. q \in Int /\ k \in Int /\ a = n * q + (a % n) /\ b = n * k + (b % n)
  BY ModDef
<1> HIDE DEF q, k
<1>2. a = n * q /\ b = n * k
  BY <1>1
<1>3. a < b => a + n <= b
  <2> SUFFICES ASSUME a < b PROVE a + n <= b
    OBVIOUS
  <2>1. q < k
    BY <1>1, <1>2
  <2>2. n * (q + 1) <= n * k
    BY <1>1, <2>1
  <2> QED
    BY <1>1, <1>2, <2>2
<1>4. more = n * up1 + z /\ less = n * down1 + z
  BY <1>1, <1>2
<1>5. up1 \in Int /\ down1 \in Int /\ more \in Int /\ less \in Int /\ z \in Int /\ z \in 0 .. n - 1
  BY <1>1
<1> HIDE DEF more, less, up1, down1, z
<1>6. more % n = z
  BY <1>4, <1>5, ModUnique, ZenonT(40)
<1>7. less % n = z
  BY <1>4, <1>5, ModUnique, ZenonT(40)
<1> QED
  BY <1>3, <1>6, <1>7 DEF more, less, z

\* The lemmas above for the two moduli of the pipe.
LEMMA RingArith ==
  ASSUME NEW n \in Nat
  PROVE  /\ n % UINT \in 0 .. UINT - 1 /\ n % PIPESIZE \in 0 .. PIPESIZE - 1
         /\ (n % UINT) % PIPESIZE = n % PIPESIZE
         /\ \A k \in Int : ((n % UINT) + k) % UINT = (n + k) % UINT
<1>1. n \in Int
  OBVIOUS
<1> QED
  BY <1>1, SizeFacts, ModDef, ModMod, ModAdd, ZenonT(40)

\* Counts less than a wrap apart are told apart.
LEMMA RingClose ==
  /\ \A a, b \in Int : a <= b /\ b - a < UINT /\ a % UINT = b % UINT => a = b
  /\ \A a, b \in Int : a <= b /\ b - a < PIPESIZE /\ a % PIPESIZE = b % PIPESIZE => a = b
BY SizeFacts, ModClose, Zenon

-----------------------------------------------------------------------------
(* Steps.                                                                  *)

\* A step of a process, as Next has it.
Step(p) ==
  \/ p \in Writer /\ (WriterNext(p) \/ CloseWrite(p))
  \/ p \in Reader /\ (ReaderNext(p) \/ CloseRead(p))
  \/ Pipeclose(p) \/ Kill(p) \/ \E q \in Proc : Fork(p, q)

\* Every action keeps the types.
LEMMA TypeStep ==
  ASSUME TypeOK, CallInv, NEW p \in Proc, Step(p)
  PROVE  TypeOK'
<1> USE DEF TypeOK, PC, Proc, At, Goto, pipe, ends, rest, Woken
<1>0. \A n \in Nat : n % UINT \in 0 .. UINT - 1
  BY RingArith
<1>1. CASE WriteAcquire(p)
  <2>1. i' = [i EXCEPT ![p] = 0] \/ i' = i
    BY <1>1, Zenon DEF WriteAcquire
  <2>2. i' \in [Proc -> Nat]
    <3>1. CASE i' = [i EXCEPT ![p] = 0]
      BY <3>1
    <3>2. CASE i' = i
      BY <3>2
    <3> QED
      BY <2>1, <3>1, <3>2, Zenon
  <2> QED
    BY <1>1, <2>2 DEF WriteAcquire
<1>2. CASE WriteByte(p)
  <2>1. nwrite + 1 \in Nat
    OBVIOUS
  <2>2. nwrite' \in 0 .. UINT - 1
    BY <1>0, <1>2, <2>1 DEF WriteByte
  <2>3. sent' \in Nat
    BY <1>2 DEF WriteByte
  <2>4. data' \in [0 .. PIPESIZE - 1 -> Nat]
    <3> DEFINE k == nwrite % PIPESIZE
               b == sent + 1
    <3>1. data' = [data EXCEPT ![k] = b] /\ b \in Nat
      BY <1>2 DEF WriteByte
    <3> HIDE DEF k, b
    <3> QED
      BY <3>1
  <2>5. i' \in [Proc -> Nat]
    BY <1>2 DEF WriteByte
  <2> QED
    BY <1>2, <2>2, <2>3, <2>4, <2>5 DEF WriteByte
<1>3. CASE WriteFail(p)
  <2>1. /\ lock' = Nobody /\ pc' = [pc EXCEPT ![p] = "user"] /\ calls' = [calls EXCEPT ![p] = @ + 1]
        /\ pc[p] = "write" /\ UNCHANGED <<pipe, i, open, killed, sent, rcvd>>
    BY <1>3, Zenon DEF WriteFail
  <2>2. calls' \in [Proc -> 0 .. MaxWrites]
    <3>1. MaxWrites \in Nat
      BY PipeAssumption
    <3>2. calls[p] \in 0 .. MaxWrites /\ calls[p] < MaxWrites
      BY <2>1, Zenon DEF CallInv
    <3>3. calls[p] + 1 \in 0 .. MaxWrites
      <4> HIDE DEF TypeOK
      <4> QED BY <3>1, <3>2
    <3> QED BY <2>1, <3>3, Zenon
  <2> QED BY <2>1, <2>2
<1>4. CASE WriteFull(p)
  BY <1>4 DEF WriteFull
<1>5. CASE WriteSleep(p)
  BY <1>5 DEF WriteSleep
<1>6. CASE WriteDone(p)
  <2>1. /\ lock' = Nobody /\ pc' = [Woken("rasleep", "rtest") EXCEPT ![p] = "user"]
        /\ calls' = [calls EXCEPT ![p] = @ + 1]
        /\ pc[p] = "write" /\ UNCHANGED <<pipe, i, open, killed, sent, rcvd>>
    BY <1>6, Zenon DEF WriteDone
  <2>2. calls' \in [Proc -> 0 .. MaxWrites]
    <3>1. MaxWrites \in Nat
      BY PipeAssumption
    <3>2. calls[p] \in 0 .. MaxWrites /\ calls[p] < MaxWrites
      BY <2>1, Zenon DEF CallInv
    <3>3. calls[p] + 1 \in 0 .. MaxWrites
      <4> HIDE DEF TypeOK
      <4> QED BY <3>1, <3>2
    <3> QED BY <2>1, <3>3, Zenon
  <2>3. pc' \in [Proc -> PC]
    BY <2>1
  <2> QED BY <2>1, <2>2, <2>3
<1>7. CASE ReadAcquire(p)
  BY <1>7 DEF ReadAcquire
<1>8. CASE ReadFail(p)
  BY <1>8 DEF ReadFail
<1>9. CASE ReadEmpty(p)
  BY <1>9 DEF ReadEmpty
<1>10. CASE ReadSleep(p)
  BY <1>10 DEF ReadSleep
<1>11. CASE ReadReady(p)
  BY <1>11 DEF ReadReady
<1>12. CASE ReadByte(p)
  <2>1. nread \in Nat /\ nread + 1 \in Nat
    OBVIOUS
  <2>2. nread % PIPESIZE \in 0 .. PIPESIZE - 1
    BY <2>1, RingArith
  <2>3. rcvd' \in Seq(Nat)
    BY <1>12, <2>2 DEF ReadByte
  <2>4. nread' \in 0 .. UINT - 1
    BY <1>0, <1>12, <2>1 DEF ReadByte
  <2> QED
    BY <1>12, <2>3, <2>4, SMTT(40) DEF ReadByte
<1>13. CASE ReadDone(p)
  BY <1>13 DEF ReadDone
<1>14. CASE CloseRead(p)
  BY <1>14 DEF CloseRead
<1>15. CASE CloseWrite(p)
  BY <1>15 DEF CloseWrite
<1>16. CASE Kill(p)
  BY <1>16 DEF Kill
<1>17. ASSUME NEW q \in Proc, Fork(p, q) PROVE TypeOK'
  <2>1. /\ pc' = [pc EXCEPT ![q] = "user"] /\ open' = [open EXCEPT ![q] = TRUE]
        /\ UNCHANGED <<lock, data, nread, nwrite, readopen, writeopen, freed, i, calls, killed, sent, rcvd>>
    BY <1>17, Zenon DEF Fork
  <2>2. pc' \in [Proc -> PC] /\ open' \in [Proc -> BOOLEAN]
    BY <2>1
  <2>3. readref' \in Int /\ writeref' \in Int /\ panicked' \in BOOLEAN
    <3>1. CASE readref' = readref + 1 /\ panicked' = (readref < 1) /\ UNCHANGED writeref
      BY <3>1
    <3>2. CASE writeref' = writeref + 1 /\ panicked' = (writeref < 1) /\ UNCHANGED readref
      BY <3>2
    <3> QED BY <1>17, <3>1, <3>2, Zenon DEF Fork
  <2> QED BY <2>1, <2>2, <2>3
<1>18. CASE ShutRead(p)
  BY <1>18 DEF ShutRead
<1>19. CASE ShutWrite(p)
  BY <1>19 DEF ShutWrite
<1>20. CASE LastClose(p)
  BY <1>20 DEF LastClose
<1>21. CASE Kfree(p)
  BY <1>21 DEF Kfree
<1> QED
  BY <1>1, <1>2, <1>3, <1>4, <1>5, <1>6, <1>7, <1>8, <1>9, <1>10, <1>11, <1>12, <1>13, <1>14,
     <1>15, <1>16, <1>17, <1>18, <1>19, <1>20, <1>21, Zenon DEF Step, WriterNext, ReaderNext, Pipeclose

\* The set that an f->ref counts.
LEMMA OpensFacts ==
  ASSUME TypeOK, NEW E, E = Reader \/ E = Writer
  PROVE  /\ IsFiniteSet(Opens(E)) /\ Cardinality(Opens(E)) \in Nat
         /\ \A p \in E : open[p] => Cardinality(Opens(E)) >= 1
<1>1. IsFiniteSet(E) /\ Opens(E) \subseteq E
  BY PipeAssumption DEF Opens
<1>2. IsFiniteSet(Opens(E))
  BY <1>1, FS_Subset
<1>3. Cardinality(Opens(E)) \in Nat
  BY <1>2, FS_CardinalityType
<1>4. \A p \in E : open[p] => Cardinality(Opens(E)) >= 1
  <2> SUFFICES ASSUME NEW p \in E, open[p] PROVE Cardinality(Opens(E)) >= 1
    OBVIOUS
  <2>1. Opens(E) # {}
    BY DEF Opens
  <2>2. Cardinality(Opens(E)) # 0
    BY <1>2, <2>1, FS_EmptySet
  <2> QED BY <1>3, <2>2
<1> QED BY <1>2, <1>3, <1>4

\* Nobody is counted: nobody has the end open.
LEMMA NoneOpen ==
  ASSUME TypeOK
  PROVE  /\ Cardinality(Opens(Reader)) = 0 => \A p \in Reader : ~open[p]
         /\ Cardinality(Opens(Writer)) = 0 => \A p \in Writer : ~open[p]
<1>1. ASSUME NEW E, E = Reader \/ E = Writer, Cardinality(Opens(E)) = 0
      PROVE  \A p \in E : ~open[p]
  BY <1>1, OpensFacts
<1> QED BY <1>1

\* One process more or less has the end open.
LEMMA Counted1 ==
  ASSUME TypeOK, NEW E, E = Reader \/ E = Writer, NEW p \in E
  PROVE  /\ ~open[p] /\ open' = [open EXCEPT ![p] = TRUE]
              => Cardinality(Opens(E)') = Cardinality(Opens(E)) + 1
         /\ open[p] /\ open' = [open EXCEPT ![p] = FALSE]
              => Cardinality(Opens(E)') = Cardinality(Opens(E)) - 1
<1>0. E \subseteq Proc /\ p \in Proc /\ DOMAIN open = Proc
  BY DEF Proc, TypeOK
<1>1. IsFiniteSet(Opens(E))
  BY OpensFacts
<1>2. ASSUME ~open[p], open' = [open EXCEPT ![p] = TRUE]
      PROVE  Cardinality(Opens(E)') = Cardinality(Opens(E)) + 1
  <2>1. Opens(E)' = Opens(E) \cup {p} /\ p \notin Opens(E)
    BY <1>0, <1>2 DEF Opens
  <2> QED BY <1>1, <2>1, FS_AddElement
<1>3. ASSUME open[p], open' = [open EXCEPT ![p] = FALSE]
      PROVE  Cardinality(Opens(E)') = Cardinality(Opens(E)) - 1
  <2>1. Opens(E)' = Opens(E) \ {p} /\ p \in Opens(E)
    BY <1>0, <1>3 DEF Opens
  <2> QED BY <1>1, <2>1, FS_RemoveElement
<1> QED BY <1>2, <1>3

\* The other end is not concerned.
LEMMA Uncounted ==
  ASSUME TypeOK, NEW E, E \subseteq Proc, NEW p \in Proc, p \notin E, NEW b,
         open' = [open EXCEPT ![p] = b]
  PROVE  Opens(E)' = Opens(E)
BY DEF Opens, TypeOK

\* The steps of pipewrite(), piperead() and kill() leave the ends alone.
CallStepOf(p) == (p \in Writer /\ WriterNext(p)) \/ (p \in Reader /\ ReaderNext(p)) \/ Kill(p)

LEMMA CallLeavesEnds ==
  ASSUME TypeOK, NEW p \in Proc, CallStepOf(p)
  PROVE  /\ UNCHANGED <<ends, open>>
         /\ \A q \in Proc : /\ pc'[q] = pc[q] \/ {pc'[q], pc[q]} \cap Closing = {}
                            /\ pc'[q] = "unborn" => pc[q] = "unborn"
<1> USE DEF TypeOK, PC, Proc, At, Goto, pipe, rest, Woken, Closing
<1>1. CASE WriteAcquire(p)
  BY <1>1 DEF WriteAcquire
<1>2. CASE WriteByte(p)
  BY <1>2 DEF WriteByte
<1>3. CASE WriteFail(p)
  BY <1>3 DEF WriteFail
<1>4. CASE WriteFull(p)
  BY <1>4 DEF WriteFull
<1>5. CASE WriteSleep(p)
  BY <1>5 DEF WriteSleep
<1>6. CASE WriteDone(p)
  BY <1>6 DEF WriteDone
<1>7. CASE ReadAcquire(p)
  BY <1>7 DEF ReadAcquire
<1>8. CASE ReadFail(p)
  BY <1>8 DEF ReadFail
<1>9. CASE ReadEmpty(p)
  BY <1>9 DEF ReadEmpty
<1>10. CASE ReadSleep(p)
  BY <1>10 DEF ReadSleep
<1>11. CASE ReadReady(p)
  BY <1>11 DEF ReadReady
<1>12. CASE ReadByte(p)
  BY <1>12 DEF ReadByte
<1>13. CASE ReadDone(p)
  BY <1>13 DEF ReadDone
<1>14. CASE Kill(p)
  BY <1>14 DEF Kill
<1> QED
  BY <1>1, <1>2, <1>3, <1>4, <1>5, <1>6, <1>7, <1>8, <1>9, <1>10, <1>11, <1>12, <1>13, <1>14,
     Zenon DEF CallStepOf, WriterNext, ReaderNext

\* Every action keeps calls within open ends.
LEMMA CallsStep ==
  ASSUME TypeOK, OpenInv, NEW p \in Proc, Step(p)
  PROVE  CallsInv'
<1> USE DEF TypeOK, PC, OpenInv, CallsInv, Calling, Closing, Proc, At, Goto, pipe, rest, Woken
<1>1. CASE WriteAcquire(p)
  BY <1>1 DEF WriteAcquire
<1>2. CASE WriteByte(p)
  BY <1>2 DEF WriteByte
<1>3. CASE WriteFail(p)
  BY <1>3 DEF WriteFail
<1>4. CASE WriteFull(p)
  BY <1>4 DEF WriteFull
<1>5. CASE WriteSleep(p)
  BY <1>5 DEF WriteSleep
<1>6. CASE WriteDone(p)
  BY <1>6 DEF WriteDone
<1>7. CASE ReadAcquire(p)
  BY <1>7 DEF ReadAcquire
<1>8. CASE ReadFail(p)
  BY <1>8 DEF ReadFail
<1>9. CASE ReadEmpty(p)
  BY <1>9 DEF ReadEmpty
<1>10. CASE ReadSleep(p)
  BY <1>10 DEF ReadSleep
<1>11. CASE ReadReady(p)
  BY <1>11 DEF ReadReady
<1>12. CASE ReadByte(p)
  BY <1>12 DEF ReadByte
<1>13. CASE ReadDone(p)
  BY <1>13 DEF ReadDone
<1>14. CASE CloseRead(p)
  BY <1>14 DEF CloseRead
<1>15. CASE CloseWrite(p)
  BY <1>15 DEF CloseWrite
<1>16. CASE Kill(p)
  BY <1>16 DEF Kill
<1>17. ASSUME NEW q \in Proc, Fork(p, q) PROVE CallsInv'
  BY <1>17 DEF Fork
<1>18. CASE ShutRead(p)
  BY <1>18 DEF ShutRead
<1>19. CASE ShutWrite(p)
  BY <1>19 DEF ShutWrite
<1>20. CASE LastClose(p)
  BY <1>20 DEF LastClose
<1>21. CASE Kfree(p)
  BY <1>21 DEF Kfree
<1> QED
  BY <1>1, <1>2, <1>3, <1>4, <1>5, <1>6, <1>7, <1>8, <1>9, <1>10, <1>11, <1>12, <1>13, <1>14,
     <1>15, <1>16, <1>17, <1>18, <1>19, <1>20, <1>21, Zenon DEF Step, WriterNext, ReaderNext, Pipeclose

\* Every action takes and gives p->lock where LockInv says.
LEMMA LockStep ==
  ASSUME TypeOK, OpenInv, NEW p \in Proc, Step(p)
  PROVE  LockInv'
<1> USE PipeAssumption DEF TypeOK, PC, OpenInv, LockInv, CallsInv, Calling, Closing, Proc, At, Goto, pipe, rest, Woken
<1>1. CASE WriteAcquire(p)
  BY <1>1 DEF WriteAcquire
<1>2. CASE WriteByte(p)
  BY <1>2 DEF WriteByte
<1>3. CASE WriteFail(p)
  BY <1>3 DEF WriteFail
<1>4. CASE WriteFull(p)
  BY <1>4 DEF WriteFull
<1>5. CASE WriteSleep(p)
  BY <1>5 DEF WriteSleep
<1>6. CASE WriteDone(p)
  BY <1>6 DEF WriteDone
<1>7. CASE ReadAcquire(p)
  BY <1>7 DEF ReadAcquire
<1>8. CASE ReadFail(p)
  BY <1>8 DEF ReadFail
<1>9. CASE ReadEmpty(p)
  BY <1>9 DEF ReadEmpty
<1>10. CASE ReadSleep(p)
  BY <1>10 DEF ReadSleep
<1>11. CASE ReadReady(p)
  BY <1>11 DEF ReadReady
<1>12. CASE ReadByte(p)
  BY <1>12 DEF ReadByte
<1>13. CASE ReadDone(p)
  BY <1>13 DEF ReadDone
<1>14. CASE CloseRead(p)
  BY <1>14 DEF CloseRead
<1>15. CASE CloseWrite(p)
  BY <1>15 DEF CloseWrite
<1>16. CASE Kill(p)
  BY <1>16 DEF Kill
<1>17. ASSUME NEW q \in Proc, Fork(p, q) PROVE LockInv'
  BY <1>17 DEF Fork
<1>18. CASE ShutRead(p)
  BY <1>18 DEF ShutRead
<1>19. CASE ShutWrite(p)
  BY <1>19 DEF ShutWrite
<1>20. CASE LastClose(p)
  BY <1>20 DEF LastClose
<1>21. CASE Kfree(p)
  BY <1>21 DEF Kfree
<1> QED
  BY <1>1, <1>2, <1>3, <1>4, <1>5, <1>6, <1>7, <1>8, <1>9, <1>10, <1>11, <1>12, <1>13, <1>14,
     <1>15, <1>16, <1>17, <1>18, <1>19, <1>20, <1>21, Zenon DEF Step, WriterNext, ReaderNext, Pipeclose

\* Steps of an end: nothing of it happens,
LEMMA EndQuiet ==
  ASSUME NEW E, NEW P, NEW P2, NEW n, NEW ref, NEW flag, EndInv(E, P, n, ref, flag),
         \A q \in E : P2[q] = P[q] \/ {P2[q], P[q]} \cap Closing = {}
  PROVE  EndInv(E, P2, n, ref, flag)
BY DEF EndInv, Closing

\* a fork,
LEMMA EndFork ==
  ASSUME NEW E, NEW P, NEW P2, NEW n \in Nat, NEW ref, NEW flag, EndInv(E, P, n, ref, flag), n >= 1,
         \A q \in E : P2[q] = P[q] \/ {P2[q], P[q]} \cap Closing = {}
  PROVE  EndInv(E, P2, n + 1, ref + 1, flag) /\ ref >= 1
<1>1. ref = n /\ flag /\ ref + 1 = n + 1 /\ ref >= 1
  BY DEF EndInv
<1>2. \A p \in E : P[p] \notin Closing
  BY <1>1 DEF EndInv
<1>3. \A p \in E : P2[p] \notin Closing
  BY <1>2 DEF Closing
<1> QED BY <1>1, <1>2, <1>3 DEF EndInv, Closing

\* a close, by one of several or by the last,
LEMMA EndClose ==
  ASSUME NEW E, NEW P, NEW P2, NEW n \in Nat, NEW ref, NEW flag, EndInv(E, P, n, ref, flag), n >= 1,
         NEW p \in E, (ref > 1 /\ P2[p] = "user") \/ (~(ref > 1) /\ P2[p] = "close"),
         \A q \in E : q # p => P2[q] = P[q]
  PROVE  EndInv(E, P2, n - 1, ref - 1, flag) /\ ref >= 1
BY DEF EndInv, Closing

\* pipeclose() up to the flag,
LEMMA EndShut ==
  ASSUME NEW E, NEW P, NEW P2, NEW n, NEW ref, NEW flag, EndInv(E, P, n, ref, flag),
         NEW p \in E, P[p] = "close", P2[p] = "shut",
         \A q \in E : q # p => P2[q] = P[q] \/ {P2[q], P[q]} \cap Closing = {}
  PROVE  EndInv(E, P2, n, ref, FALSE)
BY DEF EndInv, Closing

\* and the rest of it.
LEMMA EndLeave ==
  ASSUME NEW E, NEW P, NEW P2, NEW n, NEW ref, NEW flag, EndInv(E, P, n, ref, flag),
         NEW p \in E, P[p] \in {"shut", "kfree"}, P2[p] \in {"kfree", "user"},
         \A q \in E : q # p => P2[q] = P[q]
  PROVE  EndInv(E, P2, n, ref, flag)
BY DEF EndInv, Closing

\* The two ends, and no panic.
Ends ==
  /\ ~panicked
  /\ EndInv(Reader, pc, Cardinality(Opens(Reader)), readref, readopen)
  /\ EndInv(Writer, pc, Cardinality(Opens(Writer)), writeref, writeopen)

\* Every action keeps the counts of the ends.
LEMMA EndsStep ==
  ASSUME TypeOK, OpenInv, NEW p \in Proc, Step(p)
  PROVE  Ends'
<1> DEFINE nr == Cardinality(Opens(Reader))
           nw == Cardinality(Opens(Writer))
<1>0. /\ Reader \subseteq Proc /\ Writer \subseteq Proc /\ Reader \cap Writer = {}
      /\ nr \in Nat /\ nw \in Nat /\ pc \in [Proc -> PC] /\ open \in [Proc -> BOOLEAN]
      /\ \A q \in Reader : open[q] => nr >= 1
      /\ \A q \in Writer : open[q] => nw >= 1
      /\ readref \in Int /\ writeref \in Int
  BY PipeAssumption, OpensFacts DEF Proc, TypeOK
<1>1. ~panicked /\ EndInv(Reader, pc, nr, readref, readopen) /\ EndInv(Writer, pc, nw, writeref, writeopen)
  BY DEF OpenInv
<1>2. CASE CallStepOf(p)
  <2>1. /\ UNCHANGED <<panicked, readref, readopen, writeref, writeopen, open>>
        /\ \A q \in Proc : pc'[q] = pc[q] \/ {pc'[q], pc[q]} \cap Closing = {}
    BY <1>2, CallLeavesEnds DEF ends
  <2>2. Opens(Reader)' = Opens(Reader) /\ Opens(Writer)' = Opens(Writer)
    BY <2>1 DEF Opens
  <2>3. EndInv(Reader, pc', nr, readref, readopen) /\ EndInv(Writer, pc', nw, writeref, writeopen)
    BY <1>0, <1>1, <2>1, EndQuiet
  <2> QED BY <1>1, <2>1, <2>2, <2>3 DEF Ends
<1>3. ASSUME NEW q \in Proc, Fork(p, q) PROVE Ends'
  <2>0. /\ open[p] /\ ~open[q] /\ open' = [open EXCEPT ![q] = TRUE] /\ UNCHANGED <<readopen, writeopen>>
        /\ \A r \in Proc : pc'[r] = pc[r] \/ {pc'[r], pc[r]} \cap Closing = {}
    BY <1>0, <1>3 DEF Fork, Goto, Closing, OpenInv, CallsInv
  <2>1. CASE {p, q} \subseteq Reader
    <3>1. readref' = readref + 1 /\ panicked' = (readref < 1) /\ UNCHANGED writeref
      BY <1>0, <1>3, <2>1 DEF Fork
    <3>2. Cardinality(Opens(Reader)') = nr + 1 /\ Opens(Writer)' = Opens(Writer) /\ nr >= 1
      BY <1>0, <2>0, <2>1, Counted1, Uncounted
    <3>3. EndInv(Reader, pc', nr + 1, readref + 1, readopen) /\ readref >= 1
      BY <1>0, <1>1, <2>0, <3>2, EndFork
    <3>4. EndInv(Writer, pc', nw, writeref, writeopen)
      BY <1>0, <1>1, <2>0, EndQuiet
    <3>5. ~panicked'
      <4>1. ~(readref < 1)
        BY <1>0, <3>3
      <4> QED BY <3>1, <4>1, Zenon
    <3> QED BY <2>0, <3>1, <3>2, <3>3, <3>4, <3>5, Zenon DEF Ends
  <2>2. CASE {p, q} \subseteq Writer
    <3>1. writeref' = writeref + 1 /\ panicked' = (writeref < 1) /\ UNCHANGED readref
      BY <1>0, <1>3, <2>2 DEF Fork
    <3>2. Cardinality(Opens(Writer)') = nw + 1 /\ Opens(Reader)' = Opens(Reader) /\ nw >= 1
      BY <1>0, <2>0, <2>2, Counted1, Uncounted
    <3>3. EndInv(Writer, pc', nw + 1, writeref + 1, writeopen) /\ writeref >= 1
      BY <1>0, <1>1, <2>0, <3>2, EndFork
    <3>4. EndInv(Reader, pc', nr, readref, readopen)
      BY <1>0, <1>1, <2>0, EndQuiet
    <3>5. ~panicked'
      <4>1. ~(writeref < 1)
        BY <1>0, <3>3
      <4> QED BY <3>1, <4>1, Zenon
    <3> QED BY <2>0, <3>1, <3>2, <3>3, <3>4, <3>5, Zenon DEF Ends
  <2> QED BY <1>3, <2>1, <2>2 DEF Fork
<1>4. CASE p \in Reader /\ CloseRead(p)
  <2>1. /\ open[p] /\ open' = [open EXCEPT ![p] = FALSE] /\ UNCHANGED <<readopen, writeopen, writeref>>
        /\ readref' = readref - 1 /\ panicked' = (readref < 1)
        /\ pc' = [pc EXCEPT ![p] = IF readref > 1 THEN "user" ELSE "close"]
    BY <1>4 DEF CloseRead, Goto
  <2>2. Cardinality(Opens(Reader)') = nr - 1 /\ Opens(Writer)' = Opens(Writer) /\ nr >= 1 /\ p \in Proc /\ p \notin Writer
    BY <1>0, <1>4, <2>1, Counted1, Uncounted
  <2>3. EndInv(Reader, pc', nr - 1, readref - 1, readopen) /\ readref >= 1
    <3>1. /\ (readref > 1 /\ pc'[p] = "user") \/ (~(readref > 1) /\ pc'[p] = "close")
          /\ \A q \in Reader : q # p => pc'[q] = pc[q]
      BY <1>0, <2>1, <2>2
    <3>2. EndInv(Reader, pc, nr, readref, readopen)
      BY <1>1
    <3>3. p \in Reader /\ nr \in Nat
      BY <1>0, <1>4
    <3> HIDE DEF nr, nw
    <3> QED BY <2>2, <3>1, <3>2, <3>3, EndClose
  <2>4. EndInv(Writer, pc', nw, writeref, writeopen)
    <3>1. \A q \in Writer : pc'[q] = pc[q]
      BY <1>0, <2>1, <2>2
    <3> QED BY <1>0, <1>1, <3>1, EndQuiet
  <2>5. ~panicked'
    <3>1. ~(readref < 1)
      BY <1>0, <2>3
    <3> QED BY <2>1, <3>1, Zenon
  <2> QED BY <2>1, <2>2, <2>3, <2>4, <2>5, Zenon DEF Ends
<1>5. CASE p \in Writer /\ CloseWrite(p)
  <2>1. /\ open[p] /\ open' = [open EXCEPT ![p] = FALSE] /\ UNCHANGED <<readopen, writeopen, readref>>
        /\ writeref' = writeref - 1 /\ panicked' = (writeref < 1)
        /\ pc' = [pc EXCEPT ![p] = IF writeref > 1 THEN "user" ELSE "close"]
    BY <1>5 DEF CloseWrite, Goto
  <2>2. Cardinality(Opens(Writer)') = nw - 1 /\ Opens(Reader)' = Opens(Reader) /\ nw >= 1 /\ p \in Proc /\ p \notin Reader
    BY <1>0, <1>5, <2>1, Counted1, Uncounted
  <2>3. EndInv(Writer, pc', nw - 1, writeref - 1, writeopen) /\ writeref >= 1
    <3>1. /\ (writeref > 1 /\ pc'[p] = "user") \/ (~(writeref > 1) /\ pc'[p] = "close")
          /\ \A q \in Writer : q # p => pc'[q] = pc[q]
      BY <1>0, <2>1, <2>2
    <3>2. EndInv(Writer, pc, nw, writeref, writeopen)
      BY <1>1
    <3>3. p \in Writer /\ nw \in Nat
      BY <1>0, <1>5
    <3> HIDE DEF nr, nw
    <3> QED BY <2>2, <3>1, <3>2, <3>3, EndClose
  <2>4. EndInv(Reader, pc', nr, readref, readopen)
    <3>1. \A q \in Reader : pc'[q] = pc[q]
      BY <1>0, <2>1, <2>2
    <3> QED BY <1>0, <1>1, <3>1, EndQuiet
  <2>5. ~panicked'
    <3>1. ~(writeref < 1)
      BY <1>0, <2>3
    <3> QED BY <2>1, <3>1, Zenon
  <2> QED BY <2>1, <2>2, <2>3, <2>4, <2>5, Zenon DEF Ends
<1>6. CASE p \in Reader /\ ShutRead(p)
  <2>1. /\ UNCHANGED <<panicked, readref, writeref, writeopen, open>> /\ readopen' = FALSE
        /\ pc[p] = "close" /\ pc'[p] = "shut"
        /\ \A q \in Proc : q # p => pc'[q] = pc[q] \/ {pc'[q], pc[q]} \cap Closing = {}
    BY <1>0, <1>6 DEF ShutRead, rest, Woken, Closing
  <2>2. Opens(Reader)' = Opens(Reader) /\ Opens(Writer)' = Opens(Writer)
    BY <2>1 DEF Opens
  <2>3. EndInv(Reader, pc', nr, readref, FALSE)
    BY <1>0, <1>1, <1>6, <2>1, EndShut
  <2>4. EndInv(Writer, pc', nw, writeref, writeopen)
    BY <1>0, <1>1, <1>6, <2>1, EndQuiet
  <2> QED BY <1>1, <2>1, <2>2, <2>3, <2>4 DEF Ends
<1>7. CASE p \in Writer /\ ShutWrite(p)
  <2>1. /\ UNCHANGED <<panicked, readref, writeref, readopen, open>> /\ writeopen' = FALSE
        /\ pc[p] = "close" /\ pc'[p] = "shut"
        /\ \A q \in Proc : q # p => pc'[q] = pc[q] \/ {pc'[q], pc[q]} \cap Closing = {}
    BY <1>0, <1>7 DEF ShutWrite, rest, Woken, Closing
  <2>2. Opens(Reader)' = Opens(Reader) /\ Opens(Writer)' = Opens(Writer)
    BY <2>1 DEF Opens
  <2>3. EndInv(Writer, pc', nw, writeref, FALSE)
    BY <1>0, <1>1, <1>7, <2>1, EndShut
  <2>4. EndInv(Reader, pc', nr, readref, readopen)
    BY <1>0, <1>1, <1>7, <2>1, EndQuiet
  <2> QED BY <1>1, <2>1, <2>2, <2>3, <2>4 DEF Ends
<1>8. CASE LastClose(p) \/ Kfree(p)
  <2>1. /\ UNCHANGED <<panicked, readref, writeref, readopen, writeopen, open>>
        /\ pc[p] \in {"shut", "kfree"} /\ pc'[p] \in {"kfree", "user"}
        /\ \A q \in Proc : q # p => pc'[q] = pc[q]
    BY <1>0, <1>8 DEF LastClose, Kfree, At, Goto, pipe, ends, rest
  <2>2. Opens(Reader)' = Opens(Reader) /\ Opens(Writer)' = Opens(Writer)
    BY <2>1 DEF Opens
  <2>3. \A E \in {Reader, Writer} : p \notin E => \A q \in E : pc'[q] = pc[q]
    BY <1>0, <2>1
  <2>4. EndInv(Reader, pc', nr, readref, readopen)
    <3>1. CASE p \in Reader
      BY <1>0, <1>1, <2>1, <3>1, EndLeave
    <3>2. CASE p \notin Reader
      BY <1>0, <1>1, <2>3, <3>2, EndQuiet
    <3> QED BY <3>1, <3>2
  <2>5. EndInv(Writer, pc', nw, writeref, writeopen)
    <3>1. CASE p \in Writer
      BY <1>0, <1>1, <2>1, <3>1, EndLeave
    <3>2. CASE p \notin Writer
      BY <1>0, <1>1, <2>3, <3>2, EndQuiet
    <3> QED BY <3>1, <3>2
  <2> QED BY <1>1, <2>1, <2>2, <2>4, <2>5 DEF Ends
<1> QED
  BY <1>2, <1>3, <1>4, <1>5, <1>6, <1>7, <1>8, Zenon DEF Step, Pipeclose, CallStepOf

\* Every action keeps what leads to kfree().
LEMMA FreeStep ==
  ASSUME TypeOK, OpenInv, NEW p \in Proc, Step(p)
  PROVE  FreeInv'
<1>0. /\ pc \in [Proc -> PC] /\ FreeInv /\ Proc = Reader \cup Writer
  BY DEF OpenInv, TypeOK, Proc
<1>1. \A q \in Reader : ~readopen => ~open[q] /\ pc[q] # "close"
  BY NoneOpen DEF OpenInv, EndInv
<1>2. \A q \in Writer : ~writeopen => ~open[q] /\ pc[q] # "close"
  BY NoneOpen DEF OpenInv, EndInv
<1>3. CASE CallStepOf(p)
  <2>1. /\ UNCHANGED <<readopen, writeopen, freed>>
        /\ \A q \in Proc : pc'[q] = pc[q] \/ {pc'[q], pc[q]} \cap Closing = {}
    BY <1>3, CallLeavesEnds DEF ends
  <2> QED BY <1>0, <2>1 DEF FreeInv, Closing
<1>4. ASSUME NEW q \in Proc, Fork(p, q) PROVE FreeInv'
  BY <1>0, <1>4 DEF FreeInv, Closing, Fork, Goto
<1>5. CASE p \in Reader /\ CloseRead(p)
  BY <1>0, <1>1, <1>5 DEF FreeInv, Closing, CloseRead, Goto
<1>6. CASE p \in Writer /\ CloseWrite(p)
  BY <1>0, <1>2, <1>6 DEF FreeInv, Closing, CloseWrite, Goto
<1>7. CASE p \in Reader /\ ShutRead(p)
  <2>1. readopen
    BY <1>1, <1>7 DEF ShutRead
  <2> QED BY <1>0, <1>7, <2>1 DEF FreeInv, Closing, ShutRead, Woken
<1>8. CASE p \in Writer /\ ShutWrite(p)
  <2>1. writeopen
    BY <1>2, <1>8 DEF ShutWrite
  <2> QED BY <1>0, <1>8, <2>1 DEF FreeInv, Closing, ShutWrite, Woken
<1>9. CASE LastClose(p)
  <2>0. /\ UNCHANGED <<readopen, writeopen, freed>> /\ pc[p] = "shut" /\ freed = 0
        /\ pc' = [pc EXCEPT ![p] = IF ~readopen /\ ~writeopen THEN "kfree" ELSE "user"]
        /\ \A q \in Proc : pc[q] # "kfree"
    BY <1>0, <1>9 DEF LastClose, At, Goto, pipe, ends, FreeInv, Closing
  <2>1. CASE ~readopen /\ ~writeopen
    <3>1. \A q \in Proc : pc[q] \in Closing => q = p
      <4>1. \A q \in Proc : pc[q] = "shut" => q = p
        BY <1>9 DEF OpenInv, LockInv, LastClose, At
      <4> QED BY <1>0, <1>1, <1>2, <2>0, <2>1, <4>1 DEF Closing
    <3> QED BY <1>0, <2>0, <2>1, <3>1 DEF FreeInv, Closing
  <2>2. CASE readopen \/ writeopen
    BY <1>0, <2>0, <2>2 DEF FreeInv, Closing
  <2> QED BY <2>1, <2>2
<1>10. CASE Kfree(p)
  BY <1>0, <1>10 DEF FreeInv, Closing, Kfree, Goto, rest
<1> QED
  BY <1>3, <1>4, <1>5, <1>6, <1>7, <1>8, <1>9, <1>10, Zenon DEF Step, Pipeclose, CallStepOf

\* Every action keeps the ends, the calls and the lock as they should be.
LEMMA OpenStep ==
  ASSUME TypeOK, OpenInv, NEW p \in Proc, Step(p)
  PROVE  OpenInv'
BY CallsStep, LockStep, EndsStep, FreeStep DEF OpenInv, Ends


\* Every action keeps the writes within their bound.
LEMMA CallStep ==
  ASSUME TypeOK, CallInv, NEW p \in Proc, Step(p)
  PROVE  CallInv'
<1> USE DEF TypeOK, PC, CallInv, Proc, At, Goto, pipe, rest, Woken
<1>1. CASE WriteAcquire(p)
  BY <1>1 DEF WriteAcquire
<1>2. CASE WriteByte(p)
  BY <1>2 DEF WriteByte
<1>3. CASE WriteFail(p)
  BY <1>3 DEF WriteFail
<1>4. CASE WriteFull(p)
  BY <1>4 DEF WriteFull
<1>5. CASE WriteSleep(p)
  BY <1>5 DEF WriteSleep
<1>6. CASE WriteDone(p)
  BY <1>6 DEF WriteDone
<1>7. CASE ReadAcquire(p)
  BY <1>7 DEF ReadAcquire
<1>8. CASE ReadFail(p)
  BY <1>8 DEF ReadFail
<1>9. CASE ReadEmpty(p)
  BY <1>9 DEF ReadEmpty
<1>10. CASE ReadSleep(p)
  BY <1>10 DEF ReadSleep
<1>11. CASE ReadReady(p)
  BY <1>11 DEF ReadReady
<1>12. CASE ReadByte(p)
  BY <1>12 DEF ReadByte
<1>13. CASE ReadDone(p)
  BY <1>13 DEF ReadDone
<1>14. CASE CloseRead(p)
  BY <1>14 DEF CloseRead
<1>15. CASE CloseWrite(p)
  BY <1>15 DEF CloseWrite
<1>16. CASE Kill(p)
  BY <1>16 DEF Kill
<1>17. ASSUME NEW q \in Proc, Fork(p, q) PROVE CallInv'
  BY <1>17 DEF Fork
<1>18. CASE ShutRead(p)
  BY <1>18 DEF ShutRead
<1>19. CASE ShutWrite(p)
  BY <1>19 DEF ShutWrite
<1>20. CASE LastClose(p)
  BY <1>20 DEF LastClose
<1>21. CASE Kfree(p)
  BY <1>21 DEF Kfree
<1> QED
  BY <1>1, <1>2, <1>3, <1>4, <1>5, <1>6, <1>7, <1>8, <1>9, <1>10, <1>11, <1>12, <1>13, <1>14,
     <1>15, <1>16, <1>17, <1>18, <1>19, <1>20, <1>21, Zenon DEF Step, WriterNext, ReaderNext, Pipeclose

\* The test of pipewrite() on the wrapped counters finds a full ring.
LEMMA FullMeansFull ==
  ASSUME TypeOK, RingInv
  PROVE  Full <=> sent = Len(rcvd) + PIPESIZE
<1> DEFINE n == Len(rcvd)
<1>1. n \in Nat /\ sent \in Nat /\ n <= sent /\ sent <= n + PIPESIZE
  BY DEF TypeOK, RingInv
<1>2. nread = n % UINT /\ nwrite = sent % UINT
  BY DEF RingInv
<1> HIDE DEF n
<1>3. (nread + PIPESIZE) % UINT = (n + PIPESIZE) % UINT
  <2>1. PIPESIZE \in Int
    BY SizeFacts
  <2> QED
    BY <1>1, <1>2, <2>1, RingArith, Zenon
<1>4. ASSUME sent % UINT = (n + PIPESIZE) % UINT
      PROVE  sent = n + PIPESIZE
  <2> DEFINE m == n + PIPESIZE
  <2>1. m - sent < UINT /\ sent \in Int /\ m \in Int /\ sent <= m /\ sent % UINT = m % UINT
    BY <1>1, <1>4, SizeFacts
  <2> HIDE DEF m
  <2>2. sent = m
    BY <2>1, RingClose, Zenon
  <2> QED
    BY <2>2 DEF m
<1>5. Full <=> sent % UINT = (n + PIPESIZE) % UINT
  BY <1>2, <1>3 DEF Full
<1> QED
  BY <1>4, <1>5 DEF n

\* The test of piperead() on the wrapped counters finds an empty ring.
LEMMA EmptyMeansEmpty ==
  ASSUME TypeOK, RingInv
  PROVE  Empty <=> sent = Len(rcvd)
<1> DEFINE n == Len(rcvd)
<1>1. n \in Nat /\ sent \in Nat /\ n <= sent /\ sent <= n + PIPESIZE
  BY DEF TypeOK, RingInv
<1>2. nread = n % UINT /\ nwrite = sent % UINT
  BY DEF RingInv
<1> HIDE DEF n
<1>3. ASSUME n % UINT = sent % UINT
      PROVE  sent = n
  <2>1. sent - n < UINT /\ sent \in Int /\ n \in Int
    BY <1>1, SizeFacts
  <2> QED
    BY <1>1, <1>3, <2>1, RingClose, Zenon
<1> QED
  BY <1>2, <1>3 DEF n, Empty

\* pipewrite() puts byte sent + 1 into a slot that no unread byte is in.
LEMMA WriteByteRing ==
  ASSUME TypeOK, RingInv, NEW p \in Proc, WriteByte(p)
  PROVE  RingInv'
<1> DEFINE n == Len(rcvd)
<1>1. n \in Nat /\ sent \in Nat /\ n <= sent /\ sent <= n + PIPESIZE
  BY DEF TypeOK, RingInv
<1>2. sent # n + PIPESIZE
  BY FullMeansFull DEF WriteByte
<1>3. rcvd' = rcvd /\ nread' = nread /\ sent' = sent + 1
  BY DEF WriteByte
<1>4. data' = [data EXCEPT ![nwrite % PIPESIZE] = sent + 1]
  BY DEF WriteByte
<1>5. nread = n % UINT /\ nwrite = sent % UINT
  BY DEF RingInv
<1>6. nwrite' = (sent + 1) % UINT
  <2>1. nwrite' = (nwrite + 1) % UINT /\ 1 \in Int
    BY DEF WriteByte
  <2> QED
    BY <1>1, <1>5, <2>1, RingArith, Zenon
<1>7. nwrite % PIPESIZE = sent % PIPESIZE
  BY <1>1, <1>5, RingArith, Zenon
<1>8. sent % PIPESIZE \in DOMAIN data
  BY <1>1, RingArith DEF TypeOK
<1>9. ASSUME NEW k \in n + 1 .. sent + 1
      PROVE  data'[(k - 1) % PIPESIZE] = k
  <2>1. CASE k = sent + 1
    BY <1>1, <1>4, <1>7, <1>8, <2>1
  <2>2. CASE k # sent + 1
    <3>1. k \in n + 1 .. sent /\ k - 1 \in Int /\ sent \in Int /\ k - 1 <= sent
          /\ sent - (k - 1) < PIPESIZE /\ k - 1 # sent
      BY <1>1, <1>2, <2>2, SizeFacts
    <3>2. (k - 1) % PIPESIZE # sent % PIPESIZE
      BY <3>1, RingClose, Zenon
    <3>3. data[(k - 1) % PIPESIZE] = k
      BY <3>1 DEF RingInv
    <3>4. (k - 1) % PIPESIZE \in DOMAIN data
      <4>1. k - 1 \in Nat
        BY <1>1, <3>1
      <4> QED
        BY <4>1, RingArith DEF TypeOK
    <3> QED
      BY <1>4, <1>7, <3>2, <3>3, <3>4
  <2> QED
    BY <2>1, <2>2
<1>10. \A k \in 1 .. Len(rcvd) : rcvd[k] = k
  BY DEF RingInv
<1>11. n <= sent + 1 /\ sent + 1 <= n + PIPESIZE
  BY <1>1, <1>2, SizeFacts
<1> QED
  BY <1>3, <1>5, <1>6, <1>9, <1>10, <1>11 DEF RingInv

\* piperead() takes out the oldest unread byte.
LEMMA ReadByteRing ==
  ASSUME TypeOK, RingInv, NEW p \in Proc, ReadByte(p)
  PROVE  RingInv'
<1> DEFINE n == Len(rcvd)
           d == data[nread % PIPESIZE]
<1>1. n \in Nat /\ sent \in Nat /\ n <= sent /\ sent <= n + PIPESIZE
  BY DEF TypeOK, RingInv
<1>2. sent # n
  BY EmptyMeansEmpty DEF ReadByte
<1>3. nread = n % UINT /\ nwrite = sent % UINT
  BY DEF RingInv
<1>4. nwrite' = nwrite /\ sent' = sent /\ data' = data
  BY DEF ReadByte
<1>5. nread' = (n + 1) % UINT
  <2>1. nread' = (nread + 1) % UINT /\ 1 \in Int
    BY DEF ReadByte
  <2> QED
    BY <1>1, <1>3, <2>1, RingArith, Zenon
<1>6. nread % PIPESIZE = n % PIPESIZE
  BY <1>1, <1>3, RingArith, Zenon
<1>7. d = n + 1
  <2>1. n + 1 \in n + 1 .. sent /\ (n + 1) - 1 = n
    BY <1>1, <1>2
  <2>2. data[((n + 1) - 1) % PIPESIZE] = n + 1
    BY <2>1 DEF RingInv
  <2> QED
    BY <1>6, <2>1, <2>2
<1>8. rcvd' = Append(rcvd, d) /\ rcvd \in Seq(Nat) /\ d \in Nat
  BY <1>1, <1>7 DEF ReadByte, TypeOK
<1> HIDE DEF d
<1>9. /\ Len(rcvd') = n + 1
      /\ \A k \in 1 .. n : rcvd'[k] = rcvd[k]
      /\ rcvd'[n + 1] = n + 1
  BY <1>7, <1>8
<1>10. \A k \in 1 .. n + 1 : rcvd'[k] = k
  <2>1. \A k \in 1 .. n : rcvd'[k] = k
    BY <1>9 DEF RingInv
  <2> QED
    BY <1>1, <1>9, <2>1
<1>11. \A k \in (n + 1) + 1 .. sent : data[(k - 1) % PIPESIZE] = k
  <2>1. \A k \in n + 1 .. sent : data[(k - 1) % PIPESIZE] = k
    BY DEF RingInv
  <2>2. \A k \in (n + 1) + 1 .. sent : k \in n + 1 .. sent
    BY <1>1
  <2> QED
    BY <2>1, <2>2, Zenon
<1>12. n + 1 <= sent /\ sent <= (n + 1) + PIPESIZE
  BY <1>1, <1>2, SizeFacts
<1> QED
  BY <1>3, <1>4, <1>5, <1>9, <1>10, <1>11, <1>12 DEF RingInv

\* Every action keeps the ring in order.
LEMMA RingStep ==
  ASSUME TypeOK, RingInv, NEW p \in Proc, Step(p)
  PROVE  RingInv'
<1>1. CASE WriteByte(p)
  BY <1>1, WriteByteRing
<1>2. CASE ReadByte(p)
  BY <1>2, ReadByteRing
<1>3. CASE ~WriteByte(p) /\ ~ReadByte(p)
  <2>1. UNCHANGED <<data, nread, nwrite, sent, rcvd>>
    BY <1>3 DEF Step, WriterNext, ReaderNext, pipe, rest, WriteAcquire, WriteFail,
       WriteFull, WriteSleep, WriteDone, ReadAcquire, ReadFail, ReadEmpty, ReadSleep,
       ReadReady, ReadDone, CloseRead, CloseWrite, Kill, Fork, Pipeclose, ShutRead, ShutWrite,
       LastClose, Kfree, ends
  <2> QED
    BY <2>1 DEF RingInv
<1> QED
  BY <1>1, <1>2, <1>3

-----------------------------------------------------------------------------
(* Theorems.                                                               *)

\* IInv holds in every reachable state.
THEOREM Inductive == Spec => []IInv
<1>1. Init => IInv
  <2> SUFFICES ASSUME Init PROVE IInv
    OBVIOUS
  <2>1. 0 % UINT = 0 /\ UINT \in Nat \ {0}
    BY SizeFacts
  <2>2. TypeOK
    <3>1. 0 \in 0 .. UINT - 1 /\ 0 \in 0 .. MaxWrites
      BY <2>1, PipeAssumption
    <3>2. rcvd \in Seq(Nat)
      BY DEF Init
    <3>3. Cardinality(Reader \ Late) \in Int /\ Cardinality(Writer \ Late) \in Int
      <4>1. IsFiniteSet(Reader \ Late) /\ IsFiniteSet(Writer \ Late)
        BY PipeAssumption, FS_Subset
      <4> QED BY <4>1, FS_CardinalityType
    <3> QED
      BY <3>1, <3>2, <3>3 DEF Init, TypeOK, PC
  <2>3. RingInv
    BY <2>1, SizeFacts DEF Init, RingInv
  <2>4. OpenInv
    <3>1. Opens(Reader) = Reader \ Late /\ Opens(Writer) = Writer \ Late
      BY DEF Init, Opens, Proc
    <3>2. \A p \in Proc : pc[p] \in {"user", "unborn"} /\ (pc[p] = "unborn" => ~open[p])
      BY DEF Init
    <3>3. CallsInv /\ LockInv /\ FreeInv
      BY <3>2 DEF Init, CallsInv, Calling, Closing, LockInv, FreeInv
    <3>4. /\ EndInv(Reader, pc, Cardinality(Opens(Reader)), readref, readopen)
          /\ EndInv(Writer, pc, Cardinality(Opens(Writer)), writeref, writeopen)
      BY <3>1, <3>2 DEF Init, EndInv, Closing, Proc
    <3> QED BY <3>3, <3>4, Zenon DEF Init, OpenInv
  <2> QED
    BY <2>2, <2>3, <2>4 DEF Init, IInv, CallInv
<1>2. IInv /\ [Next]_vars => IInv'
  <2> SUFFICES ASSUME IInv, [Next]_vars PROVE IInv'
    OBVIOUS
  <2>1. CASE Next
    <3>1. PICK p \in Proc : Step(p)
      BY <2>1 DEF Next, Step, Proc
    <3> QED
      BY <3>1, TypeStep, RingStep, OpenStep, CallStep DEF IInv
  <2>2. CASE UNCHANGED vars
    BY <2>2 DEF vars, IInv, TypeOK, RingInv, OpenInv, CallInv, CallsInv, LockInv, EndInv, Opens, FreeInv
  <2> QED
    BY <2>1, <2>2
<1> QED
  BY <1>1, <1>2, PTL DEF Spec

\* The lock, the counters and the loop variables stay within their types.
THEOREM TypeCorrect == Spec => []TypeOK
BY Inductive, PTL DEF IInv

\* piperead() and pipewrite() pass every byte on once and in order, over sleeps,
\* several readers and writers, and any number of wraps of the counters.
THEOREM InOrder == Spec => []FirstInFirstOut
<1>1. IInv => FirstInFirstOut
  <2> SUFFICES ASSUME TypeOK, RingInv PROVE FirstInFirstOut
    BY DEF IInv
  <2> DEFINE n == Len(rcvd)
  <2>1. n \in Nat /\ sent \in Nat /\ n <= sent /\ sent <= n + PIPESIZE
    BY DEF TypeOK, RingInv
  <2>2. nread = n % UINT /\ nwrite = sent % UINT
    BY DEF RingInv
  <2>3. nread \in 0 .. UINT - 1
    BY DEF TypeOK
  <2> HIDE DEF n
  <2>4. (nwrite + (UINT - nread)) % UINT = (sent + (UINT - nread)) % UINT
    <3>1. UINT - nread \in Int
      BY <2>3, SizeFacts
    <3> QED
      BY <2>1, <2>2, <3>1, RingArith, Zenon
  <2>5. (sent + (UINT - nread)) % UINT = sent - n
    <3>1. nread = n - UINT * (n \div UINT) /\ n \div UINT \in Int
      BY <2>1, <2>2, SizeFacts, ModDef
    <3> DEFINE q == n \div UINT
    <3> HIDE DEF q
    <3>2. sent + (UINT - nread) = UINT * (q + 1) + (sent - n) /\ q + 1 \in Int
      BY <2>1, <3>1, SizeFacts DEF q
    <3>3. sent - n \in 0 .. UINT - 1 /\ sent + (UINT - nread) \in Int
      BY <2>1, <2>3, SizeFacts
    <3> QED
      BY <3>2, <3>3, SizeFacts, ModUnique
  <2>6. nwrite + UINT - nread = nwrite + (UINT - nread)
    BY <2>3, SizeFacts DEF TypeOK
  <2>7. sent - n <= PIPESIZE
    BY <2>1, SizeFacts
  <2> QED
    BY <2>4, <2>5, <2>6, <2>7 DEF FirstInFirstOut, RingInv, n
<1> QED
  BY <1>1, Inductive, PTL

\* An end that nobody has open has no process in a call.
LEMMA NobodyLeft ==
  ASSUME TypeOK, OpenInv
  PROVE  /\ ~readopen => \A p \in Reader : ~open[p] /\ pc[p] \notin Calling
         /\ ~writeopen => \A p \in Writer : ~open[p] /\ pc[p] \notin Calling
<1>1. ~readopen => \A p \in Reader : ~open[p]
  BY NoneOpen DEF OpenInv, EndInv
<1>2. ~writeopen => \A p \in Writer : ~open[p]
  BY NoneOpen DEF OpenInv, EndInv
<1> QED BY <1>1, <1>2 DEF OpenInv, CallsInv, Proc

\* Whatever forks and closes run at the same time, the counts of file.c and the
\* two flags of pipeclose() together free the page once at most, when no process
\* has an end open, is in a call or can get there; the write end is closed only
\* when no writer is left; and filedup() and fileclose() do not panic.
THEOREM FreedLast == Spec => []FreedUnused
<1>1. IInv => FreedUnused
  <2> SUFFICES ASSUME TypeOK, OpenInv PROVE FreedUnused
    BY DEF IInv
  <2>1. freed <= 1 /\ ~panicked
    BY DEF OpenInv, FreeInv
  <2>2. ASSUME freed = 1 PROVE lock = Nobody /\ \A p \in Proc : ~open[p] /\ pc[p] \in {"user", "unborn"}
    <3>1. \A p \in Proc : ~open[p] /\ pc[p] \notin Calling /\ pc[p] \notin Closing /\ pc[p] \in PC
      BY <2>2, NobodyLeft DEF OpenInv, FreeInv, Proc, TypeOK
    <3>2. \A p \in Proc : pc[p] \in {"user", "unborn"}
      BY <3>1 DEF PC, Calling, Closing
    <3>3. lock \in Proc => FALSE
      BY <3>2, PipeAssumption DEF OpenInv, LockInv, Proc
    <3> QED BY <3>1, <3>2, <3>3 DEF TypeOK
  <2>3. ~writeopen => \A p \in Writer : ~open[p] /\ pc[p] \notin {"write", "wsleep", "wasleep", "wtest"}
    BY NobodyLeft DEF Calling
  <2> QED BY <2>1, <2>2, <2>3 DEF FreedUnused
<1> QED
  BY <1>1, Inductive, PTL

-----------------------------------------------------------------------------
(* The user-level pipe.                                                    *)

UpPipe == [read_index : Nat, write_index : Nat, count : Nat, data : [0 .. USize - 1 -> Nat]]
UpProc == [pc : {"user", "lock", "locked", "wait", "sleep"}, i : Nat, calls : Nat]
UpLists == [{"full", "empty"} -> Seq(U!User)]

UpType ==
  /\ upipe \in UpPipe /\ up \in [U!User -> UpProc] /\ cv \in UpLists
  /\ mutex \in {"free", "held"} /\ usent \in Nat /\ got \in Seq(Nat)

\* The upipe holds whole calls, and a writer's call has moved nothing or all.
WholeInv == upipe.count % N = 0 /\ \A p \in Writers : up[p].i = 0

\* The slot of the byte that a others precede.
UpSlot(a) == a % USize

\* The indices count the bytes put in and taken out; the bytes between them are
\* in data, byte k in slot k - 1.
UpRingInv ==
  /\ upipe.read_index = Len(got) /\ upipe.write_index = usent
  /\ usent = Len(got) + upipe.count /\ upipe.count <= USize
  /\ \A k \in 1 .. Len(got) : got[k] = k
  /\ \A k \in Len(got) + 1 .. usent : upipe.data[UpSlot(k - 1)] = k

UpInv == UpType /\ WholeInv /\ UpRingInv

\* The numbers that the steps move.
LEMMA UpNumbers ==
  ASSUME Sized, UpInv
  PROVE  /\ N \in Nat \ {0} /\ USize \in Nat \ {0} /\ usent \in Nat /\ Len(got) \in Nat /\ got \in Seq(Nat)
         /\ upipe.count \in Nat /\ upipe.count <= USize /\ usent = Len(got) + upipe.count
         /\ upipe.read_index = Len(got) /\ upipe.write_index = usent
BY DEF Sized, UpInv, UpType, UpPipe, UpRingInv

\* What lies in the pipe.
LEMMA UpData ==
  ASSUME UpInv
  PROVE  /\ upipe \in UpPipe /\ upipe.data \in [0 .. USize - 1 -> Nat]
         /\ \A k \in Len(got) + 1 .. usent : upipe.data[UpSlot(k - 1)] = k
BY DEF UpInv, UpType, UpPipe, UpRingInv

\* cond_signal() leaves the processes' places in their loops alone.
LEMMA WokenFacts ==
  ASSUME NEW q \in [U!User -> UpProc], NEW c
  PROVE  U!Woken(q, c) \in [U!User -> UpProc] /\ \A p \in U!User : U!Woken(q, c)[p].i = q[p].i
<1> DEFINE S == U!Signalled(c)
<1> HIDE DEF S
<1>1. U!Woken(q, c) = [p \in U!User |-> IF p \in S /\ q[p].pc = "sleep" THEN [q[p] EXCEPT !.pc = "lock"] ELSE q[p]]
  BY DEF U!Woken, S
<1>2. ASSUME NEW p \in U!User
      PROVE  U!Woken(q, c)[p] \in UpProc /\ U!Woken(q, c)[p].i = q[p].i
  <2>1. q[p] \in UpProc
    OBVIOUS
  <2>2. [q[p] EXCEPT !.pc = "lock"] \in UpProc /\ [q[p] EXCEPT !.pc = "lock"].i = q[p].i
    BY <2>1 DEF UpProc
  <2> QED
    BY <1>1, <2>1, <2>2
<1> QED
  BY <1>1, <1>2

\* cond_signal() leaves two lists of processes.
LEMMA PoppedFacts ==
  ASSUME cv \in UpLists, NEW c \in {"full", "empty"}
  PROVE  U!Popped(c) \in UpLists
<1>1. cv[c] \in Seq(U!User)
  BY DEF UpLists
<1>2. cv[c] # <<>> => Tail(cv[c]) \in Seq(U!User)
  BY <1>1
<1> QED
  BY <1>1, <1>2 DEF U!Popped, UpLists

\* What the two ends of a critical section do to the rest of the state.
LEMMA LeaveFacts ==
  ASSUME Sized, UpInv, NEW p \in U!User, NEW c \in {"full", "empty"}, U!Leave(p, c)
  PROVE  /\ up' \in [U!User -> UpProc] /\ cv' \in UpLists /\ mutex' \in {"free", "held"}
         /\ \A q \in Writers : up'[q].i = 0
<1> DEFINE X == [up EXCEPT ![p].pc = "user"]
<1>1. X \in [U!User -> UpProc] /\ \A q \in U!User : X[q].i = up[q].i
  BY DEF UpInv, UpType, UpProc
<1>2. up' = U!Woken(X, c) /\ cv' = U!Popped(c) /\ mutex' = "free"
  BY DEF U!Leave
<1> HIDE DEF X
<1>3. up' \in [U!User -> UpProc] /\ \A q \in U!User : up'[q].i = up[q].i
  BY <1>1, <1>2, WokenFacts
<1>4. cv' \in UpLists
  BY <1>2, PoppedFacts DEF UpInv, UpType
<1> QED
  BY <1>2, <1>3, <1>4 DEF UpInv, WholeInv, U!User

\* The same for a call that waits, n bytes into it.
LEMMA AwaitFacts ==
  ASSUME Sized, UpInv, NEW p \in U!User, NEW c \in {"full", "empty"}, NEW w \in {"full", "empty"}, NEW n \in Nat,
         U!Await(p, c, w, n), p \in Writers => n = 0
  PROVE  /\ up' \in [U!User -> UpProc] /\ cv' \in UpLists /\ mutex' \in {"free", "held"}
         /\ \A q \in Writers : up'[q].i = 0
<1> DEFINE X == [up EXCEPT ![p].pc = "wait", ![p].i = n]
<1>1. X \in [U!User -> UpProc] /\ \A q \in U!User : X[q].i = IF q = p THEN n ELSE up[q].i
  BY DEF UpInv, UpType, UpProc
<1>2. up' = U!Woken(X, c) /\ cv' = [U!Popped(c) EXCEPT ![w] = Append(@, p)] /\ mutex' = "free"
  BY DEF U!Await
<1> HIDE DEF X
<1>3. up' \in [U!User -> UpProc] /\ \A q \in U!User : up'[q].i = X[q].i
  BY <1>1, <1>2, WokenFacts
<1>4. U!Popped(c) \in UpLists
  BY PoppedFacts DEF UpInv, UpType
<1>5. cv' \in UpLists
  BY <1>2, <1>4 DEF UpLists
<1> QED
  BY <1>1, <1>2, <1>3, <1>5 DEF UpInv, WholeInv, U!User

\* Outside the critical section nothing moves.
LEMMA OutsideStep ==
  ASSUME Sized, UpInv, NEW p \in U!User, U!Call(p) \/ U!Lock(p) \/ U!Sleep(p)
  PROVE  UpInv'
<1>0. up \in [U!User -> UpProc] /\ Writers \subseteq U!User
  BY DEF UpInv, UpType, U!User
<1>1. /\ up' \in [U!User -> UpProc] /\ mutex' \in {"free", "held"}
      /\ \A q \in U!User : up'[q].i = up[q].i \/ up'[q].i = 0
      /\ UNCHANGED <<upipe, cv, usent, got>>
  <2>1. CASE U!Call(p)
    BY <1>0, <2>1 DEF U!Call, UpInv, UpType, UpProc
  <2>2. CASE U!Lock(p)
    BY <1>0, <2>2 DEF U!Lock, UpProc
  <2>3. CASE U!Sleep(p)
    BY <1>0, <2>3 DEF U!Sleep, UpInv, UpType, UpProc
  <2> QED
    BY <2>1, <2>2, <2>3
<1>2. UpType'
  BY <1>1 DEF UpInv, UpType, UpPipe, UpLists
<1>3. WholeInv'
  BY <1>0, <1>1 DEF UpInv, WholeInv
<1>4. UpRingInv'
  BY <1>1 DEF UpInv, UpRingInv
<1> QED
  BY <1>2, <1>3, <1>4 DEF UpInv

\* What a writer that has the mutex moves: all of its call or nothing.
LEMMA AllOrNothing ==
  ASSUME Sized, UpInv
  PROVE  \/ U!Fits(N) = N /\ upipe.count + N <= USize
         \/ U!Fits(N) = 0 /\ upipe.count = USize
<1>1. upipe.count % N = 0 /\ USize % N = 0
  BY DEF Sized, UpInv, WholeInv
<1>2. upipe.count < USize => upipe.count + N <= USize
  BY <1>1, UpNumbers, Multiples
<1> QED
  BY <1>2, UpNumbers DEF U!Fits

\* Bytes in the upipe have different slots.
LEMMA UpSlots ==
  ASSUME Sized
  PROVE  /\ \A a \in Nat : UpSlot(a) \in 0 .. USize - 1
         /\ \A a, b \in Nat : a <= b /\ b - a < USize /\ UpSlot(a) = UpSlot(b) => a = b
<1>1. USize \in Nat \ {0} /\ \A a \in Nat : a \in Int
  BY DEF Sized
<1>2. \A a \in Nat : a % USize \in 0 .. USize - 1
  BY <1>1, ModDef, Zenon
<1>3. ASSUME NEW a \in Nat, NEW b \in Nat, a <= b, b - a < USize, a % USize = b % USize
      PROVE  a = b
  BY <1>1, <1>3, ModClose, Zenon
<1> QED
  BY <1>2, <1>3 DEF UpSlot

\* A write of a whole call puts its bytes into the slots that follow, over none of
\* the bytes that are in the upipe.
LEMMA FilledFacts ==
  ASSUME Sized, UpInv, upipe.count + N <= USize
  PROVE  /\ U!Filled(N) \in UpPipe
         /\ U!Filled(N).read_index = upipe.read_index
         /\ U!Filled(N).write_index = usent + N
         /\ U!Filled(N).count = upipe.count + N
         /\ \A k \in Len(got) + 1 .. usent + N : U!Filled(N).data[UpSlot(k - 1)] = k
<1> DEFINE In(j, b) == j = UpSlot(upipe.write_index + b)
           Which(j) == CHOOSE b \in 0 .. N - 1 : In(j, b)
           New(j) == IF \E b \in 0 .. N - 1 : In(j, b) THEN usent + 1 + Which(j) ELSE upipe.data[j]
           D == [j \in 0 .. USize - 1 |-> New(j)]
           taken == Len(got)
           held == upipe.count
<1>0. /\ N \in Nat /\ N > 0 /\ USize \in Nat /\ USize > 0 /\ usent \in Nat
      /\ taken \in Nat /\ held \in Nat /\ usent = taken + held /\ held + N <= USize
  BY UpNumbers
<1>1. U!Filled(N) = [upipe EXCEPT !.write_index = @ + N, !.count = @ + N, !.data = D]
  BY UpData DEF U!Filled, UpSlot
<1>2. \A a \in Nat : UpSlot(a) \in 0 .. USize - 1
  BY UpSlots
<1>3. \A a, b \in Nat : a <= b /\ b - a < USize /\ UpSlot(a) = UpSlot(b) => a = b
  BY UpSlots
<1>4. \A j, b : In(j, b) <=> j = UpSlot(usent + b)
  BY UpNumbers
<1>4b. \A k \in taken + 1 .. usent : upipe.data[UpSlot(k - 1)] = k
  BY UpData, Zenon
<1> HIDE DEF In, taken, held
<1>5. \A j : \A b, c \in 0 .. N - 1 : In(j, b) /\ In(j, c) => b = c
  <2>1. ASSUME NEW j, NEW b \in 0 .. N - 1, NEW c \in 0 .. N - 1, In(j, b), In(j, c), b <= c
        PROVE  b = c
    <3>1. UpSlot(usent + b) = UpSlot(usent + c)
      BY <1>4, <2>1, Zenon
    <3>2. usent + b \in Nat /\ usent + c \in Nat /\ usent + b <= usent + c /\ (usent + c) - (usent + b) < USize
      BY <1>0, <2>1
    <3>3. usent + b = usent + c
      BY <1>3, <3>1, <3>2, Zenon
    <3> QED
      BY <1>0, <3>3
  <2>2. \A b, c \in 0 .. N - 1 : b <= c \/ c <= b
    BY <1>0
  <2> QED
    BY <2>1, <2>2, Zenon
<1>6. \A j : (\E b \in 0 .. N - 1 : In(j, b)) => Which(j) \in 0 .. N - 1
  BY Zenon
<1>7. \A j : \A b \in 0 .. N - 1 : In(j, b) => Which(j) = b
  <2> SUFFICES ASSUME NEW j, NEW b \in 0 .. N - 1, In(j, b)
               PROVE  Which(j) = b
    BY Zenon
  <2>1. Which(j) \in 0 .. N - 1 /\ In(j, Which(j))
    BY Zenon
  <2> HIDE DEF Which
  <2> QED
    BY <1>5, <2>1, Zenon
<1> HIDE DEF Which
<1>8. \A j \in 0 .. USize - 1 : New(j) \in Nat
  <2> SUFFICES ASSUME NEW j \in 0 .. USize - 1 PROVE New(j) \in Nat
    OBVIOUS
  <2>1. CASE \E b \in 0 .. N - 1 : In(j, b)
    <3>1. Which(j) \in 0 .. N - 1
      BY <1>6, <2>1, Zenon
    <3> QED
      BY <1>0, <2>1, <3>1
  <2>2. CASE ~ \E b \in 0 .. N - 1 : In(j, b)
    BY <2>2, UpData
  <2> QED
    BY <2>1, <2>2
<1>9. ASSUME NEW k \in taken + 1 .. usent + N
      PROVE  New(UpSlot(k - 1)) = k
  <2>0. k \in Nat /\ k - 1 \in Nat
    BY <1>0
  <2>1. CASE k > usent
    <3> DEFINE c == (k - 1) - usent
    <3>1. c \in 0 .. N - 1 /\ usent + c = k - 1 /\ usent + 1 + c = k
      BY <1>0, <2>0, <2>1
    <3> HIDE DEF c
    <3>2. In(UpSlot(k - 1), c)
      BY <1>4, <3>1, Zenon
    <3>3. Which(UpSlot(k - 1)) = c
      BY <1>7, <3>1, <3>2, Zenon
    <3> QED
      BY <3>1, <3>2, <3>3, Zenon
  <2>2. CASE k <= usent
    <3>1. ASSUME NEW b \in 0 .. N - 1, In(UpSlot(k - 1), b)
          PROVE  FALSE
      <4>1. UpSlot(k - 1) = UpSlot(usent + b)
        BY <1>4, <3>1, Zenon
      <4>2. usent + b \in Nat /\ k - 1 <= usent + b /\ (usent + b) - (k - 1) < USize
        BY <1>0, <2>0, <2>2
      <4>3. k - 1 = usent + b
        BY <1>3, <2>0, <4>1, <4>2, Zenon
      <4> QED
        BY <1>0, <2>0, <2>2, <4>3
    <3>2. k \in taken + 1 .. usent
      BY <1>0, <2>0, <2>2
    <3> QED
      BY <1>4b, <3>1, <3>2, Zenon
  <2> QED
    BY <1>0, <2>0, <2>1, <2>2
<1> HIDE DEF New
<1>10. D \in [0 .. USize - 1 -> Nat]
  BY <1>8, Zenon
<1>11. \A k \in taken + 1 .. usent + N : D[UpSlot(k - 1)] = k
  <2> SUFFICES ASSUME NEW k \in taken + 1 .. usent + N PROVE D[UpSlot(k - 1)] = k
    OBVIOUS
  <2>1. k - 1 \in Nat
    BY <1>0
  <2>2. UpSlot(k - 1) \in 0 .. USize - 1
    BY <1>2, <2>1, Zenon
  <2> QED
    BY <1>9, <2>2
<1> HIDE DEF D
<1>12. upipe \in UpPipe /\ upipe.write_index + N = usent + N /\ upipe.write_index + N \in Nat /\ upipe.count + N \in Nat
  BY UpData, UpNumbers, SMTT(40)
<1>13. /\ U!Filled(N) \in UpPipe /\ U!Filled(N).data = D /\ U!Filled(N).read_index = upipe.read_index
       /\ U!Filled(N).write_index = upipe.write_index + N /\ U!Filled(N).count = upipe.count + N
  <2> DEFINE w == upipe.write_index + N
             c == upipe.count + N
  <2>1. U!Filled(N) = [upipe EXCEPT !.write_index = w, !.count = c, !.data = D]
    BY <1>1, Zenon
  <2>2. w \in Nat /\ c \in Nat
    BY <1>12
  <2> HIDE DEF w, c
  <2>3. /\ U!Filled(N) \in UpPipe /\ U!Filled(N).data = D /\ U!Filled(N).read_index = upipe.read_index
        /\ U!Filled(N).write_index = w /\ U!Filled(N).count = c
    BY <1>10, <1>12, <2>1, <2>2 DEF UpPipe
  <2> QED
    BY <2>3, Zenon DEF w, c
<1> QED
  BY <1>11, <1>12, <1>13, Zenon DEF taken

\* upipe_write()
LEMMA WriteStep ==
  ASSUME Sized, UpInv, NEW p \in U!User, U!upipe_write(p)
  PROVE  UpInv'
<1>0. p \in Writers /\ up[p].i = 0
  BY DEF U!upipe_write, UpInv, WholeInv
<1>1. N - up[p].i = N /\ up[p].i + U!Fits(N) = U!Fits(N)
  BY <1>0, AllOrNothing, UpNumbers
<1>2. /\ upipe' = U!Filled(U!Fits(N)) /\ usent' = usent + U!Fits(N) /\ got' = got
      /\ IF U!Fits(N) = N THEN U!Leave(p, "empty") ELSE U!Await(p, "empty", "full", U!Fits(N))
  BY <1>1 DEF U!upipe_write
<1>3. CASE U!Fits(N) = N /\ upipe.count + N <= USize
  <2>1. (upipe.count + N) % N = 0
    BY UpNumbers, Multiples DEF UpInv, WholeInv
  <2>2. upipe' = U!Filled(N) /\ usent' = usent + N /\ got' = got /\ U!Leave(p, "empty")
    BY <1>2, <1>3
  <2>3. UpType'
    BY <1>3, <2>2, LeaveFacts, FilledFacts, UpNumbers DEF UpType, UpPipe, UpLists
  <2>4. UpRingInv'
    BY <1>3, <2>2, FilledFacts, UpNumbers DEF UpInv, UpRingInv
  <2>5. WholeInv'
    BY <1>3, <2>1, <2>2, LeaveFacts, FilledFacts DEF WholeInv
  <2> QED
    BY <2>3, <2>4, <2>5 DEF UpInv
<1>4. CASE U!Fits(N) = 0 /\ upipe.count = USize
  <2>1. U!Await(p, "empty", "full", 0) /\ usent' = usent /\ got' = got
    BY <1>2, <1>4, UpNumbers
  <2>2. upipe' = upipe
    <3>1. upipe \in UpPipe
      BY DEF UpInv, UpType
    <3>2. U!Filled(0) = [upipe EXCEPT !.write_index = @ + 0, !.count = @ + 0, !.data = @]
      <4>1. upipe.data = [j \in DOMAIN upipe.data |-> upipe.data[j]] /\ \A b : b \notin 0 .. 0 - 1
        BY <3>1 DEF UpPipe
      <4>2. U!Filled(0).data = upipe.data
        BY <3>1, <4>1 DEF U!Filled, UpPipe
      <4> QED
        BY <3>1, <4>1 DEF U!Filled, UpPipe
    <3>3. upipe.write_index + 0 = upipe.write_index /\ upipe.count + 0 = upipe.count
      BY UpNumbers
    <3>4. U!Filled(0) = upipe
      BY <3>1, <3>2, <3>3 DEF UpPipe
    <3> QED
      BY <1>2, <1>4, <3>4
  <2>3. UpType'
    BY <2>1, <2>2, AwaitFacts DEF UpInv, UpType, UpPipe, UpLists
  <2>4. WholeInv' /\ UpRingInv'
    BY <2>1, <2>2, AwaitFacts DEF UpInv, WholeInv, UpRingInv
  <2> QED
    BY <2>3, <2>4 DEF UpInv
<1> QED
  BY <1>3, <1>4, AllOrNothing

\* upipe_read()
LEMMA ReadStep ==
  ASSUME Sized, UpInv, NEW p \in U!User, U!upipe_read(p)
  PROVE  UpInv'
<1>0. p \notin Writers
  BY DEF U!upipe_read, Sized
<1>1. CASE U!Nothing(p)
  <2>1. U!Await(p, "full", "empty", 1) /\ UNCHANGED <<upipe, got, usent>>
    BY <1>1 DEF U!upipe_read
  <2>2. UpType'
    BY <1>0, <2>1, AwaitFacts DEF UpInv, UpType, UpPipe, UpLists
  <2>3. WholeInv' /\ UpRingInv'
    BY <1>0, <2>1, AwaitFacts DEF UpInv, WholeInv, UpRingInv
  <2> QED
    BY <2>2, <2>3 DEF UpInv
<1>2. CASE ~U!Nothing(p)
  <2> DEFINE B == [b \in 1 .. N |-> upipe.data[(upipe.read_index + b - 1) % USize]]
  <2>1. /\ got' = got \o B /\ upipe' = [upipe EXCEPT !.read_index = @ + N, !.count = @ - N]
        /\ usent' = usent /\ U!Leave(p, "full")
    BY <1>2 DEF U!upipe_read
  <2>2. upipe.count >= N /\ (upipe.count - N) % N = 0
    <3>1. upipe.count > 0 /\ 0 % N = 0
      BY <1>2, UpNumbers DEF U!Nothing
    <3>2. upipe.count % N = 0 /\ upipe.count \in Nat /\ N \in Nat \ {0}
      BY UpNumbers DEF UpInv, WholeInv
    <3>3. 0 < upipe.count => 0 + N <= upipe.count
      BY <3>1, <3>2, Multiples
    <3>4. (upipe.count - N) % N = 0
      BY <3>2, Multiples
    <3> QED
      BY <3>1, <3>2, <3>3, <3>4
  <2>3. \A b \in 1 .. N : B[b] = Len(got) + b
    <3> SUFFICES ASSUME NEW b \in 1 .. N PROVE upipe.data[(upipe.read_index + b - 1) % USize] = Len(got) + b
      OBVIOUS
    <3> DEFINE k == Len(got) + b
    <3>1. k \in Len(got) + 1 .. usent /\ k - 1 = upipe.read_index + b - 1
      <4> DEFINE taken == Len(got)
                 held == upipe.count
      <4>1. /\ N \in Nat /\ usent \in Nat /\ taken \in Nat /\ held \in Nat /\ usent = taken + held
            /\ held >= N /\ upipe.read_index = taken /\ k = taken + b
        BY <2>2, UpNumbers
      <4> HIDE DEF taken, held, k
      <4>2. k \in taken + 1 .. usent /\ k - 1 = taken + b - 1
        BY <4>1
      <4> QED BY <4>1, <4>2 DEF taken
    <3> HIDE DEF k
    <3>2. upipe.data[UpSlot(k - 1)] = k
      BY <3>1, UpData, Zenon
    <3> QED
      BY <3>1, <3>2, Zenon DEF UpSlot, k
  <2>4. B \in [1 .. N -> Nat]
    <3>1. \A b \in 1 .. N : B[b] \in Nat
      <4> HIDE DEF B
      <4> QED BY <2>3, UpNumbers
    <3> QED BY <3>1
  <2> HIDE DEF B
  <2>5. B \in Seq(Nat) /\ Len(B) = N
    BY <2>4, UpNumbers
  <2>6. got' \in Seq(Nat) /\ Len(got') = Len(got) + N
    <3>1. got \in Seq(Nat)
      BY UpNumbers
    <3>2. got \o B \in Seq(Nat) /\ Len(got \o B) = Len(got) + Len(B)
      BY <2>5, <3>1, SMTT(40)
    <3> QED BY <2>1, <2>5, <3>2
  <2>7. ASSUME NEW k \in 1 .. Len(got) + N
        PROVE  got'[k] = k
    <3>0. got \in Seq(Nat) /\ Len(got) \in Nat /\ N \in Nat /\ k \in Nat
      BY UpNumbers
    <3>1. CASE k <= Len(got)
      <4>1. (got \o B)[k] = got[k]
        BY <2>5, <3>0, <3>1
      <4>2. got[k] = k
        BY <3>0, <3>1 DEF UpInv, UpRingInv
      <4> QED
        BY <2>1, <4>1, <4>2
    <3>2. CASE k > Len(got)
      <4>1. k - Len(got) \in 1 .. N
        BY <3>0, <3>2
      <4>2. (got \o B)[k] = B[k - Len(got)]
        BY <2>5, <3>0, <3>2
      <4>3. B[k - Len(got)] = Len(got) + (k - Len(got))
        BY <2>3, <4>1, Zenon
      <4> QED
        BY <2>1, <3>0, <4>2, <4>3
    <3> QED
      BY <3>0, <3>1, <3>2
  <2>8. /\ upipe' \in UpPipe /\ upipe'.read_index = upipe.read_index + N /\ upipe'.count = upipe.count - N
        /\ upipe'.write_index = upipe.write_index /\ upipe'.data = upipe.data
    <3>1. upipe \in UpPipe
      BY DEF UpInv, UpType
    <3>2. upipe.read_index + N \in Nat /\ upipe.count - N \in Nat
      BY <2>2, UpNumbers
    <3> QED
      BY <2>1, <3>1, <3>2 DEF UpPipe
  <2>9. UpType'
    BY <2>1, <2>6, <2>8, LeaveFacts, UpNumbers DEF UpType, UpPipe, UpLists
  <2>10. UpRingInv'
    <3>1. \A k \in Len(got') + 1 .. usent' : k \in Len(got) + 1 .. usent
      BY <2>1, <2>6, UpNumbers
    <3>2. \A k \in Len(got') + 1 .. usent' : upipe'.data[UpSlot(k - 1)] = k
      BY <2>8, <3>1, UpData, Zenon
    <3>3. /\ upipe'.read_index = Len(got') /\ upipe'.write_index = usent'
          /\ usent' = Len(got') + upipe'.count /\ upipe'.count <= USize
      <4> DEFINE taken == Len(got)
                 held == upipe.count
      <4>1. /\ N \in Nat /\ USize \in Nat /\ usent \in Nat /\ taken \in Nat /\ held \in Nat /\ usent = taken + held
            /\ held >= N /\ held <= USize /\ upipe.read_index = taken /\ upipe.write_index = usent
            /\ Len(got') = taken + N /\ upipe'.read_index = taken + N /\ upipe'.count = held - N
            /\ upipe'.write_index = usent /\ usent' = usent
        BY <2>1, <2>2, <2>6, <2>8, UpNumbers
      <4> HIDE DEF taken, held
      <4>2. usent = (taken + N) + (held - N) /\ held - N <= USize
        BY <4>1
      <4> QED BY <4>1, <4>2
    <3>4. \A k \in 1 .. Len(got') : got'[k] = k
      BY <2>6, <2>7
    <3> QED
      BY <3>2, <3>3, <3>4 DEF UpRingInv
  <2>11. WholeInv'
    BY <2>1, <2>2, <2>8, LeaveFacts DEF WholeInv
  <2> QED
    BY <2>9, <2>10, <2>11 DEF UpInv
<1> QED
  BY <1>1, <1>2

\* Every step of Next preserves the invariant.
LEMMA UpInductive ==
  ASSUME Sized
  PROVE  U!Spec => []UpInv
<1>1. U!Init => UpInv
  <2> SUFFICES ASSUME U!Init PROVE UpInv
    OBVIOUS
  <2>1. 0 % N = 0
    BY DEF Sized
  <2>2. UpType
    <3>1. upipe \in UpPipe
      BY DEF U!Init, UpPipe, Sized
    <3>2. up \in [U!User -> UpProc]
      BY DEF U!Init, UpProc
    <3>3. cv \in UpLists
      <4>1. cv = [full |-> <<>>, empty |-> <<>>]
        BY DEF U!Init
      <4>2. cv["full"] = <<>> /\ cv["empty"] = <<>> /\ <<>> \in Seq(U!User)
        BY <4>1
      <4>3. cv = [c \in {"full", "empty"} |-> cv[c]]
        BY <4>1
      <4> QED
        BY <4>2, <4>3 DEF UpLists
    <3> QED
      BY <3>1, <3>2, <3>3 DEF U!Init, UpType
  <2>3. WholeInv /\ UpRingInv
    BY <2>1 DEF U!Init, WholeInv, UpRingInv, Sized, U!User
  <2> QED
    BY <2>2, <2>3 DEF UpInv
<1>2. UpInv /\ [U!Next]_(U!vars) => UpInv'
  <2>1. ASSUME UpInv, UNCHANGED U!vars PROVE UpInv'
    BY <2>1 DEF UpInv, UpType, UpPipe, UpLists, WholeInv, UpRingInv, U!vars
  <2> QED
    BY <2>1, OutsideStep, WriteStep, ReadStep DEF U!Next
<1> QED
  BY <1>1, <1>2, PTL DEF U!Spec

\* upipe_read() returns the bytes that upipe_write() put in, each once and in order,
\* and count is what lies between the two indices and never more than the pipe
\* holds, for any number of readers and writers, any size of the pipe and any size of
\* call that divides it (upipe.c, as upipeex.c uses it).
THEOREM UpipeInOrder == U!Spec => []BytesInOrder
<1>0. Sized
  BY RingsAssumption
<1>1. UpInv => BytesInOrder
  <2> SUFFICES ASSUME UpInv PROVE BytesInOrder
    OBVIOUS
  <2>1. got = [k \in 1 .. Len(got) |-> k]
    <3>1. got \in Seq(Nat) /\ \A k \in 1 .. Len(got) : got[k] = k
      BY DEF UpInv, UpType, UpRingInv
    <3> QED
      BY <3>1
  <2> QED
    BY <1>0, <2>1, UpNumbers DEF BytesInOrder, U!BytesInOrder
<1>2. U!Spec => []UpInv
  BY <1>0, UpInductive
<1> QED
  BY <1>1, <1>2, PTL

-----------------------------------------------------------------------------
(* The console's ring.                                                     *)

\* Every nonempty set of natural numbers has a least element.
LEMMA LeastNatural ==
  ASSUME NEW S \in SUBSET Nat, S # {}
  PROVE  \E x \in S : \A y \in S : x <= y
<1> DEFINE R == {ss \in Nat \X Nat : ss[1] < ss[2]}
<1>1. IsWellFoundedOn(R, Nat)
  BY NatLessThanWellFounded, Zenon DEF OpToRel
<1>2. PICK x \in S : \A y \in S : <<y, x>> \notin R
  <2> HIDE DEF R
  <2> QED BY <1>1, WFMin, Zenon
<1>3. \A y \in S : ~ y < x
  BY <1>2
<1> QED BY <1>3

\* A set of numbers with a bound has a greatest element.
LEMMA MostFacts ==
  ASSUME NEW n \in Nat, NEW S \in SUBSET (0 .. n), S # {}
  PROVE  C!Most(S) \in S /\ \A j \in S : j <= C!Most(S)
<1> DEFINE T == {n - k : k \in S}
<1>1. T \in SUBSET Nat /\ T # {}
  <2>1. \A k \in S : n - k \in Nat
    OBVIOUS
  <2> QED BY <2>1
<1>2. PICK x \in T : \A y \in T : x <= y
  BY <1>1, LeastNatural
<1>3. PICK k \in S : x = n - k
  BY <1>2
<1>4. \A j \in S : j <= k
  <2> SUFFICES ASSUME NEW j \in S PROVE j <= k
    OBVIOUS
  <2>1. x <= n - j
    BY <1>2
  <2>2. j \in Nat /\ k \in Nat
    OBVIOUS
  <2> QED
    BY <1>3, <2>1, <2>2
<1> QED
  BY <1>3, <1>4, Zenon DEF C!Most

\* The characters that come from the keyboard, and all of them.
Typed == {C!NO, "\n", "\r", "^H"} \cup UNION {{C!Letters[k][n] : n \in 1 .. 3} : k \in DOMAIN C!Letters}
Chars == Typed \cup Serial

\* The index, and the slot, of the character that a others precede.
Index(a) == a % CWidth
Place(a) == a % INPUT_BUF

ConType ==
  /\ input \in [buf : [0 .. INPUT_BUF - 1 -> Chars], r : Nat, w : Nat, e : Nat]
  /\ lines \in Seq(Chars) /\ line \in Seq(Chars)
  /\ reader \in [C!Reader -> [pc : {"user", "read", "sleep"}, n : Nat, killed : BOOLEAN, reads : Nat]]

\* Counting from the first character ever entered, character R is the next to be
\* read: the indices are wrapped counts, and the ring holds lines and then line.
Counted(R) ==
  /\ input.r = Index(R) /\ input.w = Index(R + Len(lines))
  /\ input.e = Index(R + Len(lines) + Len(line))
  /\ \A k \in 1 .. Len(lines) : input.buf[Place(R + k - 1)] = lines[k]
  /\ \A k \in 1 .. Len(line) : input.buf[Place(R + Len(lines) + k - 1)] = line[k]

\* A full ring has been handed over, and the line being edited has no newline.
ConRing ==
  /\ \E R \in Nat : Counted(R)
  /\ Len(lines) + Len(line) <= INPUT_BUF
  /\ Len(lines) + Len(line) = INPUT_BUF => line = <<>>
  /\ \A k \in 1 .. Len(line) : line[k] # "\n"

SleepInv == \A p \in C!Reader : reader[p].pc = "sleep" => input.r = input.w
HeldInv == \A m \in {"CTL", "SHIFT"} : m \in shift => \E k \in down : m \in C!shiftcode(k[1], k[2])

ConInv == ConType /\ ConRing /\ SleepInv /\ HeldInv

-----------------------------------------------------------------------------
(* Wrapped indices.                                                        *)

\* Counting before and after the wrap.
LEMMA IndexFacts ==
  ASSUME ConSized
  PROVE  /\ \A a \in Nat : Index(a) \in 0 .. CWidth - 1 /\ Place(a) \in 0 .. INPUT_BUF - 1
         /\ \A a, b \in Nat : (Index(a) + b) % INPUT_BUF = Place(a + b)
         /\ \A a, b \in Nat : (Index(a) + b) % CWidth = Index(a + b)
<1>1. INPUT_BUF \in Nat \ {0} /\ CWidth \in Nat \ {0} /\ CWidth % INPUT_BUF = 0 /\ \A a \in Nat : a \in Int
  BY DEF ConSized
<1>2. \A a \in Nat : Index(a) \in 0 .. CWidth - 1 /\ Place(a) \in 0 .. INPUT_BUF - 1
  BY <1>1, ModDef, Zenon DEF Index, Place
<1>3. ASSUME NEW a \in Nat, NEW b \in Nat
      PROVE  (Index(a) + b) % INPUT_BUF = Place(a + b) /\ (Index(a) + b) % CWidth = Index(a + b)
  <2> DEFINE x == Index(a)
  <2>1. x \in Int /\ x + b \in Int /\ a + b \in Int
    <3>1. x \in 0 .. CWidth - 1
      BY <1>2, Zenon
    <3> HIDE DEF x
    <3> QED BY <1>1, <3>1
  <2>2. (x + b) % CWidth = (a + b) % CWidth
    <3>1. a \in Int /\ b \in Int /\ CWidth \in Nat \ {0}
      BY <1>1
    <3> QED BY <3>1, ModAdd, ZenonT(40) DEF Index
  <2>3. ((x + b) % CWidth) % INPUT_BUF = (x + b) % INPUT_BUF
    <3> HIDE DEF x
    <3> QED BY <1>1, <2>1, ModMod, Zenon
  <2>4. ((a + b) % CWidth) % INPUT_BUF = (a + b) % INPUT_BUF
    BY <1>1, <2>1, ModMod, Zenon
  <2> QED
    BY <2>2, <2>3, <2>4, Zenon DEF Index, Place
<1> QED
  BY <1>2, <1>3, Zenon

\* The distance of two indices, and going back.
LEMMA IndexBack ==
  ASSUME ConSized
  PROVE  /\ \A a, d \in Nat : d < CWidth => (Index(a + d) + CWidth - Index(a)) % CWidth = d
         /\ \A a, j \in Nat : j <= a /\ j <= CWidth => /\ (Index(a) + CWidth - j) % CWidth = Index(a - j)
                                                      /\ (Index(a) + CWidth - j) % INPUT_BUF = Place(a - j)
<1>0. CWidth \in Nat /\ CWidth \in Nat \ {0} /\ INPUT_BUF \in Nat \ {0} /\ CWidth % INPUT_BUF = 0
  BY DEF ConSized
<1>1. ASSUME NEW a \in Nat, NEW d \in Nat, d < CWidth
      PROVE  (Index(a + d) + CWidth - Index(a)) % CWidth = d
  <2> DEFINE x == Index(a)
             q == a \div CWidth
             y == Index(a + d)
             z == (a + d) \div CWidth
  <2>1. q \in Int /\ x \in 0 .. CWidth - 1 /\ a = CWidth * q + x
    BY <1>0, ModDef DEF Index
  <2>2. a + d \in Int
    OBVIOUS
  <2>3. z \in Int /\ y \in 0 .. CWidth - 1 /\ a + d = CWidth * z + y
    BY <1>0, <2>2, ModDef, Zenon DEF Index
  <2> HIDE DEF x, q, y, z
  <2> DEFINE u == (q - z) + 1
             t == y + CWidth - x
  <2>4. u \in Int /\ t \in Int /\ t = CWidth * u + d /\ d \in Int /\ d \in 0 .. CWidth - 1
    BY <1>0, <1>1, <2>1, <2>3
  <2> HIDE DEF u, t
  <2>5. t % CWidth = d
    BY <1>0, <2>4, ModUnique, ZenonT(40)
  <2> QED
    BY <2>5 DEF t, x, y
<1>2. ASSUME NEW a \in Nat, NEW j \in Nat, j <= a, j <= CWidth
      PROVE  /\ (Index(a) + CWidth - j) % CWidth = Index(a - j)
             /\ (Index(a) + CWidth - j) % INPUT_BUF = Place(a - j)
  <2> DEFINE x == Index(a)
             b == CWidth - j
             z == x + CWidth - j
             v == a - j
             o == 1
  <2>1. x \in 0 .. CWidth - 1
    BY IndexFacts, Zenon
  <2> HIDE DEF x
  <2>2. b \in Nat /\ z = x + b /\ z \in Int /\ v \in Int /\ v \in Nat /\ a + b = v + CWidth /\ a + b \in Int
    BY <1>0, <1>2, <2>1
  <2> HIDE DEF b, z, v
  <2>3. z % CWidth = Index(a + b) /\ z % INPUT_BUF = Place(a + b)
    BY <2>2, IndexFacts, Zenon DEF x
  <2>4. (v + CWidth) % CWidth = v % CWidth
    <3> DEFINE q == v \div CWidth
               r == v % CWidth
               q1 == q + 1
               s == v + CWidth
    <3>1. q \in Int /\ r \in 0 .. CWidth - 1 /\ v = CWidth * q + r
      BY <1>0, <2>2, ModDef, Zenon
    <3> HIDE DEF q, r
    <3>2. q1 \in Int /\ r \in Int /\ s \in Int /\ s = CWidth * q1 + r
      BY <1>0, <2>2, <3>1
    <3> HIDE DEF q1, s
    <3>3. s % CWidth = r
      BY <1>0, <3>1, <3>2, ModUnique, ZenonT(40)
    <3> QED BY <3>3, Zenon DEF s, r
  <2>5. Index(a + b) = Index(v)
    BY <2>2, <2>4, Zenon DEF Index
  <2>6. Index(a + b) % INPUT_BUF = Place(a + b) /\ Index(v) % INPUT_BUF = Place(v)
    BY <1>0, <2>2, ModMod, Zenon DEF Index, Place
  <2>7. z % CWidth = Index(v) /\ z % INPUT_BUF = Place(v)
    BY <2>3, <2>5, <2>6, Zenon
  <2> QED
    BY <2>7, Zenon DEF z, v, x
<1> QED
  BY <1>1, <1>2

\* Characters in the ring have different slots.
LEMMA PlaceApart ==
  ASSUME ConSized, NEW a \in Nat, NEW b \in Nat, a < b, b - a < INPUT_BUF
  PROVE  Place(a) # Place(b)
<1>1. INPUT_BUF \in Nat \ {0} /\ a \in Int /\ b \in Int /\ a <= b /\ a # b
  BY DEF ConSized
<1> QED
  BY <1>1, ModClose, Zenon DEF Place

-----------------------------------------------------------------------------
(* The ring in terms of the counts.                                        *)

\* The distances between the indices.
LEMMA ConNumbers ==
  ASSUME ConSized, ConInv, NEW R \in Nat, Counted(R)
  PROVE  /\ Len(lines) \in Nat /\ Len(line) \in Nat /\ Len(lines) + Len(line) <= INPUT_BUF
         /\ INPUT_BUF \in Nat /\ CWidth \in Nat /\ INPUT_BUF < CWidth
         /\ (input.w + CWidth - input.r) % CWidth = Len(lines)
         /\ (input.e + CWidth - input.w) % CWidth = Len(line)
         /\ C!Held(input) = Len(lines) + Len(line)
         /\ input.r = input.w <=> Len(lines) = 0
         /\ input.w = input.e <=> Len(line) = 0
<1> DEFINE L == Len(lines)
           K == Len(line)
<1>1. L \in Nat /\ K \in Nat /\ L + K <= INPUT_BUF /\ INPUT_BUF \in Nat /\ CWidth \in Nat /\ INPUT_BUF < CWidth
  BY DEF ConInv, ConType, ConRing, ConSized
<1>2. input.r = Index(R) /\ input.w = Index(R + L) /\ input.e = Index(R + L + K)
  BY DEF Counted
<1> HIDE DEF L, K
<1>3. L < CWidth /\ K < CWidth /\ L + K \in Nat /\ L + K < CWidth /\ R + L \in Nat /\ 0 \in Nat /\ 0 < CWidth
      /\ R + (L + K) = R + L + K /\ R + 0 = R /\ (R + L) + 0 = R + L
  BY <1>1
<1>4. /\ (input.w + CWidth - input.r) % CWidth = L /\ (input.e + CWidth - input.w) % CWidth = K
      /\ (input.e + CWidth - input.r) % CWidth = L + K
  <2>1. (Index(R + L) + CWidth - Index(R)) % CWidth = L
    BY <1>1, <1>3, IndexBack, Zenon
  <2>2. (Index((R + L) + K) + CWidth - Index(R + L)) % CWidth = K
    BY <1>1, <1>3, IndexBack, Zenon
  <2>3. (Index(R + (L + K)) + CWidth - Index(R)) % CWidth = L + K
    BY <1>3, IndexBack, Zenon
  <2> QED BY <1>2, <1>3, <2>1, <2>2, <2>3
<1>5. (input.r + CWidth - input.r) % CWidth = 0 /\ (input.w + CWidth - input.w) % CWidth = 0
  <2>1. \A a \in Nat : (Index(a + 0) + CWidth - Index(a)) % CWidth = 0
    BY <1>3, IndexBack, Zenon
  <2> QED BY <1>2, <1>3, <2>1, Zenon
<1>6. input.r = input.w <=> L = 0
  <2>1. L = 0 => input.w = input.r
    BY <1>2, <1>3, Zenon
  <2> QED BY <1>4, <1>5, <2>1, Zenon
<1>7. input.w = input.e <=> K = 0
  <2>1. K = 0 => input.w = input.e
    BY <1>2, <1>3, Zenon
  <2> QED BY <1>4, <1>5, <2>1, Zenon
<1> QED
  BY <1>1, <1>4, <1>6, <1>7, Zenon DEF C!Held, L, K

\* The invariant is what the property asks for.
LEMMA ConInvOrders ==
  ASSUME ConSized, ConInv
  PROVE  C!InputInOrder
<1>1. PICK R \in Nat : Counted(R)
  BY DEF ConInv, ConRing
<1> DEFINE L == Len(lines)
           K == Len(line)
<1>2. L \in Nat /\ K \in Nat /\ lines \in Seq(Chars) /\ line \in Seq(Chars)
  BY DEF ConInv, ConType
<1>3. ASSUME NEW a \in Nat, NEW k \in Nat, k >= 1
      PROVE  C!Slot(Index(a) + k - 1) = Place(a + k - 1)
  <2> DEFINE b == k - 1
  <2>0. Index(a) \in Nat
    <3>1. Index(a) \in 0 .. CWidth - 1
      BY IndexFacts, Zenon
    <3> QED BY <3>1
  <2>1. b \in Nat /\ Index(a) + k - 1 = Index(a) + b /\ a + k - 1 = a + b
    BY <1>3, <2>0
  <2> HIDE DEF b
  <2> QED
    BY <2>1, IndexFacts, Zenon DEF C!Slot
<1>4. C!Ring(input, input.r, input.w) = lines
  <2>1. C!Ring(input, input.r, input.w) = [k \in 1 .. L |-> input.buf[C!Slot(input.r + k - 1)]]
    BY <1>1, ConNumbers, Zenon DEF C!Ring
  <2>2. \A k \in 1 .. L : k \in Nat /\ k >= 1
    BY <1>2
  <2>3. \A k \in 1 .. L : input.buf[C!Slot(input.r + k - 1)] = lines[k]
    BY <1>1, <1>3, <2>2, Zenon DEF Counted
  <2>4. lines = [k \in 1 .. L |-> lines[k]]
    BY <1>2
  <2> QED BY <2>1, <2>3, <2>4, Zenon
<1>5. C!Ring(input, input.w, input.e) = line
  <2>1. C!Ring(input, input.w, input.e) = [k \in 1 .. K |-> input.buf[C!Slot(input.w + k - 1)]]
    BY <1>1, ConNumbers, Zenon DEF C!Ring
  <2>2. R + L \in Nat /\ \A k \in 1 .. K : k \in Nat /\ k >= 1
    BY <1>2
  <2>3. \A k \in 1 .. K : input.buf[C!Slot(input.w + k - 1)] = line[k]
    BY <1>1, <1>3, <2>2, Zenon DEF Counted
  <2>4. line = [k \in 1 .. K |-> line[k]]
    BY <1>2
  <2> QED BY <2>1, <2>3, <2>4, Zenon
<1>6. C!Held(input) = INPUT_BUF => input.w = input.e
  <2>1. line = <<>> => K = 0
    OBVIOUS
  <2> QED BY <1>1, <2>1, ConNumbers, Zenon DEF ConInv, ConRing
<1> QED
  BY <1>4, <1>5, <1>6, Zenon DEF C!InputInOrder, ConInv, SleepInv, HeldInv

-----------------------------------------------------------------------------
(* consoleintr()                                                           *)

\* A letter is a character.
LEMMA LetterIn ==
  ASSUME NEW k \in DOMAIN C!Letters, NEW n \in 1 .. 3
  PROVE  C!Letters[k][n] \in Chars
<1> DEFINE S(h) == {C!Letters[h][j] : j \in 1 .. 3}
<1>1. C!Letters[k][n] \in S(k)
  BY Zenon
<1>2. C!Letters[k][n] \in UNION {S(h) : h \in DOMAIN C!Letters}
  <2> HIDE DEF S
  <2> QED BY <1>1, Zenon
<1> QED BY <1>2, Zenon DEF Chars, Typed

\* The keyboard produces characters.
LEMMA CharIn ==
  ASSUME NEW sh, NEW ext, NEW code
  PROVE  C!Char(sh, ext, code) \in Chars
<1> DEFINE Lev == C!Level(sh)
           ch == C!charcode(Lev, ext, code)
<1>1. Lev \in 1 .. 3
  BY DEF C!Level
<1>2. ch \in Chars
  <2> HIDE DEF Lev
  <2>1. Lev = 1 \/ Lev = 2 \/ Lev = 3
    BY <1>1
  <2>2. CASE code \in DOMAIN C!Letters /\ ~ext
    <3>1. C!charcode(Lev, ext, code) = C!Letters[code][Lev]
      <4>1. code # "enter" /\ code # "backspace"
        BY <2>2 DEF C!Letters
      <4> QED BY <2>2, <4>1 DEF C!charcode
    <3> QED BY <1>1, <2>2, <3>1, LetterIn, Zenon
  <2>3. CASE code = "enter"
    <3>1. code \notin DOMAIN C!Letters
      BY <2>3 DEF C!Letters
    <3>2. <<"\n", "\n", "\r">>[Lev] \in {"\n", "\r"}
      BY <2>1
    <3>3. C!charcode(Lev, ext, code) = <<"\n", "\n", "\r">>[Lev]
      BY <2>3, <3>1 DEF C!charcode
    <3> QED BY <3>2, <3>3 DEF Chars, Typed
  <2>4. CASE code = "backspace" /\ ~ext
    <3>1. code \notin DOMAIN C!Letters
      BY <2>4 DEF C!Letters
    <3>2. <<"^H", "^H", C!NO>>[Lev] \in {"^H", C!NO}
      BY <2>1
    <3>3. C!charcode(Lev, ext, code) = <<"^H", "^H", C!NO>>[Lev]
      BY <2>4, <3>1 DEF C!charcode
    <3> QED BY <3>2, <3>3 DEF Chars, Typed
  <2>5. CASE ~(code \in DOMAIN C!Letters /\ ~ext) /\ code # "enter" /\ ~(code = "backspace" /\ ~ext)
    <3>1. C!charcode(Lev, ext, code) = C!NO
      BY <2>5 DEF C!charcode
    <3> QED BY <3>1 DEF Chars, Typed
  <2> QED BY <2>2, <2>3, <2>4, <2>5
<1> HIDE DEF ch
<1>3. C!SwapCase(ch) \in Chars
  <2> DEFINE Lower(k) == ch = C!Letters[k][1]
             Upper(k) == ch = C!Letters[k][2]
             a == CHOOSE k \in DOMAIN C!Letters : Lower(k)
             b == CHOOSE k \in DOMAIN C!Letters : Upper(k)
  <2>0. 1 \in 1 .. 3 /\ 2 \in 1 .. 3
    OBVIOUS
  <2>1. (\E k \in DOMAIN C!Letters : Lower(k)) => C!Letters[a][2] \in Chars
    <3>1. (\E k \in DOMAIN C!Letters : Lower(k)) => a \in DOMAIN C!Letters
      BY Zenon
    <3> HIDE DEF a
    <3> QED BY <2>0, <3>1, LetterIn, Zenon
  <2>2. (\E k \in DOMAIN C!Letters : Upper(k)) => C!Letters[b][1] \in Chars
    <3>1. (\E k \in DOMAIN C!Letters : Upper(k)) => b \in DOMAIN C!Letters
      BY Zenon
    <3> HIDE DEF b
    <3> QED BY <2>0, <3>1, LetterIn, Zenon
  <2> QED BY <1>2, <2>1, <2>2, Zenon DEF C!SwapCase
<1> QED
  BY <1>2, <1>3, Zenon DEF C!Char, ch

\* What Put() does to the ring when there is room.
LEMMA PutFacts ==
  ASSUME ConSized, ConInv, NEW R \in Nat, Counted(R), NEW c \in Chars, Len(lines) + Len(line) < INPUT_BUF
  PROVE  LET j == C!Put(input, c) IN
         /\ j \in [buf : [0 .. INPUT_BUF - 1 -> Chars], r : Nat, w : Nat, e : Nat]
         /\ j.r = input.r /\ j.w = input.w /\ j.e = Index(R + Len(lines) + Len(line) + 1)
         /\ C!Held(j) = Len(lines) + Len(line) + 1
         /\ \A k \in 1 .. Len(lines) : j.buf[Place(R + k - 1)] = lines[k]
         /\ \A k \in 1 .. Len(line) : j.buf[Place(R + Len(lines) + k - 1)] = line[k]
         /\ j.buf[Place(R + Len(lines) + Len(line))] = c
<1> DEFINE j == C!Put(input, c)
           L == Len(lines)
           K == Len(line)
           E == R + L + K
           s == Place(E)
           Type == [buf : [0 .. INPUT_BUF - 1 -> Chars], r : Nat, w : Nat, e : Nat]
           ne == (input.e + 1) % CWidth
<1>1. L \in Nat /\ K \in Nat /\ L + K <= INPUT_BUF /\ INPUT_BUF \in Nat /\ CWidth \in Nat /\ INPUT_BUF < CWidth /\ L + K < INPUT_BUF
  BY ConNumbers
<1>2. input \in Type /\ input.e = Index(E) /\ input.r = Index(R)
  BY DEF ConInv, ConType, Counted
<1>2a. /\ \A k \in 1 .. L : input.buf[Place(R + k - 1)] = lines[k]
       /\ \A k \in 1 .. K : input.buf[Place(R + L + k - 1)] = line[k]
  BY Zenon DEF Counted
<1> HIDE DEF L, K
<1>3. E \in Nat /\ 0 \in Nat /\ 1 \in Nat /\ E + 0 = E /\ E + 1 \in Nat
  BY <1>1
<1> HIDE DEF E
<1>4. C!Slot(input.e) = s
  <2>1. Index(E) + 0 = Index(E)
    <3>1. Index(E) \in 0 .. CWidth - 1
      BY <1>3, IndexFacts, Zenon
    <3> QED BY <3>1
  <2>2. (Index(E) + 0) % INPUT_BUF = Place(E + 0)
    BY <1>3, IndexFacts, Zenon
  <2> QED
    BY <1>2, <1>3, <2>1, <2>2, Zenon DEF C!Slot
<1>5. s \in 0 .. INPUT_BUF - 1
  BY <1>3, IndexFacts, Zenon
<1>6. ne = Index(E + 1)
  BY <1>2, <1>3, IndexFacts, Zenon
<1>7. ne \in Nat
  <2>1. Index(E + 1) \in 0 .. CWidth - 1
    BY <1>3, IndexFacts, Zenon
  <2> QED BY <1>6, <2>1
<1> HIDE DEF s, ne
<1>8. j = [input EXCEPT !.buf[s] = c, !.e = ne]
  BY <1>4, Zenon DEF C!Put, ne
<1> HIDE DEF j
<1>9. j \in Type /\ j.r = input.r /\ j.w = input.w /\ j.e = ne /\ j.buf = [input.buf EXCEPT ![s] = c]
  BY <1>2, <1>5, <1>7, <1>8
<1>10. j.buf[s] = c
  BY <1>2, <1>5, <1>9
<1>11. \A t \in 0 .. INPUT_BUF - 1 : t # s => j.buf[t] = input.buf[t]
  BY <1>2, <1>5, <1>9
<1>12. ASSUME NEW a \in Nat, a < E, E - a < INPUT_BUF
       PROVE  j.buf[Place(a)] = input.buf[Place(a)]
  <2>1. Place(a) # s
    BY <1>3, <1>12, PlaceApart, Zenon DEF s
  <2>2. Place(a) \in 0 .. INPUT_BUF - 1
    BY IndexFacts, Zenon
  <2> QED BY <1>11, <2>1, <2>2, Zenon
<1>13. \A k \in 1 .. L : j.buf[Place(R + k - 1)] = lines[k]
  <2> SUFFICES ASSUME NEW k \in 1 .. L PROVE j.buf[Place(R + k - 1)] = lines[k]
    OBVIOUS
  <2>1. R + k - 1 \in Nat /\ R + k - 1 < E /\ E - (R + k - 1) < INPUT_BUF
    BY <1>1 DEF E
  <2> QED BY <1>2a, <1>12, <2>1, Zenon
<1>14. \A k \in 1 .. K : j.buf[Place(R + L + k - 1)] = line[k]
  <2> SUFFICES ASSUME NEW k \in 1 .. K PROVE j.buf[Place(R + L + k - 1)] = line[k]
    OBVIOUS
  <2>1. R + L + k - 1 \in Nat /\ R + L + k - 1 < E /\ E - (R + L + k - 1) < INPUT_BUF
    BY <1>1 DEF E
  <2> QED BY <1>2a, <1>12, <2>1, Zenon
<1>15. C!Held(j) = L + K + 1
  <2>1. L + K + 1 \in Nat /\ L + K + 1 < CWidth /\ R + (L + K + 1) = E + 1
    BY <1>1 DEF E
  <2>2. (Index(E + 1) + CWidth - Index(R)) % CWidth = L + K + 1
    BY <2>1, IndexBack, Zenon
  <2> QED BY <1>2, <1>6, <1>9, <2>2, Zenon DEF C!Held
<1> QED
  BY <1>6, <1>9, <1>10, <1>13, <1>14, <1>15, Zenon DEF j, L, K, E, s

\* consoleintr() of one character, on the ring and on the sequences.
LEMMA EditRing ==
  ASSUME ConSized, ConInv, NEW c \in Chars, C!consoleintr(c)
  PROVE  /\ input' \in [buf : [0 .. INPUT_BUF - 1 -> Chars], r : Nat, w : Nat, e : Nat]
         /\ lines' \in Seq(Chars) /\ line' \in Seq(Chars)
         /\ ConRing'
         /\ input'.r = input.r
<1>0. PICK R \in Nat : Counted(R)
  BY DEF ConInv, ConRing
<1> DEFINE L == Len(lines)
           K == Len(line)
           Type == [buf : [0 .. INPUT_BUF - 1 -> Chars], r : Nat, w : Nat, e : Nat]
<1>1. L \in Nat /\ K \in Nat /\ L + K <= INPUT_BUF /\ INPUT_BUF \in Nat /\ CWidth \in Nat /\ INPUT_BUF < CWidth
  BY <1>0, ConNumbers
<1>2. /\ input \in Type /\ input.r = Index(R) /\ input.w = Index(R + L) /\ input.e = Index(R + L + K)
      /\ lines \in Seq(Chars) /\ line \in Seq(Chars)
  BY <1>0 DEF ConInv, ConType, Counted
<1>3. /\ \A k \in 1 .. L : input.buf[Place(R + k - 1)] = lines[k]
      /\ \A k \in 1 .. K : input.buf[Place(R + L + k - 1)] = line[k]
      /\ \A k \in 1 .. K : line[k] # "\n"
      /\ L + K = INPUT_BUF => line = <<>>
  BY <1>0, Zenon DEF Counted, ConInv, ConRing
<1>4. input' = C!Edited(input, c) /\ C!EditLine(c)
  BY DEF C!consoleintr
\* The line may get shorter: the rest of it is where it was.
<1>5. ASSUME NEW n \in 0 .. K, line' = SubSeq(line, 1, n), lines' = lines,
             input' = [input EXCEPT !.e = Index(R + L + n)]
      PROVE  input' \in Type /\ lines' \in Seq(Chars) /\ line' \in Seq(Chars) /\ ConRing' /\ input'.r = input.r
  <2>1. n \in Nat /\ R + L + n \in Nat /\ n <= K
    BY <1>1
  <2>2. Index(R + L + n) \in Nat
    <3>1. Index(R + L + n) \in 0 .. CWidth - 1
      BY <2>1, IndexFacts, Zenon
    <3> QED BY <3>1
  <2>3. /\ input' \in Type /\ input'.r = input.r /\ input'.w = input.w /\ input'.e = Index(R + L + n)
        /\ input'.buf = input.buf
    <3> DEFINE x == Index(R + L + n)
    <3>1. x \in Nat /\ input' = [input EXCEPT !.e = x]
      BY <1>5, <2>2
    <3> HIDE DEF x
    <3>2. input' \in Type /\ input'.r = input.r /\ input'.w = input.w /\ input'.e = x /\ input'.buf = input.buf
      BY <1>2, <3>1
    <3> QED BY <3>2 DEF x
  <2>4. line' \in Seq(Chars) /\ Len(line') = n /\ \A k \in 1 .. n : line'[k] = line[k]
    BY <1>2, <1>5, <2>1, SMTT(40)
  <2>5. \A k \in 1 .. n : k \in 1 .. K
    BY <1>1
  <2>6. Counted(R)'
    BY <1>2, <1>3, <1>5, <2>3, <2>4, <2>5, Zenon DEF Counted
  <2>7. Len(lines') + Len(line') <= INPUT_BUF /\ (Len(lines') + Len(line') = INPUT_BUF => line' = <<>>)
    <3>1. L + n <= INPUT_BUF /\ (L + n = INPUT_BUF => n = K /\ L + K = INPUT_BUF)
      BY <1>1, <2>1
    <3>2. line = <<>> => K = 0
      OBVIOUS
    <3>3. n = 0 => line' = <<>>
      BY <2>4
    <3> HIDE DEF K, L
    <3> QED BY <1>3, <1>5, <2>4, <3>1, <3>2, <3>3 DEF L
  <2>8. \A k \in 1 .. Len(line') : line'[k] # "\n"
    BY <1>3, <2>4, <2>5
  <2> QED
    BY <1>2, <1>5, <2>3, <2>4, <2>6, <2>7, <2>8 DEF ConRing
<1>6. CASE c = "^U"
  <2>1. input' = C!KillLine(input) /\ line' = <<>> /\ lines' = lines
    BY <1>4, <1>6 DEF C!Edited, C!EditLine
  <2>2. C!Erased(input) = 0 .. K
    <3>1. (input.e + CWidth - input.w) % CWidth = K
      BY <1>0, ConNumbers, Zenon
    <3>2. ASSUME NEW j \in 1 .. K PROVE input.buf[C!Slot(input.e + CWidth - j)] # "\n"
      <4> DEFINE E == R + L + K
                 k == (K - j) + 1
      <4>1. E \in Nat /\ j \in Nat /\ j <= E /\ j <= CWidth /\ k \in 1 .. K /\ E - j = R + L + k - 1
        BY <1>1
      <4> HIDE DEF E, k
      <4>2. C!Slot(input.e + CWidth - j) = Place(E - j)
        BY <1>2, <4>1, IndexBack, Zenon DEF C!Slot, E
      <4> QED BY <1>3, <4>1, <4>2
    <3>3. ASSUME NEW k \in 0 .. K PROVE \A j \in 1 .. k : input.buf[C!Slot(input.e + CWidth - j)] # "\n"
      <4>1. \A j \in 1 .. k : j \in 1 .. K
        BY <1>1
      <4> QED BY <3>2, <4>1, Zenon
    <3> QED BY <3>1, <3>3, Zenon DEF C!Erased
  <2>3. C!Most(0 .. K) = K
    <3>1. 0 .. K \in SUBSET (0 .. K) /\ 0 .. K # {} /\ K \in 0 .. K
      BY <1>1
    <3>2. C!Most(0 .. K) \in 0 .. K /\ \A j \in 0 .. K : j <= C!Most(0 .. K)
      BY <1>1, <3>1, MostFacts, Zenon
    <3>3. K <= C!Most(0 .. K)
      BY <3>1, <3>2, Zenon
    <3> QED BY <1>1, <3>2, <3>3
  <2>4. (input.e + CWidth - K) % CWidth = Index(R + L + 0)
    <3> DEFINE E == R + L + K
    <3>1. E \in Nat /\ K \in Nat /\ K <= E /\ K <= CWidth /\ E - K = R + L + 0
      BY <1>1
    <3> HIDE DEF E
    <3> QED BY <1>2, <3>1, IndexBack, Zenon DEF E
  <2>5. input' = [input EXCEPT !.e = Index(R + L + 0)]
    BY <2>1, <2>2, <2>3, <2>4 DEF C!KillLine
  <2>6. line' = SubSeq(line, 1, 0) /\ 0 \in 0 .. K
    BY <1>1, <1>2, <2>1
  <2> QED BY <1>5, <2>1, <2>5, <2>6
<1>7. CASE c = "^H"
  <2>1. /\ input' = IF input.e # input.w THEN [input EXCEPT !.e = (@ + CWidth - 1) % CWidth] ELSE input
        /\ line' = (IF line = <<>> THEN line ELSE SubSeq(line, 1, K - 1)) /\ lines' = lines
    BY <1>4, <1>7 DEF C!Edited, C!EditLine
  <2>2. (input.w = input.e <=> K = 0) /\ (K = 0 <=> line = <<>>)
    <3>1. K = 0 <=> line = <<>>
      BY <1>2
    <3> QED BY <1>0, <3>1, ConNumbers, Zenon
  <2>3. CASE K = 0
    <3>1. line' = SubSeq(line, 1, 0) /\ 0 \in 0 .. K /\ lines' = lines
      BY <1>1, <1>2, <2>1, <2>2, <2>3
    <3>2. input' = input
      BY <2>1, <2>2, <2>3
    <3>3. input.e = Index(R + L + 0)
      BY <1>2, <2>3
    <3>4. input' = [input EXCEPT !.e = Index(R + L + 0)]
      BY <1>2, <3>2, <3>3
    <3> QED BY <1>5, <3>1, <3>4
  <2>4. CASE K > 0
    <3> DEFINE E == R + L + K
               n == K - 1
    <3>1. E \in Nat /\ 1 \in Nat /\ 1 <= E /\ 1 <= CWidth /\ E - 1 = R + L + n /\ n \in 0 .. K /\ K # 0
      BY <1>1, <2>4
    <3>2. line' = SubSeq(line, 1, n) /\ lines' = lines
      BY <2>1, <2>2, <3>1
    <3> HIDE DEF E, n
    <3>3. (input.e + CWidth - 1) % CWidth = Index(R + L + n)
      BY <1>2, <3>1, IndexBack, Zenon DEF E
    <3>4. input' = [input EXCEPT !.e = Index(R + L + n)]
      BY <2>1, <2>2, <3>1, <3>3
    <3> QED BY <1>5, <3>1, <3>2, <3>4
  <2> QED BY <1>1, <2>3, <2>4
<1>8. CASE c # "^U" /\ c # "^H" /\ (c \in {C!NO, "^P"} \/ L + K = INPUT_BUF)
  <2>1. C!Room(input) <=> L + K < INPUT_BUF
    BY <1>0, ConNumbers, Zenon DEF C!Room
  <2>2. input' = input /\ line' = line /\ lines' = lines
    BY <1>1, <1>4, <1>8, <2>1 DEF C!Edited, C!EditLine, C!Full
  <2> QED
    BY <1>2, <2>2 DEF ConInv, ConRing, Counted
<1>9. CASE c # "^U" /\ c # "^H" /\ c \notin {C!NO, "^P"} /\ L + K # INPUT_BUF
  <2> DEFINE ch == C!Newline(c)
             j == C!Put(input, ch)
             t == Append(line, ch)
             entered == ch \in {"\n", "^D"} \/ L + K + 1 = INPUT_BUF
  <2>1. ch \in Chars
    BY DEF C!Newline, Chars, Typed
  <2>2. L + K < INPUT_BUF
    BY <1>1, <1>9
  <2>3. /\ j \in Type /\ j.r = input.r /\ j.w = input.w /\ j.e = Index(R + L + K + 1)
        /\ C!Held(j) = L + K + 1
        /\ \A k \in 1 .. L : j.buf[Place(R + k - 1)] = lines[k]
        /\ \A k \in 1 .. K : j.buf[Place(R + L + k - 1)] = line[k]
        /\ j.buf[Place(R + L + K)] = ch
    BY <1>0, <2>1, <2>2, PutFacts, ZenonT(40)
  <2>4. input' = C!Enter(j, ch) /\ C!TypeChar(t, ch)
    <3>1. C!Room(input)
      BY <1>0, <2>2, ConNumbers, Zenon DEF C!Room
    <3> QED BY <1>4, <1>9, <3>1, Zenon DEF C!Edited, C!EditLine, C!Full
  <2>5. t \in Seq(Chars) /\ Len(t) = K + 1 /\ (\A k \in 1 .. K : t[k] = line[k]) /\ t[K + 1] = ch
    <3> HIDE DEF ch
    <3> QED BY <1>2, <2>1
  <2> HIDE DEF ch, j, t
  <2>6. \A k \in 1 .. K + 1 : j.buf[Place(R + L + k - 1)] = t[k]
    <3> SUFFICES ASSUME NEW k \in 1 .. K + 1 PROVE j.buf[Place(R + L + k - 1)] = t[k]
      OBVIOUS
    <3>1. CASE k = K + 1
      <4>1. R + L + k - 1 = R + L + K
        BY <1>1, <3>1
      <4> QED BY <2>3, <2>5, <3>1, <4>1
    <3>2. CASE k # K + 1
      <4>1. k \in 1 .. K
        BY <1>1, <3>2
      <4> QED BY <2>3, <2>5, <4>1
    <3> QED BY <3>1, <3>2
  <2>7. CASE entered
    <3>1. input' = [j EXCEPT !.w = j.e] /\ line' = <<>> /\ lines' = lines \o t
      <4>1. C!Enters(j, ch) /\ (ch \in {"\n", "^D"} \/ L + Len(t) = INPUT_BUF)
        BY <1>1, <2>3, <2>5, <2>7 DEF C!Enters
      <4> QED BY <2>4, <4>1, Zenon DEF C!Enter, C!TypeChar
    <3>2. /\ input' \in Type /\ input'.r = input.r /\ input'.w = j.e /\ input'.e = j.e /\ input'.buf = j.buf
      BY <2>3, <3>1
    <3>3. lines' \in Seq(Chars) /\ Len(lines') = L + (K + 1)
      <4>1. lines \o t \in Seq(Chars) /\ Len(lines \o t) = Len(lines) + Len(t)
        <5>1. lines \in Seq(Chars) /\ t \in Seq(Chars)
          BY <1>2, <2>5
        <5> HIDE DEF L
        <5> QED BY <5>1
      <4> QED BY <2>5, <3>1, <4>1
    <3>4. ASSUME NEW k \in 1 .. L + (K + 1) PROVE input'.buf[Place(R + k - 1)] = lines'[k]
      <4>1. CASE k <= L
        <5>1. k \in 1 .. L /\ lines'[k] = lines[k]
          BY <1>1, <1>2, <2>5, <3>1, <4>1
        <5> QED BY <2>3, <3>2, <5>1
      <4>2. CASE k > L
        <5> DEFINE h == k - L
        <5>1. h \in 1 .. K + 1 /\ R + L + h - 1 = R + k - 1
          BY <1>1, <4>2
        <5>2. lines'[k] = t[h]
          <6>1. (lines \o t)[k] = t[k - Len(lines)]
            BY <1>1, <1>2, <2>5, <4>2
          <6> QED BY <3>1, <6>1, Zenon
        <5> HIDE DEF h
        <5> QED BY <2>6, <3>2, <5>1, <5>2
      <4> QED BY <1>1, <4>1, <4>2
    <3>5. Counted(R)'
      <4>1. line' = <<>> /\ Len(line') = 0 /\ \A k : k \notin 1 .. 0
        BY <3>1
      <4>2. R + (L + (K + 1)) = R + L + K + 1 /\ R + (L + (K + 1)) + 0 = R + L + K + 1
        BY <1>1
      <4>3. input'.r = Index(R) /\ input'.w = Index(R + Len(lines')) /\ input'.e = Index(R + Len(lines') + Len(line'))
        BY <1>2, <2>3, <3>2, <3>3, <4>1, <4>2
      <4> QED BY <3>3, <3>4, <4>1, <4>3 DEF Counted
    <3>6. line' \in Seq(Chars) /\ Len(line') = 0
      BY <3>1
    <3>7. ConRing'
      BY <1>1, <2>2, <3>1, <3>3, <3>5, <3>6 DEF ConRing
    <3> QED BY <3>2, <3>3, <3>6, <3>7
  <2>8. CASE ~entered
    <3>1. input' = j /\ line' = t /\ lines' = lines
      <4>1. ~C!Enters(j, ch) /\ ~(ch \in {"\n", "^D"} \/ L + Len(t) = INPUT_BUF)
        BY <1>1, <2>3, <2>5, <2>8 DEF C!Enters
      <4> QED BY <2>4, <4>1, Zenon DEF C!Enter, C!TypeChar
    <3>2. Counted(R)'
      <4>1. R + L + (K + 1) = R + L + K + 1
        BY <1>1
      <4>2. input'.r = Index(R) /\ input'.w = Index(R + Len(lines')) /\ input'.e = Index(R + Len(lines') + Len(line'))
        BY <1>2, <2>3, <2>5, <3>1, <4>1
      <4> QED BY <2>3, <2>5, <2>6, <3>1, <4>2 DEF Counted
    <3>3. \A k \in 1 .. Len(line') : line'[k] # "\n"
      <4> SUFFICES ASSUME NEW k \in 1 .. K + 1 PROVE t[k] # "\n"
        BY <2>5, <3>1
      <4>1. CASE k = K + 1
        BY <2>5, <2>8, <4>1
      <4>2. CASE k # K + 1
        <5>1. k \in 1 .. K
          BY <1>1, <4>2
        <5> QED BY <1>3, <2>5, <5>1
      <4> QED BY <4>1, <4>2
    <3>4. Len(lines') + Len(line') <= INPUT_BUF /\ Len(lines') + Len(line') # INPUT_BUF
      BY <1>1, <2>2, <2>5, <2>8, <3>1
    <3>5. ConRing'
      BY <3>2, <3>3, <3>4 DEF ConRing
    <3> QED BY <1>2, <2>3, <2>5, <3>1, <3>5
  <2> QED BY <2>7, <2>8
<1> QED
  BY <1>6, <1>7, <1>8, <1>9

\* consoleread() takes some of the lines off the ring, and all of them if it has
\* to wait for more.
LEMMA TakeFacts ==
  ASSUME ConSized, ConInv, NEW R \in Nat, Counted(R), NEW n \in Nat
  PROVE  \E d \in 0 .. Len(lines) :
           /\ C!Take(input, n).i = [input EXCEPT !.r = Index(R + d)] /\ C!Take(input, n).n \in Nat
           /\ C!Take(input, n).more => d = Len(lines)
<1> DEFINE L == Len(lines)
           O == C!Ordinary(input, n)
           k == C!Most(O)
           j == C!Advanced(input, k)
           Type == [buf : [0 .. INPUT_BUF - 1 -> Chars], r : Nat, w : Nat, e : Nat]
<1>1. /\ L \in Nat /\ CWidth \in Nat /\ (input.w + CWidth - input.r) % CWidth = L
      /\ L < CWidth /\ INPUT_BUF \in Nat
  BY ConNumbers
<1>2. input \in Type /\ input.r = Index(R) /\ input.w = Index(R + L)
  BY DEF ConInv, ConType, Counted
<1> HIDE DEF L
<1>3. k \in 0 .. n /\ k <= L
  <2>1. O \in SUBSET (0 .. n)
    BY DEF C!Ordinary
  <2>2. 0 \in O
    BY <1>1 DEF C!Ordinary
  <2>3. \A x \in O : x <= L
    BY <1>1 DEF C!Ordinary
  <2>4. k \in O
    <3> HIDE DEF O
    <3> QED BY <2>1, <2>2, MostFacts, Zenon
  <2> QED BY <2>1, <2>3, <2>4
<1>4. k \in Nat /\ L - k \in Nat /\ n - k \in Nat /\ R + k \in Nat
  BY <1>1, <1>3
<1> HIDE DEF O, k
<1>5. \A d \in Nat : (Index(R) + d) % CWidth = Index(R + d) /\ Index(R + d) \in Nat
  <2> SUFFICES ASSUME NEW d \in Nat PROVE (Index(R) + d) % CWidth = Index(R + d) /\ Index(R + d) \in Nat
    OBVIOUS
  <2>1. R + d \in Nat
    OBVIOUS
  <2>2. Index(R + d) \in 0 .. CWidth - 1 /\ (Index(R) + d) % CWidth = Index(R + d)
    BY <2>1, IndexFacts, Zenon
  <2> QED BY <2>2
<1>6. j = [input EXCEPT !.r = Index(R + k)]
  BY <1>2, <1>4, <1>5, Zenon DEF C!Advanced
<1>7. j \in Type /\ j.r = Index(R + k) /\ j.w = input.w
  BY <1>2, <1>4, <1>5, <1>6
<1>8. j.r = j.w <=> k = L
  <2>1. k = L => j.r = j.w
    BY <1>2, <1>7
  <2>2. ASSUME j.r = j.w PROVE k = L
    <3> DEFINE a == R + k
               d == L - k
    <3>1. a \in Nat /\ d \in Nat /\ d < CWidth /\ 0 \in Nat /\ 0 < CWidth /\ a + 0 = a /\ a + d = R + L
      BY <1>1, <1>4
    <3> HIDE DEF a, d
    <3>2. (Index(a + d) + CWidth - Index(a)) % CWidth = d /\ (Index(a + 0) + CWidth - Index(a)) % CWidth = 0
      BY <3>1, IndexBack, Zenon
    <3>3. Index(a + d) = Index(a)
      BY <1>2, <1>7, <2>2, <3>1 DEF a
    <3>4. d = 0
      BY <3>1, <3>2, <3>3
    <3> QED BY <1>1, <1>4, <3>4 DEF d
  <2> QED BY <2>1, <2>2
<1>9. k < L => C!Advanced(j, 1) = [input EXCEPT !.r = Index(R + (k + 1))] /\ k + 1 \in 0 .. L
  <2>0. R + k \in Nat /\ 1 \in Nat /\ (R + k) + 1 = R + (k + 1)
    BY <1>4
  <2>1. (Index(R + k) + 1) % CWidth = Index(R + (k + 1))
    BY <2>0, IndexFacts, ZenonT(40)
  <2>2. C!Advanced(j, 1) = [j EXCEPT !.r = Index(R + (k + 1))]
    BY <1>7, <2>1, Zenon DEF C!Advanced
  <2>3. [j EXCEPT !.r = Index(R + (k + 1))] = [input EXCEPT !.r = Index(R + (k + 1))]
    BY <1>2, <1>6
  <2>4. k < L => k + 1 \in 0 .. L
    BY <1>1, <1>4
  <2> QED BY <2>2, <2>3, <2>4
<1> DEFINE t == C!TakeEnd(j, n - k)
<1>10. C!Take(input, n) = t
  BY Zenon DEF C!Take, k, O
<1> HIDE DEF j
<1>11. \/ t.i = j /\ t.n \in Nat /\ (t.more => k = L)
       \/ t.i = C!Advanced(j, 1) /\ k < L /\ t.n \in Nat /\ ~t.more
  <2> DEFINE m == n - k
  <2>0. m \in Nat
    BY <1>4
  <2> HIDE DEF m
  <2>1. CASE m = 0
    <3>1. C!TakeEnd(j, m) = [i |-> j, n |-> m, more |-> FALSE]
      BY <2>1 DEF C!TakeEnd
    <3> QED BY <2>0, <3>1 DEF m
  <2>2. CASE m > 0 /\ j.r = j.w
    <3>1. C!TakeEnd(j, m) = [i |-> j, n |-> m, more |-> TRUE]
      BY <2>0, <2>2 DEF C!TakeEnd
    <3> QED BY <1>8, <2>0, <2>2, <3>1 DEF m
  <2>3. CASE m > 0 /\ j.r # j.w /\ j.buf[C!Slot(j.r)] = "^D"
    <3>1. C!TakeEnd(j, m) = [i |-> IF m < ReadSize THEN j ELSE C!Advanced(j, 1), n |-> m, more |-> FALSE]
      BY <2>0, <2>3 DEF C!TakeEnd
    <3>2. k < L
      BY <1>1, <1>3, <1>4, <1>8, <2>3
    <3> QED BY <2>0, <3>1, <3>2 DEF m
  <2>4. CASE m > 0 /\ j.r # j.w /\ j.buf[C!Slot(j.r)] # "^D"
    <3>1. C!TakeEnd(j, m) = [i |-> C!Advanced(j, 1), n |-> m - 1, more |-> FALSE]
      BY <2>0, <2>4 DEF C!TakeEnd
    <3>2. k < L /\ m - 1 \in Nat
      BY <1>1, <1>3, <1>4, <1>8, <2>0, <2>4
    <3> QED BY <3>1, <3>2 DEF m
  <2> QED BY <2>0, <2>1, <2>2, <2>3, <2>4
<1> HIDE DEF t
<1>12. k \in 0 .. L
  BY <1>1, <1>3, <1>4
<1> QED
  BY <1>6, <1>9, <1>10, <1>11, <1>12, Zenon DEF L

\* consoleread() up to its return or its sleep.
LEMMA ReadRing ==
  ASSUME ConSized, ConInv, NEW p \in C!Reader, C!Read(p)
  PROVE  ConInv'
<1>0. PICK R \in Nat : Counted(R)
  BY DEF ConInv, ConRing
<1> DEFINE L == Len(lines)
           t == C!Take(input, reader[p].n)
           sleeps == t.more /\ ~reader[p].killed
           Type == [buf : [0 .. INPUT_BUF - 1 -> Chars], r : Nat, w : Nat, e : Nat]
           Rec == [pc : {"user", "read", "sleep"}, n : Nat, killed : BOOLEAN, reads : Nat]
<1>1. reader[p].n \in Nat /\ reader \in [C!Reader -> Rec]
  BY DEF ConInv, ConType
<1>2. PICK d \in 0 .. L : t.i = [input EXCEPT !.r = Index(R + d)] /\ t.n \in Nat /\ (t.more => d = L)
  BY <1>0, <1>1, TakeFacts, Zenon
<1>3. /\ input' = t.i
      /\ lines' = SubSeq(lines, ((t.i.r + CWidth - input.r) % CWidth) + 1, Len(lines))
      /\ reader' = [reader EXCEPT ![p].pc = IF sleeps THEN "sleep" ELSE "user", ![p].n = IF sleeps THEN t.n ELSE 0]
      /\ UNCHANGED <<shift, down, bytes, line>>
  BY Zenon DEF C!Read
<1> HIDE DEF t
<1>4. /\ L \in Nat /\ Len(line) \in Nat /\ L + Len(line) <= INPUT_BUF /\ INPUT_BUF \in Nat /\ CWidth \in Nat /\ INPUT_BUF < CWidth
      /\ input.r = input.w <=> L = 0
  BY <1>0, ConNumbers
<1>5. /\ input \in Type /\ input.r = Index(R) /\ input.w = Index(R + L) /\ input.e = Index(R + L + Len(line))
      /\ lines \in Seq(Chars) /\ line \in Seq(Chars)
  BY <1>0 DEF ConInv, ConType, Counted
<1>6. d \in Nat /\ d <= L /\ d < CWidth /\ R + d \in Nat
  BY <1>4
<1>7. Index(R + d) \in Nat
  <2>1. Index(R + d) \in 0 .. CWidth - 1
    BY <1>6, IndexFacts, Zenon
  <2> QED BY <2>1
<1>8. /\ input' \in Type /\ input'.r = Index(R + d) /\ input'.w = input.w /\ input'.e = input.e /\ input'.buf = input.buf
  <2> DEFINE x == Index(R + d)
  <2>1. input' = [input EXCEPT !.r = x] /\ x \in Nat
    BY <1>2, <1>3, <1>7
  <2> HIDE DEF x
  <2>2. /\ input' \in Type /\ input'.r = x /\ input'.w = input.w /\ input'.e = input.e /\ input'.buf = input.buf
    BY <1>5, <2>1
  <2> QED BY <2>2 DEF x
<1>9. lines' = SubSeq(lines, d + 1, L)
  <2>1. (Index(R + d) + CWidth - Index(R)) % CWidth = d
    BY <1>6, IndexBack, Zenon
  <2> QED BY <1>3, <1>5, <1>8, <2>1
<1>10. lines' \in Seq(Chars) /\ Len(lines') = L - d /\ \A k \in 1 .. L - d : lines'[k] = lines[d + k]
  <2>1. d + 1 \in Nat /\ L - d \in Nat
    BY <1>4, <1>6
  <2>2. SubSeq(lines, d + 1, L) \in Seq(Chars) /\ Len(SubSeq(lines, d + 1, L)) = L - d
    BY <1>4, <1>5, <1>6, <2>1, SMTT(40)
  <2>3. \A k \in 1 .. L - d : SubSeq(lines, d + 1, L)[k] = lines[d + k]
    BY <1>4, <1>5, <1>6, <2>1
  <2> QED BY <1>9, <2>2, <2>3
<1> HIDE DEF L
<1>11. Counted(R + d)'
  <2>1. (R + d) + (L - d) = R + L /\ (R + d) + (L - d) + Len(line) = R + L + Len(line)
    BY <1>4, <1>6
  <2>2. \A k \in 1 .. L - d : input'.buf[Place((R + d) + k - 1)] = lines'[k]
    <3> SUFFICES ASSUME NEW k \in 1 .. L - d PROVE input'.buf[Place((R + d) + k - 1)] = lines'[k]
      OBVIOUS
    <3> DEFINE h == d + k
    <3>1. h \in 1 .. L /\ (R + d) + k - 1 = R + h - 1
      BY <1>4, <1>6
    <3> HIDE DEF h
    <3>2. input.buf[Place(R + h - 1)] = lines[h]
      BY <1>0, <3>1, Zenon DEF Counted, L
    <3> QED BY <1>8, <1>10, <3>1, <3>2 DEF h
  <2>3. \A k \in 1 .. Len(line) : input'.buf[Place((R + d) + (L - d) + k - 1)] = line[k]
    BY <1>0, <1>8, <2>1, Zenon DEF Counted, L
  <2> QED
    BY <1>3, <1>5, <1>8, <1>10, <2>1, <2>2, <2>3 DEF Counted
<1>12. ConRing'
  <2>1. Len(lines') + Len(line') <= INPUT_BUF /\ (Len(lines') + Len(line') = INPUT_BUF => L + Len(line) = INPUT_BUF)
    <3> DEFINE K == Len(line)
    <3>1. /\ Len(lines') = L - d /\ Len(line') = K
          /\ L \in Nat /\ K \in Nat /\ INPUT_BUF \in Nat /\ L + K <= INPUT_BUF /\ d \in Nat /\ d <= L
      BY <1>3, <1>4, <1>6, <1>10
    <3> HIDE DEF K
    <3>2. (L - d) + K <= INPUT_BUF /\ ((L - d) + K = INPUT_BUF => L + K = INPUT_BUF)
      BY <3>1
    <3> QED BY <3>1, <3>2 DEF K
  <2>2. /\ L + Len(line) = INPUT_BUF => line = <<>>
        /\ \A k \in 1 .. Len(line) : line[k] # "\n"
    BY DEF ConInv, ConRing, L
  <2> QED BY <1>3, <1>6, <1>11, <2>1, <2>2 DEF ConRing
<1>13. reader' \in [C!Reader -> Rec]
  <2>1. reader[p] \in Rec
    BY <1>1
  <2> QED BY <1>1, <1>2, <1>3, <2>1
<1>14. SleepInv'
  <2> SUFFICES ASSUME NEW q \in C!Reader, reader'[q].pc = "sleep"
               PROVE  input'.r = input'.w
    BY DEF SleepInv
  <2>1. CASE q = p
    <3>1. sleeps
      BY <1>1, <1>3, <2>1
    <3>2. d = L
      BY <1>2, <3>1
    <3> QED BY <1>5, <1>8, <3>2
  <2>2. CASE q # p
    <3>1. reader'[q] = reader[q]
      BY <1>1, <1>3, <2>2
    <3>2. input.r = input.w
      BY <3>1 DEF ConInv, SleepInv
    <3>3. L = 0 /\ d = 0 /\ R + d = R
      BY <1>4, <1>6, <3>2
    <3> QED BY <1>5, <1>8, <3>2, <3>3
  <2> QED BY <2>1, <2>2
<1>15. ConType'
  BY <1>3, <1>5, <1>8, <1>10, <1>13 DEF ConType
<1>16. HeldInv'
  BY <1>3 DEF ConInv, HeldInv
<1> QED BY <1>12, <1>14, <1>15, <1>16 DEF ConInv

\* consoleintr(), for a device that keeps the modifiers right.
LEMMA IntrStep ==
  ASSUME ConSized, ConInv, NEW c \in Chars, C!consoleintr(c), HeldInv'
  PROVE  ConInv'
<1> DEFINE Rec == [pc : {"user", "read", "sleep"}, n : Nat, killed : BOOLEAN, reads : Nat]
<1>1. reader' = IF input'.w # input.w THEN C!Wakeup(reader) ELSE reader
  BY DEF C!consoleintr
<1>2. reader \in [C!Reader -> Rec]
  BY DEF ConInv, ConType
<1>3. C!Wakeup(reader) \in [C!Reader -> Rec] /\ \A p \in C!Reader : C!Wakeup(reader)[p].pc # "sleep"
  <2>1. ASSUME NEW p \in C!Reader
        PROVE  C!Wakeup(reader)[p] \in Rec /\ C!Wakeup(reader)[p].pc # "sleep"
    <3>1. reader[p] \in Rec
      BY <1>2
    <3>2. C!Wakeup(reader)[p] = IF reader[p].pc = "sleep" THEN [reader[p] EXCEPT !.pc = "read"] ELSE reader[p]
      BY DEF C!Wakeup
    <3> QED BY <3>1, <3>2
  <2> QED BY <2>1 DEF C!Wakeup
<1>4. SleepInv'
  BY <1>1, <1>3, EditRing DEF ConInv, SleepInv
<1> QED
  BY <1>1, <1>2, <1>3, <1>4, EditRing DEF ConInv, ConType

\* kbdgetc() keeps track of the modifiers.
LEMMA PressHeld ==
  ASSUME HeldInv, NEW code, shift' = C!Pressed(code), down' = down \cup ({<<C!Ext, code>>} \cap C!Modifiers)
  PROVE  HeldInv'
<1> SUFFICES ASSUME NEW m \in {"CTL", "SHIFT"}, m \in shift'
             PROVE  \E k \in down' : m \in C!shiftcode(k[1], k[2])
  BY DEF HeldInv
<1>1. m \in shift \/ m \in C!shiftcode(C!Ext, code)
  BY DEF C!Pressed, C!Symmetric, C!togglecode
<1>2. CASE m \in shift
  BY <1>2 DEF HeldInv
<1>3. CASE m \in C!shiftcode(C!Ext, code)
  <2> DEFINE k == <<C!Ext, code>>
  <2>1. k[1] = C!Ext /\ k[2] = code
    OBVIOUS
  <2>2. C!Ext \in BOOLEAN
    BY DEF C!Ext
  <2>3. k \in C!Modifiers
    BY <1>3, <2>2 DEF C!shiftcode, C!Modifiers
  <2> QED BY <1>3, <2>1, <2>3
<1> QED BY <1>1, <1>2, <1>3

\* The same for a key that goes up.
LEMMA ReleaseHeld ==
  ASSUME HeldInv, NEW code, shift' = C!Released(code), down' = down \ {<<C!Ext, code>>}
  PROVE  HeldInv'
<1> SUFFICES ASSUME NEW m \in {"CTL", "SHIFT"}, m \in shift'
             PROVE  \E k \in down' : m \in C!shiftcode(k[1], k[2])
  BY DEF HeldInv
<1>1. m \in shift /\ m \notin C!shiftcode(C!Ext, code)
  BY DEF C!Released
<1>2. PICK k \in down : m \in C!shiftcode(k[1], k[2])
  BY <1>1 DEF HeldInv
<1>3. k # <<C!Ext, code>>
  BY <1>1, <1>2
<1> QED BY <1>2, <1>3

\* Steps that leave the ring alone.
LEMMA QuietStep ==
  ASSUME ConInv, UNCHANGED <<input, line, lines>>,
         reader' \in [C!Reader -> [pc : {"user", "read", "sleep"}, n : Nat, killed : BOOLEAN, reads : Nat]],
         \A p \in C!Reader : reader'[p].pc = "sleep" => reader[p].pc = "sleep",
         HeldInv'
  PROVE  ConInv'
BY SMTT(40) DEF ConInv, ConType, ConRing, Counted, SleepInv

\* Every step of Next preserves the invariant.
LEMMA ConInductive ==
  ASSUME ConSized
  PROVE  C!Spec => []ConInv
<1> DEFINE Rec == [pc : {"user", "read", "sleep"}, n : Nat, killed : BOOLEAN, reads : Nat]
<1>1. C!Init => ConInv
  <2> SUFFICES ASSUME C!Init PROVE ConInv
    OBVIOUS
  <2>1. /\ input = [buf |-> [k \in 0 .. INPUT_BUF - 1 |-> C!NO], r |-> 0, w |-> 0, e |-> 0]
        /\ shift = {} /\ line = <<>> /\ lines = <<>>
        /\ reader = [p \in C!Reader |-> [pc |-> "user", n |-> 0, killed |-> FALSE, reads |-> 0]]
    BY DEF C!Init
  <2>2. C!NO \in Chars
    BY DEF Chars, Typed
  <2>3. ConType
    <3>1. input \in [buf : [0 .. INPUT_BUF - 1 -> Chars], r : Nat, w : Nat, e : Nat]
      BY <2>1, <2>2
    <3>2. reader \in [C!Reader -> Rec]
      BY <2>1
    <3>3. line \in Seq(Chars) /\ lines \in Seq(Chars)
      BY <2>1
    <3> QED BY <3>1, <3>2, <3>3 DEF ConType
  <2>4. ConRing
    <3>1. Index(0) = 0
      BY DEF Index, ConSized
    <3>2. Len(line) = 0 /\ Len(lines) = 0 /\ input.r = 0 /\ input.w = 0 /\ input.e = 0
      BY <2>1
    <3>3. Counted(0)
      BY <3>1, <3>2 DEF Counted
    <3> QED BY <2>1, <3>2, <3>3 DEF ConRing, ConSized
  <2>5. SleepInv
    BY <2>1 DEF SleepInv
  <2>6. HeldInv
    BY <2>1 DEF HeldInv
  <2> QED BY <2>3, <2>4, <2>5, <2>6 DEF ConInv
<1>2. ConInv /\ [C!Next]_(C!vars) => ConInv'
  <2> SUFFICES ASSUME ConInv, [C!Next]_(C!vars) PROVE ConInv'
    OBVIOUS
  <2>0. reader \in [C!Reader -> Rec] /\ HeldInv
    BY DEF ConInv, ConType
  <2>1. CASE C!KbdE0
    <3>1. HeldInv'
      BY <2>0, <2>1 DEF C!KbdE0, HeldInv
    <3> QED BY <2>0, <2>1, <3>1, QuietStep DEF C!KbdE0
  <2>2. ASSUME NEW code \in Codes, C!KbdPress(code) PROVE ConInv'
    <3>1. HeldInv'
      BY <2>0, <2>2, PressHeld DEF C!KbdPress
    <3>2. PICK c \in Chars : C!consoleintr(c)
      BY <2>2, CharIn DEF C!KbdPress
    <3> QED BY <3>1, <3>2, IntrStep
  <2>3. ASSUME NEW code \in Codes, C!KbdRelease(code) PROVE ConInv'
    <3>1. HeldInv'
      BY <2>0, <2>3, ReleaseHeld DEF C!KbdRelease
    <3> QED BY <2>0, <2>3, <3>1, QuietStep DEF C!KbdRelease
  <2>4. ASSUME NEW c \in Serial, C!uartintr(c) PROVE ConInv'
    <3>1. HeldInv'
      BY <2>0, <2>4 DEF C!uartintr, HeldInv
    <3>2. c \in Chars
      BY DEF Chars
    <3> QED BY <2>4, <3>1, <3>2, IntrStep DEF C!uartintr
  <2>5. ASSUME NEW p \in C!Reader, C!ReadCall(p) \/ C!ReadKilled(p) \/ C!Kill(p) PROVE ConInv'
    <3>1. reader[p] \in Rec /\ ReadSize \in Nat
      BY <2>0 DEF ConSized
    <3>2. HeldInv'
      BY <2>0, <2>5 DEF C!ReadCall, C!ReadKilled, C!Kill, HeldInv
    <3>3. /\ reader' \in [C!Reader -> Rec] /\ UNCHANGED <<input, line, lines>>
          /\ \A q \in C!Reader : reader'[q].pc = "sleep" => reader[q].pc = "sleep"
      <4>1. CASE C!ReadCall(p)
        BY <2>0, <3>1, <4>1 DEF C!ReadCall
      <4>2. CASE C!ReadKilled(p)
        BY <2>0, <3>1, <4>2 DEF C!ReadKilled
      <4>3. CASE C!Kill(p)
        BY <2>0, <3>1, <4>3 DEF C!Kill
      <4> QED BY <2>5, <4>1, <4>2, <4>3
    <3> QED BY <3>2, <3>3, QuietStep
  <2>6. CASE UNCHANGED C!vars
    BY <2>6 DEF C!vars, ConInv, ConType, ConRing, Counted, SleepInv, HeldInv
  <2> QED
    BY <2>1, <2>2, <2>3, <2>4, <2>5, <2>6, ReadRing DEF C!Next
<1> QED
  BY <1>1, <1>2, PTL DEF C!Spec

\* What the readers of the console get is what was typed, with the edits that ^U and
\* backspace make, once each and in order, for any size of the ring, any number of
\* readers, and however often the indices have wrapped (consoleintr(),
\* consoleread()); nobody sleeps when there is something to read, and kbdgetc()
\* holds a modifier down only while a key for it is.
THEOREM ConsoleInOrder == C!Spec => []InputInOrder
<1>0. ConSized
  BY RingsAssumption
<1>1. ConInv => InputInOrder
  BY <1>0, ConInvOrders DEF InputInOrder
<1>2. C!Spec => []ConInv
  BY <1>0, ConInductive
<1> QED
  BY <1>1, <1>2, PTL
=============================================================================
