---------------------------- MODULE MemoryProofs ----------------------------
(***************************************************************************)
(* Proofs about Memory, for any amount of memory, any sizes of pages,      *)
(* tables and address spaces, any number of processes and any programs:    *)
(* every page is accounted for, the shared pages are counted, and the      *)
(* memory below proc->sz is there.                                         *)
(*                                                                         *)
(* A function of vm.c works on x: memory, an address space and its size.   *)
(* What it keeps is Good(x, F, R, n).  Each page is free, or has one use   *)
(* in the address space, or is in R, the pages of others; mapped at F is   *)
(* what is not its own; and the pages mapped outside of F are the first n. *)
(* When an unhandled allocation failed (short) a page may be lost and an   *)
(* entry missing, but still no page has two uses.                          *)
(*                                                                         *)
(* The functions come first, each loop with its own invariant; then the    *)
(* invariant IInv, which says Good of each process, with R what all others *)
(* have; then the steps, each of which changes one slot (ChangeSlot).      *)
(***************************************************************************)
EXTENDS Memory, FiniteSetTheorems, WellFoundedInduction, TLAPS

-----------------------------------------------------------------------------
(* Arithmetic.                                                             *)

\* Every nonempty set of natural numbers has a least element.
LEMMA LeastNatural ==
  ASSUME NEW S \in SUBSET Nat, S # {}
  PROVE  \E x \in S : \A y \in S : x <= y
<1> DEFINE R == {ss \in Nat \X Nat : ss[1] < ss[2]}
<1>1. IsWellFoundedOn(R, Nat)
  BY NatLessThanWellFounded, Zenon DEF OpToRel
<1>2. PICK x \in S : \A y \in S : <<y, x>> \notin R
  <2> HIDE DEF R
  <2> QED BY <1>1, WFMin, Zenon
<1>3. \A y \in S : ~ y < x
  BY <1>2
<1> QED BY <1>3

LEMMA Sizes ==
  /\ NPAGES \in Nat \ {0} /\ PGSIZE \in Nat \ {0} /\ NPTE \in Nat \ {0} /\ KERNPAGES \in Nat \ {0}
  /\ KTABS \in Nat \ {0} /\ NPROC \in Nat \ {0} /\ NSHARED \in Nat \ {0} /\ MAXARGS \in Nat \ {0}
  /\ VA1 \in Nat /\ VA2 \in Nat /\ VA1 # VA2 /\ VA1 + NSHARED <= KERNPAGES /\ VA2 + NSHARED <= KERNPAGES
<1>1. VA1 \in 0 .. KERNPAGES - NSHARED /\ VA2 \in 0 .. KERNPAGES - NSHARED /\ VA1 # VA2
  BY MemoryAssumption
<1> QED
  BY <1>1, MemoryAssumption

LEMMA DivDef ==
  \A a \in Int, d \in Nat \ {0} :
    /\ a \div d \in Int /\ a % d \in 0 .. d - 1
    /\ a = d * (a \div d) + (a % d)
OBVIOUS

LEMMA MulMono ==
  \A a, b \in Int, p \in Nat : a <= b => a * p <= b * p
OBVIOUS

\* A quotient is the number of multiples up to a.
LEMMA DivBound ==
  ASSUME NEW a \in Nat, NEW d \in Nat \ {0}
  PROVE  a \div d \in Nat /\ \A b \in Nat : b <= a \div d <=> b * d <= a
<1> DEFINE q == a \div d
           r == a % d
<1>1. q \in Int /\ r \in 0 .. d - 1 /\ a = d * q + r
  BY DivDef
<1> HIDE DEF q, r
<1>2. q \in Nat
  <2> SUFFICES ASSUME q <= -1 PROVE FALSE
    BY <1>1
  <2>1. q * d <= (-1) * d
    BY <1>1, MulMono
  <2> QED BY <1>1, <2>1
<1>3. ASSUME NEW b \in Nat, b <= q PROVE b * d <= a
  <2>1. b * d <= q * d
    BY <1>2, <1>3, MulMono
  <2> QED BY <1>1, <2>1
<1>4. ASSUME NEW b \in Nat, q + 1 <= b PROVE ~(b * d <= a)
  <2>1. (q + 1) * d <= b * d
    BY <1>2, <1>4, MulMono
  <2>2. (q + 1) * d = d * q + d
    BY <1>2
  <2> QED BY <1>1, <2>1, <2>2
<1>5. \A b \in Nat : b <= q <=> b * d <= a
  BY <1>2, <1>3, <1>4
<1> QED BY <1>2, <1>5 DEF q

\* The pages that n units need are those that start below n.
LEMMA Rounded ==
  ASSUME NEW n \in Nat
  PROVE  PGROUNDUP(n) \in Nat /\ \A a \in Nat : a < PGROUNDUP(n) <=> a * PGSIZE < n
<1> DEFINE d == PGSIZE
           q == (n + d - 1) \div d
<1>1. d \in Nat \ {0} /\ n + d - 1 \in Nat
  BY Sizes
<1>2. q \in Nat /\ \A b \in Nat : b <= q <=> b * d <= n + d - 1
  <2> HIDE DEF d
  <2> QED BY <1>1, DivBound
<1> HIDE DEF d, q
<1>3. ASSUME NEW a \in Nat PROVE a < q <=> a * d < n
  <2>1. a < q <=> (a + 1) * d <= n + d - 1
    BY <1>2
  <2>2. (a + 1) * d = a * d + d
    BY <1>1
  <2>3. a * d \in Nat
    BY <1>1
  <2> QED BY <1>1, <2>1, <2>2, <2>3
<1> QED BY <1>2, <1>3 DEF d, q, PGROUNDUP

LEMMA RoundMono ==
  ASSUME NEW n \in Nat, NEW k \in Nat, n <= k
  PROVE  PGROUNDUP(n) <= PGROUNDUP(k)
<1> DEFINE a == PGROUNDUP(n)
           b == PGROUNDUP(k)
<1>1. a \in Nat /\ b \in Nat /\ (b < a => b * PGSIZE < n) /\ ~(b * PGSIZE < k)
  <2>1. b \in Nat /\ ~(b < b)
    BY Rounded
  <2> QED
    BY <2>1, Rounded
<1>2. b * PGSIZE \in Nat
  BY <1>1, Sizes
<1> HIDE DEF a, b
<1>3. ~(b < a)
  BY <1>1, <1>2
<1>4. a <= b
  BY <1>1, <1>3
<1> QED BY <1>4 DEF a, b

LEMMA RoundMultiple ==
  ASSUME NEW k \in Nat
  PROVE  k * PGSIZE \in Nat /\ PGROUNDUP(k * PGSIZE) = k /\ (k * PGSIZE) \div PGSIZE = k
<1> DEFINE d == PGSIZE
           n == k * d
           a == PGROUNDUP(n)
           b == n \div d
<1>1. d \in Nat \ {0} /\ n \in Nat
  BY Sizes
<1>2. a \in Nat /\ \A c \in Nat : c < a <=> c * d < n
  <2> HIDE DEF n
  <2> QED BY <1>1, Rounded DEF d
<1>3. b \in Nat /\ \A c \in Nat : c <= b <=> c * d <= n
  <2> HIDE DEF n, d
  <2> QED BY <1>1, DivBound
<1> HIDE DEF d, a, b
<1>4. a = k
  <2>1. ~(k < a)
    BY <1>1, <1>2
  <2>2. ~(a < k)
    <3> SUFFICES ASSUME a < k PROVE FALSE
      OBVIOUS
    <3>1. ~(a * d < n) /\ a * d \in Nat
      BY <1>1, <1>2
    <3>2. (a + 1) * d <= k * d /\ (a + 1) * d = a * d + d
      BY <1>1, <1>2, MulMono
    <3> QED BY <1>1, <3>1, <3>2
  <2> QED BY <1>2, <2>1, <2>2
<1>5. b = k
  <2>1. k <= b
    BY <1>1, <1>3
  <2>2. ~(k + 1 <= b)
    <3>1. (k + 1) * d = k * d + d
      BY <1>1
    <3> QED BY <1>1, <1>3, <3>1
  <2> QED BY <1>3, <2>1, <2>2
<1> QED BY <1>1, <1>4, <1>5 DEF d, a, b

\* Addresses below KERNBASE are in pages of Va.
LEMMA Kern ==
  /\ KERNBASE \in Nat /\ PGROUNDUP(KERNBASE) = KERNPAGES /\ PGROUNDUP(0) = 0
  /\ \A n \in Nat : n <= KERNBASE => PGROUNDUP(n) <= KERNPAGES
<1>1. KERNBASE \in Nat /\ PGROUNDUP(KERNBASE) = KERNPAGES
  BY Sizes, RoundMultiple DEF KERNBASE
<1>2. PGROUNDUP(0) = 0
  <2>1. 0 * PGSIZE = 0
    BY Sizes
  <2> QED BY <2>1, RoundMultiple
<1> QED BY <1>1, <1>2, RoundMono

\* Page a is in the table a \div NPTE, like its neighbours up to the next
\* multiple of NPTE.
LEMMA TableOf ==
  /\ \A a \in Va : a \div NPTE \in Tab
  /\ \A a \in Nat : a % NPTE \in Nat
  /\ \A a \in Nat : (a + 1) % NPTE # 0 => (a + 1) \div NPTE = a \div NPTE
  /\ \A a, b \in Nat : a % NPTE = 0 /\ a <= b /\ b < a + NPTE => b \div NPTE = a \div NPTE
  /\ \A a \in Nat : a % NPTE = 0 => (a + NPTE) % NPTE = 0
  /\ 0 % NPTE = 0
<1> DEFINE d == NPTE
<1>0. d \in Nat \ {0} /\ KERNPAGES \in Nat \ {0}
  BY Sizes
<1> HIDE DEF d
<1>1. ASSUME NEW a \in Va PROVE a \div d \in 0 .. (KERNPAGES - 1) \div d
  <2> DEFINE k == KERNPAGES - 1
             q == a \div d
             e == k \div d
  <2>1. a \in Nat /\ k \in Nat /\ a <= k
    BY <1>0 DEF Va
  <2>2. q \in Nat /\ q * d <= a
    <3>1. q \in Nat /\ q <= q
      BY <1>0, <2>1, DivBound
    <3> QED BY <1>0, <2>1, <3>1, DivBound
  <2>3. e \in Nat /\ (q <= e <=> q * d <= k)
    <3> HIDE DEF k
    <3> QED BY <1>0, <2>1, <2>2, DivBound
  <2> HIDE DEF k, q, e
  <2>4. q * d \in Nat
    BY <1>0, <2>2
  <2>5. q \in 0 .. e
    BY <2>1, <2>2, <2>3, <2>4
  <2> QED BY <2>5 DEF q, e, k
<1>2. ASSUME NEW a \in Nat PROVE a % d \in Nat
  <2>1. a % d \in 0 .. d - 1
    BY <1>0, DivDef
  <2> QED BY <1>0, <2>1
<1>3. ASSUME NEW a \in Nat, NEW b \in Nat, NEW q \in Int, NEW r \in Int, a = d * q + r, r \in 0 .. d - 1
      PROVE  a \div d = q /\ a % d = r
  BY <1>0, <1>3
<1>4. ASSUME NEW a \in Nat, NEW b \in Nat, (a % d) + (b - a) \in 0 .. d - 1
      PROVE  b \div d = a \div d /\ b % d = (a % d) + (b - a)
  <2> DEFINE q == a \div d
             r == a % d
  <2>1. q \in Int /\ r \in 0 .. d - 1 /\ a = d * q + r
    BY <1>0, DivDef
  <2>2. r + (b - a) \in 0 .. d - 1
    BY <1>4
  <2> HIDE DEF q, r
  <2>3. b = d * q + (r + (b - a)) /\ r + (b - a) \in Int
    BY <1>0, <2>1
  <2>4. b \div d = q /\ b % d = r + (b - a)
    BY <2>1, <2>2, <2>3, <1>3
  <2> QED BY <2>4 DEF q, r
<1>5. ASSUME NEW a \in Nat, (a + 1) % d # 0 PROVE (a + 1) \div d = a \div d
  <2> DEFINE q == a \div d
             r == a % d
  <2>1. q \in Int /\ r \in 0 .. d - 1 /\ a = d * q + r
    BY <1>0, DivDef
  <2>2. CASE r + 1 <= d - 1
    <3>1. r + ((a + 1) - a) \in 0 .. d - 1
      <4> HIDE DEF r, q
      <4> QED BY <1>0, <2>1, <2>2
    <3> QED BY <3>1, <1>4
  <2>3. CASE ~(r + 1 <= d - 1)
    <3> HIDE DEF q, r
    <3>1. r = d - 1
      BY <1>0, <2>1, <2>3
    <3>2. a + 1 = d * (q + 1) + 0 /\ q + 1 \in Int /\ 0 \in 0 .. d - 1
      BY <1>0, <2>1, <3>1
    <3>3. (a + 1) % d = 0
      BY <3>2, <1>3
    <3> QED BY <3>3, <1>5
  <2> QED BY <2>2, <2>3
<1>6. ASSUME NEW a \in Nat, NEW b \in Nat, a % d = 0, a <= b, b < a + d PROVE b \div d = a \div d
  <2>1. 0 + (b - a) \in 0 .. d - 1
    BY <1>0, <1>6
  <2>2. (a % d) + (b - a) \in 0 .. d - 1
    BY <1>6, <2>1
  <2> QED BY <1>4, <2>2
<1>7. ASSUME NEW a \in Nat, a % d = 0 PROVE (a + d) % d = 0
  <2> DEFINE q == a \div d
  <2>1. q \in Int /\ a = d * q + 0
    BY <1>0, <1>7, DivDef
  <2> HIDE DEF q
  <2>2. a + d = d * (q + 1) + 0 /\ q + 1 \in Int /\ 0 \in 0 .. d - 1 /\ a + d \in Nat
    BY <1>0, <2>1
  <2> QED BY <2>2, <1>3
<1>8. 0 % d = 0
  BY <1>0
<1> QED
  BY <1>1, <1>2, <1>5, <1>6, <1>7, <1>8 DEF d, Tab

-----------------------------------------------------------------------------
(* Loops.                                                                  *)

\* What a loop computes: when each pass takes J[k] to J[k + 1] there is a function
\* from the number of the pass to what the loop has then, in J; and whatever
\* follows it step by step ends like it.
LoopOf(h, n, x, G) == h = [k \in 0 .. n |-> IF k = 0 THEN x ELSE G[<<h[k - 1], k - 1>>]]
LEMMA Loop ==
  ASSUME NEW n \in Nat, NEW x, NEW G, NEW J, x \in J[0],
         \A k \in 0 .. n - 1 : \A y \in J[k] : G[<<y, k>>] \in J[k + 1]
  PROVE  \E h : LoopOf(h, n, x, G) /\ \A k \in 0 .. n : h[k] \in J[k]
<1> DEFINE Is(j, h) == h = [k \in 0 .. j |-> IF k = 0 THEN x ELSE G[<<h[k - 1], k - 1>>]]
           Good(j, h) == Is(j, h) /\ \A k \in 0 .. j : h[k] \in J[k]
           S == {j \in 0 .. n : \A h : ~Good(j, h)}
<1>1. Good(0, [k \in 0 .. 0 |-> x])
  OBVIOUS
<1>2. ASSUME NEW j \in 0 .. n, j > 0, NEW h, Good(j - 1, h)
      PROVE  Good(j, [k \in 0 .. j |-> IF k = j THEN G[<<h[j - 1], j - 1>>] ELSE h[k]])
  <2> DEFINE e == [k \in 0 .. j |-> IF k = j THEN G[<<h[j - 1], j - 1>>] ELSE h[k]]
  <2>1. j - 1 \in 0 .. n - 1 /\ (j - 1) + 1 = j /\ j \in Nat
    BY <1>2
  <2>2. G[<<h[j - 1], j - 1>>] \in J[j]
    <3>1. h[j - 1] \in J[j - 1]
      BY <1>2, <2>1
    <3> QED BY <2>1, <3>1
  <2>3. \A k \in 0 .. j : e[k] \in J[k]
    BY <1>2, <2>1, <2>2
  <2>4. \A k \in 0 .. j - 1 : h[k] = IF k = 0 THEN x ELSE G[<<h[k - 1], k - 1>>]
    BY <1>2
  <2>5. ASSUME NEW k \in 0 .. j PROVE e[k] = IF k = 0 THEN x ELSE G[<<e[k - 1], k - 1>>]
    <3>1. CASE k = j
      <4>1. e[k - 1] = h[j - 1] /\ e[k] = G[<<h[j - 1], j - 1>>] /\ k # 0
        BY <1>2, <2>1, <3>1
      <4> QED BY <3>1, <4>1
    <3>2. CASE k # j
      <4>1. e[k] = h[k] /\ k \in 0 .. j - 1 /\ (k # 0 => e[k - 1] = h[k - 1])
        BY <2>1, <3>2
      <4> QED BY <2>4, <4>1
    <3> QED BY <3>1, <3>2
  <2>6. Is(j, e)
    <3>1. e = [k \in 0 .. j |-> e[k]]
      OBVIOUS
    <3> HIDE DEF e
    <3> QED BY <2>5, <3>1
  <2> QED BY <2>3, <2>6
<1> HIDE DEF Is, Good
<1>3. S = {}
  <2> SUFFICES ASSUME S # {} PROVE FALSE
    OBVIOUS
  <2>1. PICK j \in S : \A i \in S : j <= i
    <3>1. S \in SUBSET Nat
      OBVIOUS
    <3> QED BY <3>1, LeastNatural
  <2>2. j # 0 /\ j \in 0 .. n
    BY <1>1, <2>1
  <2>3. j > 0 /\ j - 1 \in 0 .. n /\ ~(j <= j - 1)
    BY <2>2
  <2>4. PICK h : Good(j - 1, h)
    BY <2>1, <2>3
  <2> QED BY <1>2, <2>1, <2>2, <2>3, <2>4
<1>4. PICK h : Good(n, h)
  BY <1>3
<1> QED BY <1>4, Zenon DEF Good, Is, LoopOf

\* Whatever follows a loop pass by pass ends like it.
LEMMA LoopEnd ==
  ASSUME NEW n \in Nat, NEW h, NEW f, f[0] = h[0],
         \A k \in 0 .. n : k # 0 /\ f[k - 1] = h[k - 1] => f[k] = h[k]
  PROVE  f[n] = h[n]
<1> DEFINE S == {k \in 0 .. n : f[k] # h[k]}
<1>1. S = {}
  <2> SUFFICES ASSUME S # {} PROVE FALSE
    OBVIOUS
  <2>1. PICK j \in S : \A i \in S : j <= i
    <3>1. S \in SUBSET Nat
      OBVIOUS
    <3> QED BY <3>1, LeastNatural
  <2>2. j # 0 /\ j - 1 \in 0 .. n /\ ~(j <= j - 1)
    BY <2>1
  <2>3. f[j - 1] = h[j - 1]
    BY <2>1, <2>2
  <2> QED BY <2>1, <2>2, <2>3
<1> QED BY <1>1

-----------------------------------------------------------------------------
(* The pages of an address space.                                          *)

Entry == [pg : Page \cup {0, None}, u : BOOLEAN]
Vm == [dir : Page \cup {0}, ktab : SUBSET Page, tab : [Tab -> Page \cup {0}], pte : [Va -> Entry]]
Panics == {"kfree", "remap", "clearpteu", "copyuvm", "loaduvm: address should exist", "trap"}
Mem == [free : SUBSET Page, twice : BOOLEAN, panic : Panics \cup {""}, short : BOOLEAN]
Work == [m : Mem, v : Vm, sz : Nat, ok : BOOLEAN]

\* Page g is the directory, a table, or mapped outside of F.
Own(v, F, g) ==
  \/ g = v.dir \/ g \in v.ktab
  \/ \E t \in Tab : v.tab[t] = g
  \/ \E a \in Va \ F : v.pte[a].pg = g

\* No page of an address space has two uses in it.
TabsDistinct(v) ==
  /\ v.dir \notin v.ktab
  /\ \A t \in Tab : v.tab[t] # 0 => v.tab[t] # v.dir /\ v.tab[t] \notin v.ktab
  /\ \A s, t \in Tab : v.tab[s] = v.tab[t] /\ v.tab[t] # 0 => s = t
NoTable(v, F) ==
  \A a \in Va \ F : v.pte[a].pg \in Page =>
    v.pte[a].pg # v.dir /\ v.pte[a].pg \notin v.ktab /\ \A t \in Tab : v.tab[t] # v.pte[a].pg
OneEntry(v, F) ==
  \A a, b \in Va \ F : v.pte[a].pg = v.pte[b].pg /\ v.pte[b].pg \in Page => a = b
Distinct(v, F) == TabsDistinct(v) /\ NoTable(v, F) /\ OneEntry(v, F)

\* An entry is in a table.
Tables(v) == \A a \in Va : v.pte[a].pg # None => v.tab[a \div NPTE] # 0

\* A page is free, or has its use in v, or is in R, and unless memory was short
\* it is one of these.
Apart(mem, v, F, R) == \A g \in Page :
  /\ g \in mem.free => ~Own(v, F, g) /\ g \notin R
  /\ Own(v, F, g) => g \notin R
Covered(mem, v, F, R) == \A g \in Page : g \in mem.free \/ Own(v, F, g) \/ g \in R
NoZero(v) == \A a \in Va : v.pte[a].pg # 0

Acct(x, F, R) ==
  /\ ~x.m.twice /\ Distinct(x.v, F) /\ Tables(x.v)
  /\ Apart(x.m, x.v, F, R)
  /\ ~x.m.short => Covered(x.m, x.v, F, R) /\ NoZero(x.v)

\* The first n pages are there, and no other.
Exact(v, F, n) ==
  /\ \A a \in Va : a < n => v.pte[a].pg \in Page
  /\ \A a \in Va \ F : a >= n => v.pte[a].pg = None

\* What holds of the work on an address space after each step of it; R is what
\* the others have, and what is in hand.
Sound(x, F, R) ==
  /\ x \in Work
  /\ x.m.panic # "" => x.m.short
  /\ x.m.panic = "" => Acct(x, F, R)
Good(x, F, R, n) == Sound(x, F, R) /\ (~x.m.short => Exact(x.v, F, n))

\* Memory alone.
FreeOnly(mem, R) ==
  /\ mem \in Mem
  /\ mem.panic # "" => mem.short
  /\ mem.panic = "" => /\ ~mem.twice
                       /\ \A g \in Page : g \in mem.free => g \notin R
                       /\ ~mem.short => \A g \in Page : g \in mem.free \/ g \in R

LEMMA PageFacts == 0 \notin Page /\ None \notin Page /\ None # 0 /\ Page \subseteq Nat
BY DEF Page, None

\* kalloc() returns a free page, or 0 when there is none.
LEMMA GotFacts ==
  ASSUME NEW mem \in Mem
  PROVE  /\ Got(mem) \in Page \cup {0}
         /\ Got(mem) = 0 => mem.free = {}
         /\ Got(mem) # 0 => Got(mem) \in mem.free /\ Got(mem) \in Page
<1>1. mem.free \in SUBSET Page
  BY DEF Mem
<1>2. CASE mem.free = {}
  BY <1>2 DEF Got
<1>3. CASE mem.free # {}
  <2>1. \E g \in mem.free : \A h \in mem.free : g <= h
    BY <1>1, <1>3, PageFacts, LeastNatural
  <2>2. Got(mem) = Least(mem.free)
    BY <1>3 DEF Got
  <2>3. Least(mem.free) \in mem.free
    BY <2>1, Zenon DEF Least
  <2> QED
    BY <1>1, <2>2, <2>3, PageFacts
<1> QED BY <1>2, <1>3

LEMMA TakenFacts ==
  ASSUME NEW mem \in Mem
  PROVE  /\ Taken(mem) \in Mem /\ Taken(mem).free = mem.free \ {Got(mem)}
         /\ Taken(mem).twice = mem.twice /\ Taken(mem).panic = mem.panic /\ Taken(mem).short = mem.short
BY DEF Taken, Mem

LEMMA PanicFacts ==
  ASSUME NEW mem \in Mem, NEW what \in Panics
  PROVE  /\ Panic(mem, what) \in Mem /\ Panic(mem, what).panic # ""
         /\ Panic(mem, what).short = mem.short
BY DEF Panic, Mem, Panics

\* The parts of the work.
LEMMA WorkFields ==
  ASSUME NEW x \in Work
  PROVE  x.m \in Mem /\ x.v \in Vm /\ x.sz \in Nat /\ x.ok \in BOOLEAN
BY DEF Work

LEMMA FreeField ==
  ASSUME NEW x \in Work
  PROVE  x.m.free \in SUBSET Page
BY DEF Work, Mem

LEMMA VmFields ==
  ASSUME NEW x \in Work
  PROVE  /\ x.v.dir \in Page \cup {0} /\ x.v.ktab \in SUBSET Page /\ x.v.tab \in [Tab -> Page \cup {0}]
         /\ x.v.pte \in [Va -> Entry]
         /\ \A a \in Va : x.v.pte[a].pg \in Page \cup {0, None}
<1>1. x.v \in Vm
  BY DEF Work
<1>3. /\ x.v.dir \in Page \cup {0} /\ x.v.ktab \in SUBSET Page /\ x.v.tab \in [Tab -> Page \cup {0}]
      /\ x.v.pte \in [Va -> Entry]
  BY <1>1 DEF Vm
<1>4. \A a \in Va : x.v.pte[a] \in Entry
  BY <1>3
<1>5. \A a \in Va : x.v.pte[a].pg \in Page \cup {0, None}
  BY <1>4 DEF Entry
<1> QED BY <1>3, <1>5

LEMMA VaNat == \A a \in Va : a \in Nat
BY Sizes DEF Va

-----------------------------------------------------------------------------
(* Pages that change hands.                                                *)

\* kalloc(): a free page is in hand.
LEMMA TakePage ==
  ASSUME NEW x \in Work, NEW y \in Work, NEW F, NEW R, Acct(x, F, R),
         Got(x.m) # 0, y.m = Taken(x.m), y.v = x.v
  PROVE  Acct(y, F, R \cup {Got(x.m)})
<1> DEFINE g == Got(x.m)
<1>1. x.m \in Mem
  BY WorkFields
<1>2. y.m.free = x.m.free \ {g} /\ y.m.twice = x.m.twice /\ y.m.short = x.m.short
  BY <1>1, TakenFacts
<1>3. g \in x.m.free /\ g \in Page
  BY <1>1, GotFacts
<1> HIDE DEF g
<1> QED
  BY <1>2, <1>3 DEF Acct, Apart, Covered, NoZero, g

\* kfree(): the page in hand is free.
LEMMA FreePage ==
  ASSUME NEW x \in Work, NEW y \in Work, NEW F, NEW R, NEW g \in Page, g \notin R, Acct(x, F, R \cup {g}),
         y.v = x.v, y.m.free = x.m.free \cup {g}, y.m.twice = x.m.twice, y.m.short = x.m.short
  PROVE  Acct(y, F, R)
BY DEF Acct, Apart, Covered, NoZero

\* The page in hand is the directory, a table of the kernel's, a table, or
\* mapped.
LEMMA AddDir ==
  ASSUME NEW x \in Work, NEW y \in Work, NEW F, NEW R, NEW g \in Page, g \notin R, Acct(x, F, R \cup {g}),
         x.v.dir = 0, y.v.dir = g, y.v.ktab = x.v.ktab, y.v.tab = x.v.tab, y.v.pte = x.v.pte, y.m = x.m
  PROVE  Acct(y, F, R)
<1>1. ASSUME NEW h \in Page PROVE Own(y.v, F, h) <=> Own(x.v, F, h) \/ h = g
  BY PageFacts DEF Own
<1>2. ~Own(x.v, F, g)
  BY DEF Acct, Apart
<1>3. Distinct(y.v, F)
  <2>1. TabsDistinct(y.v)
    BY <1>2, VmFields, PageFacts DEF Acct, Distinct, TabsDistinct, Own
  <2>2. NoTable(y.v, F)
    BY <1>2, VmFields, PageFacts DEF Acct, Distinct, NoTable, Own
  <2>3. OneEntry(y.v, F)
    BY <1>2, VmFields, PageFacts DEF Acct, Distinct, OneEntry, Own
  <2> QED BY <2>1, <2>2, <2>3 DEF Distinct
<1>4. Tables(y.v)
  BY DEF Acct, Tables
<1> QED
  BY <1>1, <1>2, <1>3, <1>4 DEF Acct, Apart, Covered, NoZero

LEMMA AddKernelTable ==
  ASSUME NEW x \in Work, NEW y \in Work, NEW F, NEW R, NEW g \in Page, g \notin R, Acct(x, F, R \cup {g}),
         y.v.dir = x.v.dir, y.v.ktab = x.v.ktab \cup {g}, y.v.tab = x.v.tab, y.v.pte = x.v.pte, y.m = x.m
  PROVE  Acct(y, F, R)
<1>1. ASSUME NEW h \in Page PROVE Own(y.v, F, h) <=> Own(x.v, F, h) \/ h = g
  BY DEF Own
<1>2. ~Own(x.v, F, g)
  BY DEF Acct, Apart
<1>3. Distinct(y.v, F)
  <2>1. TabsDistinct(y.v)
    BY <1>2, VmFields, PageFacts DEF Acct, Distinct, TabsDistinct, Own
  <2>2. NoTable(y.v, F)
    BY <1>2, VmFields, PageFacts DEF Acct, Distinct, NoTable, Own
  <2>3. OneEntry(y.v, F)
    BY <1>2, VmFields, PageFacts DEF Acct, Distinct, OneEntry, Own
  <2> QED BY <2>1, <2>2, <2>3 DEF Distinct
<1>4. Tables(y.v)
  BY DEF Acct, Tables
<1> QED
  BY <1>1, <1>2, <1>3, <1>4 DEF Acct, Apart, Covered, NoZero

LEMMA AddTable ==
  ASSUME NEW x \in Work, NEW y \in Work, NEW F, NEW R, NEW g \in Page, g \notin R, Acct(x, F, R \cup {g}),
         NEW t \in Tab, x.v.tab[t] = 0,
         y.v.dir = x.v.dir, y.v.ktab = x.v.ktab, y.v.pte = x.v.pte, y.m = x.m,
         y.v.tab[t] = g, \A s \in Tab : s # t => y.v.tab[s] = x.v.tab[s]
  PROVE  Acct(y, F, R)
<1>1. ASSUME NEW h \in Page PROVE Own(y.v, F, h) <=> Own(x.v, F, h) \/ h = g
  BY PageFacts DEF Own
<1>2. ~Own(x.v, F, g)
  BY DEF Acct, Apart
<1>3. Distinct(y.v, F)
  <2>1. TabsDistinct(y.v)
    BY <1>2, VmFields, PageFacts DEF Acct, Distinct, TabsDistinct, Own
  <2>2. NoTable(y.v, F)
    BY <1>2, VmFields, PageFacts DEF Acct, Distinct, NoTable, Own
  <2>3. OneEntry(y.v, F)
    BY <1>2, VmFields, PageFacts DEF Acct, Distinct, OneEntry, Own
  <2> QED BY <2>1, <2>2, <2>3 DEF Distinct
<1>4. Tables(y.v)
  <2>1. \A a \in Va : x.v.tab[a \div NPTE] # 0 => y.v.tab[a \div NPTE] # 0
    BY TableOf, PageFacts
  <2> QED
    BY <2>1 DEF Acct, Tables
<1> QED
  BY <1>1, <1>2, <1>3, <1>4 DEF Acct, Apart, Covered, NoZero

LEMMA AddEntry ==
  ASSUME NEW x \in Work, NEW y \in Work, NEW F, NEW R, NEW g \in Page, g \notin R, Acct(x, F, R \cup {g}),
         NEW a \in Va \ F, x.v.pte[a].pg \notin Page, x.v.tab[a \div NPTE] # 0,
         y.v.dir = x.v.dir, y.v.ktab = x.v.ktab, y.v.tab = x.v.tab, y.m = x.m,
         y.v.pte[a].pg = g, \A b \in Va : b # a => y.v.pte[b].pg = x.v.pte[b].pg
  PROVE  Acct(y, F, R)
<1>1. ASSUME NEW h \in Page PROVE Own(y.v, F, h) <=> Own(x.v, F, h) \/ h = g
  BY DEF Own
<1>2. ~Own(x.v, F, g)
  BY DEF Acct, Apart
<1>3. Distinct(y.v, F)
  <2>1. TabsDistinct(y.v)
    BY <1>2, VmFields, PageFacts DEF Acct, Distinct, TabsDistinct, Own
  <2>2. NoTable(y.v, F)
    BY <1>2, VmFields, PageFacts DEF Acct, Distinct, NoTable, Own
  <2>3. OneEntry(y.v, F)
    BY <1>2, VmFields, PageFacts DEF Acct, Distinct, OneEntry, Own
  <2> QED BY <2>1, <2>2, <2>3 DEF Distinct
<1>4. Tables(y.v)
  BY DEF Acct, Tables
<1>5. NoZero(x.v) => NoZero(y.v)
  BY PageFacts DEF NoZero
<1> QED
  BY <1>1, <1>2, <1>3, <1>4, <1>5 DEF Acct, Apart, Covered

\* The page that was mapped is in hand.
LEMMA DropEntry ==
  ASSUME NEW x \in Work, NEW y \in Work, NEW F, NEW R, Acct(x, F, R),
         NEW a \in Va \ F, x.v.pte[a].pg \in Page,
         y.v.dir = x.v.dir, y.v.ktab = x.v.ktab, y.v.tab = x.v.tab, y.m = x.m,
         y.v.pte[a].pg = None, \A b \in Va : b # a => y.v.pte[b].pg = x.v.pte[b].pg
  PROVE  Acct(y, F, R \cup {x.v.pte[a].pg}) /\ x.v.pte[a].pg \notin R
<1> DEFINE g == x.v.pte[a].pg
<1>0. g \in Page
  OBVIOUS
<1>1. ASSUME NEW h \in Page PROVE Own(x.v, F, h) <=> Own(y.v, F, h) \/ h = g
  BY PageFacts DEF Own
<1>2. ~Own(y.v, F, g)
  BY PageFacts DEF Acct, Own, Distinct, NoTable, OneEntry
<1>3. Distinct(y.v, F)
  <2>1. TabsDistinct(y.v)
    BY VmFields, PageFacts DEF Acct, Distinct, TabsDistinct
  <2>2. NoTable(y.v, F)
    BY VmFields, PageFacts DEF Acct, Distinct, NoTable
  <2>3. OneEntry(y.v, F)
    BY VmFields, PageFacts DEF Acct, Distinct, OneEntry
  <2> QED BY <2>1, <2>2, <2>3 DEF Distinct
<1>4. Tables(y.v)
  BY DEF Acct, Tables
<1>6. NoZero(x.v) => NoZero(y.v)
  BY PageFacts DEF NoZero
<1> HIDE DEF g
<1>5. Acct(y, F, R \cup {g}) /\ g \notin R
  BY <1>0, <1>1, <1>2, <1>3, <1>4, <1>6 DEF Acct, Apart, Covered
<1> QED
  BY <1>5 DEF g

\* An entry that maps no page of its own changes.
LEMMA OtherEntry ==
  ASSUME NEW x \in Work, NEW y \in Work, NEW F, NEW R, Acct(x, F, R), NEW a \in Va,
         a \in F \/ (x.v.pte[a].pg \notin Page /\ y.v.pte[a].pg \notin Page),
         y.v.pte[a].pg # None => x.v.tab[a \div NPTE] # 0, ~x.m.short => y.v.pte[a].pg # 0,
         y.v.dir = x.v.dir, y.v.ktab = x.v.ktab, y.v.tab = x.v.tab, y.m = x.m,
         \A b \in Va : b # a => y.v.pte[b].pg = x.v.pte[b].pg
  PROVE  Acct(y, F, R)
<1>1. ASSUME NEW h \in Page PROVE Own(y.v, F, h) <=> Own(x.v, F, h)
  BY DEF Own
<1>2. Distinct(y.v, F)
  <2>1. TabsDistinct(y.v)
    BY VmFields, PageFacts DEF Acct, Distinct, TabsDistinct
  <2>2. NoTable(y.v, F)
    BY VmFields, PageFacts DEF Acct, Distinct, NoTable
  <2>3. OneEntry(y.v, F)
    BY VmFields, PageFacts DEF Acct, Distinct, OneEntry
  <2> QED BY <2>1, <2>2, <2>3 DEF Distinct
<1>3. Tables(y.v)
  BY DEF Acct, Tables
<1> QED
  BY <1>1, <1>2, <1>3 DEF Acct, Apart, Covered, NoZero

\* Entries without a page can be filed as one likes.
LEMMA Refile ==
  ASSUME NEW x \in Work, NEW F, NEW G, NEW R, Acct(x, F, R),
         \A a \in Va : x.v.pte[a].pg \in Page => (a \in F <=> a \in G)
  PROVE  Acct(x, G, R)
<1>1. ASSUME NEW h \in Page PROVE Own(x.v, G, h) <=> Own(x.v, F, h)
  BY DEF Own
<1>2. Distinct(x.v, G)
  BY DEF Acct, Distinct, TabsDistinct, NoTable, OneEntry
<1> QED
  BY <1>1, <1>2 DEF Acct, Apart, Covered, NoZero

\* When memory is short pages may be lost.
LEMMA Lose ==
  ASSUME NEW x \in Work, NEW y \in Work, NEW F, NEW R, NEW Q, Acct(x, F, R), Q \subseteq R, y.v = x.v,
         y.m.free = x.m.free, y.m.twice = x.m.twice, y.m.short
  PROVE  Acct(y, F, Q)
BY DEF Acct, Apart, Covered, NoZero

-----------------------------------------------------------------------------
(* vm.c: one page.                                                         *)

\* What is short stays short, a panic stays, and the directory is the same.
Later(x, y) == (x.m.short => y.m.short) /\ (x.m.panic # "" => y.m.panic # "") /\ y.v.dir = x.v.dir

LEMMA SameLater ==
  ASSUME NEW x, NEW y, NEW z, Later(x, y), z.m = y.m, z.v = y.v
  PROVE  Later(x, z)
BY DEF Later

LEMMA LaterLater ==
  ASSUME NEW x, NEW y, NEW z, Later(x, y), Later(y, z)
  PROVE  Later(x, z)
BY DEF Later

\* Fields other than those that Acct is about do not matter to it.
LEMMA SameAcct ==
  ASSUME NEW x \in Work, NEW y \in Work, NEW F, NEW R, Acct(x, F, R),
         y.v.dir = x.v.dir, y.v.ktab = x.v.ktab, y.v.tab = x.v.tab, y.v.pte = x.v.pte,
         y.m.free = x.m.free, y.m.twice = x.m.twice, y.m.short = x.m.short
  PROVE  Acct(y, F, R)
<1>1. \A h : Own(y.v, F, h) <=> Own(x.v, F, h)
  BY DEF Own
<1> QED
  BY <1>1 DEF Acct, Apart, Covered, NoZero, Distinct, TabsDistinct, NoTable, OneEntry, Tables

LEMMA MemFields ==
  ASSUME NEW x \in Work, NEW mem \in Mem
  PROVE  /\ [x EXCEPT !.m = mem] \in Work /\ [x EXCEPT !.m = mem].m = mem
         /\ [x EXCEPT !.m = mem].v = x.v /\ [x EXCEPT !.m = mem].sz = x.sz /\ [x EXCEPT !.m = mem].ok = x.ok
BY DEF Work

LEMMA OkFields ==
  ASSUME NEW x \in Work, NEW b \in BOOLEAN
  PROVE  /\ [x EXCEPT !.ok = b] \in Work /\ [x EXCEPT !.ok = b].m = x.m
         /\ [x EXCEPT !.ok = b].v = x.v /\ [x EXCEPT !.ok = b].sz = x.sz /\ [x EXCEPT !.ok = b].ok = b
BY DEF Work

LEMMA SzFields ==
  ASSUME NEW x \in Work, NEW n \in Nat
  PROVE  /\ [x EXCEPT !.sz = n] \in Work /\ [x EXCEPT !.sz = n].m = x.m
         /\ [x EXCEPT !.sz = n].v = x.v /\ [x EXCEPT !.sz = n].sz = n /\ [x EXCEPT !.sz = n].ok = x.ok
BY DEF Work

LEMMA ShortFields ==
  ASSUME NEW x \in Work
  PROVE  /\ Short(x) \in Work /\ Short(x).v = x.v /\ Short(x).sz = x.sz /\ Short(x).ok = x.ok
         /\ Short(x).m \in Mem /\ Short(x).m.short /\ Short(x).m.free = x.m.free
         /\ Short(x).m.twice = x.m.twice /\ Short(x).m.panic = x.m.panic
<1> DEFINE mem == [x.m EXCEPT !.short = TRUE]
<1>1. Short(x) = [x EXCEPT !.m = mem]
  BY DEF Short, Work
<1>2. x.m \in Mem
  BY WorkFields
<1>3. mem \in Mem /\ mem.short /\ mem.free = x.m.free /\ mem.twice = x.m.twice /\ mem.panic = x.m.panic
  BY <1>2 DEF Mem
<1> HIDE DEF mem
<1>4. Short(x) \in Work /\ Short(x).v = x.v /\ Short(x).sz = x.sz /\ Short(x).ok = x.ok /\ Short(x).m = mem
  BY <1>1, <1>3, MemFields
<1> QED BY <1>3, <1>4

SetEntry(x, a, e) == [x EXCEPT !.v.pte[a] = e]
SetTable(x, mem, t, g) == [x EXCEPT !.m = mem, !.v.tab[t] = g]

LEMMA PteFields ==
  ASSUME NEW x \in Work, NEW a \in Va, NEW e \in Entry, NEW y, y = SetEntry(x, a, e)
  PROVE  /\ y \in Work /\ y.m = x.m /\ y.sz = x.sz /\ y.ok = x.ok
         /\ y.v.dir = x.v.dir /\ y.v.ktab = x.v.ktab /\ y.v.tab = x.v.tab
         /\ y.v.pte[a] = e /\ \A b \in Va : b # a => y.v.pte[b] = x.v.pte[b]
<1> DEFINE f == [x.v.pte EXCEPT ![a] = e]
           w == [x.v EXCEPT !.pte = f]
<1>1. x.v \in Vm /\ x.v.pte \in [Va -> Entry]
  BY WorkFields, VmFields
<1>2. f \in [Va -> Entry] /\ f[a] = e /\ \A b \in Va : b # a => f[b] = x.v.pte[b]
  BY <1>1
<1> HIDE DEF f
<1>3. w \in Vm /\ w.dir = x.v.dir /\ w.ktab = x.v.ktab /\ w.tab = x.v.tab /\ w.pte = f
  BY <1>1, <1>2 DEF Vm
<1>4. y = [x EXCEPT !.v = w]
  BY DEF f, SetEntry
<1> HIDE DEF w
<1>5. y \in Work /\ y.m = x.m /\ y.sz = x.sz /\ y.ok = x.ok /\ y.v = w
  BY <1>3, <1>4 DEF Work
<1>6. /\ y \in Work /\ y.m = x.m /\ y.sz = x.sz /\ y.ok = x.ok
      /\ y.v.dir = x.v.dir /\ y.v.ktab = x.v.ktab /\ y.v.tab = x.v.tab
      /\ y.v.pte[a] = e /\ \A b \in Va : b # a => y.v.pte[b] = x.v.pte[b]
  BY <1>2, <1>3, <1>5
<1> QED BY <1>6 DEF f

LEMMA TabFields ==
  ASSUME NEW x \in Work, NEW t \in Tab, NEW g \in Page \cup {0}, NEW mem \in Mem,
         NEW y, y = SetTable(x, mem, t, g)
  PROVE  /\ y \in Work /\ y.m = mem /\ y.sz = x.sz /\ y.ok = x.ok
         /\ y.v.dir = x.v.dir /\ y.v.ktab = x.v.ktab /\ y.v.pte = x.v.pte
         /\ y.v.tab = [x.v.tab EXCEPT ![t] = g]
         /\ y.v.tab[t] = g /\ \A s \in Tab : s # t => y.v.tab[s] = x.v.tab[s]
<1> DEFINE f == [x.v.tab EXCEPT ![t] = g]
           w == [x.v EXCEPT !.tab = f]
<1>1. x.v \in Vm /\ x.v.tab \in [Tab -> Page \cup {0}]
  BY WorkFields, VmFields
<1>2. f \in [Tab -> Page \cup {0}] /\ f[t] = g /\ \A s \in Tab : s # t => f[s] = x.v.tab[s]
  BY <1>1
<1> HIDE DEF f
<1>3. w \in Vm /\ w.dir = x.v.dir /\ w.ktab = x.v.ktab /\ w.pte = x.v.pte /\ w.tab = f
  BY <1>1, <1>2 DEF Vm
<1>4. y = [[x EXCEPT !.m = mem] EXCEPT !.v = w]
  BY DEF f, Work, SetTable
<1> HIDE DEF w
<1>5. y \in Work /\ y.m = mem /\ y.sz = x.sz /\ y.ok = x.ok /\ y.v = w
  BY <1>3, <1>4 DEF Work
<1>6. /\ y \in Work /\ y.m = mem /\ y.sz = x.sz /\ y.ok = x.ok
      /\ y.v.dir = x.v.dir /\ y.v.ktab = x.v.ktab /\ y.v.pte = x.v.pte
      /\ y.v.tab = f
      /\ y.v.tab[t] = g /\ \A s \in Tab : s # t => y.v.tab[s] = x.v.tab[s]
  BY <1>2, <1>3, <1>5
<1> QED BY <1>6 DEF f

\* walkpgdir() adds a table at most.
LEMMA Walk ==
  ASSUME NEW x, NEW F, NEW R, Sound(x, F, R), NEW a \in Va
  PROVE  LET y == walkpgdir(x, a)
         IN  /\ Sound(y, F, R) /\ y.v.pte = x.v.pte /\ y.sz = x.sz /\ y.ok = x.ok
             /\ y.m.short = x.m.short /\ y.m.panic = x.m.panic /\ y.v.dir = x.v.dir
<1> DEFINE t == a \div NPTE
           g == Got(x.m)
           mem == Taken(x.m)
           y == [x EXCEPT !.m = Taken(@), !.v.tab[a \div NPTE] = Got(x.m)]
           w == [x EXCEPT !.m = mem, !.v.tab[t] = g]
<1>1. x \in Work /\ x.m \in Mem /\ t \in Tab
  BY WorkFields, TableOf DEF Sound
<1>2. CASE x.v.tab[t] # 0
  BY <1>2 DEF walkpgdir, Table
<1>3. CASE x.v.tab[t] = 0
  <2>1. walkpgdir(x, a) = y /\ y = w
    BY <1>3 DEF walkpgdir, Table
  <2>2. g \in Page \cup {0} /\ mem \in Mem /\ mem.free = x.m.free \ {g}
        /\ mem.twice = x.m.twice /\ mem.panic = x.m.panic /\ mem.short = x.m.short
    BY <1>1, GotFacts, TakenFacts
  <2>3. /\ w \in Work /\ w.m = mem /\ w.sz = x.sz /\ w.ok = x.ok
        /\ w.v.dir = x.v.dir /\ w.v.ktab = x.v.ktab /\ w.v.pte = x.v.pte
        /\ w.v.tab = [x.v.tab EXCEPT ![t] = g]
        /\ w.v.tab[t] = g /\ \A s \in Tab : s # t => w.v.tab[s] = x.v.tab[s]
    <3>1. w = SetTable(x, mem, t, g)
      BY DEF SetTable
    <3> HIDE DEF t, g, mem, w
    <3>2. x \in Work /\ t \in Tab /\ g \in Page \cup {0} /\ mem \in Mem
      BY <1>1, <2>2
    <3> QED BY <3>1, <3>2, TabFields
  <2> HIDE DEF w
  <2>4. ASSUME x.m.panic = "" PROVE Acct(w, F, R)
    <3>0. Acct(x, F, R)
      BY <2>4 DEF Sound
    <3>1. CASE g = 0
      <4>1. w.v.tab = x.v.tab
        <5>1. x.v.tab \in [Tab -> Page \cup {0}]
          BY <1>1, VmFields
        <5> QED BY <1>3, <2>3, <3>1, <5>1
      <4>2. w.m.free = x.m.free
        <5>1. x.m.free \in SUBSET Page
          BY <1>1, FreeField
        <5> QED BY <2>2, <2>3, <3>1, <5>1, PageFacts
      <4> QED
        BY <1>1, <2>2, <2>3, <3>0, <4>1, <4>2, SameAcct
    <3>2. CASE g # 0
      <4> DEFINE z == [x EXCEPT !.m = mem]
      <4>1. z \in Work /\ z.m = mem /\ z.v = x.v
        BY <1>1, <2>2, MemFields
      <4> HIDE DEF z
      <4>2. Acct(z, F, R \cup {g})
        BY <1>1, <3>0, <3>2, <4>1, TakePage
      <4>3. g \in Page /\ g \notin R
        <5>1. g \in Page /\ g \in x.m.free
          BY <1>1, <3>2, GotFacts
        <5> QED BY <3>0, <5>1 DEF Acct, Apart
      <4> HIDE DEF g, mem, t
      <4>4. /\ z.v.tab[t] = 0 /\ w.v.dir = z.v.dir /\ w.v.ktab = z.v.ktab /\ w.v.pte = z.v.pte /\ w.m = z.m
            /\ w.v.tab[t] = g /\ \A s \in Tab : s # t => w.v.tab[s] = z.v.tab[s]
        BY <1>3, <2>3, <4>1
      <4> QED
        BY <1>1, <2>3, <4>1, <4>2, <4>3, <4>4, AddTable, Zenon
    <3> QED BY <3>1, <3>2
  <2>5. Sound(w, F, R)
    BY <2>2, <2>3, <2>4 DEF Sound
  <2> QED
    BY <2>1, <2>2, <2>3, <2>5
<1> QED BY <1>2, <1>3

LEMMA FailedFields ==
  ASSUME NEW x \in Work
  PROVE  Failed(x) \in Work /\ Failed(x).m = x.m /\ Failed(x).v = x.v /\ Failed(x).sz = x.sz /\ ~Failed(x).ok
BY DEF Failed, Work

\* The three ends of mappages(): no table, an entry in use, and done.
NoTableEnd(w, a, y) ==
  /\ w.v.tab[a \div NPTE] = 0
  /\ y \in Work /\ y.v = w.v /\ y.sz = w.sz /\ ~y.ok /\ y.m.short
  /\ y.m.free = w.m.free /\ y.m.twice = w.m.twice /\ y.m.panic = w.m.panic
RemapEnd(w, a, y) ==
  /\ w.v.tab[a \div NPTE] # 0 /\ w.v.pte[a].pg # None
  /\ y \in Work /\ y.v = w.v /\ y.sz = w.sz /\ y.ok = w.ok
  /\ y.m.short = w.m.short /\ y.m.panic # ""
MappedEnd(w, a, g, y) ==
  /\ w.v.tab[a \div NPTE] # 0 /\ w.v.pte[a].pg = None
  /\ y \in Work /\ y.m = w.m /\ y.sz = w.sz /\ y.ok = w.ok
  /\ y.v.dir = w.v.dir /\ y.v.ktab = w.v.ktab /\ y.v.tab = w.v.tab
  /\ y.v.pte[a].pg = g /\ \A b \in Va : b # a => y.v.pte[b] = w.v.pte[b]

LEMMA SetCases ==
  ASSUME NEW w \in Work, NEW a \in Va, NEW g \in Page \cup {0}, NEW u, [pg |-> g, u |-> u] \in Entry,
         NEW y, y = SetPte(w, a, g, u)
  PROVE  NoTableEnd(w, a, y) \/ RemapEnd(w, a, y) \/ MappedEnd(w, a, g, y)
<1>1. CASE Table(w.v, a) = 0
  <2>1. y = Failed(Short(w))
    BY <1>1 DEF SetPte
  <2> QED
    BY <1>1, <2>1, ShortFields, FailedFields DEF Table, NoTableEnd
<1>2. CASE Table(w.v, a) # 0 /\ w.v.pte[a].pg # None
  <2> DEFINE mem == Panic(w.m, "remap")
  <2>1. y = [w EXCEPT !.m = mem]
    BY <1>2 DEF SetPte
  <2>2. mem.panic # "" /\ mem.short = w.m.short /\ mem \in Mem
    <3>1. w.m \in Mem
      BY WorkFields
    <3>2. "remap" \in Panics
      BY DEF Panics
    <3> QED
      BY <3>1, <3>2, PanicFacts
  <2> HIDE DEF mem
  <2>4. mem \in Mem
    BY <2>2
  <2>3. y \in Work /\ y.m = mem /\ y.v = w.v /\ y.sz = w.sz /\ y.ok = w.ok
    BY <2>1, <2>4, MemFields
  <2> QED
    BY <1>2, <2>2, <2>3 DEF Table, RemapEnd
<1>3. CASE Table(w.v, a) # 0 /\ w.v.pte[a].pg = None
  <2> DEFINE e == [pg |-> g, u |-> u]
  <2>1. y = SetEntry(w, a, e)
    BY <1>3 DEF SetPte, SetEntry
  <2>2. e \in Entry
    OBVIOUS
  <2>4. e.pg = g
    OBVIOUS
  <2> HIDE DEF e
  <2>3. /\ y \in Work /\ y.m = w.m /\ y.sz = w.sz /\ y.ok = w.ok
        /\ y.v.dir = w.v.dir /\ y.v.ktab = w.v.ktab /\ y.v.tab = w.v.tab
        /\ y.v.pte[a] = e /\ \A b \in Va : b # a => y.v.pte[b] = w.v.pte[b]
    BY <2>1, <2>2, PteFields, SMTT(40)
  <2> QED
    BY <1>3, <2>3, <2>4 DEF Table, MappedEnd
<1> QED BY <1>1, <1>2, <1>3

\* Page g is none of those of the others.
InHand(mem, g, R) == mem.panic = "" => g \notin R

\* mappages() of the page in hand, right above the others.
MappedOwn(x, y, F, R, a) ==
  /\ Good(y, F, R, a + 1) /\ y.sz = x.sz /\ Later(x, y)
  /\ y.ok => x.ok
  /\ ~y.m.short => y.ok = x.ok
  /\ \A b \in Va : b # a => y.v.pte[b] = x.v.pte[b]
LEMMA MapOwn ==
  ASSUME NEW x, NEW F, NEW R, NEW g \in Page, InHand(x.m, g, R), NEW a \in Va \ F, NEW u, [pg |-> g, u |-> u] \in Entry,
         Good(x, F, R \cup {g}, a), NEW y, y = mappages(x, a, g, u)
  PROVE  MappedOwn(x, y, F, R, a)
<1> USE DEF MappedOwn
<1> DEFINE w == walkpgdir(x, a)
           Q == R \cup {g}
<1>0. a \in Nat /\ a >= a
  BY VaNat
<1>1. /\ Sound(w, F, Q) /\ w.v.pte = x.v.pte /\ w.sz = x.sz /\ w.ok = x.ok
      /\ w.m.short = x.m.short /\ w.m.panic = x.m.panic /\ w.v.dir = x.v.dir
  BY Walk DEF Good
<1>2. y = SetPte(w, a, g, u)
  BY DEF mappages
<1> HIDE DEF w
<1>3. w \in Work /\ x \in Work
  BY <1>1 DEF Sound, Good
<1>4. w.m.panic = "" => Acct(w, F, Q)
  BY <1>1 DEF Sound
<1>5. CASE NoTableEnd(w, a, y)
  <2> USE <1>5 DEF NoTableEnd
  <2>1. y.m.panic = "" => Acct(y, F, R)
    <3>1. R \subseteq Q
      OBVIOUS
    <3> HIDE DEF Q
    <3> QED BY <1>3, <1>4, <1>5, <3>1, Lose
  <2> QED
    BY <1>1, <1>5, <2>1 DEF Good, Sound, Later
<1>6. CASE RemapEnd(w, a, y)
  <2> USE <1>6 DEF RemapEnd
  <2>2. x.m.short
    BY <1>0, <1>1 DEF Good, Exact
  <2> QED
    BY <1>1, <2>2 DEF Good, Sound, Later
<1>7. CASE MappedEnd(w, a, g, y)
  <2> USE <1>7 DEF MappedEnd
  <2>1. y.m.panic = "" => Acct(y, F, R)
    <3>1. w.v.pte[a].pg \notin Page /\ \A b \in Va : b # a => y.v.pte[b].pg = w.v.pte[b].pg
      BY <1>7, PageFacts
    <3> SUFFICES ASSUME y.m.panic = "" PROVE Acct(y, F, R)
      OBVIOUS
    <3>2. Acct(w, F, R \cup {g})
      BY <1>4, <1>7
    <3>4. g \notin R
      BY <1>1, <1>7 DEF InHand
    <3>3. /\ w.v.tab[a \div NPTE] # 0 /\ y \in Work /\ y.m = w.m
          /\ y.v.dir = w.v.dir /\ y.v.ktab = w.v.ktab /\ y.v.tab = w.v.tab /\ y.v.pte[a].pg = g
      OBVIOUS
    <3> HIDE <1>7 DEF MappedEnd
    <3> QED BY <1>3, <3>1, <3>2, <3>3, <3>4, AddEntry, ZenonT(30)
  <2>2. ASSUME ~y.m.short PROVE Exact(y.v, F, a + 1)
    <3>1. Exact(x.v, F, a)
      BY <1>1, <1>7, <2>2 DEF Good
    <3>2. \A b \in Va : b \in Nat
      BY Sizes DEF Va
    <3> QED
      BY <1>1, <1>7, <3>1, <3>2 DEF Exact
  <2>3. Later(x, y) /\ Good(y, F, R, a + 1)
    BY <1>1, <1>7, <2>1, <2>2 DEF Good, Sound, Later
  <2> QED
    BY <1>1, <1>7, <2>3
<1> QED
  BY <1>2, <1>3, <1>5, <1>6, <1>7, SetCases, Zenon

\* mappages() of a page that others have too, above the memory of the process.
MappedForeign(x, y, F, R, n, a, g) ==
  /\ Good(y, F \cup {a}, R, n) /\ y.sz = x.sz /\ Later(x, y) /\ y.ok = x.ok
  /\ y.m.panic = "" => y.v.pte[a].pg \in {None, g}
  /\ y.m.panic = "" => \A b \in Va : b # a => y.v.pte[b] = x.v.pte[b]
  /\ ~y.m.short => y.v.pte[a].pg = g
LEMMA MapForeign ==
  ASSUME NEW x, NEW F, NEW R, NEW g \in Page \cup {0}, NEW a \in Va, NEW n \in Nat, n <= a, a \notin F,
         Good(x, F, R, n), g = 0 => x.m.short, NEW y, y = MapAnyway(x, a, g)
  PROVE  MappedForeign(x, y, F, R, n, a, g)
<1> USE DEF MappedForeign
<1> DEFINE w == walkpgdir(x, a)
           z == SetPte(w, a, g, TRUE)
           G == F \cup {a}
<1>0. a \in Nat /\ a >= n
  BY VaNat
<1>1. /\ Sound(w, F, R) /\ w.v.pte = x.v.pte /\ w.sz = x.sz /\ w.ok = x.ok
      /\ w.m.short = x.m.short /\ w.m.panic = x.m.panic /\ w.v.dir = x.v.dir
  BY Walk DEF Good
<1>2. y = [z EXCEPT !.ok = x.ok]
  BY DEF MapAnyway, mappages
<1> HIDE DEF w, z
<1>3. w \in Work /\ x \in Work /\ x.ok \in BOOLEAN
  BY <1>1, WorkFields DEF Sound, Good
<1>4. w.m.panic = "" => Acct(w, F, R)
  BY <1>1 DEF Sound
<1>5. ASSUME z \in Work
      PROVE  y \in Work /\ y.m = z.m /\ y.v = z.v /\ y.sz = z.sz /\ y.ok = x.ok
  BY <1>2, <1>3, <1>5, OkFields
<1>6. w.m.panic = "" /\ w.v.pte[a].pg = None => Acct(w, G, R)
  <2> SUFFICES ASSUME w.m.panic = "", w.v.pte[a].pg = None PROVE Acct(w, G, R)
    OBVIOUS
  <2>1. \A b \in Va : w.v.pte[b].pg \in Page => (b \in F <=> b \in G)
    BY PageFacts
  <2> HIDE DEF G
  <2> QED BY <1>3, <1>4, <2>1, Refile
<1>7. CASE NoTableEnd(w, a, z)
  <2> USE <1>7 DEF NoTableEnd
  <2>0. y \in Work /\ y.m = z.m /\ y.v = w.v /\ y.sz = x.sz /\ y.ok = x.ok
    BY <1>1, <1>5, <1>7
  <2>1. w.m.panic = "" => w.v.pte[a].pg = None
    BY <1>4, <1>7 DEF Acct, Tables
  <2>2. y.m.panic = "" => Acct(y, G, R)
    <3> HIDE DEF G
    <3>1. R \subseteq R
      OBVIOUS
    <3> QED BY <1>3, <1>6, <1>7, <2>0, <2>1, <3>1, Lose
  <2> QED
    BY <1>1, <1>7, <2>0, <2>1, <2>2 DEF Good, Sound, Later
<1>8. CASE RemapEnd(w, a, z)
  <2> USE <1>8 DEF RemapEnd
  <2>0. y \in Work /\ y.m = z.m /\ y.v = w.v /\ y.sz = x.sz /\ y.ok = x.ok
    BY <1>1, <1>5, <1>8
  <2>2. x.m.short
    BY <1>0, <1>1 DEF Good, Exact
  <2> QED
    BY <1>1, <1>8, <2>0, <2>2 DEF Good, Sound, Later
<1>9. CASE MappedEnd(w, a, g, z)
  <2> USE <1>9 DEF MappedEnd
  <2>0. y \in Work /\ y.m = w.m /\ y.v = z.v /\ y.sz = x.sz /\ y.ok = x.ok
    BY <1>1, <1>5, <1>9
  <2>1. y.m.panic = "" => Acct(y, G, R)
    <3>1. /\ a \in G /\ y.v.dir = w.v.dir /\ y.v.ktab = w.v.ktab /\ y.v.tab = w.v.tab
          /\ w.v.tab[a \div NPTE] # 0 /\ \A b \in Va : b # a => y.v.pte[b].pg = w.v.pte[b].pg
      BY <1>9, <2>0
    <3> SUFFICES ASSUME y.m.panic = "" PROVE Acct(y, G, R)
      OBVIOUS
    <3>2. Acct(w, G, R)
      BY <1>6, <1>9, <2>0
    <3>3. ~w.m.short => y.v.pte[a].pg # 0
      BY <1>1, <2>0
    <3> HIDE DEF G
    <3> QED BY <1>3, <2>0, <3>1, <3>2, <3>3, OtherEntry
  <2>2. ASSUME ~y.m.short PROVE Exact(y.v, G, n)
    <3>1. Exact(x.v, F, n)
      BY <1>1, <2>0, <2>2 DEF Good
    <3>2. \A b \in Va : b \in Nat
      BY Sizes DEF Va
    <3>3. \A b \in Va : b # a => y.v.pte[b] = x.v.pte[b]
      BY <1>1, <1>9, <2>0
    <3>4. ~(a < n)
      BY <3>2
    <3> QED
      BY <3>1, <3>2, <3>3, <3>4 DEF Exact
  <2> QED
    BY <1>1, <1>9, <2>0, <2>1, <2>2, ZenonT(40) DEF Good, Sound, Later
<1>10. z = SetPte(w, a, g, TRUE) /\ [pg |-> g, u |-> TRUE] \in Entry
  BY DEF z, Entry
<1> QED
  BY <1>3, <1>7, <1>8, <1>9, <1>10, SetCases, Zenon

\* clearptep() of an entry that maps no page of the process's own.
ClearedForeign(x, y, F, R, n, a) ==
  /\ Good(y, F, R, n) /\ y.sz = x.sz /\ Later(x, y) /\ y.ok = x.ok /\ y.m.short = x.m.short
  /\ y.m.panic = "" => y.v.pte[a].pg = None
  /\ \A b \in Va : b # a => y.v.pte[b] = x.v.pte[b]
LEMMA ClearForeign ==
  ASSUME NEW x, NEW F, NEW R, NEW n \in Nat, NEW a \in F, a \in Va, n <= a, Good(x, F, R, n),
         ~x.m.short => x.v.pte[a].pg # None,
         NEW y, y = clearptep(x, a)
  PROVE  ClearedForeign(x, y, F, R, n, a)
<1> USE DEF ClearedForeign
<1>0. x \in Work
  BY DEF Good, Sound
<1>1. x \in Work /\ \A b \in Va : b \in Nat
  BY <1>0, VaNat
<1>2. CASE Table(x.v, a) = 0
  <2> DEFINE mem == Panic(x.m, "clearpteu")
  <2>1. y = [x EXCEPT !.m = mem]
    BY <1>2 DEF clearptep
  <2>2. mem.panic # "" /\ mem.short = x.m.short /\ mem \in Mem
    <3>1. x.m \in Mem
      BY <1>1, WorkFields
    <3>2. "clearpteu" \in Panics
      BY DEF Panics
    <3> QED
      BY <3>1, <3>2, PanicFacts
  <2> HIDE DEF mem
  <2>4. mem \in Mem
    BY <2>2
  <2>3. y \in Work /\ y.m = mem /\ y.v = x.v /\ y.sz = x.sz /\ y.ok = x.ok
    BY <1>1, <2>1, <2>4, MemFields
  <2>5. x.m.short
    BY <1>2 DEF Good, Sound, Acct, Tables, Table
  <2> QED
    BY <2>2, <2>3, <2>5 DEF Good, Sound, Later
<1>3. CASE Table(x.v, a) # 0
  <2>1. y = SetEntry(x, a, NoPte)
    BY <1>3 DEF clearptep, SetEntry
  <2>2. NoPte.pg = None
    BY DEF NoPte
  <2>6. NoPte \in Entry
    BY DEF Entry, NoPte
  <2>3. /\ y \in Work /\ y.m = x.m /\ y.sz = x.sz /\ y.ok = x.ok
        /\ y.v.dir = x.v.dir /\ y.v.ktab = x.v.ktab /\ y.v.tab = x.v.tab
        /\ y.v.pte[a] = NoPte /\ \A b \in Va : b # a => y.v.pte[b] = x.v.pte[b]
    BY <1>0, <2>1, <2>6, PteFields
  <2>4. ASSUME y.m.panic = "" PROVE Acct(y, F, R)
    <3>1. Acct(x, F, R)
      BY <2>3, <2>4 DEF Good, Sound
    <3>2. y.v.pte[a].pg = None /\ y.v.pte[a].pg # 0 /\ \A b \in Va : b # a => y.v.pte[b].pg = x.v.pte[b].pg
      BY <2>2, <2>3, PageFacts
    <3> QED BY <1>1, <2>3, <3>1, <3>2, OtherEntry
  <2>5. ASSUME ~y.m.short PROVE Exact(y.v, F, n)
    <3>1. Exact(x.v, F, n) /\ ~(a < n)
      BY <1>1, <2>3, <2>5 DEF Good
    <3> QED BY <1>1, <2>3, <3>1 DEF Exact
  <2> QED
    BY <2>2, <2>3, <2>4, <2>5 DEF Good, Sound, Later
<1> QED BY <1>2, <1>3

-----------------------------------------------------------------------------
(* deallocuvm() and freevm().                                              *)

\* kfree() of a page that is not free.
LEMMA KfreeFacts ==
  ASSUME NEW mem \in Mem, NEW g \in Page, g \notin mem.free
  PROVE  /\ kfree(mem, g) \in Mem /\ kfree(mem, g).free = mem.free \cup {g}
         /\ kfree(mem, g).twice = mem.twice /\ kfree(mem, g).panic = mem.panic /\ kfree(mem, g).short = mem.short
<1>1. kfree(mem, g) = [mem EXCEPT !.free = @ \cup {g}]
  BY DEF kfree
<1> QED BY <1>1, ZenonT(40) DEF Mem

LEMMA KfreeMem ==
  ASSUME NEW mem \in Mem, NEW g
  PROVE  /\ kfree(mem, g) \in Mem /\ kfree(mem, g).short = mem.short
         /\ mem.panic # "" => kfree(mem, g).panic # ""
         /\ g \notin Page => kfree(mem, g).panic # ""
<1>1. CASE g \notin Page
  <2>1. kfree(mem, g) = Panic(mem, "kfree")
    <3>1. g \notin mem.free
      BY <1>1 DEF Mem
    <3> QED BY <1>1, <3>1, Zenon DEF kfree
  <2>2. "kfree" \in Panics
    BY DEF Panics
  <2> QED BY <2>1, <2>2, PanicFacts
<1>2. CASE g \in Page /\ g \in mem.free
  <2>1. kfree(mem, g) = [mem EXCEPT !.twice = TRUE]
    BY <1>2 DEF kfree
  <2> QED BY <1>2, <2>1 DEF Mem
<1>3. CASE g \in Page /\ g \notin mem.free
  BY <1>3, KfreeFacts
<1> QED BY <1>1, <1>2, <1>3

\* One page of the process's own.
LEMMA ClearOwn ==
  ASSUME NEW x, NEW F, NEW R, Sound(x, F, R), NEW a \in Va, a \notin F, NEW y, y = Clear(x, a)
  PROVE  /\ Sound(y, F, R) /\ y.sz = x.sz /\ y.ok = x.ok /\ Later(x, y) /\ y.m.short = x.m.short
         /\ y.v.tab = x.v.tab /\ y.v.pte[a].pg = None /\ \A b \in Va : b # a => y.v.pte[b] = x.v.pte[b]
<1> DEFINE g == x.v.pte[a].pg
           mem == kfree(x.m, g)
           w == SetEntry(x, a, NoPte)
<1>0. x \in Work
  BY DEF Sound
<1>1. CASE g = None
  <2>1. y = x
    BY <1>1 DEF Clear
  <2> QED BY <1>1, <2>1 DEF Later
<1>2. CASE g # None
  <2>1. y = [w EXCEPT !.m = mem]
    <3>1. y = [x EXCEPT !.m = mem, !.v.pte[a] = NoPte]
      BY <1>2 DEF Clear
    <3>2. w = [x EXCEPT !.v.pte[a] = NoPte]
      BY DEF SetEntry
    <3> HIDE DEF mem, w
    <3> QED BY <1>0, <3>1, <3>2 DEF Work
  <2>2. NoPte \in Entry
    BY DEF NoPte, Entry
  <2>3. /\ w \in Work /\ w.m = x.m /\ w.sz = x.sz /\ w.ok = x.ok
        /\ w.v.dir = x.v.dir /\ w.v.ktab = x.v.ktab /\ w.v.tab = x.v.tab
        /\ w.v.pte[a] = NoPte /\ \A b \in Va : b # a => w.v.pte[b] = x.v.pte[b]
    <3> HIDE DEF w
    <3>1. w = SetEntry(x, a, NoPte)
      BY DEF w
    <3> QED BY <1>0, <2>2, <3>1, PteFields
  <2>4. x.m \in Mem /\ g \in Page \cup {0}
    BY <1>0, <1>2, WorkFields, VmFields
  <2>5. mem \in Mem /\ mem.short = x.m.short /\ (x.m.panic # "" => mem.panic # "") /\ (g \notin Page => mem.panic # "")
    <3> HIDE DEF g
    <3> QED BY <2>4, KfreeMem
  <2> HIDE DEF w
  <2>6. y \in Work /\ y.m = mem /\ y.v = w.v /\ y.sz = w.sz /\ y.ok = w.ok
    <3>1. mem \in Mem
      BY <2>5
    <3> HIDE DEF mem
    <3> QED BY <2>1, <2>3, <3>1, MemFields
  <2>7. NoPte.pg = None
    BY DEF NoPte
  <2>8. ASSUME y.m.panic = "" PROVE Acct(y, F, R)
    <3>1. Acct(x, F, R) /\ g \in Page
      BY <2>4, <2>5, <2>6, <2>8 DEF Sound
    <3>2. Acct(w, F, R \cup {g}) /\ g \notin R
      <4>1. w.v.pte[a].pg = None /\ \A b \in Va : b # a => w.v.pte[b].pg = x.v.pte[b].pg
        BY <2>3, <2>7
      <4> QED BY <1>0, <2>3, <3>1, <4>1, DropEntry
    <3>3. g \notin x.m.free
      <4>1. Own(x.v, F, g)
        BY DEF Own
      <4> QED BY <3>1, <4>1 DEF Acct, Apart
    <3>4. /\ y.m.free = w.m.free \cup {g} /\ y.m.twice = w.m.twice /\ y.m.short = w.m.short
      <4> HIDE DEF g
      <4> QED BY <2>3, <2>4, <2>6, <3>1, <3>3, KfreeFacts
    <3> HIDE DEF g
    <3> QED BY <2>3, <2>6, <3>1, <3>2, <3>4, FreePage
  <2>9. y.m.panic # "" => y.m.short
    <3>1. ASSUME x.m.panic = "", ~x.m.short PROVE y.m.panic = ""
      <4>1. Acct(x, F, R)
        BY <3>1 DEF Sound
      <4>2. g \in Page
        BY <2>4, <3>1, <4>1 DEF Acct, NoZero
      <4>3. g \notin x.m.free
        <5>1. Own(x.v, F, g)
          BY DEF Own
        <5> QED BY <4>1, <4>2, <5>1 DEF Acct, Apart
      <4>4. x.m \in Mem
        BY <2>4
      <4>5. mem.panic = x.m.panic
        <5> HIDE DEF g
        <5> QED BY <4>2, <4>3, <4>4, KfreeFacts
      <4> QED BY <2>6, <3>1, <4>5
    <3> QED BY <2>5, <2>6, <3>1 DEF Sound
  <2>10. Sound(y, F, R)
    BY <2>6, <2>8, <2>9 DEF Sound
  <2>11. Later(x, y) /\ y.m.short = x.m.short
    BY <2>3, <2>5, <2>6 DEF Later
  <2> QED
    BY <2>3, <2>6, <2>7, <2>10, <2>11
<1> QED BY <1>1, <1>2

\* e is the first page that does not start below end.
EndsAt(end, e) == \A a \in Nat : a * PGSIZE >= end <=> e <= a

\* The loop of deallocuvm() at y, after k passes: it started at page n1 with x, and
\* e is the first page above the memory of the process.
Steps == [x : Work, a : Nat]
ClearKept(x, y, F, R, n1, e) ==
  /\ Sound(y.x, F, R) /\ y.x.sz = x.sz /\ y.x.ok = x.ok /\ y.x.m.short = x.m.short /\ Later(x, y.x)
  /\ y.x.v.tab = x.v.tab
  /\ \A b \in Va : b < n1 \/ e <= b \/ y.a <= b => y.x.v.pte[b] = x.v.pte[b]
ClearPlace(x, y, n1, e, k) ==
  /\ n1 <= y.a
  /\ e <= y.a \/ n1 + k <= y.a
  /\ n1 = 0 /\ y.a % NPTE # 0 /\ y.a \in Va => x.v.tab[y.a \div NPTE] # 0
ClearDone(x, y, F, n1, n, e) ==
  (~x.m.short /\ Exact(x.v, F, n)) \/ n1 = 0 =>
    (y.x.m.panic = "" => \A b \in Va : n1 <= b /\ b < y.a /\ b < e => y.x.v.pte[b].pg = None)

LEMMA ClearPass ==
  ASSUME NEW x \in Work, NEW F, NEW R, NEW n1 \in Nat, NEW n \in Nat, NEW e \in Nat, e <= KERNPAGES,
         NEW end, EndsAt(end, e),
         \A a \in Va : a \in F => e <= a,
         NEW k \in Nat, NEW y \in Steps,
         ClearKept(x, y, F, R, n1, e), ClearPlace(x, y, n1, e, k), ClearDone(x, y, F, n1, n, e),
         NEW z, z = ClearNext(y, end)
  PROVE  /\ z \in Steps
         /\ ClearKept(x, z, F, R, n1, e) /\ ClearPlace(x, z, n1, e, k + 1) /\ ClearDone(x, z, F, n1, n, e)
<1>1. y.x \in Work /\ y.a \in Nat /\ NPTE \in Nat \ {0} /\ (y.a < e => y.a \in Va)
      /\ y.a <= y.a /\ \A b \in Va : b \in Nat
  BY Sizes, VaNat DEF Steps, Va
<1>2. y.a * PGSIZE >= end <=> e <= y.a
  BY <1>1 DEF EndsAt
<1>3. CASE e <= y.a
  <2>1. z = y
    BY <1>2, <1>3 DEF ClearNext
  <2> QED BY <1>3, <2>1 DEF ClearPlace
<1>4. CASE ~(e <= y.a) /\ y.x.v.tab[y.a \div NPTE] = 0
  <2>0. y.a < e /\ y.a \in Va
    BY <1>1, <1>4
  <2>1. z = [y EXCEPT !.a = @ + NPTE]
    BY <1>2, <1>4 DEF ClearNext, Table
  <2>2. z \in Steps /\ z.x = y.x /\ z.a = y.a + NPTE
    BY <1>1, <2>1 DEF Steps
  <2>3. ClearKept(x, z, F, R, n1, e)
    <3>1. \A b \in Va : z.a <= b => y.a <= b
      BY <1>1, <2>2
    <3> QED BY <2>2, <3>1 DEF ClearKept
  <2>4. x.v.tab[y.a \div NPTE] = 0
    BY <1>4 DEF ClearKept
  <2>5. n1 = 0 => y.a % NPTE = 0
    BY <2>0, <2>4 DEF ClearPlace
  <2>6. ClearPlace(x, z, n1, e, k + 1)
    <3>1. n1 = 0 => z.a % NPTE = 0
      BY <1>1, <2>2, <2>5, TableOf
    <3>2. n1 <= z.a /\ (e <= z.a \/ n1 + (k + 1) <= z.a)
      BY <1>1, <1>4, <2>2 DEF ClearPlace
    <3> QED BY <3>1, <3>2 DEF ClearPlace
  <2>8. \A b \in Va : b < z.a /\ ~(b < y.a) => y.a <= b /\ b < y.a + NPTE /\ b \in Nat
    BY <1>1, <2>2
  <2>9. \A b \in Va : ~(y.a < n) /\ y.a <= b /\ b < e => b \notin F /\ b >= n
    BY <1>1
  <2>7. ClearDone(x, z, F, n1, n, e)
    <3> SUFFICES ASSUME (~x.m.short /\ Exact(x.v, F, n)) \/ n1 = 0, y.x.m.panic = "",
                        NEW b \in Va, n1 <= b, b < z.a, b < e
                 PROVE  y.x.v.pte[b].pg = None
      BY <2>2 DEF ClearDone
    <3>1. Tables(y.x.v)
      BY DEF ClearKept, Sound, Acct
    <3>2. CASE b < y.a
      BY <3>2 DEF ClearDone
    <3>3. CASE ~(b < y.a) /\ n1 = 0
      <4>1. b \in Nat /\ y.a <= b /\ b < y.a + NPTE /\ y.a % NPTE = 0
        BY <2>5, <2>8, <3>3
      <4>2. b \div NPTE = y.a \div NPTE
        BY <1>1, <4>1, TableOf
      <4> QED BY <1>4, <3>1, <4>2 DEF Tables
    <3>4. CASE ~(b < y.a) /\ ~x.m.short /\ Exact(x.v, F, n)
      <4>0. y.a <= b /\ y.a <= y.a
        BY <1>1, <2>8, <3>4
      <4>1. y.x.v.pte[b] = x.v.pte[b] /\ y.x.v.pte[y.a] = x.v.pte[y.a]
        BY <2>0, <4>0 DEF ClearKept
      <4>2. ~(y.a < n)
        <5>1. y.x.v.pte[y.a].pg = None
          BY <1>4, <2>0, <3>1 DEF Tables
        <5> QED BY <2>0, <3>4, <4>1, <5>1, PageFacts DEF Exact
      <4>3. b \notin F /\ b >= n
        BY <2>9, <4>0, <4>2
      <4> QED BY <3>4, <4>1, <4>3 DEF Exact
    <3> QED BY <3>2, <3>3, <3>4
  <2> QED BY <2>2, <2>3, <2>6, <2>7
<1>5. CASE ~(e <= y.a) /\ y.x.v.tab[y.a \div NPTE] # 0
  <2>0. y.a < e /\ y.a \in Va /\ y.a \notin F
    BY <1>1, <1>5
  <2> DEFINE c == Clear(y.x, y.a)
  <2>1. z = [x |-> c, a |-> y.a + 1]
    BY <1>2, <1>5 DEF ClearNext, Table
  <2>2. /\ Sound(c, F, R) /\ c.sz = y.x.sz /\ c.ok = y.x.ok /\ Later(y.x, c) /\ c.m.short = y.x.m.short
        /\ c.v.tab = y.x.v.tab /\ c.v.pte[y.a].pg = None /\ \A b \in Va : b # y.a => c.v.pte[b] = y.x.v.pte[b]
    <3>1. Sound(y.x, F, R)
      BY DEF ClearKept
    <3> QED BY <2>0, <3>1, ClearOwn
  <2> HIDE DEF c
  <2>3. z \in Steps /\ z.x = c /\ z.a = y.a + 1
    <3>1. c \in Work
      BY <2>2 DEF Sound
    <3>2. y.a + 1 \in Nat
      BY <1>1
    <3> QED BY <2>1, <3>1, <3>2 DEF Steps
  <2>4. ClearKept(x, z, F, R, n1, e)
    <3>1. Later(x, c)
      BY <2>2 DEF ClearKept, Later
    <3>2. \A b \in Va : b < n1 \/ e <= b \/ z.a <= b => b # y.a /\ (b < n1 \/ e <= b \/ y.a <= b)
      BY <1>1, <2>0, <2>3 DEF ClearPlace
    <3>3. \A b \in Va : b < n1 \/ e <= b \/ z.a <= b => c.v.pte[b] = x.v.pte[b]
      BY <2>2, <3>2 DEF ClearKept
    <3> QED BY <2>2, <2>3, <3>1, <3>3 DEF ClearKept
  <2>5. ClearPlace(x, z, n1, e, k + 1)
    <3>1. n1 <= z.a /\ (e <= z.a \/ n1 + (k + 1) <= z.a)
      BY <1>1, <2>0, <2>3 DEF ClearPlace
    <3>2. z.a % NPTE # 0 => z.a \div NPTE = y.a \div NPTE
      BY <1>1, <2>3, TableOf
    <3>3. x.v.tab[y.a \div NPTE] # 0
      BY <1>5 DEF ClearKept
    <3> QED BY <3>1, <3>2, <3>3 DEF ClearPlace
  <2>7. \A b \in Va : b < z.a /\ b # y.a => b < y.a
    BY <1>1, <2>3
  <2>6. ClearDone(x, z, F, n1, n, e)
    <3> SUFFICES ASSUME (~x.m.short /\ Exact(x.v, F, n)) \/ n1 = 0, c.m.panic = "",
                        NEW b \in Va, n1 <= b, b < z.a, b < e
                 PROVE  c.v.pte[b].pg = None
      BY <2>3 DEF ClearDone
    <3>1. CASE b = y.a
      BY <2>2, <3>1
    <3>2. CASE b # y.a
      <4>1. b < y.a
        BY <2>7, <3>2
      <4>2. y.x.m.panic = ""
        BY <2>2 DEF Later
      <4>3. y.x.v.pte[b].pg = None
        BY <4>1, <4>2 DEF ClearDone
      <4> QED BY <2>2, <3>2, <4>3
    <3> QED BY <3>1, <3>2
  <2> QED BY <2>3, <2>4, <2>5, <2>6
<1> QED BY <1>3, <1>4, <1>5

\* deallocuvm() that has something to do: what is left of x in y.
Dealloced(x, y, F, R, n, newsz) ==
  /\ Sound(y, F, R) /\ y.sz = newsz /\ y.ok = x.ok /\ y.m.short = x.m.short /\ Later(x, y)
  /\ \A b \in Va : b < PGROUNDUP(newsz) \/ PGROUNDUP(x.sz) <= b => y.v.pte[b] = x.v.pte[b]
  /\ (~x.m.short /\ Exact(x.v, F, n)) \/ PGROUNDUP(newsz) = 0 =>
       (y.m.panic = "" =>
          \A b \in Va : PGROUNDUP(newsz) <= b /\ b < PGROUNDUP(x.sz) => y.v.pte[b].pg = None)
LEMMA DeallocLoop ==
  ASSUME NEW x, NEW F, NEW R, Sound(x, F, R), NEW newsz \in Nat, newsz < x.sz, x.sz <= KERNBASE,
         \A a \in Va : a \in F => PGROUNDUP(x.sz) <= a, NEW n \in Nat,
         NEW y, y = deallocuvm(x, newsz)
  PROVE  Dealloced(x, y, F, R, n, newsz)
<1> DEFINE n1 == PGROUNDUP(newsz)
           e == PGROUNDUP(x.sz)
           x0 == [x |-> x, a |-> n1]
           f == CHOOSE f : f = [k \in 0 .. KERNPAGES |-> IF k = 0 THEN x0 ELSE ClearNext(f[k - 1], x.sz)]
           G == [s \in Steps \X Nat |-> ClearNext(s[1], x.sz)]
           Ok(s, k) == ClearKept(x, s, F, R, n1, e) /\ ClearPlace(x, s, n1, e, k) /\ ClearDone(x, s, F, n1, n, e)
           J == [k \in 0 .. KERNPAGES |-> {s \in Steps : Ok(s, k)}]
<1>1. x \in Work /\ x.sz \in Nat
  BY WorkFields DEF Sound
<1>2. n1 \in Nat /\ e \in Nat /\ e <= KERNPAGES /\ EndsAt(x.sz, e) /\ KERNPAGES \in Nat
  <2>1. n1 \in Nat /\ e \in Nat /\ \A a \in Nat : a < e <=> a * PGSIZE < x.sz
    BY <1>1, Rounded
  <2>2. \A a \in Nat : a * PGSIZE \in Nat
    BY Sizes
  <2>3. e <= KERNPAGES
    BY <1>1, Kern
  <2> HIDE DEF e, n1
  <2>4. EndsAt(x.sz, e)
    BY <1>1, <2>1, <2>2 DEF EndsAt
  <2> QED BY <2>1, <2>3, <2>4, Sizes
<1>3. y = [f[KERNPAGES].x EXCEPT !.sz = newsz]
  <2>1. ~(newsz >= x.sz)
    BY <1>1
  <2> QED BY <2>1, Zenon DEF deallocuvm, Repeat, FirstFreed
<1>4. \A a \in Va : a \in F => e <= a
  OBVIOUS
<1> HIDE DEF n1, e
<1>5. x0 \in Steps /\ x0.x = x /\ x0.a = n1
  BY <1>1, <1>2 DEF Steps
<1> HIDE DEF x0
<1>6. Ok(x0, 0)
  <2>1. ClearKept(x, x0, F, R, n1, e)
    BY <1>5 DEF ClearKept, Later
  <2>2. n1 <= n1 /\ n1 + 0 <= n1 /\ \A b \in Va : ~(n1 <= b /\ b < n1)
    BY <1>2, VaNat
  <2>3. ClearPlace(x, x0, n1, e, 0)
    BY <1>5, <2>2, TableOf DEF ClearPlace
  <2>4. ClearDone(x, x0, F, n1, n, e)
    BY <1>5, <2>2 DEF ClearDone
  <2> QED BY <2>1, <2>3, <2>4
<1>7. ASSUME NEW k \in 0 .. KERNPAGES - 1, NEW s \in J[k] PROVE G[<<s, k>>] \in J[k + 1]
  <2>0. k \in 0 .. KERNPAGES /\ k + 1 \in 0 .. KERNPAGES /\ k \in Nat
    BY <1>2
  <2>1. s \in Steps /\ Ok(s, k)
    BY <2>0
  <2> DEFINE z == ClearNext(s, x.sz)
  <2>2. G[<<s, k>>] = z
    BY <2>0, <2>1
  <2>3. z \in Steps /\ Ok(z, k + 1)
    <3>1. ClearKept(x, s, F, R, n1, e) /\ ClearPlace(x, s, n1, e, k) /\ ClearDone(x, s, F, n1, n, e)
      BY <2>1
    <3> QED BY <1>1, <1>2, <1>4, <2>0, <2>1, <3>1, ClearPass
  <2> HIDE DEF z, Ok, G
  <2> QED BY <2>0, <2>2, <2>3
<1>8. x0 \in J[0]
  <2>1. 0 \in 0 .. KERNPAGES
    BY <1>2
  <2> HIDE DEF Ok
  <2> QED BY <1>5, <1>6, <2>1
<1>9. PICK h : LoopOf(h, KERNPAGES, x0, G) /\ \A k \in 0 .. KERNPAGES : h[k] \in J[k]
  <2>1. KERNPAGES \in Nat /\ \A k \in 0 .. KERNPAGES - 1 : \A s \in J[k] : G[<<s, k>>] \in J[k + 1]
    BY <1>2, <1>7
  <2> HIDE DEF J, G, f
  <2> QED BY <1>8, <2>1, Loop
<1>10. h = [k \in 0 .. KERNPAGES |-> IF k = 0 THEN x0 ELSE ClearNext(h[k - 1], x.sz)]
  <2>1. ASSUME NEW k \in 0 .. KERNPAGES, k # 0 PROVE G[<<h[k - 1], k - 1>>] = ClearNext(h[k - 1], x.sz)
    <3>1. k - 1 \in 0 .. KERNPAGES /\ k - 1 \in Nat
      BY <1>2, <2>1
    <3>2. h[k - 1] \in Steps
      BY <1>9, <3>1
    <3> QED BY <3>1, <3>2
  <2> HIDE DEF G
  <2> QED BY <1>9, <2>1, Zenon DEF LoopOf
<1>11. f[KERNPAGES] = h[KERNPAGES]
  <2>1. f = [k \in 0 .. KERNPAGES |-> IF k = 0 THEN x0 ELSE ClearNext(f[k - 1], x.sz)]
    BY <1>10, Zenon
  <2> HIDE DEF f
  <2>2. f[0] = h[0]
    <3>1. 0 \in 0 .. KERNPAGES
      BY <1>2
    <3> QED BY <1>10, <2>1, <3>1, Zenon
  <2>3. \A k \in 0 .. KERNPAGES : k # 0 /\ f[k - 1] = h[k - 1] => f[k] = h[k]
    BY <1>10, <2>1, Zenon
  <2> QED BY <1>2, <2>2, <2>3, LoopEnd
<1>12. f[KERNPAGES] \in Steps /\ Ok(f[KERNPAGES], KERNPAGES)
  <2>1. KERNPAGES \in 0 .. KERNPAGES
    BY <1>2
  <2> HIDE DEF Ok
  <2> QED BY <1>9, <1>11, <2>1
<1> DEFINE s == f[KERNPAGES]
<1> HIDE DEF f, J, G
<1>13. s.x \in Work /\ s.a \in Nat /\ e <= s.a
  BY <1>2, <1>12 DEF Steps, ClearPlace
<1>14. y \in Work /\ y.m = s.x.m /\ y.v = s.x.v /\ y.sz = newsz /\ y.ok = s.x.ok
  BY <1>3, <1>13, SzFields
<1>15. Sound(y, F, R)
  <2>1. Sound(s.x, F, R)
    BY <1>12 DEF ClearKept
  <2>2. y.m.panic = "" => Acct(y, F, R)
    <3>1. ASSUME y.m.panic = "" PROVE Acct(s.x, F, R)
      BY <1>14, <2>1, <3>1 DEF Sound
    <3> QED BY <1>13, <1>14, <3>1, SameAcct
  <2> QED BY <1>14, <2>1, <2>2 DEF Sound
<1>16. \A b \in Va : b < e => b < s.a
  BY <1>2, <1>13, VaNat
<1>17. y.m.short = x.m.short /\ Later(x, y)
  <2>1. s.x.m.short = x.m.short /\ Later(x, s.x)
    BY <1>12 DEF ClearKept
  <2> HIDE DEF s
  <2>2. y.m = s.x.m /\ y.v = s.x.v
    BY <1>14
  <2> QED BY <2>1, <2>2, SameLater
<1>18. \A b \in Va : b < n1 \/ e <= b => y.v.pte[b] = x.v.pte[b]
  BY <1>12, <1>14 DEF ClearKept
<1>19. (~x.m.short /\ Exact(x.v, F, n)) \/ n1 = 0 =>
              (y.m.panic = "" => \A b \in Va : n1 <= b /\ b < e => y.v.pte[b].pg = None)
  <2>1. ClearDone(x, s, F, n1, n, e)
    BY <1>12
  <2> QED BY <1>14, <1>16, <2>1 DEF ClearDone
<1>20. y.sz = newsz /\ y.ok = x.ok
  BY <1>12, <1>14 DEF ClearKept
<1> QED BY <1>15, <1>17, <1>18, <1>19, <1>20 DEF n1, e, Dealloced

LEMMA Dealloc ==
  ASSUME NEW x, NEW F, NEW R, NEW n \in Nat, Good(x, F, R, n), NEW newsz \in Nat, x.sz <= KERNBASE,
         newsz <= x.sz, PGROUNDUP(newsz) <= n, n <= PGROUNDUP(x.sz),
         \A a \in Va : a \in F => PGROUNDUP(x.sz) <= a,
         NEW y, y = deallocuvm(x, newsz)
  PROVE  /\ Good(y, F, R, PGROUNDUP(newsz)) /\ y.sz = newsz /\ y.ok = x.ok /\ Later(x, y)
         /\ \A b \in Va : b \in F => y.v.pte[b] = x.v.pte[b]
<1> DEFINE n1 == PGROUNDUP(newsz)
           e == PGROUNDUP(x.sz)
<1>0. x \in Work /\ x.sz \in Nat
  BY WorkFields DEF Good, Sound
<1>1. n1 \in Nat /\ e \in Nat /\ \A b \in Va : b \in Nat
  BY <1>0, Rounded, VaNat
<1>2. CASE newsz = x.sz
  <2>1. y = x
    BY <1>0, <1>2 DEF deallocuvm
  <2>2. n = n1
    <3>1. n1 = e
      BY <1>2
    <3>2. n1 <= n /\ n <= e
      OBVIOUS
    <3> HIDE DEF n1, e
    <3> QED BY <1>1, <3>1, <3>2
  <2>3. Later(x, y)
    BY <2>1 DEF Later
  <2> QED BY <1>2, <2>1, <2>2, <2>3
<1>3. CASE newsz # x.sz
  <2>0. newsz < x.sz /\ Sound(x, F, R)
    BY <1>0, <1>3 DEF Good
  <2>1. /\ Sound(y, F, R) /\ y.sz = newsz /\ y.ok = x.ok /\ y.m.short = x.m.short /\ Later(x, y)
        /\ \A b \in Va : b < n1 \/ e <= b => y.v.pte[b] = x.v.pte[b]
        /\ (~x.m.short /\ Exact(x.v, F, n)) \/ n1 = 0 =>
             (y.m.panic = "" => \A b \in Va : n1 <= b /\ b < e => y.v.pte[b].pg = None)
    <3>1. Dealloced(x, y, F, R, n, newsz)
      BY <2>0, DeallocLoop
    <3> QED BY <3>1 DEF Dealloced
  <2>2. ASSUME ~y.m.short PROVE Exact(y.v, F, n1)
    <3>1. Exact(x.v, F, n) /\ ~x.m.short /\ y.m.panic = ""
      BY <2>1, <2>2 DEF Good, Sound
    <3>2. \A b \in Va : n1 <= b /\ b < e => y.v.pte[b].pg = None
      BY <2>1, <3>1
    <3>3. n1 <= n /\ n <= e
      OBVIOUS
    <3> HIDE DEF n1, e
    <3>4. \A b \in Va : (b < n1 => b < n) /\ (e <= b => b >= n) /\ (b >= n1 => n1 <= b /\ (b < e \/ e <= b))
      BY <1>1, <3>3
    <3> QED BY <2>1, <3>1, <3>2, <3>4 DEF Exact
  <2>3. \A b \in Va : b \in F => y.v.pte[b] = x.v.pte[b]
    BY <2>1
  <2> QED BY <2>1, <2>2, <2>3 DEF Good
<1> QED BY <1>2, <1>3

LEMMA OnFields ==
  ASSUME NEW mem \in Mem, NEW v \in Vm, NEW sz \in Nat
  PROVE  On(mem, v, sz) \in Work /\ On(mem, v, sz).m = mem /\ On(mem, v, sz).v = v
         /\ On(mem, v, sz).sz = sz /\ On(mem, v, sz).ok
BY DEF On, Work

\* freevm() leaves what the others have.
LEMMA Freevm ==
  ASSUME NEW mem, NEW v, NEW sz \in Nat, NEW R, Sound(On(mem, v, sz), {}, R), mem \in Mem, v \in Vm,
         NEW mem2, mem2 = freevm(mem, v)
  PROVE  /\ FreeOnly(mem2, R)
         /\ (mem.short => mem2.short) /\ (mem.panic # "" => mem2.panic # "")
<1> DEFINE x == On(mem, v, KERNBASE)
           y == deallocuvm(x, 0)
           S == (y.v.ktab \cup {y.v.tab[t] : t \in Tab} \cup {y.v.dir}) \ {0}
<1>0. KERNBASE \in Nat /\ 0 < KERNBASE /\ KERNBASE <= KERNBASE /\ PGROUNDUP(KERNBASE) = KERNPAGES /\ PGROUNDUP(0) = 0
  <2>1. 0 < KERNPAGES * PGSIZE
    BY Sizes
  <2> QED BY <2>1, Kern DEF KERNBASE
<1>1. x \in Work /\ x.m = mem /\ x.v = v /\ x.sz = KERNBASE
  BY <1>0, OnFields
<1>2. Sound(x, {}, R)
  <2> DEFINE w == On(mem, v, sz)
  <2>1. w \in Work /\ w.m = mem /\ w.v = v
    BY OnFields
  <2> HIDE DEF w, x
  <2>2. Sound(w, {}, R)
    BY DEF w
  <2>3. ASSUME x.m.panic = "" PROVE Acct(x, {}, R)
    <3>1. Acct(w, {}, R)
      BY <1>1, <2>1, <2>2, <2>3 DEF Sound
    <3> QED BY <1>1, <2>1, <3>1, SameAcct
  <2> QED BY <1>1, <2>1, <2>2, <2>3 DEF Sound
<1> HIDE DEF x
<1>3. /\ Sound(y, {}, R) /\ Later(x, y)
      /\ y.m.panic = "" => \A b \in Va : 0 <= b /\ b < KERNPAGES => y.v.pte[b].pg = None
  <2>1. 0 < x.sz /\ x.sz <= KERNBASE /\ PGROUNDUP(x.sz) = KERNPAGES
    BY <1>0, <1>1
  <2>2. \A a \in Va : a \in {} => PGROUNDUP(x.sz) <= a
    OBVIOUS
  <2>3. Dealloced(x, y, {}, R, 0, 0)
    BY <1>2, <2>1, <2>2, DeallocLoop
  <2> QED BY <1>0, <2>1, <2>3 DEF Dealloced
<1>4. mem2 = kfreeAll(y.m, S)
  BY DEF freevm, FreeTables, x
<1>5. y \in Work /\ y.m \in Mem
  BY <1>3, WorkFields DEF Sound
<1> HIDE DEF y
<1>6. S \subseteq Page
  BY <1>5, VmFields
<1>7. S \cap Page = S
  BY <1>6
<1>8. /\ mem2 \in Mem /\ mem2.free = y.m.free \cup S /\ mem2.short = y.m.short
      /\ mem2.panic = y.m.panic /\ (S \cap y.m.free = {} => mem2.twice = y.m.twice)
  <2> HIDE DEF S
  <2>1. mem2.free = y.m.free \cup S /\ mem2.short = y.m.short
    BY <1>4, <1>5, <1>7 DEF kfreeAll, Mem
  <2>2. mem2.panic = y.m.panic
    BY <1>4, <1>5, <1>6 DEF kfreeAll, Mem
  <2>3. mem2 \in Mem
    <3> DEFINE b == y.m.twice \/ S \cap y.m.free # {}
    <3>1. b \in BOOLEAN
      BY Zenon
    <3>2. mem2 = [y.m EXCEPT !.free = @ \cup S, !.twice = b, !.panic = y.m.panic]
      BY <1>4, <1>5, <1>6, <1>7 DEF kfreeAll, Mem
    <3> HIDE DEF b
    <3>3. y.m.free \cup S \in SUBSET Page /\ y.m.panic \in Panics \cup {""}
      BY <1>5, <1>6 DEF Mem
    <3> QED BY <1>5, <3>1, <3>2, <3>3 DEF Mem
  <2>4. S \cap y.m.free = {} => mem2.twice = y.m.twice
    BY <1>4, <1>5 DEF kfreeAll, Mem
  <2> QED BY <2>1, <2>2, <2>3, <2>4
<1>9. ASSUME y.m.panic = ""
      PROVE  /\ ~mem2.twice
             /\ \A g \in Page : g \in mem2.free => g \notin R
             /\ ~mem2.short => \A g \in Page : g \in mem2.free \/ g \in R
  <2>1. Acct(y, {}, R)
    BY <1>3, <1>9 DEF Sound
  <2>2. \A b \in Va : y.v.pte[b].pg = None
    <3>1. \A b \in Va : 0 <= b /\ b < KERNPAGES
      BY Sizes DEF Va
    <3> QED BY <1>3, <1>9, <3>1
  <2>3. \A g \in Page : Own(y.v, {}, g) <=> g \in S
    BY <2>2, PageFacts DEF Own
  <2> HIDE DEF S
  <2>4. S \cap y.m.free = {}
    BY <1>6, <2>1, <2>3 DEF Acct, Apart
  <2>5. ~mem2.twice
    BY <1>8, <2>1, <2>4 DEF Acct
  <2>6. \A g \in Page : g \in mem2.free => g \notin R
    BY <1>8, <2>1, <2>3 DEF Acct, Apart
  <2>7. ~mem2.short => \A g \in Page : g \in mem2.free \/ g \in R
    BY <1>8, <2>1, <2>3 DEF Acct, Covered
  <2> QED BY <2>5, <2>6, <2>7
<1>10. y.m.panic # "" => y.m.short
  BY <1>3 DEF Sound
<1> HIDE DEF S
<1>11. FreeOnly(mem2, R)
  BY <1>8, <1>9, <1>10 DEF FreeOnly
<1>12. (mem.short => mem2.short) /\ (mem.panic # "" => mem2.panic # "")
  BY <1>1, <1>3, <1>8 DEF Later
<1> QED BY <1>11, <1>12

-----------------------------------------------------------------------------
(* setupkvm().                                                             *)

LEMMA NoVmFacts ==
  /\ NoVm \in Vm /\ NoVm.dir = 0 /\ NoVm.ktab = {} /\ NoVm.pte \in [Va -> Entry] /\ NoVm.tab \in [Tab -> Page \cup {0}]
  /\ \A t \in Tab : NoVm.tab[t] = 0
  /\ \A a \in Va : NoVm.pte[a].pg = None
<1>1. NoPte \in Entry /\ NoPte.pg = None
  BY DEF NoPte, Entry
<1> HIDE DEF NoPte
<1> QED BY <1>1 DEF NoVm, Vm

LEMMA NoVmOwn ==
  \A F, g : g \in Page => ~Own(NoVm, F, g)
BY NoVmFacts, PageFacts DEF Own

\* Memory alone, and an empty address space.
LEMMA Fresh ==
  ASSUME NEW mem, NEW R, FreeOnly(mem, R), NEW F, NEW x \in Work, x.m = mem, x.v = NoVm
  PROVE  Good(x, F, R, 0)
<1>1. Distinct(NoVm, F) /\ Tables(NoVm) /\ NoZero(NoVm)
  BY NoVmFacts, PageFacts DEF Distinct, TabsDistinct, NoTable, OneEntry, Tables, NoZero
<1>2. ASSUME mem.panic = "" PROVE Acct(x, F, R)
  BY <1>1, <1>2, NoVmOwn DEF FreeOnly, Acct, Apart, Covered
<1>3. Exact(x.v, F, 0)
  <2>1. \A a \in Va : ~(a < 0)
    BY VaNat
  <2> QED BY <2>1, NoVmFacts DEF Exact
<1> QED BY <1>2, <1>3 DEF Good, Sound, FreeOnly

LEMMA Unmapped ==
  ASSUME NEW x, NEW F, NEW R, Sound(x, F, R), x.v = NoVm
  PROVE  FreeOnly(x.m, R)
<1>1. x.m \in Mem
  BY WorkFields DEF Sound
<1>2. ASSUME x.m.panic = ""
      PROVE  /\ ~x.m.twice
             /\ \A g \in Page : g \in x.m.free => g \notin R
             /\ ~x.m.short => \A g \in Page : g \in x.m.free \/ g \in R
  <2>1. Acct(x, F, R)
    BY <1>2 DEF Sound
  <2> QED BY <2>1, NoVmOwn DEF Acct, Apart, Covered
<1>3. x.m.panic # "" => x.m.short
  BY DEF Sound
<1> QED BY <1>1, <1>2, <1>3 DEF FreeOnly

SetKtab(x, mem, K) == [x EXCEPT !.m = mem, !.v.ktab = K]
LEMMA KtabFields ==
  ASSUME NEW x \in Work, NEW mem \in Mem, NEW K \in SUBSET Page, NEW y, y = SetKtab(x, mem, K)
  PROVE  /\ y \in Work /\ y.m = mem /\ y.sz = x.sz /\ y.ok = x.ok
         /\ y.v.dir = x.v.dir /\ y.v.tab = x.v.tab /\ y.v.pte = x.v.pte /\ y.v.ktab = K
<1> DEFINE w == [x.v EXCEPT !.ktab = K]
<1>1. x.v \in Vm
  BY WorkFields
<1>2. w \in Vm /\ w.dir = x.v.dir /\ w.tab = x.v.tab /\ w.pte = x.v.pte /\ w.ktab = K
  BY <1>1 DEF Vm
<1>3. y = [[x EXCEPT !.m = mem] EXCEPT !.v = w]
  BY DEF Work, SetKtab
<1> HIDE DEF w
<1>4. y \in Work /\ y.m = mem /\ y.sz = x.sz /\ y.ok = x.ok /\ y.v = w
  BY <1>2, <1>3 DEF Work
<1> QED BY <1>2, <1>4

\* One more table of the kernel's.
KernelInv(x, y, R) ==
  /\ Sound(y, {}, R) /\ y.v.pte = NoVm.pte /\ y.sz = 0 /\ Later(x, y) /\ (~y.ok => y.m.short)
LEMMA KernelPass ==
  ASSUME NEW x, NEW y, NEW R, KernelInv(x, y, R), NEW k, NEW z, z = KernelTable(y, k)
  PROVE  KernelInv(x, z, R)
<1>1. y \in Work /\ y.m \in Mem
  BY WorkFields DEF KernelInv, Sound
<1>2. CASE Got(y.m) = 0
  <2>1. z = Failed(Short(y))
    BY <1>2 DEF KernelTable
  <2>2. /\ z \in Work /\ z.v = y.v /\ z.sz = y.sz /\ ~z.ok /\ z.m.short /\ z.m.free = y.m.free
        /\ z.m.twice = y.m.twice /\ z.m.panic = y.m.panic
    BY <1>1, <2>1, ShortFields, FailedFields
  <2>3. ASSUME z.m.panic = "" PROVE Acct(z, {}, R)
    <3>1. Acct(y, {}, R)
      BY <2>2, <2>3 DEF KernelInv, Sound
    <3>2. R \subseteq R
      OBVIOUS
    <3> QED BY <1>1, <2>2, <3>1, <3>2, Lose
  <2>4. Later(x, z)
    BY <2>2 DEF KernelInv, Later
  <2> QED BY <2>2, <2>3, <2>4 DEF KernelInv, Sound
<1>3. CASE Got(y.m) # 0
  <2> DEFINE g == Got(y.m)
             K == y.v.ktab \cup {g}
             mem == Taken(y.m)
             w == [y EXCEPT !.m = mem]
  <2>1. g \in Page /\ g \in y.m.free /\ K \in SUBSET Page
    BY <1>1, <1>3, GotFacts, VmFields
  <2>2. mem \in Mem /\ mem.twice = y.m.twice /\ mem.panic = y.m.panic /\ mem.short = y.m.short
    BY <1>1, TakenFacts
  <2>3. z = SetKtab(y, mem, K)
    BY <1>3 DEF KernelTable, SetKtab
  <2>4. w \in Work /\ w.m = mem /\ w.v = y.v
    BY <1>1, <2>2, MemFields
  <2>8. w.m = Taken(y.m)
    BY <2>4
  <2> HIDE DEF K, mem, w
  <2>5. /\ z \in Work /\ z.m = mem /\ z.sz = y.sz /\ z.ok = y.ok
        /\ z.v.dir = y.v.dir /\ z.v.tab = y.v.tab /\ z.v.pte = y.v.pte /\ z.v.ktab = K
    BY <1>1, <2>1, <2>2, <2>3, KtabFields
  <2>6. ASSUME z.m.panic = "" PROVE Acct(z, {}, R)
    <3>1. Acct(y, {}, R)
      BY <2>2, <2>5, <2>6 DEF KernelInv, Sound
    <3>2. Acct(w, {}, R \cup {g})
      BY <1>1, <1>3, <2>4, <2>8, <3>1, TakePage
    <3>3. g \notin R
      BY <2>1, <3>1 DEF Acct, Apart
    <3>4. z.v.ktab = w.v.ktab \cup {g}
      BY <2>4, <2>5 DEF K
    <3>5. z.v.dir = w.v.dir /\ z.v.tab = w.v.tab /\ z.v.pte = w.v.pte /\ z.m = w.m
      BY <2>4, <2>5
    <3> HIDE DEF g
    <3> QED BY <2>1, <2>4, <2>5, <3>2, <3>3, <3>4, <3>5, AddKernelTable, ZenonT(30)
  <2>7. Later(x, z)
    BY <2>2, <2>5 DEF KernelInv, Later
  <2> QED BY <2>2, <2>5, <2>6, <2>7 DEF KernelInv, Sound
<1> QED BY <1>2, <1>3

LEMMA KernelLoop ==
  ASSUME NEW x, NEW R, KernelInv(x, x, R), NEW y, y = Repeat(KernelTable, x, KTABS)
  PROVE  KernelInv(x, y, R)
<1> DEFINE f == CHOOSE f : f = [k \in 0 .. KTABS |-> IF k = 0 THEN x ELSE KernelTable(f[k - 1], k - 1)]
           G == [s \in Work \X Nat |-> KernelTable(s[1], s[2])]
           J == [k \in 0 .. KTABS |-> {s \in Work : KernelInv(x, s, R)}]
<1>1. KTABS \in Nat /\ x \in Work
  BY Sizes DEF KernelInv, Sound
<1>2. y = f[KTABS]
  BY Zenon DEF Repeat
<1>3. x \in J[0]
  BY <1>1
<1>4. \A k \in 0 .. KTABS - 1 : \A s \in J[k] : G[<<s, k>>] \in J[k + 1]
  <2> TAKE k \in 0 .. KTABS - 1
  <2> TAKE s \in J[k]
  <2>1. k \in 0 .. KTABS /\ k + 1 \in 0 .. KTABS /\ k \in Nat
    BY <1>1
  <2>2. s \in Work /\ KernelInv(x, s, R)
    BY <2>1
  <2>3. G[<<s, k>>] = KernelTable(s, k)
    BY <2>1, <2>2
  <2>4. KernelInv(x, KernelTable(s, k), R)
    BY <2>2, KernelPass
  <2>5. KernelTable(s, k) \in Work
    BY <2>4 DEF KernelInv, Sound
  <2> HIDE DEF G
  <2> QED BY <2>1, <2>3, <2>4, <2>5
<1>5. PICK h : LoopOf(h, KTABS, x, G) /\ \A k \in 0 .. KTABS : h[k] \in J[k]
  <2> HIDE DEF J, G, f
  <2> QED BY <1>1, <1>3, <1>4, Loop
<1>6. h = [k \in 0 .. KTABS |-> IF k = 0 THEN x ELSE KernelTable(h[k - 1], k - 1)]
  <2>1. ASSUME NEW k \in 0 .. KTABS, k # 0 PROVE G[<<h[k - 1], k - 1>>] = KernelTable(h[k - 1], k - 1)
    <3>1. k - 1 \in 0 .. KTABS /\ k - 1 \in Nat
      BY <1>1, <2>1
    <3>2. h[k - 1] \in Work
      BY <1>5, <3>1
    <3> QED BY <3>1, <3>2
  <2> HIDE DEF G
  <2> QED BY <1>5, <2>1, Zenon DEF LoopOf
<1>7. f = [k \in 0 .. KTABS |-> IF k = 0 THEN x ELSE KernelTable(f[k - 1], k - 1)]
  BY <1>6, Zenon
<1> HIDE DEF f, G
<1>8. f[KTABS] = h[KTABS]
  <2>1. 0 \in 0 .. KTABS
    BY <1>1
  <2>2. f[0] = h[0]
    BY <1>6, <1>7, <2>1, Zenon
  <2>3. \A k \in 0 .. KTABS : k # 0 /\ f[k - 1] = h[k - 1] => f[k] = h[k]
    BY <1>6, <1>7, Zenon
  <2> QED BY <1>1, <2>2, <2>3, LoopEnd
<1>9. KTABS \in 0 .. KTABS
  BY <1>1
<1> QED BY <1>2, <1>5, <1>8, <1>9

\* An address space without a directory is none.
Rooted(y) == y.v.dir = 0 => y.v = NoVm /\ ~y.ok

\* Memory gets no better.
Worse(mem, mem2) == (mem.short => mem2.short) /\ (mem.panic # "" => mem2.panic # "")

LEMMA WorseWorse ==
  ASSUME NEW a, NEW b, NEW c, Worse(a, b), Worse(b, c)
  PROVE  Worse(a, c)
BY DEF Worse

LEMMA LaterWorse ==
  ASSUME NEW x, NEW y, Later(x, y)
  PROVE  Worse(x.m, y.m)
BY DEF Later, Worse

LEMMA Setupkvm ==
  ASSUME NEW mem, NEW R, FreeOnly(mem, R), NEW y, y = setupkvm(mem)
  PROVE  Good(y, {}, R, 0) /\ y.sz = 0 /\ Worse(mem, y.m) /\ Rooted(y) /\ (~y.ok => y.v = NoVm)
<1> DEFINE x == On(mem, NoVm, 0)
<1>1. mem \in Mem /\ NoVm \in Vm
  BY NoVmFacts DEF FreeOnly
<1>2. x \in Work /\ x.m = mem /\ x.v = NoVm /\ x.sz = 0 /\ x.ok
  BY <1>1, OnFields
<1>3. Good(x, {}, R, 0)
  <2> HIDE DEF x
  <2> QED BY <1>2, Fresh
<1>4. CASE Got(mem) = 0
  <2>1. y = Failed(x)
    BY <1>4 DEF setupkvm
  <2> HIDE DEF x
  <2>2. y \in Work /\ y.m = mem /\ y.v = NoVm /\ y.sz = 0 /\ ~y.ok
    BY <1>2, <2>1, FailedFields
  <2>3. Good(y, {}, R, 0)
    BY <2>2, Fresh
  <2> QED BY <2>2, <2>3 DEF Rooted, Worse
<1>5. CASE Got(mem) # 0
  <2> DEFINE g == Got(mem)
             mem1 == Taken(mem)
             v1 == [NoVm EXCEPT !.dir = g]
             x1 == On(mem1, NoVm, 0)
             x2 == On(mem1, v1, 0)
             k == Repeat(KernelTable, x2, KTABS)
  <2>1. y = Complete(k)
    BY <1>5 DEF setupkvm
  <2>2. g \in Page /\ g \in mem.free
    BY <1>1, <1>5, GotFacts
  <2>3. mem1 \in Mem /\ mem1.twice = mem.twice /\ mem1.panic = mem.panic /\ mem1.short = mem.short
    BY <1>1, TakenFacts
  <2>4. v1 \in Vm /\ v1.dir = g /\ v1.ktab = NoVm.ktab /\ v1.tab = NoVm.tab /\ v1.pte = NoVm.pte
    BY <1>1, <2>2 DEF Vm
  <2>5. x1 \in Work /\ x1.m = mem1 /\ x1.v = NoVm
    BY <1>1, <2>3, OnFields
  <2>6. x2 \in Work /\ x2.m = mem1 /\ x2.v = v1 /\ x2.sz = 0 /\ x2.ok
    <3> HIDE DEF v1, mem1
    <3> QED BY <2>3, <2>4, OnFields
  <2>7. mem1 = Taken(x.m)
    BY <1>2
  <2>8. g = Got(x.m) /\ Got(x.m) # 0
    BY <1>2, <1>5
  <2> HIDE DEF x, g, mem1, v1, x1, x2
  <2>9. ASSUME x2.m.panic = "" PROVE Acct(x2, {}, R)
    <3>1. Acct(x, {}, R)
      BY <1>2, <1>3, <2>3, <2>6, <2>9 DEF Good, Sound
    <3>2. x1.m = Taken(x.m) /\ x1.v = x.v
      BY <1>2, <2>5, <2>7
    <3>3. Acct(x1, {}, R \cup {Got(x.m)})
      BY <1>2, <2>5, <2>8, <3>1, <3>2, TakePage
    <3>4. Acct(x1, {}, R \cup {g})
      BY <2>8, <3>3
    <3>5. g \notin R
      BY <1>2, <2>2, <3>1 DEF Acct, Apart
    <3>6. /\ x1.v.dir = 0 /\ x2.v.dir = g /\ x2.v.ktab = x1.v.ktab /\ x2.v.tab = x1.v.tab
          /\ x2.v.pte = x1.v.pte /\ x2.m = x1.m
      BY <2>4, <2>5, <2>6, NoVmFacts
    <3> QED BY <2>2, <2>5, <2>6, <3>4, <3>5, <3>6, AddDir, ZenonT(30)
  <2>10. mem.panic # "" => mem.short
    BY DEF FreeOnly
  <2>11. KernelInv(x2, x2, R)
    <3>1. Sound(x2, {}, R)
      BY <2>3, <2>6, <2>9, <2>10 DEF Sound
    <3> QED BY <2>4, <2>6, <3>1 DEF KernelInv, Later
  <2>12. KernelInv(x2, k, R)
    BY <2>11, KernelLoop
  <2> HIDE DEF k
  <2>13. k \in Work /\ Worse(mem, k.m) /\ k.v.dir # 0
    <3>1. k \in Work /\ k.v.dir = g /\ g # 0
      BY <2>2, <2>4, <2>6, <2>12, PageFacts DEF KernelInv, Sound, Later
    <3>2. Worse(x2.m, k.m)
      BY <2>12, LaterWorse DEF KernelInv
    <3>3. Worse(mem, x2.m)
      BY <2>3, <2>6 DEF Worse
    <3> QED BY <3>1, <3>2, <3>3, WorseWorse
  <2>14. CASE k.ok
    <3>1. y = k
      BY <2>1, <2>14 DEF Complete
    <3>2. Exact(k.v, {}, 0)
      <4>1. \A a \in Va : ~(a < 0)
        BY VaNat
      <4>2. k.v.pte = NoVm.pte
        BY <2>12 DEF KernelInv
      <4> QED BY <4>1, <4>2, NoVmFacts DEF Exact
    <3>3. Good(k, {}, R, 0) /\ k.sz = 0
      BY <2>12, <3>2 DEF KernelInv, Good
    <3> QED BY <2>13, <2>14, <3>1, <3>3 DEF Rooted
  <2>15. CASE ~k.ok
    <3>1. y = [k EXCEPT !.v = NoVm]
      BY <2>1, <2>15 DEF Complete
    <3>2. y \in Work /\ y.m = k.m /\ y.v = NoVm /\ y.sz = k.sz /\ y.ok = k.ok
      BY <1>1, <2>13, <3>1 DEF Work
    <3>3. k.m.short /\ k.m \in Mem /\ k.sz = 0
      BY <2>12, <2>13, <2>15, WorkFields DEF KernelInv
    <3>4. ASSUME k.m.panic = "" PROVE ~k.m.twice /\ \A h \in Page : h \in k.m.free => h \notin R
      <4>1. Acct(k, {}, R)
        BY <2>12, <3>4 DEF KernelInv, Sound
      <4> QED BY <4>1 DEF Acct, Apart
    <3>5. FreeOnly(k.m, R)
      BY <3>3, <3>4 DEF FreeOnly
    <3>6. Good(y, {}, R, 0)
      BY <3>2, <3>5, Fresh
    <3> QED BY <2>13, <2>15, <3>2, <3>3, <3>6 DEF Rooted
  <2> QED BY <2>14, <2>15
<1> QED BY <1>4, <1>5

-----------------------------------------------------------------------------
(* allocuvm().                                                             *)

OkOf(x, w) == [x EXCEPT !.ok = w.ok]
LEMMA OkOfFields ==
  ASSUME NEW x \in Work, NEW w \in Work, NEW y, y = OkOf(x, w)
  PROVE  y \in Work /\ y.m = x.m /\ y.v = x.v /\ y.sz = x.sz /\ y.ok = w.ok
<1>1. w.ok \in BOOLEAN
  BY WorkFields
<1> QED BY <1>1, OkFields DEF OkOf

LEMMA SameGood ==
  ASSUME NEW x, NEW y \in Work, NEW F, NEW R, NEW n, Good(x, F, R, n), y.m = x.m, y.v = x.v
  PROVE  Good(y, F, R, n)
<1>1. x \in Work
  BY DEF Good, Sound
<1>2. ASSUME y.m.panic = "" PROVE Acct(y, F, R)
  <2>1. Acct(x, F, R)
    BY <1>2 DEF Good, Sound
  <2> QED BY <1>1, <2>1, SameAcct
<1> QED BY <1>2 DEF Good, Sound

\* kalloc() of a page, which is then in hand.
Grabbed(x) == [x EXCEPT !.m = Taken(x.m)]
LEMMA Grab ==
  ASSUME NEW x, NEW F, NEW R, NEW n, Good(x, F, R, n), NEW g, g = Got(x.m), g # 0,
         NEW y, y = Grabbed(x)
  PROVE  /\ Good(y, F, R \cup {g}, n) /\ Later(x, y) /\ y.sz = x.sz /\ y.ok = x.ok /\ y.v = x.v
         /\ g \in Page /\ InHand(y.m, g, R)
<1>1. x \in Work /\ x.m \in Mem
  BY WorkFields DEF Good, Sound
<1>2. g \in Page /\ g \in x.m.free
  BY <1>1, GotFacts
<1> DEFINE mem == Taken(x.m)
<1>3. mem \in Mem /\ mem.twice = x.m.twice /\ mem.panic = x.m.panic /\ mem.short = x.m.short
  BY <1>1, TakenFacts
<1>4. mem = Taken(x.m)
  OBVIOUS
<1> HIDE DEF mem
<1>5. y \in Work /\ y.m = mem /\ y.v = x.v /\ y.sz = x.sz /\ y.ok = x.ok
  BY <1>1, <1>3, <1>4, MemFields DEF Grabbed
<1>6. ASSUME y.m.panic = "" PROVE Acct(y, F, R \cup {g}) /\ g \notin R
  <2>1. Acct(x, F, R)
    BY <1>3, <1>5, <1>6 DEF Good, Sound
  <2>2. Acct(y, F, R \cup {g})
    BY <1>1, <1>4, <1>5, <2>1, TakePage
  <2>3. g \notin R
    BY <1>2, <2>1 DEF Acct, Apart
  <2> QED BY <2>2, <2>3
<1>7. Later(x, y)
  BY <1>3, <1>5 DEF Later
<1>8. Good(y, F, R \cup {g}, n)
  BY <1>3, <1>5, <1>6 DEF Good, Sound
<1>9. InHand(y.m, g, R)
  BY <1>6 DEF InHand
<1> QED BY <1>2, <1>5, <1>7, <1>8, <1>9

\* The loop of allocuvm() after k passes: it has the pages from a0 up to some j.
AllocInv(x, y, F, R, a0, k) ==
  /\ \E j \in Nat : a0 <= j /\ j <= a0 + k /\ (y.ok => j = a0 + k) /\ Good(y, F, R, j)
  /\ y.sz = x.sz /\ Later(x, y)
  /\ \A b \in Va : b \in F => y.v.pte[b] = x.v.pte[b]
LEMMA AllocPass ==
  ASSUME NEW x, NEW F, NEW R, NEW a0 \in Nat, NEW k \in Nat, NEW y, AllocInv(x, y, F, R, a0, k),
         NEW a, a = a0 + k, a \in Va \ F, NEW z, z = AllocPage(y, a)
  PROVE  AllocInv(x, z, F, R, a0, k + 1)
<1>1. PICK j \in Nat : a0 <= j /\ j <= a0 + k /\ (y.ok => j = a0 + k) /\ Good(y, F, R, j)
  BY DEF AllocInv
<1>2. y \in Work /\ y.m \in Mem
  BY <1>1, WorkFields DEF Good, Sound
<1>3. a0 <= j /\ j <= a0 + (k + 1)
  BY <1>1
<1>4. CASE ~y.ok
  <2>1. z = y
    BY <1>4 DEF AllocPage
  <2> QED BY <1>1, <1>3, <1>4, <2>1 DEF AllocInv
<1>5. CASE y.ok /\ Got(y.m) = 0
  <2>1. z = Failed(y)
    BY <1>5 DEF AllocPage
  <2>2. z \in Work /\ z.m = y.m /\ z.v = y.v /\ z.sz = y.sz /\ ~z.ok
    BY <1>2, <2>1, FailedFields
  <2>3. Good(z, F, R, j)
    BY <1>1, <2>2, SameGood
  <2>4. Later(x, z)
    BY <2>2, SameLater DEF AllocInv
  <2> QED BY <1>3, <2>2, <2>3, <2>4 DEF AllocInv
<1>6. CASE y.ok /\ Got(y.m) # 0
  <2> DEFINE g == Got(y.m)
             w == [y EXCEPT !.m = Taken(y.m)]
             q == mappages(w, a, g, TRUE)
  <2>1. z = [q EXCEPT !.ok = w.ok]
    BY <1>6 DEF AllocPage, MapAnyway
  <2>2. j = a /\ Good(y, F, R, a)
    BY <1>1, <1>6
  <2>3. /\ Good(w, F, R \cup {g}, a) /\ Later(y, w) /\ w.sz = y.sz /\ w.ok = y.ok /\ w.v = y.v
        /\ g \in Page /\ InHand(w.m, g, R)
    <3> HIDE DEF w, g
    <3>1. w = Grabbed(y) /\ g = Got(y.m) /\ g # 0
      BY <1>6 DEF w, g, Grabbed
    <3> QED BY <2>2, <3>1, Grab
  <2> HIDE DEF w, g
  <2>4. [pg |-> g, u |-> TRUE] \in Entry
    BY <2>3 DEF Entry
  <2>5. /\ Good(q, F, R, a + 1) /\ q.sz = w.sz /\ Later(w, q)
        /\ \A b \in Va : b # a => q.v.pte[b] = w.v.pte[b]
    <3>1. Good(w, F, R \cup {g}, a) /\ g \in Page /\ InHand(w.m, g, R)
      BY <2>3
    <3>2. q = mappages(w, a, g, TRUE)
      OBVIOUS
    <3> HIDE DEF q
    <3>3. MappedOwn(w, q, F, R, a)
      BY <2>4, <3>1, <3>2, MapOwn
    <3> QED BY <3>3 DEF MappedOwn
  <2> HIDE DEF q
  <2>6. q \in Work /\ w \in Work
    BY <2>3, <2>5 DEF Good, Sound
  <2>7. z \in Work /\ z.m = q.m /\ z.v = q.v /\ z.sz = q.sz /\ z.ok = w.ok
    <3>1. z = OkOf(q, w)
      BY <2>1 DEF OkOf
    <3> QED BY <2>6, <3>1, OkOfFields
  <2>8. Good(z, F, R, a + 1)
    BY <2>5, <2>7, SameGood
  <2>9. Later(x, z)
    <3>1. Later(x, w)
      BY <2>3, LaterLater DEF AllocInv
    <3>2. Later(x, q)
      BY <2>5, <3>1, LaterLater
    <3> QED BY <2>7, <3>2, SameLater
  <2>10. \A b \in Va : b \in F => z.v.pte[b] = x.v.pte[b]
    BY <2>3, <2>5, <2>7 DEF AllocInv
  <2>11. a + 1 \in Nat /\ a0 <= a + 1 /\ a + 1 <= a0 + (k + 1) /\ a + 1 = a0 + (k + 1)
    OBVIOUS
  <2>12. z.sz = x.sz
    BY <2>3, <2>5, <2>7 DEF AllocInv
  <2> QED BY <2>8, <2>9, <2>10, <2>11, <2>12 DEF AllocInv
<1> QED BY <1>4, <1>5, <1>6

AllocPages(x, a0, n) == Repeat(LAMBDA s, k : AllocPage(s, a0 + k), x, n)
LEMMA AllocLoop ==
  ASSUME NEW x, NEW F, NEW R, NEW a0 \in Nat, NEW n \in Nat, AllocInv(x, x, F, R, a0, 0),
         \A k \in 0 .. n - 1 : a0 + k \in Va \ F,
         NEW y, y = AllocPages(x, a0, n)
  PROVE  AllocInv(x, y, F, R, a0, n)
<1> DEFINE f == CHOOSE f : f = [k \in 0 .. n |-> IF k = 0 THEN x ELSE AllocPage(f[k - 1], a0 + (k - 1))]
           G == [s \in Work \X Nat |-> AllocPage(s[1], a0 + s[2])]
           J == [k \in 0 .. n |-> {s \in Work : AllocInv(x, s, F, R, a0, k)}]
<1>1. x \in Work
  BY DEF AllocInv, Good, Sound
<1>2. y = f[n]
  BY Zenon DEF AllocPages, Repeat
<1>3. x \in J[0]
  BY <1>1
<1>4. \A k \in 0 .. n - 1 : \A s \in J[k] : G[<<s, k>>] \in J[k + 1]
  <2> TAKE k \in 0 .. n - 1
  <2> TAKE s \in J[k]
  <2>1. k \in 0 .. n /\ k + 1 \in 0 .. n /\ k \in Nat
    OBVIOUS
  <2>2. s \in Work /\ AllocInv(x, s, F, R, a0, k)
    BY <2>1
  <2>3. G[<<s, k>>] = AllocPage(s, a0 + k)
    BY <2>1, <2>2
  <2>4. AllocInv(x, AllocPage(s, a0 + k), F, R, a0, k + 1)
    BY <2>1, <2>2, AllocPass
  <2>5. AllocPage(s, a0 + k) \in Work
    BY <2>4 DEF AllocInv, Good, Sound
  <2> HIDE DEF G
  <2> QED BY <2>1, <2>3, <2>4, <2>5
<1>5. PICK h : LoopOf(h, n, x, G) /\ \A k \in 0 .. n : h[k] \in J[k]
  <2> HIDE DEF J, G, f
  <2> QED BY <1>3, <1>4, Loop
<1>6. h = [k \in 0 .. n |-> IF k = 0 THEN x ELSE AllocPage(h[k - 1], a0 + (k - 1))]
  <2>1. ASSUME NEW k \in 0 .. n, k # 0 PROVE G[<<h[k - 1], k - 1>>] = AllocPage(h[k - 1], a0 + (k - 1))
    <3>1. k - 1 \in 0 .. n /\ k - 1 \in Nat
      BY <2>1
    <3>2. h[k - 1] \in Work
      BY <1>5, <3>1
    <3> QED BY <3>1, <3>2
  <2> HIDE DEF G
  <2> QED BY <1>5, <2>1, Zenon DEF LoopOf
<1>7. f = [k \in 0 .. n |-> IF k = 0 THEN x ELSE AllocPage(f[k - 1], a0 + (k - 1))]
  BY <1>6, Zenon
<1> HIDE DEF f, G
<1>8. f[n] = h[n]
  <2>1. 0 \in 0 .. n
    OBVIOUS
  <2>2. f[0] = h[0]
    BY <1>6, <1>7, <2>1, Zenon
  <2>3. \A k \in 0 .. n : k # 0 /\ f[k - 1] = h[k - 1] => f[k] = h[k]
    BY <1>6, <1>7, Zenon
  <2> QED BY <2>2, <2>3, LoopEnd
<1>9. n \in 0 .. n
  OBVIOUS
<1> QED BY <1>2, <1>5, <1>8, <1>9

Alloced(x, y, F, R, newsz) ==
  /\ Good(y, F, R, PGROUNDUP(y.sz)) /\ y.sz <= KERNBASE /\ Later(x, y)
  /\ \A b \in Va : b \in F => y.v.pte[b] = x.v.pte[b]
  /\ ~y.ok => y.sz = x.sz
  /\ y.ok => newsz < KERNBASE /\ newsz <= y.sz /\ (x.sz <= newsz => y.sz = newsz)

LEMMA LaterSelf == \A x : Later(x, x)
BY DEF Later

LEMMA Allocuvm ==
  ASSUME NEW x, NEW F, NEW R, Good(x, F, R, PGROUNDUP(x.sz)), x.ok, x.sz <= KERNBASE, NEW newsz \in Nat,
         newsz < KERNBASE => \A a \in Va : a \in F => PGROUNDUP(newsz) <= a,
         NEW y, y = allocuvm(x, newsz)
  PROVE  Alloced(x, y, F, R, newsz)
<1>0. x \in Work /\ x.sz \in Nat /\ KERNBASE \in Nat
  BY WorkFields, Kern DEF Good, Sound
<1>1. CASE newsz >= KERNBASE
  <2>1. y = Failed(x)
    <3>1. ~(newsz < KERNBASE)
      BY <1>0, <1>1
    <3> QED BY <1>1, <3>1, Zenon DEF allocuvm
  <2>2. y \in Work /\ y.m = x.m /\ y.v = x.v /\ y.sz = x.sz /\ ~y.ok
    BY <1>0, <2>1, FailedFields
  <2>3. Good(y, F, R, PGROUNDUP(y.sz))
    <3>1. Good(y, F, R, PGROUNDUP(x.sz))
      BY <2>2, SameGood
    <3> QED BY <2>2, <3>1
  <2>4. Later(x, y)
    BY <2>2, LaterSelf, SameLater
  <2> QED BY <2>2, <2>3, <2>4 DEF Alloced
<1>2. CASE newsz < KERNBASE /\ newsz < x.sz
  <2>1. y = x
    BY <1>0, <1>2 DEF allocuvm
  <2>2. Later(x, y)
    BY <2>1, LaterSelf
  <2>3. newsz <= x.sz /\ ~(x.sz <= newsz)
    BY <1>0, <1>2
  <2> QED BY <1>2, <2>1, <2>2, <2>3 DEF Alloced
<1>3. CASE newsz < KERNBASE /\ ~(newsz < x.sz)
  <2> DEFINE a0 == PGROUNDUP(x.sz)
             a1 == PGROUNDUP(newsz)
             n == a1 - a0
             w == AllocPages(x, a0, n)
  <2>1. y = Settle(w, newsz)
    <3>1. ~(newsz >= KERNBASE)
      BY <1>0, <1>3
    <3> QED BY <1>3, <3>1, Zenon DEF allocuvm, AllocPages
  <2>2. a0 \in Nat /\ a1 \in Nat /\ a0 <= a1 /\ a1 <= KERNPAGES
    BY <1>0, <1>3, Rounded, RoundMono, Kern
  <2>3. \A a \in Va : a \in F => a1 <= a
    BY <1>3
  <2>4. Good(x, F, R, a0)
    OBVIOUS
  <2>13. n \in Nat /\ a0 + n = a1
    <3> HIDE DEF a0, a1
    <3> QED BY <2>2
  <2> HIDE DEF a0, a1, n, w
  <2>5. \A k \in 0 .. n - 1 : a0 + k \in Va \ F
    <3> TAKE k \in 0 .. n - 1
    <3>1. a0 + k \in Nat /\ a0 + k < a1 /\ ~(a1 <= a0 + k)
      BY <2>2, <2>13
    <3>2. a0 + k \in Va
      BY <2>2, <3>1, Sizes DEF Va
    <3> QED BY <2>3, <3>1, <3>2
  <2>6. AllocInv(x, x, F, R, a0, 0)
    <3>1. a0 <= a0 /\ a0 <= a0 + 0 /\ a0 = a0 + 0
      BY <2>2
    <3> QED BY <2>2, <2>4, <3>1, LaterSelf DEF AllocInv
  <2>7. AllocInv(x, w, F, R, a0, n)
    BY <2>2, <2>5, <2>6, <2>13, AllocLoop DEF w
  <2>8. PICK j \in Nat : a0 <= j /\ j <= a1 /\ (w.ok => j = a1) /\ Good(w, F, R, j)
    BY <2>7, <2>13 DEF AllocInv
  <2>9. w \in Work /\ w.sz = x.sz /\ Later(x, w) /\ \A b \in Va : b \in F => w.v.pte[b] = x.v.pte[b]
    BY <2>7, <2>8 DEF AllocInv, Good, Sound
  <2> DEFINE z == [w EXCEPT !.sz = newsz]
  <2>10. z \in Work /\ z.m = w.m /\ z.v = w.v /\ z.sz = newsz /\ z.ok = w.ok
    BY <2>9, SzFields
  <2>14. w.ok => y = z
    BY <2>1 DEF Settle
  <2>15. ~w.ok => y = deallocuvm(z, x.sz)
    BY <2>1, <2>9 DEF Settle
  <2> HIDE DEF z
  <2>16. Good(z, F, R, j) /\ Later(x, z) /\ \A b \in Va : b \in F => z.v.pte[b] = x.v.pte[b]
    BY <2>8, <2>9, <2>10, SameGood, SameLater
  <2>11. CASE w.ok
    <3>1. y = z
      BY <2>11, <2>14
    <3>2. Good(y, F, R, PGROUNDUP(y.sz))
      BY <2>8, <2>10, <2>11, <2>16, <3>1 DEF a1
    <3>3. newsz <= KERNBASE /\ newsz <= newsz
      BY <1>0, <1>3
    <3>4. y.sz = newsz /\ y.ok
      BY <2>10, <2>11, <3>1
    <3> QED BY <1>3, <2>16, <3>1, <3>2, <3>3, <3>4 DEF Alloced
  <2>12. CASE ~w.ok
    <3>1. y = deallocuvm(z, x.sz)
      BY <2>12, <2>15
    <3>2. /\ z.sz <= KERNBASE /\ x.sz <= z.sz /\ PGROUNDUP(x.sz) <= j /\ j <= PGROUNDUP(z.sz)
          /\ \A a \in Va : a \in F => PGROUNDUP(z.sz) <= a
      BY <1>0, <1>3, <2>3, <2>8, <2>10 DEF a0, a1
    <3>3. /\ Good(y, F, R, PGROUNDUP(x.sz)) /\ y.sz = x.sz /\ y.ok = z.ok /\ Later(z, y)
          /\ \A b \in Va : b \in F => y.v.pte[b] = z.v.pte[b]
      BY <1>0, <2>16, <3>1, <3>2, Dealloc
    <3>4. Later(x, y) /\ ~y.ok /\ \A b \in Va : b \in F => y.v.pte[b] = x.v.pte[b]
      BY <2>10, <2>12, <2>16, <3>3, LaterLater
    <3> QED BY <3>3, <3>4 DEF Alloced
  <2> QED BY <2>11, <2>12
<1> QED BY <1>0, <1>1, <1>2, <1>3

-----------------------------------------------------------------------------
(* copyuvm().                                                              *)

Panicked(x, what) == [x EXCEPT !.m = Panic(x.m, what)]
LEMMA PanicGood ==
  ASSUME NEW x \in Work, x.m.short, NEW what \in Panics, NEW y, y = Panicked(x, what)
  PROVE  /\ \A F, R, n : Good(y, F, R, n)
         /\ Later(x, y) /\ y.v = x.v /\ y.sz = x.sz /\ y.ok = x.ok
<1> DEFINE mem == Panic(x.m, what)
<1>1. x.m \in Mem
  BY WorkFields
<1>2. mem \in Mem /\ mem.panic # "" /\ mem.short = x.m.short
  BY <1>1, PanicFacts
<1>3. mem \in Mem /\ y = [x EXCEPT !.m = mem]
  BY <1>2 DEF Panicked
<1> HIDE DEF mem
<1>4. y \in Work /\ y.m = mem /\ y.v = x.v /\ y.sz = x.sz /\ y.ok = x.ok
  BY <1>3, MemFields
<1>5. Later(x, y)
  BY <1>2, <1>4 DEF Later
<1>6. y.m.short /\ y.m.panic # ""
  BY <1>2, <1>4
<1>7. \A F, R, n : Good(y, F, R, n)
  BY <1>4, <1>6 DEF Good, Sound
<1> QED BY <1>4, <1>5, <1>7

\* On failure all of a new address space is freed.
LEMMA KeptFacts ==
  ASSUME NEW x, NEW R, NEW n, Good(x, {}, R, n), Rooted(x), NEW y, y = Kept(x)
  PROVE  /\ y \in Work /\ Worse(x.m, y.m) /\ (x.ok => y = x) /\ (~x.ok => ~y.ok /\ FreeOnly(y.m, R))
<1>0. x \in Work /\ x.m \in Mem /\ x.v \in Vm /\ Sound(x, {}, R)
  BY WorkFields DEF Good, Sound
<1>1. CASE x.ok \/ x.v.dir = 0
  <2>1. y = x
    BY <1>1 DEF Kept
  <2>2. ~x.ok => FreeOnly(x.m, R)
    BY <1>0, <1>1, Unmapped DEF Rooted
  <2>3. Worse(x.m, y.m)
    BY <2>1 DEF Worse
  <2> QED BY <1>0, <2>1, <2>2, <2>3
<1>2. CASE ~x.ok /\ x.v.dir # 0
  <2> DEFINE mem == freevm(x.m, x.v)
             w == On(x.m, x.v, 0)
  <2>1. y = [x EXCEPT !.m = mem, !.v = NoVm]
    BY <1>2 DEF Kept
  <2>2. w \in Work /\ w.m = x.m /\ w.v = x.v
    BY <1>0, OnFields
  <2>3. Sound(w, {}, R)
    <3> HIDE DEF w
    <3>1. Good(w, {}, R, n)
      BY <2>2, SameGood
    <3> QED BY <3>1 DEF Good
  <2>4. FreeOnly(mem, R) /\ (x.m.short => mem.short) /\ (x.m.panic # "" => mem.panic # "")
    BY <1>0, <2>3, Freevm, ZenonT(40)
  <2> HIDE DEF mem
  <2>5. mem \in Mem
    BY <2>4 DEF FreeOnly
  <2>6. y \in Work /\ y.m = mem /\ y.ok = x.ok
    BY <1>0, <2>1, <2>5, NoVmFacts DEF Work
  <2>7. Worse(x.m, y.m)
    BY <2>4, <2>6 DEF Worse
  <2> QED BY <1>2, <2>4, <2>6, <2>7
<1> QED BY <1>1, <1>2

\* The parent has the first n pages.
CanCopy(mem, v, n) == ~mem.short => \A a \in Va : a < n => Table(v, a) # 0 /\ v.pte[a].pg # None

CopyInv(mem, y, R, k) ==
  /\ \E j \in Nat : j <= k /\ (y.ok => j = k) /\ Good(y, {}, R, j)
  /\ Worse(mem, y.m) /\ y.v.dir # 0
LEMMA CopyPass ==
  ASSUME NEW mem, NEW v \in Vm, NEW R, NEW n \in Nat, CanCopy(mem, v, n),
         NEW y, NEW a \in Va, a < n, CopyInv(mem, y, R, a), NEW z, z = CopyPage(y, a, v)
  PROVE  CopyInv(mem, z, R, a + 1)
<1>1. PICK j \in Nat : j <= a /\ (y.ok => j = a) /\ Good(y, {}, R, j)
  BY DEF CopyInv
<1>2. y \in Work /\ y.m \in Mem /\ a \in Nat
  BY <1>1, WorkFields, VaNat DEF Good, Sound
<1>3. j <= a + 1 /\ a + 1 \in Nat /\ a + 1 <= a + 1
  BY <1>1, <1>2
<1>4. CASE ~y.ok
  <2>1. z = y
    BY <1>4 DEF CopyPage
  <2> QED BY <1>1, <1>3, <1>4, <2>1 DEF CopyInv
<1>5. CASE y.ok /\ (Table(v, a) = 0 \/ v.pte[a].pg = None)
  <2>1. z = Panicked(y, "copyuvm")
    BY <1>5 DEF CopyPage, Panicked
  <2>2. y.m.short
    BY <1>5 DEF CanCopy, CopyInv, Worse
  <2>3. "copyuvm" \in Panics
    BY DEF Panics
  <2>4. Good(z, {}, R, a + 1) /\ Later(y, z) /\ z.v = y.v
    BY <1>2, <2>1, <2>2, <2>3, PanicGood
  <2>5. Worse(mem, z.m) /\ z.v.dir # 0
    BY <2>4, LaterWorse, WorseWorse DEF CopyInv
  <2> QED BY <1>3, <2>4, <2>5 DEF CopyInv
<1>6. CASE y.ok /\ Table(v, a) # 0 /\ v.pte[a].pg # None /\ Got(y.m) = 0
  <2>1. z = Failed(y)
    BY <1>6 DEF CopyPage
  <2>2. z \in Work /\ z.m = y.m /\ z.v = y.v /\ ~z.ok
    BY <1>2, <2>1, FailedFields
  <2>3. Good(z, {}, R, j)
    BY <1>1, <2>2, SameGood
  <2>4. Worse(mem, z.m) /\ z.v.dir # 0
    BY <2>2 DEF CopyInv
  <2> QED BY <1>3, <2>2, <2>3, <2>4 DEF CopyInv
<1>7. CASE y.ok /\ Table(v, a) # 0 /\ v.pte[a].pg # None /\ Got(y.m) # 0
  <2> DEFINE g == Got(y.m)
             w == [y EXCEPT !.m = Taken(y.m)]
             u == v.pte[a].u
  <2>1. z = mappages(w, a, g, u)
    BY <1>7 DEF CopyPage
  <2>2. w = Grabbed(y) /\ g = Got(y.m) /\ g # 0
    BY <1>7 DEF Grabbed
  <2>3. v.pte[a] \in Entry
    BY DEF Vm
  <2>4. g \in Page
    BY <1>2, <1>7, GotFacts
  <2>5. [pg |-> g, u |-> u] \in Entry
    BY <2>3, <2>4 DEF Entry
  <2>6. Good(y, {}, R, a)
    BY <1>1, <1>7
  <2> HIDE DEF w, g, u
  <2>7. /\ Good(w, {}, R \cup {g}, a) /\ Later(y, w) /\ InHand(w.m, g, R)
    BY <2>2, <2>6, Grab
  <2>8. a \in Va \ {}
    OBVIOUS
  <2>9. MappedOwn(w, z, {}, R, a)
    BY <2>1, <2>4, <2>5, <2>7, <2>8, MapOwn
  <2>10. Good(z, {}, R, a + 1) /\ Later(y, z)
    BY <2>7, <2>9, LaterLater DEF MappedOwn
  <2>11. Worse(mem, z.m) /\ z.v.dir # 0
    <3>1. Worse(mem, z.m)
      BY <2>10, LaterWorse, WorseWorse DEF CopyInv
    <3>2. z.v.dir = y.v.dir
      BY <2>10 DEF Later
    <3> QED BY <3>1, <3>2 DEF CopyInv
  <2> QED BY <1>3, <2>10, <2>11 DEF CopyInv
<1> QED BY <1>4, <1>5, <1>6, <1>7

CopyPages(x, v, n) == Repeat(LAMBDA s, a : CopyPage(s, a, v), x, n)
LEMMA CopyLoop ==
  ASSUME NEW mem, NEW v \in Vm, NEW R, NEW n \in Nat, CanCopy(mem, v, n), n <= KERNPAGES, NEW x, CopyInv(mem, x, R, 0),
         NEW y, y = CopyPages(x, v, n)
  PROVE  CopyInv(mem, y, R, n)
<1> DEFINE f == CHOOSE f : f = [k \in 0 .. n |-> IF k = 0 THEN x ELSE CopyPage(f[k - 1], k - 1, v)]
           G == [s \in Work \X Nat |-> CopyPage(s[1], s[2], v)]
           J == [k \in 0 .. n |-> {s \in Work : CopyInv(mem, s, R, k)}]
<1>1. x \in Work /\ n \in Nat
  BY DEF CopyInv, Good, Sound
<1>2. y = f[n]
  BY Zenon DEF CopyPages, Repeat
<1>3. x \in J[0]
  BY <1>1
<1>4. \A k \in 0 .. n - 1 : \A s \in J[k] : G[<<s, k>>] \in J[k + 1]
  <2> TAKE k \in 0 .. n - 1
  <2> TAKE s \in J[k]
  <2>1. k \in 0 .. n /\ k + 1 \in 0 .. n /\ k \in Nat
    BY <1>1
  <2>2. s \in Work /\ CopyInv(mem, s, R, k)
    BY <2>1
  <2>3. G[<<s, k>>] = CopyPage(s, k, v)
    BY <2>1, <2>2
  <2>6. k \in Va /\ k < n
    BY <1>1, <2>1, Sizes DEF Va
  <2>4. CopyInv(mem, CopyPage(s, k, v), R, k + 1)
    BY <1>1, <2>1, <2>2, <2>6, CopyPass
  <2>5. CopyPage(s, k, v) \in Work
    BY <2>4 DEF CopyInv, Good, Sound
  <2> HIDE DEF G
  <2> QED BY <2>1, <2>3, <2>4, <2>5
<1>5. PICK h : LoopOf(h, n, x, G) /\ \A k \in 0 .. n : h[k] \in J[k]
  <2> HIDE DEF J, G, f
  <2> QED BY <1>1, <1>3, <1>4, Loop
<1>6. h = [k \in 0 .. n |-> IF k = 0 THEN x ELSE CopyPage(h[k - 1], k - 1, v)]
  <2>1. ASSUME NEW k \in 0 .. n, k # 0 PROVE G[<<h[k - 1], k - 1>>] = CopyPage(h[k - 1], k - 1, v)
    <3>1. k - 1 \in 0 .. n /\ k - 1 \in Nat
      BY <1>1, <2>1
    <3>2. h[k - 1] \in Work
      BY <1>5, <3>1
    <3> QED BY <3>1, <3>2
  <2> HIDE DEF G
  <2> QED BY <1>5, <2>1, Zenon DEF LoopOf
<1>7. f = [k \in 0 .. n |-> IF k = 0 THEN x ELSE CopyPage(f[k - 1], k - 1, v)]
  BY <1>6, Zenon
<1> HIDE DEF f, G
<1>8. f[n] = h[n]
  <2>1. 0 \in 0 .. n
    BY <1>1
  <2>2. f[0] = h[0]
    BY <1>6, <1>7, <2>1, Zenon
  <2>3. \A k \in 0 .. n : k # 0 /\ f[k - 1] = h[k - 1] => f[k] = h[k]
    BY <1>6, <1>7, Zenon
  <2> QED BY <1>1, <2>2, <2>3, LoopEnd
<1>9. n \in 0 .. n
  BY <1>1
<1> QED BY <1>2, <1>5, <1>8, <1>9

LEMMA Copyuvm ==
  ASSUME NEW mem, NEW R, FreeOnly(mem, R), NEW v \in Vm, NEW sz \in Nat, sz <= KERNBASE,
         CanCopy(mem, v, PGROUNDUP(sz)), NEW y, y = copyuvm(mem, v, sz)
  PROVE  /\ y \in Work /\ Worse(mem, y.m)
         /\ y.ok => Good(y, {}, R, PGROUNDUP(sz))
         /\ ~y.ok => FreeOnly(y.m, R)
<1> DEFINE x == setupkvm(mem)
           n == PGROUNDUP(sz)
           w == CopyPages(x, v, n)
<1>1. Good(x, {}, R, 0) /\ Worse(mem, x.m) /\ Rooted(x) /\ (~x.ok => x.v = NoVm)
  BY Setupkvm
<1>2. n \in Nat /\ n <= KERNPAGES /\ CanCopy(mem, v, n)
  BY Rounded, Kern
<1>3. y = CopyAll(x, v, sz)
  BY DEF copyuvm
<1>4. x \in Work /\ Sound(x, {}, R)
  BY <1>1 DEF Good, Sound
<1> HIDE DEF x
<1>5. CASE ~x.ok
  <2>1. y = x
    BY <1>3, <1>5 DEF CopyAll
  <2>2. FreeOnly(x.m, R)
    BY <1>1, <1>4, <1>5, Unmapped
  <2> QED BY <1>1, <1>4, <1>5, <2>1, <2>2
<1>6. CASE x.ok
  <2>1. y = Kept(w)
    BY <1>3, <1>6, Zenon DEF CopyAll, CopyPages
  <2> HIDE DEF n
  <2>2. CopyInv(mem, x, R, 0)
    <3>1. 0 \in Nat /\ 0 <= 0
      OBVIOUS
    <3>2. x.v.dir # 0
      BY <1>1, <1>6 DEF Rooted
    <3> QED BY <1>1, <3>1, <3>2 DEF CopyInv
  <2>3. CopyInv(mem, w, R, n)
    <3>1. w = CopyPages(x, v, n)
      OBVIOUS
    <3> HIDE DEF w
    <3> QED BY <1>2, <2>2, <3>1, CopyLoop
  <2> HIDE DEF w
  <2>4. PICK j \in Nat : (w.ok => j = n) /\ Good(w, {}, R, j)
    BY <2>3 DEF CopyInv
  <2>5. Rooted(w) /\ Worse(mem, w.m)
    BY <2>3 DEF CopyInv, Rooted
  <2>6. y \in Work /\ Worse(w.m, y.m) /\ (w.ok => y = w) /\ (~w.ok => ~y.ok /\ FreeOnly(y.m, R))
    BY <2>1, <2>4, <2>5, KeptFacts
  <2>7. Worse(mem, y.m)
    BY <2>5, <2>6, WorseWorse
  <2> QED BY <2>4, <2>6, <2>7 DEF n
<1> QED BY <1>5, <1>6

-----------------------------------------------------------------------------
(* exec().                                                                 *)

\* What holds of the new image as it grows.
ImageInv(mem, y, R) ==
  Good(y, {}, R, PGROUNDUP(y.sz)) /\ y.sz <= KERNBASE /\ Worse(mem, y.m) /\ Rooted(y)

LEMMA ImageAlloc ==
  ASSUME NEW mem, NEW R, NEW y, ImageInv(mem, y, R), y.ok, NEW newsz \in Nat, NEW z, z = allocuvm(y, newsz)
  PROVE  ImageInv(mem, z, R) /\ Alloced(y, z, {}, R, newsz)
<1>1. Alloced(y, z, {}, R, newsz)
  <2>1. Good(y, {}, R, PGROUNDUP(y.sz)) /\ y.sz <= KERNBASE
    BY DEF ImageInv
  <2>2. newsz < KERNBASE => \A a \in Va : a \in {} => PGROUNDUP(newsz) <= a
    OBVIOUS
  <2> QED BY <2>1, <2>2, Allocuvm
<1>2. Worse(mem, z.m)
  BY <1>1, LaterWorse, WorseWorse DEF ImageInv, Alloced
<1>3. Rooted(z)
  <2>1. y.v.dir # 0
    BY DEF ImageInv, Rooted
  <2>2. z.v.dir = y.v.dir
    BY <1>1 DEF Alloced, Later
  <2> QED BY <2>1, <2>2 DEF Rooted
<1> QED BY <1>1, <1>2, <1>3 DEF ImageInv, Alloced

\* A step that fails, or panics when memory is short, keeps it.
LEMMA ImageFailed ==
  ASSUME NEW mem, NEW R, NEW y, ImageInv(mem, y, R), NEW z, z = Failed(y)
  PROVE  ImageInv(mem, z, R)
<1>1. y \in Work
  BY DEF ImageInv, Good, Sound
<1>2. z \in Work /\ z.m = y.m /\ z.v = y.v /\ z.sz = y.sz /\ ~z.ok
  BY <1>1, FailedFields
<1>3. Good(z, {}, R, PGROUNDUP(z.sz))
  <2>1. Good(y, {}, R, PGROUNDUP(y.sz))
    BY DEF ImageInv
  <2>2. Good(z, {}, R, PGROUNDUP(y.sz))
    BY <1>2, <2>1, SameGood
  <2> QED BY <1>2, <2>2
<1> QED BY <1>2, <1>3 DEF ImageInv, Rooted

LEMMA ImagePanic ==
  ASSUME NEW mem, NEW R, NEW y, ImageInv(mem, y, R), y.m.short, NEW what \in Panics, NEW z, z = Panicked(y, what)
  PROVE  ImageInv(mem, z, R)
<1>1. y \in Work
  BY DEF ImageInv, Good, Sound
<1>2. /\ \A F, Q, n : Good(z, F, Q, n)
      /\ Later(y, z) /\ z.v = y.v /\ z.sz = y.sz /\ z.ok = y.ok
  BY <1>1, PanicGood
<1>3. Worse(mem, z.m)
  BY <1>2, LaterWorse, WorseWorse DEF ImageInv
<1>4. Rooted(z)
  BY <1>2 DEF ImageInv, Rooted
<1> QED BY <1>2, <1>3, <1>4 DEF ImageInv

\* Unless memory is short, the tables of the first pages are there.
LEMMA ImageTables ==
  ASSUME NEW mem, NEW R, NEW y, ImageInv(mem, y, R), ~y.m.short, NEW a \in Nat, a < PGROUNDUP(y.sz)
  PROVE  a \in Va /\ Table(y.v, a) # 0
<1>1. y \in Work /\ y.sz \in Nat /\ Acct(y, {}, R) /\ Exact(y.v, {}, PGROUNDUP(y.sz))
  <2>1. y \in Work
    BY DEF ImageInv, Good, Sound
  <2>2. Acct(y, {}, R) /\ Exact(y.v, {}, PGROUNDUP(y.sz))
    BY DEF ImageInv, Good, Sound
  <2> QED BY <2>1, <2>2, WorkFields
<1>2. PGROUNDUP(y.sz) <= KERNPAGES /\ PGROUNDUP(y.sz) \in Nat
  BY <1>1, Kern, Rounded DEF ImageInv
<1>3. a \in Va
  BY <1>2, Sizes DEF Va
<1>4. y.v.pte[a].pg \in Page
  BY <1>1, <1>3 DEF Exact
<1> QED BY <1>1, <1>3, <1>4, PageFacts DEF Acct, Tables, Table

Segment1 == [start : Nat, end : Nat, reads : BOOLEAN]
LEMMA SegmentPass ==
  ASSUME NEW mem, NEW R, NEW y, ImageInv(mem, y, R), NEW seg \in Segment1, NEW z, z = Segment(y, seg)
  PROVE  ImageInv(mem, z, R)
<1>0. seg.start \in Nat /\ seg.end \in Nat
  BY DEF Segment1
<1>1. CASE ~y.ok
  <2>1. z = y
    BY <1>1 DEF Segment
  <2> QED BY <2>1
<1>2. CASE y.ok
  <2> DEFINE w == allocuvm(y, seg.end)
  <2>1. z = LoadSegment(w, seg)
    BY <1>2 DEF Segment
  <2>2. ImageInv(mem, w, R) /\ Alloced(y, w, {}, R, seg.end)
    BY <1>0, <1>2, ImageAlloc
  <2> HIDE DEF w
  <2>3. CASE ~w.ok
    <3>1. z = w
      BY <2>1, <2>3 DEF LoadSegment
    <3> QED BY <2>2, <3>1
  <2>4. CASE w.ok /\ \E a \in seg.start .. PGROUNDUP(seg.end) - 1 : Table(w.v, a) = 0
    <3>1. z = Panicked(w, "loaduvm: address should exist")
      BY <2>1, <2>4 DEF LoadSegment, Panicked
    <3>2. "loaduvm: address should exist" \in Panics
      BY DEF Panics
    <3>3. PICK a \in seg.start .. PGROUNDUP(seg.end) - 1 : Table(w.v, a) = 0
      BY <2>4
    <3>4. a \in Nat /\ a < PGROUNDUP(w.sz)
      <4>1. w.sz \in Nat /\ seg.end <= w.sz
        BY <2>2, <2>4, WorkFields DEF ImageInv, Good, Sound, Alloced
      <4>2. PGROUNDUP(seg.end) <= PGROUNDUP(w.sz) /\ PGROUNDUP(seg.end) \in Nat /\ PGROUNDUP(w.sz) \in Nat
        BY <1>0, <4>1, RoundMono, Rounded
      <4> QED BY <1>0, <4>2
    <3>5. w.m.short
      BY <2>2, <3>3, <3>4, ImageTables
    <3> QED BY <2>2, <3>1, <3>2, <3>5, ImagePanic
  <2>5. CASE w.ok /\ ~(\E a \in seg.start .. PGROUNDUP(seg.end) - 1 : Table(w.v, a) = 0)
    <3>1. z = w \/ z = Failed(w)
      BY <2>1, <2>5 DEF LoadSegment
    <3> QED BY <2>2, <3>1, ImageFailed
  <2> QED BY <2>3, <2>4, <2>5
<1> QED BY <1>1, <1>2

NthSegment(s, segs, k) == Segment(s, segs[k + 1])
Segments(x, segs, n) == Repeat(LAMBDA s, k : Segment(s, segs[k + 1]), x, n)
LEMMA SegmentLoop ==
  ASSUME NEW mem, NEW R, NEW segs, NEW n \in Nat, \A k \in 0 .. n - 1 : segs[k + 1] \in Segment1, NEW x, ImageInv(mem, x, R),
         NEW y, y = Segments(x, segs, n)
  PROVE  ImageInv(mem, y, R)
<1> DEFINE f == CHOOSE f : f = [k \in 0 .. n |-> IF k = 0 THEN x ELSE NthSegment(f[k - 1], segs, k - 1)]
           G == [s \in Work \X Nat |-> NthSegment(s[1], segs, s[2])]
           J == [k \in 0 .. n |-> {s \in Work : ImageInv(mem, s, R)}]
<1>1. x \in Work /\ n \in Nat
  <2>1. n \in Nat
    OBVIOUS
  <2> QED BY <2>1 DEF ImageInv, Good, Sound
<1>2. y = f[n]
  BY Zenon DEF Segments, NthSegment, Repeat
<1>3. x \in J[0]
  BY <1>1
<1>4. \A k \in 0 .. n - 1 : \A s \in J[k] : G[<<s, k>>] \in J[k + 1]
  <2> TAKE k \in 0 .. n - 1
  <2> TAKE s \in J[k]
  <2>1. k \in 0 .. n /\ k + 1 \in 0 .. n /\ k \in Nat
    BY <1>1
  <2>2. s \in Work /\ ImageInv(mem, s, R)
    BY <2>1
  <2>3. G[<<s, k>>] = NthSegment(s, segs, k)
    BY <2>1, <2>2
  <2>6. segs[k + 1] \in Segment1
    BY <1>1, <2>1
  <2>4. ImageInv(mem, NthSegment(s, segs, k), R)
    BY <1>1, <2>1, <2>2, <2>6, SegmentPass DEF NthSegment
  <2>5. NthSegment(s, segs, k) \in Work
    BY <2>4 DEF ImageInv, Good, Sound
  <2> HIDE DEF G
  <2> QED BY <2>1, <2>3, <2>4, <2>5
<1>5. PICK h : LoopOf(h, n, x, G) /\ \A k \in 0 .. n : h[k] \in J[k]
  <2> HIDE DEF J, G, f
  <2> QED BY <1>1, <1>3, <1>4, Loop
<1>6. h = [k \in 0 .. n |-> IF k = 0 THEN x ELSE NthSegment(h[k - 1], segs, k - 1)]
  <2>1. ASSUME NEW k \in 0 .. n, k # 0 PROVE G[<<h[k - 1], k - 1>>] = NthSegment(h[k - 1], segs, k - 1)
    <3>1. k - 1 \in 0 .. n /\ k - 1 \in Nat
      BY <1>1, <2>1
    <3>2. h[k - 1] \in Work
      BY <1>5, <3>1
    <3> QED BY <3>1, <3>2
  <2> HIDE DEF G
  <2> QED BY <1>5, <2>1, Zenon DEF LoopOf
<1>7. f = [k \in 0 .. n |-> IF k = 0 THEN x ELSE NthSegment(f[k - 1], segs, k - 1)]
  BY <1>6, Zenon
<1> HIDE DEF f, G
<1>8. f[n] = h[n]
  <2>1. 0 \in 0 .. n
    BY <1>1
  <2>2. f[0] = h[0]
    BY <1>6, <1>7, <2>1, Zenon
  <2>3. \A k \in 0 .. n : k # 0 /\ f[k - 1] = h[k - 1] => f[k] = h[k]
    BY <1>6, <1>7, Zenon
  <2> QED BY <1>1, <2>2, <2>3, LoopEnd
<1>9. n \in 0 .. n
  BY <1>1
<1> QED BY <1>2, <1>5, <1>8, <1>9

\* Entries that change but map the same pages.
LEMMA SamePages ==
  ASSUME NEW x \in Work, NEW y \in Work, NEW F, NEW R, Acct(x, F, R),
         y.v.dir = x.v.dir, y.v.ktab = x.v.ktab, y.v.tab = x.v.tab, y.m = x.m,
         \A a \in Va : y.v.pte[a].pg = x.v.pte[a].pg
  PROVE  Acct(y, F, R)
<1>1. \A h : Own(y.v, F, h) <=> Own(x.v, F, h)
  BY DEF Own
<1>2. Distinct(y.v, F)
  BY DEF Acct, Distinct, TabsDistinct, NoTable, OneEntry
<1> QED
  BY <1>1, <1>2 DEF Acct, Apart, Covered, NoZero, Tables

LEMMA GuardPage ==
  ASSUME NEW mem, NEW R, NEW y, ImageInv(mem, y, R), NEW top,
         y.ok => top - 2 \in Va /\ top - 2 < PGROUNDUP(y.sz), NEW z, z = Guard(y, top)
  PROVE  ImageInv(mem, z, R)
<1>1. y \in Work
  BY DEF ImageInv, Good, Sound
<1> DEFINE a == top - 2
<1>2. CASE ~y.ok
  <2>1. z = y
    BY <1>2 DEF Guard
  <2> QED BY <2>1
<1>3. CASE y.ok /\ Table(y.v, a) = 0
  <2>1. z = Panicked(y, "clearpteu")
    BY <1>3 DEF Guard, Panicked
  <2>2. "clearpteu" \in Panics
    BY DEF Panics
  <2>3. a \in Nat /\ a < PGROUNDUP(y.sz)
    BY <1>3, VaNat
  <2> HIDE DEF a
  <2>4. y.m.short
    BY <1>3, <2>3, ImageTables
  <2> QED BY <2>1, <2>2, <2>4, ImagePanic
<1>4. CASE y.ok /\ Table(y.v, a) # 0
  <2> DEFINE e == [y.v.pte[a] EXCEPT !.u = FALSE]
  <2>1. z = SetEntry(y, a, e)
    BY <1>4 DEF Guard, SetEntry
  <2>2. a \in Va
    BY <1>4
  <2> HIDE DEF a
  <2>3. y.v.pte[a] \in Entry
    BY <1>1, <2>2, VmFields
  <2>4. e \in Entry /\ e.pg = y.v.pte[a].pg
    BY <2>3 DEF Entry
  <2> HIDE DEF e
  <2>5. /\ z \in Work /\ z.m = y.m /\ z.sz = y.sz /\ z.ok = y.ok
        /\ z.v.dir = y.v.dir /\ z.v.ktab = y.v.ktab /\ z.v.tab = y.v.tab
        /\ z.v.pte[a] = e /\ \A b \in Va : b # a => z.v.pte[b] = y.v.pte[b]
    BY <1>1, <2>1, <2>2, <2>4, PteFields
  <2>6. \A b \in Va : z.v.pte[b].pg = y.v.pte[b].pg
    BY <2>4, <2>5
  <2>7. ASSUME z.m.panic = "" PROVE Acct(z, {}, R)
    <3>1. Acct(y, {}, R)
      BY <2>5, <2>7 DEF ImageInv, Good, Sound
    <3> QED BY <1>1, <2>5, <2>6, <3>1, SamePages
  <2>8. ASSUME ~z.m.short PROVE Exact(z.v, {}, PGROUNDUP(z.sz))
    BY <2>5, <2>6, <2>8 DEF ImageInv, Good, Exact
  <2>9. Sound(z, {}, R)
    BY <2>5, <2>7 DEF ImageInv, Good, Sound
  <2>10. Rooted(z)
    <3>1. y.v.dir # 0
      BY <1>4 DEF ImageInv, Rooted
    <3> QED BY <2>5, <3>1 DEF Rooted
  <2>11. Good(z, {}, R, PGROUNDUP(z.sz))
    BY <2>8, <2>9 DEF Good
  <2> QED BY <2>5, <2>10, <2>11 DEF ImageInv
<1> QED BY <1>2, <1>3, <1>4

\* exec()'s new image, complete or gone.
LEMMA ImageFacts ==
  ASSUME NEW mem, NEW R, FreeOnly(mem, R), NEW segs \in Images, NEW n, NEW y, y = Image(mem, segs, n)
  PROVE  /\ y \in Work /\ Worse(mem, y.m)
         /\ y.ok => Good(y, {}, R, PGROUNDUP(y.sz)) /\ y.sz <= KERNBASE
         /\ ~y.ok => FreeOnly(y.m, R)
<1> DEFINE x0 == setupkvm(mem)
           x1 == Segments(x0, segs, Len(segs))
           x2 == PageAligned(x1)
           x3 == MoreStack(x2)
           top == x3.sz \div PGSIZE
           x4 == Guard(x3, top)
           x5 == Arguments(x4, top, n)
           q == PGROUNDUP(x1.sz)
<1>1. y = Kept(x5)
  BY Zenon DEF Image, Push, Loaded, Segments
<1>2. ImageInv(mem, x0, R)
  <2>1. Good(x0, {}, R, 0) /\ x0.sz = 0 /\ Worse(mem, x0.m) /\ Rooted(x0)
    BY Setupkvm
  <2>2. 0 <= KERNBASE
    BY Kern
  <2> HIDE DEF x0
  <2> QED BY <2>1, <2>2, Kern DEF ImageInv
<1>3. ImageInv(mem, x1, R)
  <2>1. segs \in Seq(Segment1)
    BY MemoryAssumption DEF Segment1
  <2>2. Len(segs) \in Nat /\ \A k \in 0 .. Len(segs) - 1 : segs[k + 1] \in Segment1
    BY <2>1
  <2> HIDE DEF x0
  <2> QED BY <1>2, <2>2, SegmentLoop
<1> HIDE DEF x1
<1>4. x1 \in Work /\ x1.sz \in Nat /\ x1.sz <= KERNBASE
  BY <1>3, WorkFields DEF ImageInv, Good, Sound
<1>5. q \in Nat /\ q <= KERNPAGES
  BY <1>4, Rounded, Kern
<1>6. x2 = [x1 EXCEPT !.sz = q * PGSIZE]
  BY DEF PageAligned
<1>7. q * PGSIZE \in Nat /\ PGROUNDUP(q * PGSIZE) = q /\ q * PGSIZE <= KERNBASE
  <2> HIDE DEF q
  <2> QED BY <1>5, RoundMultiple, MulMono, Sizes DEF KERNBASE
<1>8. ImageInv(mem, x2, R) /\ x2.sz = q * PGSIZE
  <2> HIDE DEF x2
  <2>0. q * PGSIZE \in Nat
    BY <1>7
  <2>1. x2 \in Work /\ x2.m = x1.m /\ x2.v = x1.v /\ x2.sz = q * PGSIZE /\ x2.ok = x1.ok
    BY <1>4, <1>6, <2>0, SzFields
  <2>2. Good(x1, {}, R, q)
    BY <1>3 DEF ImageInv
  <2> HIDE DEF q
  <2>3. Good(x2, {}, R, q)
    BY <2>1, <2>2, SameGood
  <2>4. Rooted(x2)
    BY <1>3, <2>1 DEF ImageInv, Rooted
  <2>5. Worse(mem, x2.m)
    BY <1>3, <2>1 DEF ImageInv
  <2> QED BY <1>7, <2>1, <2>3, <2>4, <2>5 DEF ImageInv
<1> HIDE DEF x2, q
<1>9. ImageInv(mem, x3, R) /\ (x3.ok => top - 2 \in Va /\ top - 2 < PGROUNDUP(x3.sz))
  <2>1. CASE ~x2.ok
    <3>1. x3 = x2
      BY <2>1 DEF MoreStack
    <3> QED BY <1>8, <2>1, <3>1
  <2>2. CASE x2.ok
    <3> DEFINE newsz == (q + 2) * PGSIZE
    <3>0. q * PGSIZE + 2 * PGSIZE = newsz /\ q * PGSIZE <= newsz /\ q + 2 \in Nat
      BY <1>5, Sizes
    <3>1. newsz \in Nat /\ PGROUNDUP(newsz) = q + 2 /\ newsz \div PGSIZE = q + 2
      BY <3>0, RoundMultiple
    <3>2. x3 = allocuvm(x2, newsz)
      BY <1>8, <2>2, <3>0 DEF MoreStack
    <3> HIDE DEF newsz, x3
    <3>3. ImageInv(mem, x3, R) /\ Alloced(x2, x3, {}, R, newsz)
      BY <1>8, <2>2, <3>1, <3>2, ImageAlloc
    <3>4. ASSUME x3.ok PROVE top - 2 \in Va /\ top - 2 < PGROUNDUP(x3.sz)
      <4>1. x3.sz = newsz /\ newsz < KERNBASE
        BY <1>8, <3>0, <3>3, <3>4 DEF Alloced
      <4>2. top = q + 2 /\ PGROUNDUP(x3.sz) = q + 2
        BY <3>1, <4>1
      <4>3. q + 2 <= KERNPAGES
        <5>1. newsz <= KERNBASE
          BY <3>1, <4>1, Kern
        <5> QED BY <3>1, <5>1, Kern
      <4>4. q + 2 - 2 = q /\ q < q + 2 /\ q \in Va
        BY <1>5, <4>3, Sizes DEF Va
      <4> HIDE DEF top
      <4>5. top - 2 = q
        BY <1>5, <4>2
      <4> QED BY <4>2, <4>4, <4>5
    <3> QED BY <3>3, <3>4
  <2> QED BY <2>1, <2>2
<1> HIDE DEF x3, top
<1>10. ImageInv(mem, x4, R)
  BY <1>9, GuardPage
<1> HIDE DEF x4
<1>11. ImageInv(mem, x5, R)
  <2>1. x5 = x4 \/ x5 = Failed(x4)
    BY Zenon DEF Arguments
  <2> HIDE DEF x5
  <2> QED BY <1>10, <2>1, ImageFailed
<1> HIDE DEF x5
<1>12. Good(x5, {}, R, PGROUNDUP(x5.sz)) /\ Rooted(x5) /\ Worse(mem, x5.m) /\ x5.sz <= KERNBASE
  BY <1>11 DEF ImageInv
<1>13. y \in Work /\ Worse(x5.m, y.m) /\ (x5.ok => y = x5) /\ (~x5.ok => ~y.ok /\ FreeOnly(y.m, R))
  BY <1>1, <1>12, KeptFacts
<1>14. Worse(mem, y.m)
  BY <1>12, <1>13, WorseWorse
<1>15. CASE x5.ok
  BY <1>12, <1>13, <1>14, <1>15
<1>16. CASE ~x5.ok
  BY <1>13, <1>14, <1>16
<1> QED BY <1>15, <1>16

-----------------------------------------------------------------------------
(* palloc() and shared memory.                                             *)

\* Only the pages among what the others have matter.
LEMMA SameRest ==
  ASSUME NEW x, NEW F, NEW R, NEW Q, NEW n, Good(x, F, R, n), \A g \in Page : g \in R <=> g \in Q
  PROVE  Good(x, F, Q, n)
<1>1. Acct(x, F, R) => Acct(x, F, Q)
  BY DEF Acct, Apart, Covered
<1> QED BY <1>1 DEF Good, Sound

\* An unchecked kalloc().
UncheckedOn(x) == [x EXCEPT !.m = Unchecked(x.m)]
UncheckedGot(x, y, F, R, n, g) ==
  /\ Good(y, F, R \cup {g}, n) /\ Later(x, y) /\ y.sz = x.sz /\ y.ok = x.ok /\ y.v = x.v
  /\ g \in Page \cup {0} /\ (g = 0 => y.m.short) /\ (g \in Page => InHand(y.m, g, R))
LEMMA UncheckedFacts ==
  ASSUME NEW x, NEW F, NEW R, NEW n, Good(x, F, R, n), NEW g, g = Got(x.m), NEW y, y = UncheckedOn(x)
  PROVE  UncheckedGot(x, y, F, R, n, g)
<1>1. x \in Work /\ x.m \in Mem
  BY WorkFields DEF Good, Sound
<1>2. CASE g = 0
  <2>1. y = Short(x)
    BY <1>1, <1>2 DEF UncheckedOn, Unchecked, Short, Work
  <2>2. /\ y \in Work /\ y.v = x.v /\ y.sz = x.sz /\ y.ok = x.ok
        /\ y.m \in Mem /\ y.m.short /\ y.m.free = x.m.free
        /\ y.m.twice = x.m.twice /\ y.m.panic = x.m.panic
    BY <1>1, <2>1, ShortFields
  <2>3. ASSUME y.m.panic = "" PROVE Acct(y, F, R)
    <3>1. Acct(x, F, R)
      BY <2>2, <2>3 DEF Good, Sound
    <3>2. R \subseteq R
      OBVIOUS
    <3> QED BY <1>1, <2>2, <3>1, <3>2, Lose
  <2>4. Good(y, F, R, n)
    BY <2>2, <2>3 DEF Good, Sound
  <2>5. Good(y, F, R \cup {g}, n)
    <3>1. \A h \in Page : h \in R <=> h \in R \cup {g}
      BY <1>2, PageFacts
    <3> QED BY <2>4, <3>1, SameRest
  <2>6. Later(x, y)
    BY <2>2 DEF Later
  <2> QED BY <1>2, <2>2, <2>5, <2>6, PageFacts DEF UncheckedGot
<1>3. CASE g # 0
  <2>1. y = Grabbed(x)
    BY <1>3 DEF UncheckedOn, Unchecked, Grabbed
  <2>2. /\ Good(y, F, R \cup {g}, n) /\ Later(x, y) /\ y.sz = x.sz /\ y.ok = x.ok /\ y.v = x.v
        /\ g \in Page /\ InHand(y.m, g, R)
    BY <1>3, <2>1, Grab
  <2> QED BY <1>3, <2>2 DEF UncheckedGot
<1> QED BY <1>2, <1>3

\* k pages from va.
Span(va, k) == {va + i : i \in 0 .. k - 1}
LEMMA SpanNext ==
  ASSUME NEW va \in Nat, NEW k \in Nat
  PROVE  Span(va, k + 1) = Span(va, k) \cup {va + k} /\ va + k \notin Span(va, k) /\ Span(va, 0) = {}
<1>1. 0 .. (k + 1) - 1 = (0 .. k - 1) \cup {k}
  OBVIOUS
<1>2. Span(va, k + 1) = Span(va, k) \cup {va + k}
  BY <1>1 DEF Span
<1>3. va + k \notin Span(va, k) /\ Span(va, 0) = {}
  BY DEF Span
<1> QED BY <1>2, <1>3

Elems(s) == {s[i] : i \in 1 .. Len(s)}
LEMMA ElemsAppend ==
  ASSUME NEW S, NEW s \in Seq(S), NEW e \in S
  PROVE  /\ Append(s, e) \in Seq(S) /\ Len(Append(s, e)) = Len(s) + 1 /\ Len(s) \in Nat
         /\ \A i \in 1 .. Len(s) : Append(s, e)[i] = s[i]
         /\ Append(s, e)[Len(s) + 1] = e
         /\ Elems(Append(s, e)) = Elems(s) \cup {e}
<1>1. /\ Append(s, e) \in Seq(S) /\ Len(Append(s, e)) = Len(s) + 1 /\ Len(s) \in Nat
      /\ \A i \in 1 .. Len(s) : Append(s, e)[i] = s[i]
      /\ Append(s, e)[Len(s) + 1] = e
  OBVIOUS
<1> DEFINE z == Append(s, e)
           n == Len(s)
<1> HIDE DEF z, n
<1>2. /\ Len(z) = n + 1 /\ n \in Nat /\ z[n + 1] = e /\ \A i \in 1 .. n : z[i] = s[i]
  BY <1>1 DEF z, n
<1>3. 1 .. n + 1 = (1 .. n) \cup {n + 1}
  BY <1>2
<1>4. Elems(z) = Elems(s) \cup {e}
  BY <1>2, <1>3 DEF Elems, n
<1> QED BY <1>1, <1>4 DEF z

Shares == [x : Work, pages : Seq(Page \cup {0})]
\* Pages of shared memory are different, and not those of the others.
NewPages(mem, s, R) ==
  mem.panic = "" => /\ \A i, j \in 1 .. Len(s) : s[i] = s[j] /\ s[j] \in Page => i = j
                    /\ \A i \in 1 .. Len(s) : s[i] \in Page => s[i] \notin R
\* They are mapped from va on.
MappedAll(x, va, s, k) == ~x.m.short => \A i \in 1 .. k : s[i] # 0 /\ x.v.pte[va + (i - 1)].pg = s[i]
ShareInv(x, y, R, n, k) ==
  /\ y \in Shares /\ Len(y.pages) = k
  /\ Good(y.x, Span(VA1, k), R \cup Elems(y.pages), n)
  /\ y.x.sz = x.sz /\ Later(x, y.x)
  /\ NewPages(y.x.m, y.pages, R) /\ MappedAll(y.x, VA1, y.pages, k)

LEMMA SharePass ==
  ASSUME NEW x, NEW R, NEW n \in Nat, n <= VA1, NEW k \in Nat, k < NSHARED, NEW y, ShareInv(x, y, R, n, k),
         NEW z, z = SharePage(y, k)
  PROVE  ShareInv(x, z, R, n, k + 1)
<1> DEFINE g == Got(y.x.m)
           a == VA1 + k
           w == UncheckedOn(y.x)
           c == MapAnyway(w, a, g)
           s == Append(y.pages, g)
           F == Span(VA1, k)
           Q == R \cup Elems(y.pages)
<1>1. z = [x |-> c, pages |-> s]
  BY DEF SharePage, UncheckedOn
<1>2. y.x \in Work /\ y.pages \in Seq(Page \cup {0}) /\ Len(y.pages) = k
  BY DEF ShareInv, Shares
<1>3. a \in Va /\ n <= a /\ VA1 \in Nat /\ \A i \in 0 .. k : VA1 + i \in Va
  BY Sizes DEF Va
<1>4. Good(y.x, F, Q, n)
  BY DEF ShareInv
<1>5. UncheckedGot(y.x, w, F, Q, n, g)
  <2>1. w = UncheckedOn(y.x) /\ g = Got(y.x.m)
    OBVIOUS
  <2> HIDE DEF w, g, F, Q
  <2> QED BY <1>4, <2>1, UncheckedFacts
<1>6. a \notin F /\ F \cup {a} = Span(VA1, k + 1)
  BY <1>3, SpanNext
<1>7. g \in Page \cup {0}
  BY <1>5 DEF UncheckedGot
<1> HIDE DEF w, g
<1>8. /\ s \in Seq(Page \cup {0}) /\ Len(s) = k + 1
      /\ \A i \in 1 .. k : s[i] = y.pages[i]
      /\ s[k + 1] = g
      /\ Elems(s) = Elems(y.pages) \cup {g}
  BY <1>2, <1>7, ElemsAppend
<1> HIDE DEF s
<1>9. MappedForeign(w, c, F, R \cup Elems(s), n, a, g)
  <2>1. Good(w, F, Q \cup {g}, n) /\ (g = 0 => w.m.short)
    BY <1>5 DEF UncheckedGot
  <2>2. Q \cup {g} = R \cup Elems(s)
    BY <1>8
  <2>3. Good(w, F, R \cup Elems(s), n)
    BY <2>1, <2>2
  <2>4. c = MapAnyway(w, a, g)
    OBVIOUS
  <2> HIDE DEF c, a, F, Q
  <2> QED BY <1>3, <1>6, <1>7, <2>1, <2>3, <2>4, MapForeign
<1> HIDE DEF c, a, F
<1>10. /\ Good(c, Span(VA1, k + 1), R \cup Elems(s), n) /\ c.sz = w.sz /\ Later(w, c)
       /\ ~c.m.short => c.v.pte[a].pg = g
  BY <1>6, <1>9 DEF MappedForeign
<1>11. c \in Work
  BY <1>10 DEF Good, Sound
<1>12. z \in Shares /\ z.x = c /\ z.pages = s
  BY <1>1, <1>8, <1>11 DEF Shares
<1>13. c.sz = x.sz /\ Later(x, c)
  <2>1. Later(x, y.x) /\ Later(y.x, w) /\ Later(w, c)
    BY <1>5, <1>10 DEF ShareInv, UncheckedGot
  <2>2. Later(x, c)
    BY <2>1, LaterLater
  <2> QED BY <1>5, <1>10, <2>2 DEF ShareInv, UncheckedGot
<1>14. NewPages(c.m, s, R)
  <2>1. ASSUME c.m.panic = ""
        PROVE  /\ \A i, j \in 1 .. k + 1 : s[i] = s[j] /\ s[j] \in Page => i = j
               /\ \A i \in 1 .. k + 1 : s[i] \in Page => s[i] \notin R
    <3>1. w.m.panic = "" /\ y.x.m.panic = ""
      <4>1. w.m.panic = ""
        BY <1>10, <2>1 DEF Later
      <4> QED BY <1>5, <4>1 DEF UncheckedGot, Later
    <3>2. /\ \A i, j \in 1 .. k : y.pages[i] = y.pages[j] /\ y.pages[j] \in Page => i = j
          /\ \A i \in 1 .. k : y.pages[i] \in Page => y.pages[i] \notin R
      BY <1>2, <3>1 DEF ShareInv, NewPages
    <3>3. g \in Page => g \notin Q
      BY <1>5, <3>1 DEF UncheckedGot, InHand
    <3>4. g \in Page => g \notin R /\ \A i \in 1 .. k : y.pages[i] # g
      BY <1>2, <3>3 DEF Elems
    <3>5. \A i \in 1 .. k + 1 : i \in 1 .. k \/ i = k + 1
      OBVIOUS
    <3> HIDE <2>1
    <3> QED BY <1>8, <3>2, <3>4, <3>5
  <2> QED BY <1>8, <2>1 DEF NewPages
<1>15. MappedAll(c, VA1, s, k + 1)
  <2> SUFFICES ASSUME ~c.m.short PROVE \A i \in 1 .. k + 1 : s[i] # 0 /\ c.v.pte[VA1 + (i - 1)].pg = s[i]
    BY DEF MappedAll
  <2>1. ~w.m.short /\ ~y.x.m.short
    <3>1. ~w.m.short
      BY <1>10 DEF Later
    <3> QED BY <1>5, <3>1 DEF UncheckedGot, Later
  <2>2. c.m.panic = "" /\ g # 0
    BY <1>5, <1>10, <2>1 DEF Good, Sound, UncheckedGot
  <2>3. \A b \in Va : b # a => c.v.pte[b] = y.x.v.pte[b]
    BY <1>5, <1>9, <2>2 DEF MappedForeign, UncheckedGot
  <2>4. \A i \in 1 .. k : y.pages[i] # 0 /\ y.x.v.pte[VA1 + (i - 1)].pg = y.pages[i]
    BY <2>1 DEF ShareInv, MappedAll
  <2>5. c.v.pte[a].pg = g
    BY <1>10
  <2>6. \A i \in 1 .. k : VA1 + (i - 1) \in Va /\ VA1 + (i - 1) # a
    BY <1>3 DEF a
  <2>7. VA1 + ((k + 1) - 1) = a
    BY <1>3 DEF a
  <2>8. \A i \in 1 .. k + 1 : i \in 1 .. k \/ i = k + 1
    OBVIOUS
  <2> QED BY <1>8, <2>2, <2>3, <2>4, <2>5, <2>6, <2>7, <2>8
<1> QED BY <1>8, <1>10, <1>12, <1>13, <1>14, <1>15 DEF ShareInv

SharePages(x0, n) == Repeat(SharePage, x0, n)
LEMMA ShareLoop ==
  ASSUME NEW x, NEW R, NEW nn \in Nat, nn <= VA1, NEW n \in Nat, n <= NSHARED, NEW x0, ShareInv(x, x0, R, nn, 0),
         NEW y, y = SharePages(x0, n)
  PROVE  ShareInv(x, y, R, nn, n)
<1> DEFINE f == CHOOSE f : f = [k \in 0 .. n |-> IF k = 0 THEN x0 ELSE SharePage(f[k - 1], k - 1)]
           G == [s \in Shares \X Nat |-> SharePage(s[1], s[2])]
           J == [k \in 0 .. n |-> {s \in Shares : ShareInv(x, s, R, nn, k)}]
<1>1. x0 \in Shares /\ n \in Nat
  BY DEF ShareInv
<1>2. y = f[n]
  BY Zenon DEF SharePages, Repeat
<1>3. x0 \in J[0]
  BY <1>1
<1>4. \A k \in 0 .. n - 1 : \A s \in J[k] : G[<<s, k>>] \in J[k + 1]
  <2> TAKE k \in 0 .. n - 1
  <2> TAKE s \in J[k]
  <2>1. k \in 0 .. n /\ k + 1 \in 0 .. n /\ k \in Nat
    BY <1>1
  <2>2. s \in Shares /\ ShareInv(x, s, R, nn, k)
    BY <2>1
  <2>3. G[<<s, k>>] = SharePage(s, k)
    BY <2>1, <2>2
  <2>6. k < NSHARED
    BY <1>1, <2>1, Sizes
  <2>4. ShareInv(x, SharePage(s, k), R, nn, k + 1)
    BY <1>1, <2>1, <2>2, <2>6, SharePass
  <2>5. SharePage(s, k) \in Shares
    BY <2>4 DEF ShareInv
  <2> HIDE DEF G
  <2> QED BY <2>1, <2>3, <2>4, <2>5
<1>5. PICK h : LoopOf(h, n, x0, G) /\ \A k \in 0 .. n : h[k] \in J[k]
  <2> HIDE DEF J, G, f
  <2> QED BY <1>1, <1>3, <1>4, Loop
<1>6. h = [k \in 0 .. n |-> IF k = 0 THEN x0 ELSE SharePage(h[k - 1], k - 1)]
  <2>1. ASSUME NEW k \in 0 .. n, k # 0 PROVE G[<<h[k - 1], k - 1>>] = SharePage(h[k - 1], k - 1)
    <3>1. k - 1 \in 0 .. n /\ k - 1 \in Nat
      BY <1>1, <2>1
    <3>2. h[k - 1] \in Shares
      BY <1>5, <3>1
    <3> QED BY <3>1, <3>2
  <2> HIDE DEF G
  <2> QED BY <1>5, <2>1, Zenon DEF LoopOf
<1>7. f = [k \in 0 .. n |-> IF k = 0 THEN x0 ELSE SharePage(f[k - 1], k - 1)]
  BY <1>6, Zenon
<1> HIDE DEF f, G
<1>8. f[n] = h[n]
  <2>1. 0 \in 0 .. n
    BY <1>1
  <2>2. f[0] = h[0]
    BY <1>6, <1>7, <2>1, Zenon
  <2>3. \A k \in 0 .. n : k # 0 /\ f[k - 1] = h[k - 1] => f[k] = h[k]
    BY <1>6, <1>7, Zenon
  <2> QED BY <1>1, <2>2, <2>3, LoopEnd
<1>9. n \in 0 .. n
  BY <1>1
<1> QED BY <1>2, <1>5, <1>8, <1>9

\* mmap_attach() maps the shared pages s from va on.
AttachInv(x, y, R, n, va, s, k) ==
  /\ Good(y, Span(va, k), R, n) /\ y.sz = x.sz /\ Later(x, y) /\ MappedAll(y, va, s, k)
Attachable(x, s) == \A i \in 1 .. NSHARED : s[i] \in Page \cup {0} /\ (s[i] = 0 => x.m.short)
LEMMA AttachPass ==
  ASSUME NEW x, NEW R, NEW n \in Nat, NEW va \in Nat, n <= va, va + NSHARED <= KERNPAGES, NEW s,
         Attachable(x, s),
         NEW k \in Nat, k < NSHARED, NEW y, AttachInv(x, y, R, n, va, s, k),
         NEW z, z = MapAnyway(y, va + k, s[k + 1])
  PROVE  AttachInv(x, z, R, n, va, s, k + 1)
<1> DEFINE g == s[k + 1]
           a == va + k
           F == Span(va, k)
<1>1. a \in Va /\ n <= a /\ k + 1 \in 1 .. NSHARED /\ \A i \in 0 .. k : va + i \in Va
  BY Sizes DEF Va
<1>2. g \in Page \cup {0} /\ (g = 0 => x.m.short)
  BY <1>1 DEF Attachable
<1>3. g = 0 => y.m.short
  BY <1>2 DEF AttachInv, Later
<1>4. a \notin F /\ F \cup {a} = Span(va, k + 1)
  BY SpanNext
<1>5. Good(y, F, R, n) /\ z = MapAnyway(y, a, g)
  BY DEF AttachInv
<1> HIDE DEF F, a, g
<1>6. MappedForeign(y, z, F, R, n, a, g)
  BY <1>1, <1>2, <1>3, <1>4, <1>5, MapForeign
<1>7. Good(z, Span(va, k + 1), R, n) /\ z.sz = y.sz /\ Later(y, z)
  BY <1>4, <1>6 DEF MappedForeign
<1>8. Later(x, z) /\ z.sz = x.sz
  BY <1>7, LaterLater DEF AttachInv
<1>9. MappedAll(z, va, s, k + 1)
  <2> SUFFICES ASSUME ~z.m.short PROVE \A i \in 1 .. k + 1 : s[i] # 0 /\ z.v.pte[va + (i - 1)].pg = s[i]
    BY DEF MappedAll
  <2>1. ~y.m.short
    BY <1>7 DEF Later
  <2>2. z.m.panic = "" /\ g # 0
    BY <1>3, <1>7, <2>1 DEF Good, Sound
  <2>3. \A b \in Va : b # a => z.v.pte[b] = y.v.pte[b]
    BY <1>6, <2>2 DEF MappedForeign
  <2>4. \A i \in 1 .. k : s[i] # 0 /\ y.v.pte[va + (i - 1)].pg = s[i]
    BY <2>1 DEF AttachInv, MappedAll
  <2>5. z.v.pte[a].pg = g
    BY <1>6 DEF MappedForeign
  <2>6. \A i \in 1 .. k : va + (i - 1) \in Va /\ va + (i - 1) # a
    BY <1>1 DEF a
  <2>7. va + ((k + 1) - 1) = a
    BY DEF a
  <2>8. \A i \in 1 .. k + 1 : i \in 1 .. k \/ i = k + 1
    OBVIOUS
  <2>9. \A i \in 1 .. k : z.v.pte[va + (i - 1)].pg = s[i]
    BY <2>3, <2>4, <2>6
  <2>10. z.v.pte[va + ((k + 1) - 1)].pg = s[k + 1] /\ s[k + 1] # 0
    BY <2>2, <2>5, <2>7 DEF g
  <2> QED BY <2>4, <2>8, <2>9, <2>10
<1> QED BY <1>7, <1>8, <1>9 DEF AttachInv

AttachPage(y, va, s, k) == MapAnyway(y, va + k, s[k + 1])
AttachPages(x, va, s, n) == Repeat(LAMBDA y, k : MapAnyway(y, va + k, s[k + 1]), x, n)
LEMMA AttachLoop ==
  ASSUME NEW x, NEW R, NEW nn \in Nat, NEW va \in Nat, nn <= va, va + NSHARED <= KERNPAGES, NEW s,
         Attachable(x, s),
         NEW n \in Nat, n <= NSHARED, AttachInv(x, x, R, nn, va, s, 0),
         NEW y, y = AttachPages(x, va, s, n)
  PROVE  AttachInv(x, y, R, nn, va, s, n)
<1> DEFINE f == CHOOSE f : f = [k \in 0 .. n |-> IF k = 0 THEN x ELSE AttachPage(f[k - 1], va, s, k - 1)]
           G == [c \in Work \X Nat |-> AttachPage(c[1], va, s, c[2])]
           J == [k \in 0 .. n |-> {c \in Work : AttachInv(x, c, R, nn, va, s, k)}]
<1>1. x \in Work /\ n \in Nat
  BY DEF AttachInv, Good, Sound
<1>2. y = f[n]
  BY Zenon DEF AttachPages, AttachPage, Repeat
<1>3. x \in J[0]
  BY <1>1
<1>4. \A k \in 0 .. n - 1 : \A c \in J[k] : G[<<c, k>>] \in J[k + 1]
  <2> TAKE k \in 0 .. n - 1
  <2> TAKE c \in J[k]
  <2>1. k \in 0 .. n /\ k + 1 \in 0 .. n /\ k \in Nat
    BY <1>1
  <2>2. c \in Work /\ AttachInv(x, c, R, nn, va, s, k)
    BY <2>1
  <2>3. G[<<c, k>>] = AttachPage(c, va, s, k)
    BY <2>1, <2>2
  <2>6. k < NSHARED
    BY <1>1, <2>1, Sizes
  <2>4. AttachInv(x, AttachPage(c, va, s, k), R, nn, va, s, k + 1)
    BY <1>1, <2>1, <2>2, <2>6, AttachPass DEF AttachPage
  <2>5. AttachPage(c, va, s, k) \in Work
    BY <2>4 DEF AttachInv, Good, Sound
  <2> HIDE DEF G
  <2> QED BY <2>1, <2>3, <2>4, <2>5
<1>5. PICK h : LoopOf(h, n, x, G) /\ \A k \in 0 .. n : h[k] \in J[k]
  <2> HIDE DEF J, G, f
  <2> QED BY <1>1, <1>3, <1>4, Loop
<1>6. h = [k \in 0 .. n |-> IF k = 0 THEN x ELSE AttachPage(h[k - 1], va, s, k - 1)]
  <2>1. ASSUME NEW k \in 0 .. n, k # 0 PROVE G[<<h[k - 1], k - 1>>] = AttachPage(h[k - 1], va, s, k - 1)
    <3>1. k - 1 \in 0 .. n /\ k - 1 \in Nat
      BY <1>1, <2>1
    <3>2. h[k - 1] \in Work
      BY <1>5, <3>1
    <3> QED BY <3>1, <3>2
  <2> HIDE DEF G
  <2> QED BY <1>5, <2>1, Zenon DEF LoopOf
<1>7. f = [k \in 0 .. n |-> IF k = 0 THEN x ELSE AttachPage(f[k - 1], va, s, k - 1)]
  BY <1>6, Zenon
<1> HIDE DEF f, G
<1>8. f[n] = h[n]
  <2>1. 0 \in 0 .. n
    BY <1>1
  <2>2. f[0] = h[0]
    BY <1>6, <1>7, <2>1, Zenon
  <2>3. \A k \in 0 .. n : k # 0 /\ f[k - 1] = h[k - 1] => f[k] = h[k]
    BY <1>6, <1>7, Zenon
  <2> QED BY <1>1, <2>2, <2>3, LoopEnd
<1>9. n \in 0 .. n
  BY <1>1
<1> QED BY <1>2, <1>5, <1>8, <1>9

\* mmap_detach() takes them out.
DetachInv(x, y, F, R, n, va, k) ==
  /\ Good(y, F, R, n) /\ y.sz = x.sz /\ Later(x, y) /\ y.m.short = x.m.short
  /\ y.m.panic = "" => \A i \in 0 .. k - 1 : y.v.pte[va + i].pg = None
  /\ \A b \in Va \ Span(va, k) : y.v.pte[b] = x.v.pte[b]
LEMMA DetachPass ==
  ASSUME NEW x, NEW R, NEW n \in Nat, NEW va \in Nat, n <= va, va + NSHARED <= KERNPAGES,
         NEW F, F = Span(va, NSHARED),
         \A i \in 0 .. NSHARED - 1 : ~x.m.short => x.v.pte[va + i].pg # None,
         NEW k \in Nat, k < NSHARED, NEW y, DetachInv(x, y, F, R, n, va, k),
         NEW z, z = clearptep(y, va + k)
  PROVE  DetachInv(x, z, F, R, n, va, k + 1)
<1> DEFINE a == va + k
<1>1. a \in Va /\ n <= a /\ k \in 0 .. NSHARED - 1 /\ \A i \in 0 .. k : va + i \in Va
  BY Sizes DEF Va
<1>2. a \in F
  BY <1>1 DEF Span
<1>3. a \notin Span(va, k) /\ Span(va, k + 1) = Span(va, k) \cup {a}
  BY SpanNext
<1>4. y.v.pte[a] = x.v.pte[a]
  BY <1>1, <1>3 DEF DetachInv
<1>5. ~y.m.short => y.v.pte[a].pg # None
  BY <1>1, <1>4 DEF DetachInv
<1>6. Good(y, F, R, n) /\ z = clearptep(y, a)
  BY DEF DetachInv
<1>10. \A i \in 0 .. (k + 1) - 1 : i = k \/ (i \in 0 .. k - 1 /\ va + i # va + k)
  OBVIOUS
<1> HIDE DEF a
<1>7. ClearedForeign(y, z, F, R, n, a)
  BY <1>1, <1>2, <1>5, <1>6, ClearForeign
<1>8. ASSUME z.m.panic = "" PROVE \A i \in 0 .. (k + 1) - 1 : z.v.pte[va + i].pg = None
  <2>1. y.m.panic = ""
    BY <1>7, <1>8 DEF ClearedForeign, Later
  <2>2. \A i \in 0 .. k - 1 : y.v.pte[va + i].pg = None
    BY <2>1 DEF DetachInv
  <2>3. z.v.pte[a].pg = None
    BY <1>7, <1>8 DEF ClearedForeign
  <2>4. \A i \in 0 .. k - 1 : va + i # a => z.v.pte[va + i].pg = None
    <3>1. \A i \in 0 .. k - 1 : va + i \in Va
      BY <1>1
    <3> QED BY <1>7, <2>2, <3>1 DEF ClearedForeign
  <2> HIDE <1>8
  <2> QED BY <1>10, <2>3, <2>4 DEF a
<1>9. \A b \in Va \ Span(va, k + 1) : z.v.pte[b] = x.v.pte[b]
  BY <1>3, <1>7 DEF ClearedForeign, DetachInv
<1>11. Later(x, z) /\ z.sz = x.sz /\ z.m.short = x.m.short
  BY <1>7, LaterLater DEF ClearedForeign, DetachInv
<1> QED BY <1>7, <1>8, <1>9, <1>11 DEF DetachInv, ClearedForeign

DetachPage(y, va, k) == clearptep(y, va + k)
DetachPages(x, va, n) == Repeat(LAMBDA y, k : clearptep(y, va + k), x, n)
LEMMA DetachLoop ==
  ASSUME NEW x, NEW R, NEW nn \in Nat, NEW va \in Nat, nn <= va, va + NSHARED <= KERNPAGES,
         NEW F, F = Span(va, NSHARED), \A i \in 0 .. NSHARED - 1 : ~x.m.short => x.v.pte[va + i].pg # None,
         NEW n \in Nat, n <= NSHARED, DetachInv(x, x, F, R, nn, va, 0),
         NEW y, y = DetachPages(x, va, n)
  PROVE  DetachInv(x, y, F, R, nn, va, n)
<1> DEFINE f == CHOOSE f : f = [k \in 0 .. n |-> IF k = 0 THEN x ELSE DetachPage(f[k - 1], va, k - 1)]
           G == [s \in Work \X Nat |-> DetachPage(s[1], va, s[2])]
           J == [k \in 0 .. n |-> {s \in Work : DetachInv(x, s, F, R, nn, va, k)}]
<1>1. x \in Work /\ n \in Nat
  BY DEF DetachInv, Good, Sound
<1>2. y = f[n]
  BY Zenon DEF DetachPages, DetachPage, Repeat
<1>3. x \in J[0]
  BY <1>1
<1>4. \A k \in 0 .. n - 1 : \A s \in J[k] : G[<<s, k>>] \in J[k + 1]
  <2> TAKE k \in 0 .. n - 1
  <2> TAKE s \in J[k]
  <2>1. k \in 0 .. n /\ k + 1 \in 0 .. n /\ k \in Nat
    BY <1>1
  <2>2. s \in Work /\ DetachInv(x, s, F, R, nn, va, k)
    BY <2>1
  <2>3. G[<<s, k>>] = DetachPage(s, va, k)
    BY <2>1, <2>2
  <2>6. k < NSHARED
    BY <1>1, <2>1, Sizes
  <2>4. DetachInv(x, DetachPage(s, va, k), F, R, nn, va, k + 1)
    BY <1>1, <2>1, <2>2, <2>6, DetachPass DEF DetachPage
  <2>5. DetachPage(s, va, k) \in Work
    BY <2>4 DEF DetachInv, Good, Sound
  <2> HIDE DEF G
  <2> QED BY <2>1, <2>3, <2>4, <2>5
<1>5. PICK h : LoopOf(h, n, x, G) /\ \A k \in 0 .. n : h[k] \in J[k]
  <2> HIDE DEF J, G, f
  <2> QED BY <1>1, <1>3, <1>4, Loop
<1>6. h = [k \in 0 .. n |-> IF k = 0 THEN x ELSE DetachPage(h[k - 1], va, k - 1)]
  <2>1. ASSUME NEW k \in 0 .. n, k # 0 PROVE G[<<h[k - 1], k - 1>>] = DetachPage(h[k - 1], va, k - 1)
    <3>1. k - 1 \in 0 .. n /\ k - 1 \in Nat
      BY <1>1, <2>1
    <3>2. h[k - 1] \in Work
      BY <1>5, <3>1
    <3> QED BY <3>1, <3>2
  <2> HIDE DEF G
  <2> QED BY <1>5, <2>1, Zenon DEF LoopOf
<1>7. f = [k \in 0 .. n |-> IF k = 0 THEN x ELSE DetachPage(f[k - 1], va, k - 1)]
  BY <1>6, Zenon
<1> HIDE DEF f, G
<1>8. f[n] = h[n]
  <2>1. 0 \in 0 .. n
    BY <1>1
  <2>2. f[0] = h[0]
    BY <1>6, <1>7, <2>1, Zenon
  <2>3. \A k \in 0 .. n : k # 0 /\ f[k - 1] = h[k - 1] => f[k] = h[k]
    BY <1>6, <1>7, Zenon
  <2> QED BY <1>1, <2>2, <2>3, LoopEnd
<1>9. n \in 0 .. n
  BY <1>1
<1> QED BY <1>2, <1>5, <1>8, <1>9

-----------------------------------------------------------------------------
(* The invariant, of memory mem, the processes prs and shared memory sh.   *)

Slot == [st : {"unused", "run", "zombie"}, parent : Proc \cup {0}, sz : Nat, v : Vm,
         kstack : Page \cup {0}, page : Page \cup {0}, shared : BOOLEAN, vaddr : Nat,
         at : {"user", "mmap_alloc"}, using : {"none", "palloc", "shared"}]
Typed(mem, prs, sh) == mem \in Mem /\ prs \in [Proc -> Slot] /\ sh \in [refcount : Nat, pages : Seq(Page \cup {0})]

\* Where a process maps pages that are not its own alone, the pages that it has
\* outside of its address space, and all pages that it has.
ForeignOf(s) ==
  CASE s.using = "palloc" -> {VA1, VA2}
    [] s.using = "shared" -> Span(s.vaddr, NSHARED)
    [] OTHER -> {}
KeepsOf(s, g) == g = s.kstack \/ g = s.page
OwnOf(s, g) == Own(s.v, ForeignOf(s), g)
SharedOf(sh) == IF sh.refcount > 0 THEN Elems(sh.pages) ELSE {}
OthersOf(prs, p) == {g \in Page : \E q \in Proc : q # p /\ (KeepsOf(prs[q], g) \/ OwnOf(prs[q], g))}
\* What is not in the address space of p.
OutsideOf(prs, sh, p) == {g \in Page : KeepsOf(prs[p], g) \/ g \in SharedOf(sh) \/ g \in OthersOf(prs, p)}
\* The number of pages below the size of a process.
TopOf(s) == PGROUNDUP(s.sz)

Fits(mem, prs, sh, p) ==
  Good(On(mem, prs[p].v, prs[p].sz), ForeignOf(prs[p]), OutsideOf(prs, sh, p), TopOf(prs[p]))
Accounted(mem, prs, sh) == \A p \in Proc : Fits(mem, prs, sh, p)
KeepInv(prs, sh) ==
  /\ \A p, q \in Proc, g \in Page : KeepsOf(prs[p], g) /\ KeepsOf(prs[q], g) => p = q
  /\ \A p \in Proc : prs[p].kstack \in Page => prs[p].kstack # prs[p].page
  /\ \A p \in Proc, g \in Page : KeepsOf(prs[p], g) => g \notin SharedOf(sh)

\* A fact of Fits in terms of pages.
FitsPages(mem, prs, sh, p) ==
  /\ \A g \in Page : g \in mem.free => ~OwnOf(prs[p], g) /\ g \notin OutsideOf(prs, sh, p)
  /\ \A g \in Page : OwnOf(prs[p], g) => g \notin OutsideOf(prs, sh, p)
  /\ ~mem.short => \A g \in Page : g \in mem.free \/ OwnOf(prs[p], g) \/ g \in OutsideOf(prs, sh, p)
FitsRest(mem, s) ==
  /\ ~mem.twice /\ Distinct(s.v, ForeignOf(s)) /\ Tables(s.v)
  /\ ~mem.short => NoZero(s.v) /\ Exact(s.v, ForeignOf(s), TopOf(s))

Running(mem) == mem.panic = ""

LEMMA SlotFields ==
  ASSUME NEW s \in Slot
  PROVE  /\ s.sz \in Nat /\ s.v \in Vm /\ s.kstack \in Page \cup {0} /\ s.page \in Page \cup {0} /\ s.vaddr \in Nat
         /\ s.parent \in Proc \cup {0}
BY DEF Slot

LEMMA FitsParts ==
  ASSUME NEW mem \in Mem, NEW prs \in [Proc -> Slot], NEW sh, NEW p \in Proc, Running(mem)
  PROVE  Fits(mem, prs, sh, p) <=> FitsPages(mem, prs, sh, p) /\ FitsRest(mem, prs[p])
<1> DEFINE s == prs[p]
           x == On(mem, s.v, s.sz)
           F == ForeignOf(s)
           R == OutsideOf(prs, sh, p)
<1>1. s.v \in Vm /\ s.sz \in Nat
  BY SlotFields
<1>2. x \in Work /\ x.m = mem /\ x.v = s.v
  <2> HIDE DEF s
  <2> QED BY <1>1, OnFields
<1>3. \A g : OwnOf(s, g) <=> Own(x.v, F, g)
  BY <1>2 DEF OwnOf
<1> HIDE DEF x
<1>4. Fits(mem, prs, sh, p) <=> Acct(x, F, R) /\ (~mem.short => Exact(s.v, F, TopOf(s)))
  <2>1. Fits(mem, prs, sh, p) <=> Good(x, F, R, TopOf(s))
    BY DEF Fits, x
  <2> HIDE DEF s, F, R
  <2> QED BY <1>2, <2>1 DEF Good, Sound, Running
<1>5. Acct(x, F, R) <=> /\ ~mem.twice /\ Distinct(s.v, F) /\ Tables(s.v)
                        /\ Apart(mem, s.v, F, R) /\ (~mem.short => Covered(mem, s.v, F, R) /\ NoZero(s.v))
  <2> HIDE DEF s, F, R
  <2> QED BY <1>2 DEF Acct
<1>6. Apart(mem, s.v, F, R) <=> /\ \A g \in Page : g \in mem.free => ~OwnOf(s, g) /\ g \notin R
                                /\ \A g \in Page : OwnOf(s, g) => g \notin R
  <2> HIDE DEF s, F, R
  <2> QED BY <1>2, <1>3 DEF Apart
<1>7. Covered(mem, s.v, F, R) <=> \A g \in Page : g \in mem.free \/ OwnOf(s, g) \/ g \in R
  <2> HIDE DEF s, F, R
  <2> QED BY <1>2, <1>3 DEF Covered
<1> QED
  BY <1>4, <1>5, <1>6, <1>7, Zenon DEF FitsPages, FitsRest

\* Process p has changed: the others still fit.
LEMMA Reassemble ==
  ASSUME NEW mem \in Mem, NEW prs \in [Proc -> Slot], NEW sh, Running(mem),
         Accounted(mem, prs, sh), KeepInv(prs, sh),
         NEW mem2 \in Mem, NEW prs2 \in [Proc -> Slot], NEW sh2, Running(mem2), Worse(mem, mem2),
         NEW p \in Proc, \A q \in Proc : q # p => prs2[q] = prs[q],
         Fits(mem2, prs2, sh2, p),
         \A g \in Page : KeepsOf(prs2[p], g) \/ g \in SharedOf(sh2) =>
                           KeepsOf(prs[p], g) \/ g \in SharedOf(sh) \/ g \notin OutsideOf(prs, sh, p),
         \A g \in Page : KeepsOf(prs2[p], g) => g \notin SharedOf(sh2),
         prs2[p].kstack \in Page => prs2[p].kstack # prs2[p].page
  PROVE  Accounted(mem2, prs2, sh2) /\ KeepInv(prs2, sh2)
<1>1. \A q \in Proc : FitsPages(mem, prs, sh, q) /\ FitsRest(mem, prs[q])
  BY FitsParts DEF Accounted
<1>2. FitsPages(mem2, prs2, sh2, p) /\ FitsRest(mem2, prs2[p])
  BY FitsParts
<1>3. ASSUME NEW q \in Proc, NEW g \in Page
      PROVE  g \in OutsideOf(prs, sh, q) <=>
               KeepsOf(prs[q], g) \/ g \in SharedOf(sh) \/
               \E r \in Proc : r # q /\ (KeepsOf(prs[r], g) \/ OwnOf(prs[r], g))
  BY DEF OutsideOf, OthersOf
<1>4. ASSUME NEW q \in Proc, NEW g \in Page
      PROVE  g \in OutsideOf(prs2, sh2, q) <=>
               KeepsOf(prs2[q], g) \/ g \in SharedOf(sh2) \/
               \E r \in Proc : r # q /\ (KeepsOf(prs2[r], g) \/ OwnOf(prs2[r], g))
  BY DEF OutsideOf, OthersOf
\* What p has now that is outside of its address space was nobody else's.
<1>5. ASSUME NEW q \in Proc, q # p, NEW g \in Page, KeepsOf(prs2[p], g) \/ g \in SharedOf(sh2)
      PROVE  ~KeepsOf(prs[q], g) /\ ~OwnOf(prs[q], g)
  <2>1. CASE KeepsOf(prs[p], g)
    <3>1. ~KeepsOf(prs[q], g)
      BY <1>5, <2>1 DEF KeepInv
    <3>2. g \in OutsideOf(prs, sh, q)
      BY <1>3, <1>5, <2>1
    <3> QED BY <1>1, <3>1, <3>2 DEF FitsPages
  <2>2. CASE g \in SharedOf(sh)
    <3>1. ~KeepsOf(prs[q], g)
      BY <2>2 DEF KeepInv
    <3>2. g \in OutsideOf(prs, sh, q)
      BY <1>3, <2>2
    <3> QED BY <1>1, <3>1, <3>2 DEF FitsPages
  <2>3. CASE g \notin OutsideOf(prs, sh, p)
    BY <1>3, <1>5, <2>3
  <2> QED BY <1>5, <2>1, <2>2, <2>3
<1>6. ASSUME NEW q \in Proc, q # p, NEW g \in Page
      PROVE  /\ (KeepsOf(prs[q], g) \/ OwnOf(prs[q], g) => g \in OutsideOf(prs2, sh2, p))
             /\ (g \in OutsideOf(prs2, sh2, q) => g \in OutsideOf(prs2, sh2, p) \/ OwnOf(prs2[p], g))
             /\ (g \in OutsideOf(prs2, sh2, p) \/ OwnOf(prs2[p], g) => g \in OutsideOf(prs2, sh2, q) \/ OwnOf(prs[q], g))
  <2>1. prs2[q] = prs[q]
    BY <1>6
  <2> QED BY <1>4, <1>6, <2>1
<1>7. ASSUME NEW q \in Proc, q # p PROVE FitsPages(mem2, prs2, sh2, q)
  <2>0. prs2[q] = prs[q]
    BY <1>7
  <2>1. ASSUME NEW g \in Page, g \in mem2.free PROVE ~OwnOf(prs[q], g) /\ g \notin OutsideOf(prs2, sh2, q)
    <3>1. g \notin OutsideOf(prs2, sh2, p) /\ ~OwnOf(prs2[p], g)
      BY <1>2, <2>1 DEF FitsPages
    <3> QED BY <1>6, <1>7, <3>1
  <2>2. ASSUME NEW g \in Page, OwnOf(prs[q], g) PROVE g \notin OutsideOf(prs2, sh2, q)
    <3>1. g \in OutsideOf(prs2, sh2, p)
      BY <1>6, <1>7, <2>2
    <3>2. ~OwnOf(prs2[p], g)
      BY <1>2, <3>1 DEF FitsPages
    <3>3. ~KeepsOf(prs2[p], g) /\ g \notin SharedOf(sh2)
      BY <1>5, <1>7, <2>2
    <3>4. g \notin OutsideOf(prs, sh, q)
      BY <1>1, <2>2 DEF FitsPages
    <3>5. ~KeepsOf(prs[q], g) /\ \A r \in Proc : r # q => ~KeepsOf(prs[r], g) /\ ~OwnOf(prs[r], g)
      BY <1>3, <3>4
    <3>6. \A r \in Proc : r # q => ~KeepsOf(prs2[r], g) /\ ~OwnOf(prs2[r], g)
      BY <3>2, <3>3, <3>5
    <3> QED BY <1>4, <2>0, <3>3, <3>5, <3>6
  <2>3. ASSUME ~mem2.short, NEW g \in Page PROVE g \in mem2.free \/ OwnOf(prs[q], g) \/ g \in OutsideOf(prs2, sh2, q)
    <3>1. g \in mem2.free \/ OwnOf(prs2[p], g) \/ g \in OutsideOf(prs2, sh2, p)
      BY <1>2, <2>3 DEF FitsPages
    <3> QED BY <1>6, <1>7, <3>1
  <2> QED BY <2>0, <2>1, <2>2, <2>3 DEF FitsPages
<1>8. ASSUME NEW q \in Proc, q # p PROVE FitsRest(mem2, prs2[q])
  <2>1. prs2[q] = prs[q] /\ FitsRest(mem, prs[q])
    BY <1>1, <1>8
  <2>2. ~mem2.twice
    BY <1>2 DEF FitsRest
  <2>3. ~mem2.short => ~mem.short
    BY DEF Worse
  <2> QED BY <2>1, <2>2, <2>3 DEF FitsRest
<1>9. Accounted(mem2, prs2, sh2)
  BY <1>2, <1>7, <1>8, FitsParts DEF Accounted
<1>10. KeepInv(prs2, sh2)
  <2>1. ASSUME NEW q \in Proc, NEW r \in Proc, NEW g \in Page, KeepsOf(prs2[q], g), KeepsOf(prs2[r], g) PROVE q = r
    <3>1. CASE q # p /\ r # p
      BY <2>1, <3>1 DEF KeepInv
    <3>2. CASE q = p /\ r # p
      <4>1. prs2[r] = prs[r] /\ KeepsOf(prs2[p], g)
        BY <2>1, <3>2
      <4> QED BY <1>5, <2>1, <3>2, <4>1
    <3>3. CASE q # p /\ r = p
      <4>1. prs2[q] = prs[q] /\ KeepsOf(prs2[p], g)
        BY <2>1, <3>3
      <4> QED BY <1>5, <2>1, <3>3, <4>1
    <3> QED BY <3>1, <3>2, <3>3
  <2>2. ASSUME NEW q \in Proc, prs2[q].kstack \in Page PROVE prs2[q].kstack # prs2[q].page
    <3>1. CASE q = p
      BY <2>2, <3>1
    <3>2. CASE q # p
      BY <2>2, <3>2 DEF KeepInv
    <3> QED BY <3>1, <3>2
  <2>3. ASSUME NEW q \in Proc, NEW g \in Page, KeepsOf(prs2[q], g) PROVE g \notin SharedOf(sh2)
    <3>1. CASE q = p
      BY <2>3, <3>1
    <3>2. CASE q # p
      BY <1>5, <2>3, <3>2
    <3> QED BY <3>1, <3>2
  <2> QED BY <2>1, <2>2, <2>3 DEF KeepInv
<1> QED BY <1>9, <1>10

-----------------------------------------------------------------------------
(* The invariant.                                                          *)

\* Both entries of palloc() are the page, or missing when memory is short.
PallocPages(mem, s) ==
  /\ s.v.pte[VA1].pg \in {None, s.page} /\ s.v.pte[VA2].pg \in {None, s.page}
  /\ ~mem.short => s.page # 0 /\ s.v.pte[VA1].pg = s.page /\ s.v.pte[VA2].pg = s.page
SeesShared(mem, sh, s) ==
  ~mem.short => \A i \in 1 .. NSHARED : sh.pages[i] # 0 /\ s.v.pte[s.vaddr + (i - 1)].pg = sh.pages[i]

SlotInv(mem, sh, p, s) ==
  /\ s.sz <= KERNBASE
  /\ s.using # "none" => Below(s.sz)
  /\ s.at = "mmap_alloc" => s.using = "none" /\ p \in Allocators /\ s.st = "run" /\ sh.refcount = 0 /\ Below(s.sz)
  /\ s.st = "unused" => s = Unused
  /\ s.st # "unused" => s.kstack \in Page
  /\ s.using # "palloc" => s.page = 0
  /\ s.using = "palloc" => PallocPages(mem, s)
  /\ s.using = "shared" => s.st = "run" /\ s.shared /\ s.vaddr \in {VA1, VA2} /\ SeesShared(mem, sh, s)

Users(prs) == {p \in Proc : prs[p].using = "shared"}
ShmInv(mem, prs, sh) ==
  /\ sh.refcount = Cardinality(Users(prs))
  /\ sh.refcount > 0 => /\ Len(sh.pages) = NSHARED
                        /\ \A i, j \in 1 .. NSHARED : sh.pages[i] = sh.pages[j] /\ sh.pages[j] \in Page => i = j
                        /\ ~mem.short => \A i \in 1 .. NSHARED : sh.pages[i] # 0

SlotsInv(mem, prs, sh) == \A p \in Proc : SlotInv(mem, sh, p, prs[p])
RunInv(mem, prs, sh) ==
  Accounted(mem, prs, sh) /\ KeepInv(prs, sh) /\ SlotsInv(mem, prs, sh) /\ ShmInv(mem, prs, sh)
InvOf(mem, prs, sh) ==
  /\ Typed(mem, prs, sh)
  /\ ~Running(mem) => mem.short
  /\ Running(mem) => RunInv(mem, prs, sh)
IInv == InvOf(m, pr, shm)

\* The pages that p does not have in its address space when its slot is s.
Beyond(prs, sh, s, p) == {g \in Page : KeepsOf(s, g) \/ g \in SharedOf(sh) \/ g \in OthersOf(prs, p)}
\* What p has outside of its address space afterwards was no other process's.
NewKeeps(prs, sh, s, sh2, p) ==
  /\ \A g \in Page : KeepsOf(s, g) \/ g \in SharedOf(sh2) =>
                       KeepsOf(prs[p], g) \/ g \in SharedOf(sh) \/ g \notin OutsideOf(prs, sh, p)
  /\ \A g \in Page : KeepsOf(s, g) => g \notin SharedOf(sh2)
  /\ s.kstack \in Page => s.kstack # s.page
\* The other processes see the same shared memory.
SharesKept(prs, sh, sh2, p) ==
  \A q \in Proc : q # p => /\ prs[q].using = "shared" => sh2.pages = sh.pages
                           /\ prs[q].at = "mmap_alloc" => sh2.refcount = 0
Shm == [refcount : Nat, pages : Seq(Page \cup {0})]
SlotFits(mem, prs, sh, s, p) == Good(On(mem, s.v, s.sz), ForeignOf(s), Beyond(prs, sh, s, p), TopOf(s))

LEMMA OtherSlot ==
  ASSUME NEW mem, NEW sh, NEW q, NEW s, SlotInv(mem, sh, q, s), NEW mem2, NEW sh2, Worse(mem, mem2),
         s.using = "shared" => sh2.pages = sh.pages,
         s.at = "mmap_alloc" => sh2.refcount = 0
  PROVE  SlotInv(mem2, sh2, q, s)
<1>1. mem.short => mem2.short
  BY DEF Worse
<1>2. s.using = "palloc" => PallocPages(mem2, s)
  BY <1>1 DEF SlotInv, PallocPages
<1>3. s.using = "shared" => SeesShared(mem2, sh2, s)
  BY <1>1 DEF SlotInv, SeesShared
<1> QED BY <1>2, <1>3 DEF SlotInv

\* A step that changes the slot of p, memory and shared memory.
Stepped(mem, prs, sh, mem2, s, prs2, sh2, p) ==
  /\ SlotFits(mem2, prs, sh2, s, p) /\ NewKeeps(prs, sh, s, sh2, p)
  /\ SlotInv(mem2, sh2, p, s) /\ ShmInv(mem2, prs2, sh2) /\ SharesKept(prs, sh, sh2, p)
LEMMA ChangeSlot ==
  ASSUME NEW mem, NEW prs, NEW sh, Typed(mem, prs, sh), Running(mem), RunInv(mem, prs, sh),
         NEW p \in Proc, NEW s \in Slot, NEW mem2 \in Mem, NEW sh2 \in Shm,
         NEW prs2, prs2 = [prs EXCEPT ![p] = s],
         ~Running(mem2) => mem2.short, Worse(mem, mem2),
         Running(mem2) => Stepped(mem, prs, sh, mem2, s, prs2, sh2, p)
  PROVE  InvOf(mem2, prs2, sh2)
<1>1. mem \in Mem /\ prs \in [Proc -> Slot]
  BY DEF Typed
<1>2. prs2 \in [Proc -> Slot] /\ prs2[p] = s /\ \A q \in Proc : q # p => prs2[q] = prs[q]
  BY <1>1
<1>3. Typed(mem2, prs2, sh2)
  BY <1>2 DEF Typed, Shm
<1>4. ASSUME Running(mem2) PROVE RunInv(mem2, prs2, sh2)
  <2>1. Stepped(mem, prs, sh, mem2, s, prs2, sh2, p)
    BY <1>4
  <2>2. OutsideOf(prs2, sh2, p) = Beyond(prs, sh2, s, p)
    <3>1. OthersOf(prs2, p) = OthersOf(prs, p)
      BY <1>2 DEF OthersOf
    <3> QED BY <1>2, <3>1 DEF OutsideOf, Beyond
  <2>3. Fits(mem2, prs2, sh2, p)
    BY <1>2, <2>1, <2>2 DEF Fits, Stepped, SlotFits
  <2>4. Accounted(mem, prs, sh) /\ KeepInv(prs, sh) /\ SlotsInv(mem, prs, sh)
    BY DEF RunInv
  <2>5. /\ \A g \in Page : KeepsOf(prs2[p], g) \/ g \in SharedOf(sh2) =>
                           KeepsOf(prs[p], g) \/ g \in SharedOf(sh) \/ g \notin OutsideOf(prs, sh, p)
        /\ \A g \in Page : KeepsOf(prs2[p], g) => g \notin SharedOf(sh2)
        /\ prs2[p].kstack \in Page => prs2[p].kstack # prs2[p].page
    BY <1>2, <2>1 DEF Stepped, NewKeeps
  <2>6. Accounted(mem2, prs2, sh2) /\ KeepInv(prs2, sh2)
    BY <1>1, <1>2, <1>4, <2>3, <2>4, <2>5, Reassemble
  <2>7. SlotsInv(mem2, prs2, sh2)
    <3> SUFFICES ASSUME NEW q \in Proc PROVE SlotInv(mem2, sh2, q, prs2[q])
      BY DEF SlotsInv
    <3>1. CASE q = p
      BY <1>2, <2>1, <3>1 DEF Stepped
    <3>2. CASE q # p
      <4>1. prs2[q] = prs[q] /\ SlotInv(mem, sh, q, prs[q])
        BY <1>2, <2>4, <3>2 DEF SlotsInv
      <4>2. (prs[q].using = "shared" => sh2.pages = sh.pages) /\ (prs[q].at = "mmap_alloc" => sh2.refcount = 0)
        BY <2>1, <3>2 DEF Stepped, SharesKept
      <4> QED BY <4>1, <4>2, OtherSlot
    <3> QED BY <3>1, <3>2
  <2> QED BY <2>1, <2>6, <2>7 DEF RunInv, Stepped
<1> QED BY <1>3, <1>4 DEF InvOf

\* A step that leaves shared memory alone.
LEMMA ChangeOwn ==
  ASSUME NEW mem, NEW prs, NEW sh, Typed(mem, prs, sh), Running(mem), RunInv(mem, prs, sh),
         NEW p \in Proc, NEW s \in Slot, NEW mem2 \in Mem,
         NEW prs2, prs2 = [prs EXCEPT ![p] = s],
         ~Running(mem2) => mem2.short, Worse(mem, mem2),
         s.using = "shared" <=> prs[p].using = "shared",
         Running(mem2) => /\ SlotFits(mem2, prs, sh, s, p) /\ NewKeeps(prs, sh, s, sh, p)
                          /\ SlotInv(mem2, sh, p, s)
  PROVE  InvOf(mem2, prs2, sh)
<1>1. prs \in [Proc -> Slot] /\ sh \in Shm
  BY DEF Typed, Shm
<1>2. ShmInv(mem, prs, sh) /\ SlotsInv(mem, prs, sh)
  BY DEF RunInv
<1>3. ShmInv(mem2, prs2, sh)
  <2>1. Users(prs2) = Users(prs)
    BY <1>1 DEF Users
  <2>2. mem.short => mem2.short
    BY DEF Worse
  <2> QED BY <1>2, <2>1, <2>2 DEF ShmInv
<1>4. SharesKept(prs, sh, sh, p)
  BY <1>2 DEF SlotsInv, SlotInv, SharesKept
<1>5. Running(mem2) => Stepped(mem, prs, sh, mem2, s, prs2, sh, p)
  BY <1>3, <1>4 DEF Stepped
<1> QED BY <1>1, <1>5, ChangeSlot

\* The facts of a process before a step.
LEMMA Before ==
  ASSUME NEW mem, NEW prs, NEW sh, Typed(mem, prs, sh), Running(mem), RunInv(mem, prs, sh),
         NEW p \in Proc
  PROVE  /\ mem \in Mem /\ sh \in Shm /\ prs[p] \in Slot
         /\ SlotFits(mem, prs, sh, prs[p], p)
         /\ NewKeeps(prs, sh, prs[p], sh, p)
         /\ SlotInv(mem, sh, p, prs[p])
         /\ ShmInv(mem, prs, sh)
         /\ OutsideOf(prs, sh, p) = Beyond(prs, sh, prs[p], p)
<1>1. mem \in Mem /\ sh \in Shm /\ prs[p] \in Slot
  BY DEF Typed, Shm
<1>2. OutsideOf(prs, sh, p) = Beyond(prs, sh, prs[p], p)
  BY DEF OutsideOf, Beyond
<1>3. SlotFits(mem, prs, sh, prs[p], p)
  BY <1>2 DEF RunInv, Accounted, Fits, SlotFits
<1>4. NewKeeps(prs, sh, prs[p], sh, p)
  BY DEF RunInv, KeepInv, NewKeeps
<1>5. SlotInv(mem, sh, p, prs[p]) /\ ShmInv(mem, prs, sh)
  BY DEF RunInv, SlotsInv
<1> QED BY <1>1, <1>2, <1>3, <1>4, <1>5

-----------------------------------------------------------------------------
(* sbrk().                                                                 *)

LEMMA ForeignSame ==
  ASSUME NEW s, NEW s2, s2.using = s.using, s2.vaddr = s.vaddr
  PROVE  ForeignOf(s2) = ForeignOf(s)
BY DEF ForeignOf

LEMMA KeepsSame ==
  ASSUME NEW prs, NEW sh, NEW p, NEW s, NEW s2, s2.kstack = s.kstack, s2.page = s.page
  PROVE  Beyond(prs, sh, s2, p) = Beyond(prs, sh, s, p) /\ (NewKeeps(prs, sh, s, sh, p) => NewKeeps(prs, sh, s2, sh, p))
BY DEF Beyond, NewKeeps, KeepsOf

\* The pages where a process maps pages that are not its own alone.
LEMMA ForeignPages ==
  ASSUME NEW mem, NEW sh, NEW p, NEW s \in Slot, SlotInv(mem, sh, p, s)
  PROVE  /\ ForeignOf(s) \subseteq Va
         /\ s.using = "none" => ForeignOf(s) = {}
         /\ \A a \in ForeignOf(s) : VA1 <= a \/ VA2 <= a
<1>1. {VA1, VA2} \subseteq Va
  BY Sizes DEF Va
<1>2. \A va \in {VA1, VA2} : Span(va, NSHARED) \subseteq Va /\ \A a \in Span(va, NSHARED) : va <= a
  BY Sizes DEF Va, Span
<1>3. CASE s.using = "none"
  BY <1>3 DEF ForeignOf
<1>4. CASE s.using = "palloc"
  <2>1. ForeignOf(s) = {VA1, VA2}
    BY <1>4 DEF ForeignOf
  <2>2. \A a \in {VA1, VA2} : VA1 <= a \/ VA2 <= a
    BY Sizes
  <2> QED BY <1>1, <1>4, <2>1, <2>2
<1>5. CASE s.using = "shared"
  <2>1. ForeignOf(s) = Span(s.vaddr, NSHARED) /\ s.vaddr \in {VA1, VA2}
    BY <1>5 DEF ForeignOf, SlotInv
  <2>2. ForeignOf(s) \subseteq Va
    BY <1>2, <2>1
  <2>3. \A a \in ForeignOf(s) : VA1 <= a \/ VA2 <= a
    BY <1>2, <2>1
  <2> QED BY <1>5, <2>2, <2>3
<1> QED BY <1>3, <1>4, <1>5 DEF Slot

LEMMA BelowForeign ==
  ASSUME NEW mem, NEW sh, NEW p, NEW s \in Slot, SlotInv(mem, sh, p, s), NEW n \in Nat,
         s.using # "none" => Below(n)
  PROVE  \A a \in ForeignOf(s) : PGROUNDUP(n) <= a
<1> SUFFICES ASSUME NEW a \in ForeignOf(s) PROVE PGROUNDUP(n) <= a
  OBVIOUS
<1>1. a \in Va /\ s.using # "none" /\ (VA1 <= a \/ VA2 <= a)
  BY ForeignPages
<1>2. PGROUNDUP(n) <= VA1 /\ PGROUNDUP(n) <= VA2
  BY <1>1 DEF Below
<1>3. PGROUNDUP(n) \in Nat /\ VA1 \in Nat /\ VA2 \in Nat /\ a \in Nat
  BY <1>1, Rounded, Sizes, VaNat
<1> QED BY <1>1, <1>2, <1>3

LEMMA UintNat ==
  \A n \in Int : Uint(n) \in Nat
<1>1. KERNBASE \in Nat \ {0}
  BY Sizes, Kern DEF KERNBASE
<1>2. 2 * KERNBASE \in Nat \ {0}
  BY <1>1
<1> SUFFICES ASSUME NEW n \in Int PROVE Uint(n) \in Nat
  OBVIOUS
<1> DEFINE d == 2 * KERNBASE
<1>3. d \in Nat \ {0}
  BY <1>2
<1>4. Uint(n) = n % d
  BY DEF Uint
<1> HIDE DEF d
<1>5. n % d \in 0 .. d - 1
  BY <1>3, DivDef
<1> QED BY <1>3, <1>4, <1>5

ResizedSlot(s, v, sz) == [s EXCEPT !.v = v, !.sz = sz]
LEMMA ResizedFields ==
  ASSUME NEW s \in Slot, NEW v \in Vm, NEW sz \in Nat, NEW s2, s2 = ResizedSlot(s, v, sz)
  PROVE  /\ s2 \in Slot /\ s2.v = v /\ s2.sz = sz /\ s2.at = s.at
         /\ s2.st = s.st /\ s2.kstack = s.kstack /\ s2.page = s.page /\ s2.shared = s.shared
         /\ s2.vaddr = s.vaddr /\ s2.using = s.using
BY DEF ResizedSlot, Slot

\* Entries at the places of pages that are not its own are left alone.
LEMMA ResizedInv ==
  ASSUME NEW mem, NEW sh, NEW p, NEW s \in Slot, SlotInv(mem, sh, p, s), s.st = "run",
         NEW mem2, Worse(mem, mem2),
         NEW s2, s2.st = s.st, s2.kstack = s.kstack, s2.page = s.page, s2.shared = s.shared,
         s2.vaddr = s.vaddr, s2.using = s.using, s2.at # "mmap_alloc", s2.sz <= KERNBASE,
         s2.using # "none" => Below(s2.sz),
         \A b \in ForeignOf(s) : s2.v.pte[b] = s.v.pte[b]
  PROVE  SlotInv(mem2, sh, p, s2)
<1>1. mem.short => mem2.short
  BY DEF Worse
<1>2. ASSUME s2.using = "palloc" PROVE PallocPages(mem2, s2)
  <2>1. ForeignOf(s) = {VA1, VA2}
    BY <1>2 DEF ForeignOf
  <2>2. s2.v.pte[VA1] = s.v.pte[VA1] /\ s2.v.pte[VA2] = s.v.pte[VA2]
    BY <2>1
  <2>3. PallocPages(mem, s)
    BY <1>2 DEF SlotInv
  <2> QED BY <1>1, <2>2, <2>3 DEF PallocPages
<1>3. ASSUME s2.using = "shared" PROVE SeesShared(mem2, sh, s2)
  <2>1. ForeignOf(s) = Span(s.vaddr, NSHARED)
    BY <1>3 DEF ForeignOf
  <2>2. \A i \in 1 .. NSHARED : s.vaddr + (i - 1) \in Span(s.vaddr, NSHARED)
    BY Sizes DEF Span
  <2>3. SeesShared(mem, sh, s)
    BY <1>3 DEF SlotInv
  <2> QED BY <1>1, <2>1, <2>2, <2>3 DEF SeesShared
<1> QED BY <1>2, <1>3 DEF SlotInv

\* What allocuvm() and deallocuvm() leave of x in y.
SbrkDone(x, y, s, R) ==
  /\ Good(y, ForeignOf(s), R, PGROUNDUP(y.sz)) /\ y.sz <= KERNBASE /\ Later(x, y)
  /\ \A b \in ForeignOf(s) : y.v.pte[b] = x.v.pte[b]
  /\ ~y.ok => y.sz = x.sz
  /\ y.ok /\ s.using # "none" => Below(y.sz)
SbrkAllowed(s, newsz) == s.using # "none" => Below(newsz) \/ newsz >= KERNBASE

LEMMA SbrkGrow ==
  ASSUME NEW mem, NEW sh, NEW p, NEW s \in Slot, SlotInv(mem, sh, p, s), NEW R, NEW x,
         Good(x, ForeignOf(s), R, PGROUNDUP(x.sz)), x.ok, x.sz = s.sz, NEW newsz \in Nat,
         SbrkAllowed(s, newsz), NEW y, y = allocuvm(x, newsz)
  PROVE  SbrkDone(x, y, s, R)
<1> DEFINE F == ForeignOf(s)
<1>0. s.sz \in Nat /\ KERNBASE \in Nat
  BY SlotFields, Kern
<1>1. x.sz <= KERNBASE
  BY DEF SlotInv
<1>2. newsz < KERNBASE => (s.using # "none" => Below(newsz))
  BY <1>0 DEF SbrkAllowed
<1>3. newsz < KERNBASE => \A a \in Va : a \in F => PGROUNDUP(newsz) <= a
  BY <1>2, BelowForeign
<1>4. Alloced(x, y, F, R, newsz)
  <2> HIDE DEF F
  <2> QED BY <1>1, <1>3, Allocuvm DEF F
<1>5. F \subseteq Va
  BY ForeignPages
<1>6. newsz < KERNBASE /\ newsz < x.sz => y.sz = x.sz
  <2>1. newsz < KERNBASE /\ newsz < x.sz => ~(newsz >= KERNBASE)
    BY <1>0
  <2>2. newsz < KERNBASE /\ newsz < x.sz => allocuvm(x, newsz) = x
    BY <2>1, Zenon DEF allocuvm
  <2> QED BY <2>2
<1>7. ASSUME y.ok, s.using # "none" PROVE Below(y.sz)
  <2>1. newsz < KERNBASE /\ (x.sz <= newsz => y.sz = newsz)
    BY <1>4, <1>7 DEF Alloced
  <2>2. y.sz = x.sz \/ y.sz = newsz
    BY <1>0, <1>6, <2>1
  <2>3. Below(newsz) /\ Below(x.sz)
    BY <1>2, <1>7, <2>1 DEF SlotInv
  <2> QED BY <2>2, <2>3
<1> HIDE DEF F
<1>8. \A b \in F : y.v.pte[b] = x.v.pte[b]
  BY <1>4, <1>5 DEF Alloced
<1> QED BY <1>4, <1>7, <1>8 DEF Alloced, SbrkDone, F

Shrunk(x, y, F, R, newsz) ==
  /\ Good(y, F, R, PGROUNDUP(newsz)) /\ y.sz = newsz /\ y.ok = x.ok /\ Later(x, y)
  /\ \A b \in Va : b \in F => y.v.pte[b] = x.v.pte[b]
LEMMA Shrink ==
  ASSUME NEW x, NEW F, NEW R, x.sz \in Nat, Good(x, F, R, PGROUNDUP(x.sz)), NEW newsz \in Nat, newsz < x.sz,
         x.sz <= KERNBASE, \A a \in Va : a \in F => PGROUNDUP(x.sz) <= a,
         NEW y, y = deallocuvm(x, newsz)
  PROVE  Shrunk(x, y, F, R, newsz)
<1>1. newsz <= x.sz /\ PGROUNDUP(newsz) <= PGROUNDUP(x.sz) /\ PGROUNDUP(x.sz) \in Nat
      /\ PGROUNDUP(x.sz) <= PGROUNDUP(x.sz)
  BY RoundMono, Rounded
<1>2. /\ Good(y, F, R, PGROUNDUP(newsz)) /\ y.sz = newsz /\ y.ok = x.ok /\ Later(x, y)
      /\ \A b \in Va : b \in F => y.v.pte[b] = x.v.pte[b]
  BY <1>1, Dealloc
<1> QED BY <1>2 DEF Shrunk

LEMMA SbrkShrink ==
  ASSUME NEW mem, NEW sh, NEW p, NEW s \in Slot, SlotInv(mem, sh, p, s), NEW R, NEW x,
         Good(x, ForeignOf(s), R, PGROUNDUP(x.sz)), x.ok, x.sz = s.sz, NEW newsz \in Nat,
         SbrkAllowed(s, newsz), NEW y, y = deallocuvm(x, newsz)
  PROVE  SbrkDone(x, y, s, R)
<1> DEFINE F == ForeignOf(s)
<1>0. s.sz \in Nat /\ KERNBASE \in Nat /\ x.sz \in Nat
  BY SlotFields, Kern
<1>1. x.sz <= KERNBASE /\ (s.using # "none" => Below(x.sz))
  BY DEF SlotInv
<1>2. \A a \in Va : a \in F => PGROUNDUP(x.sz) <= a
  BY <1>0, <1>1, BelowForeign
<1>3. F \subseteq Va
  BY ForeignPages
<1>4. CASE newsz >= x.sz
  <2>1. y = x
    BY <1>4, Zenon DEF deallocuvm
  <2> QED BY <1>1, <2>1, LaterSelf DEF SbrkDone
<1>5. CASE newsz < x.sz
  <2>1. newsz <= x.sz /\ PGROUNDUP(newsz) <= PGROUNDUP(x.sz) /\ PGROUNDUP(x.sz) \in Nat
        /\ PGROUNDUP(x.sz) <= PGROUNDUP(x.sz)
    BY <1>0, <1>5, RoundMono, Rounded
  <2>2. /\ Good(y, F, R, PGROUNDUP(newsz)) /\ y.sz = newsz /\ y.ok = x.ok /\ Later(x, y)
        /\ \A b \in Va : b \in F => y.v.pte[b] = x.v.pte[b]
    <3>1. x.sz \in Nat /\ newsz < x.sz /\ x.sz <= KERNBASE
      BY <1>0, <1>1, <1>5
    <3>2. Shrunk(x, y, F, R, newsz)
      BY <1>2, <3>1, Shrink
    <3> QED BY <3>2 DEF Shrunk
  <2>3. y.sz <= KERNBASE /\ newsz < KERNBASE
    BY <1>0, <1>1, <1>5, <2>2
  <2>4. s.using # "none" => Below(y.sz)
    BY <1>0, <2>2, <2>3 DEF SbrkAllowed
  <2> QED BY <1>3, <2>2, <2>3, <2>4 DEF SbrkDone
<1> QED BY <1>0, <1>4, <1>5

LEMMA GoodOn ==
  ASSUME NEW y, NEW F, NEW R, NEW n, Good(y, F, R, n), NEW sz \in Nat
  PROVE  Good(On(y.m, y.v, sz), F, R, n)
<1>1. y \in Work
  BY DEF Good, Sound
<1>2. y.m \in Mem /\ y.v \in Vm
  BY <1>1, WorkFields
<1>3. On(y.m, y.v, sz) \in Work /\ On(y.m, y.v, sz).m = y.m /\ On(y.m, y.v, sz).v = y.v
  BY <1>2, OnFields
<1> DEFINE z == On(y.m, y.v, sz)
<1> HIDE DEF z
<1> QED BY <1>3, SameGood DEF z

LEMMA GoodMem ==
  ASSUME NEW y, NEW F, NEW R, NEW n, Good(y, F, R, n)
  PROVE  y.m \in Mem /\ y.v \in Vm /\ y.sz \in Nat /\ (~Running(y.m) => y.m.short)
BY WorkFields DEF Good, Sound, Running

\* What growproc() leaves: when it has removed all memory, sz is as before.
Holed(y) == IF Emptied(y) THEN Short(y).m ELSE y.m
Grown(s, y) == ResizedSlot(s, y.v, IF y.ok /\ y.sz > 0 THEN y.sz ELSE s.sz)

LEMMA HoledGood ==
  ASSUME NEW y, NEW F, NEW R, NEW n, Good(y, F, R, n), NEW sz \in Nat, NEW k, ~Emptied(y) => k = n,
         NEW mem2, mem2 = Holed(y)
  PROVE  /\ Good(On(mem2, y.v, sz), F, R, k) /\ Worse(y.m, mem2)
         /\ mem2 \in Mem /\ (~Running(mem2) => mem2.short)
<1>1. y \in Work /\ y.m \in Mem /\ y.v \in Vm /\ (~Running(y.m) => y.m.short)
  BY GoodMem DEF Good, Sound
<1>2. CASE ~Emptied(y)
  <2>1. mem2 = y.m /\ k = n
    BY <1>2 DEF Holed
  <2> QED BY <1>1, <2>1, GoodOn DEF Worse
<1>3. CASE Emptied(y)
  <2> DEFINE z == Short(y)
  <2>1. mem2 = z.m
    BY <1>3 DEF Holed
  <2>2. /\ z \in Work /\ z.v = y.v /\ z.m \in Mem /\ z.m.short
        /\ z.m.free = y.m.free /\ z.m.twice = y.m.twice /\ z.m.panic = y.m.panic
    BY <1>1, ShortFields
  <2> HIDE DEF z
  <2>3. z.m.panic = "" => Acct(z, F, R)
    <3>1. y.m.panic = "" => Acct(y, F, R)
      BY DEF Good, Sound
    <3> QED BY <2>2, <3>1 DEF Acct, Apart
  <2>4. Good(z, F, R, k)
    BY <2>2, <2>3 DEF Good, Sound
  <2>5. Good(On(z.m, z.v, sz), F, R, k)
    BY <2>4, GoodOn
  <2> QED BY <2>1, <2>2, <2>5 DEF Worse
<1> QED BY <1>2, <1>3

\* growproc().
LEMMA SbrkEnd ==
  ASSUME NEW mem, NEW prs, NEW sh, Typed(mem, prs, sh), Running(mem), RunInv(mem, prs, sh),
         NEW p \in Proc, NEW s, s = prs[p], s.st = "run", s.at = "user",
         NEW x, x = On(mem, s.v, s.sz), NEW y, SbrkDone(x, y, s, OutsideOf(prs, sh, p)),
         NEW s2, s2 = Grown(s, y), NEW mem2, mem2 = Holed(y),
         NEW prs2, prs2 = [prs EXCEPT ![p] = s2]
  PROVE  InvOf(mem2, prs2, sh)
<1> DEFINE sz == IF y.ok /\ y.sz > 0 THEN y.sz ELSE s.sz
           R == OutsideOf(prs, sh, p)
           F == ForeignOf(s)
<1>1. /\ mem \in Mem /\ s \in Slot /\ SlotInv(mem, sh, p, s) /\ NewKeeps(prs, sh, s, sh, p)
      /\ R = Beyond(prs, sh, s, p)
  BY Before
<1>2. s.v \in Vm /\ s.sz \in Nat /\ s.sz <= KERNBASE
  BY <1>1, SlotFields DEF SlotInv
<1>3. x.m = mem /\ x.v = s.v /\ x.sz = s.sz
  BY <1>1, <1>2, OnFields
<1>4. Good(y, F, R, PGROUNDUP(y.sz)) /\ y.sz <= KERNBASE /\ Worse(mem, y.m)
  BY <1>3, LaterWorse DEF SbrkDone
<1>5. y.m \in Mem /\ y.v \in Vm /\ y.sz \in Nat /\ (~Running(y.m) => y.m.short)
  BY <1>4, GoodMem
<1>6. sz \in Nat /\ sz <= KERNBASE /\ (~Emptied(y) => sz = y.sz)
  <2>1. ~y.ok => y.sz = x.sz
    BY DEF SbrkDone
  <2>2. CASE ~y.ok
    BY <1>2, <1>3, <2>1, <2>2
  <2>3. CASE y.ok /\ y.sz = 0
    BY <1>2, <2>3 DEF Emptied
  <2>4. CASE y.ok /\ y.sz # 0
    BY <1>4, <1>5, <2>4
  <2> QED BY <2>2, <2>3, <2>4
<1>7. s.using # "none" => Below(sz)
  <2>1. s.using # "none" => Below(s.sz)
    BY <1>1 DEF SlotInv
  <2>2. y.ok /\ s.using # "none" => Below(y.sz)
    BY DEF SbrkDone
  <2> QED BY <2>1, <2>2
<1>8. s2 = ResizedSlot(s, y.v, sz)
  BY DEF Grown
<1> HIDE DEF sz, R, F
<1>9. /\ s2 \in Slot /\ s2.v = y.v /\ s2.sz = sz /\ s2.at = s.at
      /\ s2.st = s.st /\ s2.kstack = s.kstack /\ s2.page = s.page /\ s2.shared = s.shared
      /\ s2.vaddr = s.vaddr /\ s2.using = s.using
  BY <1>1, <1>5, <1>6, <1>8, ResizedFields
<1>10. ForeignOf(s2) = F
  BY <1>9, ForeignSame DEF F
<1>11. Beyond(prs, sh, s2, p) = R /\ NewKeeps(prs, sh, s2, sh, p)
  BY <1>1, <1>9, KeepsSame
<1>12. /\ Good(On(mem2, y.v, sz), F, R, PGROUNDUP(sz)) /\ Worse(y.m, mem2)
       /\ mem2 \in Mem /\ (~Running(mem2) => mem2.short)
  BY <1>4, <1>6, HoledGood
<1>13. Worse(mem, mem2)
  BY <1>4, <1>12, WorseWorse
<1>14. SlotInv(mem2, sh, p, s2)
  <2>1. \A b \in ForeignOf(s) : s2.v.pte[b] = s.v.pte[b]
    BY <1>3, <1>9 DEF SbrkDone
  <2>2. s2.at # "mmap_alloc" /\ s2.sz <= KERNBASE /\ (s2.using # "none" => Below(s2.sz))
    BY <1>6, <1>7, <1>9
  <2> QED BY <1>1, <1>13, <1>9, <2>1, <2>2, ResizedInv
<1>15. SlotFits(mem2, prs, sh, s2, p)
  BY <1>9, <1>10, <1>11, <1>12 DEF SlotFits, TopOf
<1>16. s2.using = "shared" <=> prs[p].using = "shared"
  BY <1>9
<1> QED BY <1>9, <1>11, <1>12, <1>13, <1>14, <1>15, <1>16, ChangeOwn, ZenonT(30)

LEMMA SbrkStep ==
  ASSUME IInv, NEW p \in Proc, NEW n \in Grows \cup {-pr[p].sz}, Sbrk(p, n)
  PROVE  IInv'
<1> DEFINE s == pr[p]
           x == On(m, s.v, s.sz)
           newsz == Uint(s.sz + n)
           R == OutsideOf(pr, shm, p)
<1>1. Running(m) /\ s.st = "run" /\ s.at = "user" /\ SbrkAllowed(s, newsz) /\ shm' = shm
  BY DEF Sbrk, Runs, Running, SbrkAllowed
<1>2. Typed(m, pr, shm) /\ RunInv(m, pr, shm)
  BY <1>1 DEF IInv, InvOf
<1>3. /\ m \in Mem /\ s \in Slot /\ SlotFits(m, pr, shm, s, p) /\ SlotInv(m, shm, p, s) /\ R = Beyond(pr, shm, s, p)
  BY <1>1, <1>2, Before
<1>4. s.v \in Vm /\ s.sz \in Nat
  BY <1>3, SlotFields
<1>5. newsz \in Nat
  <2>1. Grows \subseteq Int
    BY MemoryAssumption
  <2>2. s.sz + n \in Int
    BY <1>4, <2>1
  <2> QED BY <2>2, UintNat
<1>6. x \in Work /\ x.m = m /\ x.v = s.v /\ x.sz = s.sz /\ x.ok
  <2> HIDE DEF s
  <2> QED BY <1>3, <1>4, OnFields
<1>7. Good(x, ForeignOf(s), R, PGROUNDUP(x.sz))
  <2>1. TopOf(s) = PGROUNDUP(x.sz)
    BY <1>1, <1>6 DEF TopOf
  <2> QED BY <1>3, <2>1 DEF SlotFits
<1>8. PICK y : SbrkDone(x, y, s, R) /\ Resized(p, y)
  <2>1. Self(p) = x
    BY DEF Self
  <2>2. CASE n > 0 /\ Resized(p, allocuvm(Self(p), Uint(pr[p].sz + n)))
    <3> DEFINE y == allocuvm(x, newsz)
    <3>1. Resized(p, y)
      BY <2>1, <2>2
    <3> HIDE DEF y, x, s, newsz, R
    <3>2. SbrkDone(x, y, s, R)
      BY <1>1, <1>3, <1>5, <1>6, <1>7, SbrkGrow DEF y
    <3> QED BY <3>1, <3>2
  <2>3. CASE n < 0 /\ Resized(p, deallocuvm(Self(p), Uint(pr[p].sz + n)))
    <3> DEFINE y == deallocuvm(x, newsz)
    <3>1. Resized(p, y)
      BY <2>1, <2>3
    <3> HIDE DEF y, x, s, newsz, R
    <3>2. SbrkDone(x, y, s, R)
      BY <1>1, <1>3, <1>5, <1>6, <1>7, SbrkShrink DEF y
    <3> QED BY <3>1, <3>2
  <2> QED BY <2>2, <2>3 DEF Sbrk
<1> DEFINE s2 == Grown(s, y)
<1>9. m' = Holed(y) /\ pr' = [pr EXCEPT ![p] = s2]
  <2>1. m' = Holed(y)
    BY <1>8 DEF Resized, Holed
  <2>2. pr \in [Proc -> Slot]
    BY <1>2 DEF Typed
  <2>3. pr' = [pr EXCEPT ![p].v = y.v, ![p].sz = IF y.ok /\ y.sz > 0 THEN y.sz ELSE pr[p].sz]
    BY <1>8 DEF Resized
  <2>4. pr' = [pr EXCEPT ![p] = s2]
    BY <1>1, <2>2, <2>3 DEF ResizedSlot, Grown
  <2> QED BY <2>1, <2>4
<1>10. InvOf(m', pr', shm)
  <2>1. InvOf(Holed(y), pr', shm)
    BY <1>1, <1>2, <1>8, <1>9, SbrkEnd, ZenonT(30)
  <2> QED BY <1>9, <2>1
<1> QED BY <1>1, <1>10 DEF IInv

-----------------------------------------------------------------------------
(* exec().                                                                 *)

\* An address space set aside: its pages are not free and belong to it.
OwnPages(v, F) == {g \in Page : Own(v, F, g)}
VmFits(mem, v, F, R, n) ==
  /\ Distinct(v, F) /\ Tables(v) /\ \A g \in OwnPages(v, F) : g \notin R
  /\ ~mem.short => NoZero(v) /\ Exact(v, F, n)

LEMMA Fitted ==
  ASSUME NEW x, NEW F, NEW R, NEW n, Good(x, F, R, n), Running(x.m)
  PROVE  VmFits(x.m, x.v, F, R, n)
<1>1. Acct(x, F, R) /\ (~x.m.short => Exact(x.v, F, n))
  BY DEF Good, Sound, Running
<1> QED BY <1>1 DEF Acct, Apart, VmFits, OwnPages

LEMMA FittedWorse ==
  ASSUME NEW mem, NEW v, NEW F, NEW R, NEW n, VmFits(mem, v, F, R, n), NEW mem2, Worse(mem, mem2)
  PROVE  VmFits(mem2, v, F, R, n)
BY DEF VmFits, Worse

LEMMA Aside ==
  ASSUME NEW x, NEW F, NEW R, NEW n, Good(x, F, R, n)
  PROVE  FreeOnly(x.m, R \cup OwnPages(x.v, F))
<1>1. x.m \in Mem /\ (x.m.panic # "" => x.m.short)
  BY GoodMem DEF Running, Good, Sound
<1>2. x.m.panic = "" => Acct(x, F, R)
  BY DEF Good, Sound
<1>3. Acct(x, F, R) => /\ ~x.m.twice
                       /\ \A g \in Page : g \in x.m.free => g \notin R \cup OwnPages(x.v, F)
                       /\ ~x.m.short => \A g \in Page : g \in x.m.free \/ g \in R \cup OwnPages(x.v, F)
  BY DEF Acct, Apart, Covered, OwnPages
<1> QED BY <1>1, <1>2, <1>3 DEF FreeOnly

LEMMA Restore ==
  ASSUME NEW mem, NEW v, NEW F, NEW R, NEW n, FreeOnly(mem, R \cup OwnPages(v, F)),
         Running(mem) => VmFits(mem, v, F, R, n), NEW x \in Work, x.m = mem, x.v = v
  PROVE  Good(x, F, R, n)
<1>1. x.m.panic # "" => x.m.short
  BY DEF FreeOnly
<1> DEFINE Fine == /\ ~mem.twice
                   /\ \A g \in Page : g \in mem.free => g \notin R \cup OwnPages(v, F)
                   /\ ~mem.short => \A g \in Page : g \in mem.free \/ g \in R \cup OwnPages(v, F)
<1>2. x.m.panic = "" => Fine /\ VmFits(mem, v, F, R, n)
  BY DEF FreeOnly, Running
<1>3. Fine /\ VmFits(mem, v, F, R, n) => Acct(x, F, R)
  BY DEF Acct, Apart, Covered, OwnPages, VmFits
<1>4. Fine /\ VmFits(mem, v, F, R, n) => (~x.m.short => Exact(x.v, F, n))
  BY DEF VmFits
<1> QED BY <1>1, <1>2, <1>3, <1>4 DEF Good, Sound

\* The old address space goes after the new one, y, is complete.
LEMMA Replace ==
  ASSUME NEW mem, NEW v \in Vm, NEW R, NEW n, VmFits(mem, v, {}, R, n), NEW sz \in Nat,
         NEW y, NEW k, Good(y, {}, R \cup OwnPages(v, {}), k), Worse(mem, y.m),
         NEW mem2, mem2 = freevm(y.m, v), NEW ysz \in Nat
  PROVE  Good(On(mem2, y.v, ysz), {}, R, k) /\ Worse(y.m, mem2)
<1> DEFINE O == OwnPages(y.v, {})
           x == On(y.m, v, sz)
<1>1. y.m \in Mem /\ y.v \in Vm /\ (~Running(y.m) => y.m.short)
  BY GoodMem
<1>2. x \in Work /\ x.m = y.m /\ x.v = v
  BY <1>1, OnFields
<1>3. FreeOnly(y.m, (R \cup O) \cup OwnPages(v, {}))
  <2>1. FreeOnly(y.m, (R \cup OwnPages(v, {})) \cup O)
    BY Aside
  <2>2. (R \cup OwnPages(v, {})) \cup O = (R \cup O) \cup OwnPages(v, {})
    OBVIOUS
  <2> QED BY <2>1, <2>2
<1>4. Running(y.m) => VmFits(y.m, v, {}, R \cup O, n)
  <2>1. VmFits(y.m, v, {}, R, n)
    BY FittedWorse
  <2>2. Running(y.m) => VmFits(y.m, y.v, {}, R \cup OwnPages(v, {}), k)
    BY Fitted
  <2> QED BY <2>1, <2>2 DEF VmFits
<1>5. Good(x, {}, R \cup O, n)
  <2> HIDE DEF x, O
  <2> QED BY <1>2, <1>3, <1>4, Restore
<1>6. FreeOnly(mem2, R \cup O) /\ Worse(y.m, mem2)
  <2>1. Sound(On(y.m, v, sz), {}, R \cup O)
    BY <1>5 DEF Good
  <2>2. /\ FreeOnly(mem2, R \cup O)
        /\ (y.m.short => mem2.short) /\ (y.m.panic # "" => mem2.panic # "")
    <3> HIDE DEF O
    <3> QED BY <1>1, <2>1, Freevm
  <2> QED BY <2>2 DEF Worse
<1>7. Running(mem2) => VmFits(mem2, y.v, {}, R, k)
  <2>1. Running(mem2) => Running(y.m)
    BY <1>6 DEF Running, Worse
  <2>2. Running(y.m) => VmFits(y.m, y.v, {}, R \cup OwnPages(v, {}), k)
    BY Fitted
  <2>3. VmFits(y.m, y.v, {}, R \cup OwnPages(v, {}), k) => VmFits(y.m, y.v, {}, R, k)
    BY DEF VmFits
  <2> QED BY <1>6, <2>1, <2>2, <2>3, FittedWorse
<1>8. mem2 \in Mem
  BY <1>6 DEF FreeOnly
<1> DEFINE z == On(mem2, y.v, ysz)
<1>9. z \in Work /\ z.m = mem2 /\ z.v = y.v
  BY <1>1, <1>8, OnFields
<1>10. Good(z, {}, R, k)
  <2> HIDE DEF z
  <2> QED BY <1>6, <1>7, <1>9, Restore
<1> QED BY <1>6, <1>10

\* Only memory has changed, and the slot of p fits it.
LEMMA SlotAgain ==
  ASSUME NEW mem, NEW prs, NEW sh, Typed(mem, prs, sh), Running(mem), RunInv(mem, prs, sh),
         NEW p \in Proc, NEW mem2 \in Mem, ~Running(mem2) => mem2.short, Worse(mem, mem2),
         Running(mem2) => SlotFits(mem2, prs, sh, prs[p], p)
  PROVE  InvOf(mem2, prs, sh)
<1> DEFINE s == prs[p]
<1>1. s \in Slot /\ NewKeeps(prs, sh, s, sh, p) /\ SlotInv(mem, sh, p, s)
  BY Before
<1>2. prs = [prs EXCEPT ![p] = s]
  BY DEF Typed
<1>3. SlotInv(mem2, sh, p, s)
  <2>1. s.at = "mmap_alloc" => sh.refcount = 0
    BY <1>1 DEF SlotInv
  <2> QED BY <1>1, <2>1, OtherSlot
<1>4. s.using = "shared" <=> prs[p].using = "shared"
  OBVIOUS
<1> QED BY <1>1, <1>2, <1>3, <1>4, ChangeOwn, ZenonT(30)

\* A new address space.
LEMMA NewVm ==
  ASSUME NEW mem, NEW prs, NEW sh, Typed(mem, prs, sh), Running(mem), RunInv(mem, prs, sh),
         NEW p \in Proc, NEW s, s = prs[p], s.st = "run", s.at = "user", s.using = "none",
         NEW mem2 \in Mem, ~Running(mem2) => mem2.short, Worse(mem, mem2), NEW v \in Vm, NEW sz \in Nat,
         Good(On(mem2, v, sz), {}, OutsideOf(prs, sh, p), PGROUNDUP(sz)), sz <= KERNBASE,
         NEW s2, s2 = ResizedSlot(s, v, sz), NEW prs2, prs2 = [prs EXCEPT ![p] = s2]
  PROVE  InvOf(mem2, prs2, sh)
<1> DEFINE R == OutsideOf(prs, sh, p)
<1>1. /\ s \in Slot /\ SlotInv(mem, sh, p, s) /\ NewKeeps(prs, sh, s, sh, p) /\ R = Beyond(prs, sh, s, p)
  BY Before
<1>2. ForeignOf(s) = {}
  BY <1>1, ForeignPages
<1>3. /\ s2 \in Slot /\ s2.v = v /\ s2.sz = sz /\ s2.at = s.at
      /\ s2.st = s.st /\ s2.kstack = s.kstack /\ s2.page = s.page /\ s2.shared = s.shared
      /\ s2.vaddr = s.vaddr /\ s2.using = s.using
  BY <1>1, ResizedFields
<1>4. ForeignOf(s2) = {} /\ TopOf(s2) = PGROUNDUP(sz)
  BY <1>2, <1>3, ForeignSame DEF TopOf
<1>5. Beyond(prs, sh, s2, p) = R /\ NewKeeps(prs, sh, s2, sh, p)
  BY <1>1, <1>3, KeepsSame
<1>6. SlotFits(mem2, prs, sh, s2, p)
  BY <1>3, <1>4, <1>5 DEF SlotFits
<1>7. SlotInv(mem2, sh, p, s2)
  <2>1. \A b \in ForeignOf(s) : s2.v.pte[b] = s.v.pte[b]
    BY <1>2
  <2>2. s2.at # "mmap_alloc" /\ s2.sz <= KERNBASE /\ (s2.using # "none" => Below(s2.sz))
    BY <1>3
  <2> QED BY <1>1, <1>3, <2>1, <2>2, ResizedInv
<1>8. s2.using = "shared" <=> prs[p].using = "shared"
  BY <1>3
<1> QED BY <1>3, <1>5, <1>6, <1>7, <1>8, ChangeOwn, ZenonT(30)

LEMMA ExecStep ==
  ASSUME IInv, NEW p \in Proc, NEW segs \in Images, NEW n \in 1 .. MAXARGS, Exec(p, segs, n)
  PROVE  IInv'
<1> DEFINE s == pr[p]
           x == On(m, s.v, s.sz)
           R == OutsideOf(pr, shm, p)
           y == Image(m, segs, n)
           k == PGROUNDUP(s.sz)
<1>1. Running(m) /\ s.st = "run" /\ s.at = "user" /\ s.using = "none" /\ shm' = shm /\ ExecDone(p, y)
  BY DEF Exec, Runs, Running
<1>2. Typed(m, pr, shm) /\ RunInv(m, pr, shm)
  BY <1>1 DEF IInv, InvOf
<1>3. /\ m \in Mem /\ s \in Slot /\ SlotFits(m, pr, shm, s, p) /\ SlotInv(m, shm, p, s) /\ R = Beyond(pr, shm, s, p)
  BY <1>1, <1>2, Before
<1>4. s.v \in Vm /\ s.sz \in Nat
  BY <1>3, SlotFields
<1>5. ForeignOf(s) = {} /\ TopOf(s) = k
  BY <1>1, <1>3, ForeignPages DEF TopOf
<1>6. x \in Work /\ x.m = m /\ x.v = s.v /\ x.sz = s.sz /\ x.ok
  <2> HIDE DEF s
  <2> QED BY <1>3, <1>4, OnFields
<1>7. Good(x, {}, R, k)
  BY <1>3, <1>5 DEF SlotFits
<1>8. FreeOnly(m, R \cup OwnPages(s.v, {})) /\ VmFits(m, s.v, {}, R, k)
  <2>1. FreeOnly(x.m, R \cup OwnPages(x.v, {})) /\ VmFits(x.m, x.v, {}, R, k)
    <3>1. Running(x.m)
      BY <1>1, <1>6
    <3> HIDE DEF x, R, k
    <3> QED BY <1>7, <3>1, Aside, Fitted
  <2> QED BY <1>6, <2>1
<1> DEFINE Q == R \cup OwnPages(s.v, {})
<1>9. /\ y \in Work /\ Worse(m, y.m)
      /\ y.ok => Good(y, {}, Q, PGROUNDUP(y.sz)) /\ y.sz <= KERNBASE
      /\ ~y.ok => FreeOnly(y.m, Q)
  <2>1. FreeOnly(m, Q)
    BY <1>8
  <2> HIDE DEF Q, y
  <2> QED BY <2>1, ImageFacts DEF y
<1>10. CASE y.ok
  <2>1. m' = freevm(y.m, s.v) /\ pr' = [pr EXCEPT ![p].v = y.v, ![p].sz = y.sz]
    BY <1>1, <1>10 DEF ExecDone
  <2>2. pr' = [pr EXCEPT ![p] = ResizedSlot(s, y.v, y.sz)]
    <3>1. pr \in [Proc -> Slot]
      BY <1>2 DEF Typed
    <3> HIDE DEF y
    <3> QED BY <1>1, <2>1, <3>1 DEF ResizedSlot, Slot
  <2>3. y.m \in Mem /\ y.v \in Vm /\ y.sz \in Nat
    <3> HIDE DEF y
    <3> QED BY <1>9, WorkFields
  <2>4. Good(On(m', y.v, y.sz), {}, R, PGROUNDUP(y.sz)) /\ Worse(y.m, m')
    <3> DEFINE v == s.v
               sz == s.sz
               j == PGROUNDUP(y.sz)
    <3>1. v \in Vm /\ sz \in Nat /\ VmFits(m, v, {}, R, k) /\ Good(y, {}, R \cup OwnPages(v, {}), j)
          /\ Worse(m, y.m) /\ m' = freevm(y.m, v) /\ y.sz \in Nat
      BY <1>4, <1>8, <1>9, <1>10, <2>1, <2>3
    <3> HIDE DEF v, sz, j, R, k, y
    <3>2. Good(On(m', y.v, y.sz), {}, R, j) /\ Worse(y.m, m')
      BY <3>1, Replace
    <3> QED BY <3>2 DEF j
  <2>5. Worse(m, m')
    BY <1>9, <2>4, WorseWorse
  <2>6. m' \in Mem /\ (~Running(m') => m'.short)
    <3> DEFINE z == On(m', y.v, y.sz)
    <3>1. Good(z, {}, R, PGROUNDUP(y.sz)) /\ z.m = m'
      BY <2>4 DEF On
    <3> HIDE DEF z, R, y
    <3> QED BY <3>1, GoodMem
  <2>7. y.sz <= KERNBASE
    BY <1>9, <1>10
  <2>8. InvOf(m', pr', shm)
    <3> HIDE DEF y
    <3> QED BY <1>1, <1>2, <2>2, <2>3, <2>4, <2>5, <2>6, <2>7, NewVm, ZenonT(30)
  <2> QED BY <1>1, <2>8 DEF IInv
<1>11. CASE ~y.ok
  <2>1. m' = y.m /\ pr' = pr
    BY <1>1, <1>11 DEF ExecDone
  <2>2. FreeOnly(m', Q) /\ Worse(m, m')
    BY <1>9, <1>11, <2>1
  <2>3. m' \in Mem /\ (~Running(m') => m'.short)
    BY <2>2 DEF FreeOnly, Running
  <2>4. Good(On(m', s.v, s.sz), {}, R, k)
    <3> DEFINE z == On(m', s.v, s.sz)
               v == s.v
    <3>1. z \in Work /\ z.m = m' /\ z.v = v
      BY <1>4, <2>3, OnFields
    <3>2. FreeOnly(m', R \cup OwnPages(v, {})) /\ VmFits(m', v, {}, R, k)
      BY <1>8, <2>2, FittedWorse
    <3> HIDE DEF z, v, R, k
    <3>3. Good(z, {}, R, k)
      BY <3>1, <3>2, Restore
    <3> QED BY <3>3 DEF z
  <2>5. SlotFits(m', pr, shm, s, p)
    BY <1>3, <1>5, <2>4 DEF SlotFits
  <2>6. InvOf(m', pr, shm)
    BY <1>1, <1>2, <2>2, <2>3, <2>5, SlotAgain
  <2> QED BY <1>1, <2>1, <2>6 DEF IInv
<1> QED BY <1>10, <1>11

-----------------------------------------------------------------------------
(* fork().                                                                 *)

\* kalloc() and kfree() of a page that is in hand.
LEMMA TakeOnly ==
  ASSUME NEW mem, NEW R, FreeOnly(mem, R), NEW g, g = Got(mem), g # 0, NEW mem2, mem2 = Taken(mem)
  PROVE  /\ FreeOnly(mem2, R \cup {g}) /\ Worse(mem, mem2) /\ g \in Page
         /\ Running(mem) => g \notin R
         /\ mem2.short = mem.short
<1>1. mem \in Mem
  BY DEF FreeOnly
<1>2. g \in mem.free /\ g \in Page
  BY <1>1, GotFacts
<1>3. /\ mem2 \in Mem /\ mem2.free = mem.free \ {g}
      /\ mem2.twice = mem.twice /\ mem2.panic = mem.panic /\ mem2.short = mem.short
  BY <1>1, TakenFacts
<1> DEFINE Fine(me, Q) == /\ ~me.twice
                          /\ \A h \in Page : h \in me.free => h \notin Q
                          /\ ~me.short => \A h \in Page : h \in me.free \/ h \in Q
<1>4. Fine(mem, R) => Fine(mem2, R \cup {g})
  BY <1>2, <1>3
<1>5. FreeOnly(mem2, R \cup {g})
  <2>1. (mem.panic # "" => mem.short) /\ (mem.panic = "" => Fine(mem, R))
    BY DEF FreeOnly
  <2> QED BY <1>3, <1>4, <2>1 DEF FreeOnly
<1>6. Running(mem) => g \notin R
  BY <1>2 DEF FreeOnly, Running
<1> QED BY <1>2, <1>3, <1>5, <1>6 DEF Worse

LEMMA FreeOnlyKfree ==
  ASSUME NEW mem, NEW R, NEW g \in Page, FreeOnly(mem, R \cup {g}), InHand(mem, g, R), NEW mem2, mem2 = kfree(mem, g)
  PROVE  FreeOnly(mem2, R) /\ Worse(mem, mem2)
<1>1. mem \in Mem /\ (mem.panic # "" => mem.short)
  BY DEF FreeOnly
<1>2. /\ mem2 \in Mem /\ mem2.short = mem.short
      /\ mem.panic # "" => mem2.panic # ""
  BY <1>1, KfreeMem
<1>3. CASE mem.panic # ""
  BY <1>1, <1>2, <1>3 DEF FreeOnly, Worse
<1>4. CASE mem.panic = ""
  <2>1. /\ ~mem.twice /\ g \notin R
        /\ \A h \in Page : h \in mem.free => h \notin R \cup {g}
        /\ ~mem.short => \A h \in Page : h \in mem.free \/ h \in R \cup {g}
    BY <1>4 DEF FreeOnly, InHand
  <2>2. /\ mem2.free = mem.free \cup {g} /\ mem2.twice = mem.twice /\ mem2.panic = mem.panic
    BY <1>1, <2>1, KfreeFacts
  <2>3. /\ ~mem2.twice
        /\ \A h \in Page : h \in mem2.free => h \notin R
        /\ ~mem2.short => \A h \in Page : h \in mem2.free \/ h \in R
    BY <1>2, <2>1, <2>2
  <2> QED BY <1>2, <1>4, <2>2, <2>3 DEF FreeOnly, Worse
<1> QED BY <1>3, <1>4

LEMMA UnusedFields ==
  /\ Unused \in Slot /\ Unused.st = "unused" /\ Unused.sz = 0 /\ Unused.v = NoVm /\ Unused.kstack = 0 /\ Unused.page = 0
  /\ Unused.at = "user" /\ Unused.using = "none" /\ ForeignOf(Unused) = {} /\ TopOf(Unused) = 0
  /\ \A g \in Page : ~KeepsOf(Unused, g)
<1>1. Unused \in Slot
  BY NoVmFacts DEF Unused, Slot
<1>2. Unused.st = "unused" /\ Unused.sz = 0 /\ Unused.v = NoVm /\ Unused.kstack = 0 /\ Unused.page = 0
      /\ Unused.at = "user" /\ Unused.using = "none"
  BY DEF Unused
<1>3. ForeignOf(Unused) = {}
  BY <1>2 DEF ForeignOf
<1>4. TopOf(Unused) = 0
  BY <1>2, Kern DEF TopOf
<1>5. \A g \in Page : ~KeepsOf(Unused, g)
  BY <1>2, PageFacts DEF KeepsOf
<1> QED BY <1>1, <1>2, <1>3, <1>4, <1>5

\* A slot without a process has no pages.
LEMMA UnusedFits ==
  ASSUME NEW prs, NEW sh, NEW c, NEW mem, FreeOnly(mem, Beyond(prs, sh, Unused, c))
  PROVE  SlotFits(mem, prs, sh, Unused, c)
<1> DEFINE x == On(mem, NoVm, 0)
           R == Beyond(prs, sh, Unused, c)
<1>1. mem \in Mem
  BY DEF FreeOnly
<1>2. x \in Work /\ x.m = mem /\ x.v = NoVm
  BY <1>1, NoVmFacts, OnFields
<1>3. Good(x, {}, R, 0)
  <2> HIDE DEF x, R
  <2> QED BY <1>2, Fresh DEF R
<1> QED BY <1>3, UnusedFields DEF SlotFits

\* Memory when the slot of c has no process.
LEMMA UnusedOnly ==
  ASSUME NEW mem, NEW prs, NEW sh, Typed(mem, prs, sh), Running(mem), RunInv(mem, prs, sh),
         NEW c \in Proc, prs[c].st = "unused"
  PROVE  prs[c] = Unused /\ FreeOnly(mem, Beyond(prs, sh, Unused, c)) /\ OutsideOf(prs, sh, c) = Beyond(prs, sh, Unused, c)
<1> DEFINE x == On(mem, NoVm, 0)
           R == Beyond(prs, sh, Unused, c)
<1>1. mem \in Mem /\ SlotInv(mem, sh, c, prs[c]) /\ SlotFits(mem, prs, sh, prs[c], c) /\ OutsideOf(prs, sh, c) = Beyond(prs, sh, prs[c], c)
  BY Before
<1>2. prs[c] = Unused
  BY <1>1 DEF SlotInv
<1>3. Good(x, {}, R, 0)
  BY <1>1, <1>2, UnusedFields DEF SlotFits
<1>4. x \in Work /\ x.m = mem /\ x.v = NoVm
  BY <1>1, NoVmFacts, OnFields
<1>5. FreeOnly(x.m, R)
  <2>1. Sound(x, {}, R)
    BY <1>3 DEF Good
  <2> HIDE DEF x, R
  <2> QED BY <1>4, <2>1, Unmapped
<1> QED BY <1>1, <1>2, <1>4, <1>5

ChildSlot(p, sz, v, stack) == [Unused EXCEPT !.st = "run", !.parent = p, !.sz = sz, !.v = v, !.kstack = stack]
LEMMA ChildFields ==
  ASSUME NEW p \in Proc \cup {0}, NEW sz \in Nat, NEW v \in Vm, NEW stack \in Page, NEW s, s = ChildSlot(p, sz, v, stack)
  PROVE  /\ s \in Slot /\ s.st = "run" /\ s.sz = sz /\ s.v = v /\ s.kstack = stack /\ s.page = 0
         /\ s.at = "user" /\ s.using = "none"
<1>1. Unused \in Slot /\ Unused.page = 0 /\ Unused.at = "user" /\ Unused.using = "none"
  BY UnusedFields
<1> QED BY <1>1 DEF ChildSlot, Slot

\* A new process: its stack and its address space come from free pages.
LEMMA NewProcess ==
  ASSUME NEW mem, NEW prs, NEW sh, Typed(mem, prs, sh), Running(mem), RunInv(mem, prs, sh),
         NEW c \in Proc, prs[c].st = "unused", NEW stack \in Page, stack \in mem.free,
         NEW y, NEW sz \in Nat, sz <= KERNBASE, Worse(mem, y.m),
         Good(y, {}, Beyond(prs, sh, Unused, c) \cup {stack}, PGROUNDUP(sz)),
         NEW p \in Proc \cup {0}, NEW s, s = ChildSlot(p, sz, y.v, stack), NEW prs2, prs2 = [prs EXCEPT ![c] = s]
  PROVE  InvOf(y.m, prs2, sh)
<1> DEFINE R == Beyond(prs, sh, Unused, c)
<1>1. prs[c] = Unused /\ FreeOnly(mem, R) /\ OutsideOf(prs, sh, c) = R
  BY UnusedOnly
<1>2. stack \notin R
  BY <1>1 DEF FreeOnly, Running
<1>3. y.m \in Mem /\ y.v \in Vm /\ (~Running(y.m) => y.m.short)
  <2> HIDE DEF R
  <2> QED BY GoodMem
<1>4. /\ s \in Slot /\ s.st = "run" /\ s.sz = sz /\ s.v = y.v /\ s.kstack = stack /\ s.page = 0
      /\ s.at = "user" /\ s.using = "none"
  BY <1>3, ChildFields
<1>5. ForeignOf(s) = {} /\ TopOf(s) = PGROUNDUP(sz)
  BY <1>4 DEF ForeignOf, TopOf
<1>6. \A g \in Page : KeepsOf(s, g) <=> g = stack
  BY <1>4, PageFacts DEF KeepsOf
<1>7. \A g \in Page : g \in R \cup {stack} <=> g \in Beyond(prs, sh, s, c)
  BY <1>6, UnusedFields DEF Beyond
<1>8. NewKeeps(prs, sh, s, sh, c)
  <2>1. \A g \in Page : KeepsOf(s, g) => g \notin SharedOf(sh)
    BY <1>2, <1>6 DEF Beyond
  <2>2. \A g \in Page : KeepsOf(s, g) => g \notin OutsideOf(prs, sh, c)
    BY <1>1, <1>2, <1>6
  <2>3. s.kstack \in Page => s.kstack # s.page
    BY <1>4, PageFacts
  <2> QED BY <2>1, <2>2, <2>3 DEF NewKeeps
<1>9. SlotFits(y.m, prs, sh, s, c)
  <2>1. Good(On(y.m, y.v, sz), {}, R \cup {stack}, PGROUNDUP(sz))
    <3> HIDE DEF R
    <3> QED BY GoodOn DEF R
  <2>2. Good(On(y.m, y.v, sz), {}, Beyond(prs, sh, s, c), PGROUNDUP(sz))
    <3> HIDE DEF R
    <3> QED BY <1>7, <2>1, SameRest
  <2> QED BY <1>4, <1>5, <2>2 DEF SlotFits
<1>10. SlotInv(y.m, sh, c, s)
  BY <1>4 DEF SlotInv
<1>11. s.using = "shared" <=> prs[c].using = "shared"
  BY <1>1, <1>4, UnusedFields
<1> QED BY <1>3, <1>4, <1>8, <1>9, <1>10, <1>11, ChangeOwn, ZenonT(30)

LEMMA LeastSlot ==
  ASSUME NEW S \in SUBSET Proc, S # {}
  PROVE  Least(S) \in S
<1>1. S \in SUBSET Nat
  BY Sizes DEF Proc
<1>2. \E g \in S : \A h \in S : g <= h
  BY <1>1, LeastNatural
<1> QED BY <1>2 DEF Least

LEMMA ForkStep ==
  ASSUME IInv, NEW p \in Proc, Fork(p)
  PROVE  IInv'
<1> DEFINE S == {c \in Proc : pr[c].st = "unused"}
           c == Least(S)
           stack == Got(m)
           s == pr[p]
           y == copyuvm(Taken(m), s.v, s.sz)
           R == Beyond(pr, shm, Unused, c)
           n == PGROUNDUP(s.sz)
<1>1. Running(m) /\ s.at = "user" /\ shm' = shm /\ stack # 0 /\ S # {} /\ Forked(p, c, stack, y)
  BY DEF Fork, Runs, Running
<1>2. Typed(m, pr, shm) /\ RunInv(m, pr, shm)
  BY <1>1 DEF IInv, InvOf
<1>3. c \in Proc /\ pr[c].st = "unused"
  BY <1>1, LeastSlot
<1>4. pr[c] = Unused /\ FreeOnly(m, R) /\ OutsideOf(pr, shm, c) = R
  BY <1>1, <1>2, <1>3, UnusedOnly
<1>5. m \in Mem /\ s \in Slot /\ SlotFits(m, pr, shm, s, p) /\ SlotInv(m, shm, p, s)
  BY <1>1, <1>2, Before
<1>6. s.v \in Vm /\ s.sz \in Nat /\ s.sz <= KERNBASE
  BY <1>5, SlotFields DEF SlotInv
<1>7. /\ FreeOnly(Taken(m), R \cup {stack}) /\ Worse(m, Taken(m)) /\ stack \in Page /\ stack \in m.free
      /\ stack \notin R /\ Taken(m).short = m.short
  <2>1. stack \in m.free
    BY <1>1, <1>5, GotFacts
  <2> DEFINE m2 == Taken(m)
  <2>2. FreeOnly(m2, R \cup {stack}) /\ Worse(m, m2) /\ stack \in Page /\ stack \notin R /\ m2.short = m.short
    <3> HIDE DEF R
    <3> QED BY <1>1, <1>4, TakeOnly
  <2> QED BY <2>1, <2>2
<1>8. CanCopy(Taken(m), s.v, n)
  <2> DEFINE x == On(m, s.v, s.sz)
  <2>1. Good(x, ForeignOf(s), Beyond(pr, shm, s, p), n)
    BY <1>1, <1>5 DEF SlotFits, TopOf
  <2>2. x.m = m /\ x.v = s.v
    BY DEF On
  <2>3. VmFits(m, s.v, ForeignOf(s), Beyond(pr, shm, s, p), n)
    <3> HIDE DEF x, n
    <3> QED BY <1>1, <2>1, <2>2, Fitted
  <2>4. ~m.short => \A a \in Va : a < n => s.v.pte[a].pg \in Page
    BY <2>3 DEF VmFits, Exact
  <2>5. \A a \in Va : s.v.pte[a].pg # None => Table(s.v, a) # 0
    BY <2>3 DEF VmFits, Tables, Table
  <2> QED BY <1>7, <2>4, <2>5, PageFacts DEF CanCopy
<1>9. /\ y \in Work /\ Worse(Taken(m), y.m)
      /\ y.ok => Good(y, {}, R \cup {stack}, n)
      /\ ~y.ok => FreeOnly(y.m, R \cup {stack})
  <2> DEFINE m2 == Taken(m)
             Q == R \cup {stack}
             v == s.v
             sz == s.sz
  <2>1. FreeOnly(m2, Q) /\ v \in Vm /\ sz \in Nat /\ sz <= KERNBASE /\ CanCopy(m2, v, PGROUNDUP(sz)) /\ y = copyuvm(m2, v, sz)
    BY <1>6, <1>7, <1>8
  <2> HIDE DEF m2, Q, v, sz, y
  <2>2. /\ y \in Work /\ Worse(m2, y.m)
        /\ y.ok => Good(y, {}, Q, PGROUNDUP(sz))
        /\ ~y.ok => FreeOnly(y.m, Q)
    BY <2>1, Copyuvm
  <2> QED BY <2>2 DEF m2, Q, sz
<1>10. Worse(m, y.m)
  BY <1>7, <1>9, WorseWorse
<1>11. CASE y.ok
  <2>1. m' = y.m /\ pr' = [pr EXCEPT ![c] = ChildSlot(p, s.sz, y.v, stack)]
    BY <1>1, <1>11 DEF Forked, ChildSlot
  <2>2. Good(y, {}, R \cup {stack}, n)
    BY <1>9, <1>11
  <2>3. InvOf(y.m, pr', shm)
    <3>1. p \in Proc \cup {0}
      OBVIOUS
    <3> HIDE DEF y, c, stack
    <3> QED BY <3>1, <1>1, <1>2, <1>3, <1>6, <1>7, <1>10, <2>1, <2>2, NewProcess, ZenonT(30)
  <2> QED BY <1>1, <2>1, <2>3 DEF IInv
<1>12. CASE ~y.ok
  <2>1. m' = kfree(y.m, stack) /\ pr' = pr
    BY <1>1, <1>12 DEF Forked
  <2>2. FreeOnly(m', R) /\ Worse(y.m, m')
    <3>1. FreeOnly(y.m, R \cup {stack}) /\ InHand(y.m, stack, R) /\ stack \in Page
      BY <1>7, <1>9, <1>12 DEF InHand
    <3> HIDE DEF y, R, stack
    <3> QED BY <2>1, <3>1, FreeOnlyKfree
  <2>3. m' \in Mem /\ (~Running(m') => m'.short) /\ Worse(m, m')
    BY <1>10, <2>2, WorseWorse DEF FreeOnly, Running
  <2>4. SlotFits(m', pr, shm, pr[c], c)
    <3>1. SlotFits(m', pr, shm, Unused, c)
      BY <2>2, UnusedFits
    <3> QED BY <1>4, <3>1
  <2>5. InvOf(m', pr, shm)
    <3> HIDE DEF c
    <3> QED BY <1>1, <1>2, <1>3, <2>3, <2>4, SlotAgain
  <2> QED BY <1>1, <2>1, <2>5 DEF IInv
<1> QED BY <1>11, <1>12

-----------------------------------------------------------------------------
(* Steps that leave all memory alone.                                      *)

SameMemory(s, s2) ==
  /\ s2.v = s.v /\ s2.sz = s.sz /\ s2.kstack = s.kstack /\ s2.page = s.page
  /\ s2.using = s.using /\ s2.vaddr = s.vaddr
LEMMA SameMemoryFacts ==
  ASSUME NEW s, NEW s2, SameMemory(s, s2)
  PROVE  /\ ForeignOf(s2) = ForeignOf(s) /\ TopOf(s2) = TopOf(s)
         /\ \A g : (KeepsOf(s2, g) <=> KeepsOf(s, g)) /\ (OwnOf(s2, g) <=> OwnOf(s, g))
<1>1. ForeignOf(s2) = ForeignOf(s)
  BY ForeignSame DEF SameMemory
<1>2. TopOf(s2) = TopOf(s)
  BY DEF SameMemory, TopOf
<1>3. \A g : KeepsOf(s2, g) <=> KeepsOf(s, g)
  BY DEF SameMemory, KeepsOf
<1>4. \A g : OwnOf(s2, g) <=> OwnOf(s, g)
  BY <1>1 DEF SameMemory, OwnOf
<1> QED BY <1>1, <1>2, <1>3, <1>4

LEMMA SameView ==
  ASSUME NEW mem, NEW prs, NEW prs2, NEW sh, \A q \in Proc : SameMemory(prs[q], prs2[q]),
         Accounted(mem, prs, sh), KeepInv(prs, sh)
  PROVE  Accounted(mem, prs2, sh) /\ KeepInv(prs2, sh)
<1>1. \A q \in Proc : /\ ForeignOf(prs2[q]) = ForeignOf(prs[q]) /\ TopOf(prs2[q]) = TopOf(prs[q])
                      /\ \A g : (KeepsOf(prs2[q], g) <=> KeepsOf(prs[q], g)) /\ (OwnOf(prs2[q], g) <=> OwnOf(prs[q], g))
  BY SameMemoryFacts
<1>2. \A q \in Proc : prs2[q].v = prs[q].v /\ prs2[q].sz = prs[q].sz /\ prs2[q].kstack = prs[q].kstack /\ prs2[q].page = prs[q].page
  BY DEF SameMemory
<1>3. ASSUME NEW q \in Proc PROVE OutsideOf(prs2, sh, q) = OutsideOf(prs, sh, q)
  <2>1. OthersOf(prs2, q) = OthersOf(prs, q)
    BY <1>1 DEF OthersOf
  <2> QED BY <1>1, <2>1 DEF OutsideOf
<1>4. Accounted(mem, prs2, sh)
  BY <1>1, <1>2, <1>3 DEF Accounted, Fits
<1>5. KeepInv(prs2, sh)
  BY <1>1, <1>2 DEF KeepInv
<1> QED BY <1>4, <1>5

LEMMA SameViewInv ==
  ASSUME NEW mem, NEW prs, NEW sh, Typed(mem, prs, sh), Running(mem), RunInv(mem, prs, sh),
         NEW prs2 \in [Proc -> Slot], \A q \in Proc : SameMemory(prs[q], prs2[q]),
         \A q \in Proc : SlotInv(mem, sh, q, prs2[q])
  PROVE  InvOf(mem, prs2, sh)
<1>1. Accounted(mem, prs2, sh) /\ KeepInv(prs2, sh)
  BY SameView DEF RunInv
<1>2. Users(prs2) = Users(prs)
  BY DEF Users, SameMemory
<1>3. ShmInv(mem, prs2, sh)
  BY <1>2 DEF RunInv, ShmInv
<1>4. Typed(mem, prs2, sh)
  BY DEF Typed
<1> QED BY <1>1, <1>3, <1>4 DEF InvOf, RunInv, SlotsInv

LEMMA ExitStep ==
  ASSUME IInv, NEW p \in Proc, Exit(p)
  PROVE  IInv'
<1>1. Running(m) /\ pr[p].st = "run" /\ pr[p].at = "user" /\ pr[p].using # "shared" /\ m' = m /\ shm' = shm
  BY DEF Exit, Runs, Running
<1>2. Typed(m, pr, shm) /\ RunInv(m, pr, shm)
  BY <1>1 DEF IInv, InvOf
<1>3. pr \in [Proc -> Slot]
  BY <1>2 DEF Typed
<1>4. pr' = [c \in Proc |-> IF c = p THEN [pr[c] EXCEPT !.st = "zombie"]
                           ELSE IF pr[c].parent = p THEN [pr[c] EXCEPT !.parent = initproc] ELSE pr[c]]
  BY DEF Exit
<1>5. initproc \in Proc /\ 0 \notin Proc
  BY Sizes DEF initproc, Proc
<1>6. ASSUME NEW q \in Proc
      PROVE  pr'[q] \in Slot /\ SameMemory(pr[q], pr'[q]) /\ SlotInv(m, shm, q, pr'[q])
  <2> DEFINE s == pr[q]
             s2 == pr'[q]
  <2>0. s \in Slot /\ SlotInv(m, shm, q, s)
    BY <1>2, <1>3 DEF RunInv, SlotsInv
  <2>1. CASE q = p
    <3>1. s2 = [s EXCEPT !.st = "zombie"]
      BY <1>4, <2>1
    <3>2. s2 \in Slot /\ s2.v = s.v /\ s2.sz = s.sz /\ s2.kstack = s.kstack /\ s2.page = s.page /\ s2.using = s.using
          /\ s2.vaddr = s.vaddr /\ s2.at = s.at /\ s2.st = "zombie"
      <4> HIDE DEF s, s2
      <4> QED BY <2>0, <3>1 DEF Slot
    <3> HIDE DEF s2
    <3>3. SlotInv(m, shm, q, s2)
      <4>1. PallocPages(m, s) => PallocPages(m, s2)
        BY <3>2 DEF PallocPages
      <4>2. s.st = "run" /\ s.at # "mmap_alloc" /\ s.using # "shared"
        BY <1>1, <2>1
      <4> HIDE DEF s
      <4> QED BY <2>0, <3>2, <4>1, <4>2 DEF SlotInv
    <3>4. SameMemory(s, s2)
      BY <3>2 DEF SameMemory
    <3> QED BY <3>2, <3>3, <3>4 DEF s2
  <2>2. CASE q # p /\ s.parent = p
    <3>1. s2 = [s EXCEPT !.parent = initproc]
      BY <1>4, <2>2
    <3>2. s2 \in Slot /\ s2.v = s.v /\ s2.sz = s.sz /\ s2.kstack = s.kstack /\ s2.page = s.page /\ s2.using = s.using
          /\ s2.vaddr = s.vaddr /\ s2.at = s.at /\ s2.st = s.st /\ s2.shared = s.shared
      <4> HIDE DEF s, s2
      <4> QED BY <1>5, <2>0, <3>1 DEF Slot
    <3>3. s.st # "unused"
      <4>1. s.st = "unused" => s = Unused
        BY <2>0 DEF SlotInv
      <4>2. Unused.parent = 0
        BY DEF Unused
      <4> QED BY <1>5, <2>2, <4>1, <4>2
    <3> HIDE DEF s2
    <3>4. SlotInv(m, shm, q, s2)
      <4>1. PallocPages(m, s) => PallocPages(m, s2)
        BY <3>2 DEF PallocPages
      <4>2. SeesShared(m, shm, s) => SeesShared(m, shm, s2)
        BY <3>2 DEF SeesShared
      <4> HIDE DEF s
      <4> QED BY <2>0, <3>2, <3>3, <4>1, <4>2 DEF SlotInv
    <3>5. SameMemory(s, s2)
      BY <3>2 DEF SameMemory
    <3> QED BY <3>2, <3>4, <3>5 DEF s2
  <2>3. CASE q # p /\ s.parent # p
    BY <1>4, <2>0, <2>3 DEF SameMemory
  <2> QED BY <2>1, <2>2, <2>3
<1>7. pr' \in [Proc -> Slot]
  <2>1. pr' = [c \in Proc |-> pr'[c]]
    BY <1>4
  <2> QED BY <1>6, <2>1
<1>8. InvOf(m, pr', shm)
  BY <1>1, <1>2, <1>6, <1>7, SameViewInv
<1> QED BY <1>1, <1>8 DEF IInv

LEMMA MmapTestStep ==
  ASSUME IInv, NEW p \in Proc, MmapTest(p)
  PROVE  IInv'
<1>1. /\ Running(m) /\ pr[p].st = "run" /\ pr[p].at = "user" /\ pr[p].using = "none" /\ m' = m /\ shm' = shm
      /\ p \in Allocators /\ shm.refcount = 0 /\ Below(pr[p].sz)
  BY DEF MmapTest, Runs, Running
<1>2. Typed(m, pr, shm) /\ RunInv(m, pr, shm)
  BY <1>1 DEF IInv, InvOf
<1>3. pr \in [Proc -> Slot]
  BY <1>2 DEF Typed
<1>4. pr' = [pr EXCEPT ![p] = [pr[p] EXCEPT !.at = "mmap_alloc"]]
  BY DEF MmapTest
<1> DEFINE s == pr[p]
           s2 == [s EXCEPT !.at = "mmap_alloc"]
<1>5. s \in Slot /\ SlotInv(m, shm, p, s)
  BY <1>2, <1>3 DEF RunInv, SlotsInv
<1>6. s2 \in Slot /\ s2.v = s.v /\ s2.sz = s.sz /\ s2.kstack = s.kstack /\ s2.page = s.page /\ s2.using = s.using
      /\ s2.vaddr = s.vaddr /\ s2.at = "mmap_alloc" /\ s2.st = s.st /\ s2.shared = s.shared
  <2> HIDE DEF s
  <2> QED BY <1>5 DEF Slot
<1>7. pr' = [pr EXCEPT ![p] = s2]
  BY <1>4
<1> HIDE DEF s2
<1>8. SlotInv(m, shm, p, s2)
  <2>1. s.st = "run" /\ s.using = "none" /\ p \in Allocators /\ shm.refcount = 0 /\ Below(s.sz)
    BY <1>1
  <2> HIDE DEF s
  <2> QED BY <1>5, <1>6, <2>1 DEF SlotInv
<1>9. SameMemory(s, s2)
  BY <1>1, <1>6 DEF SameMemory
<1>10. pr' \in [Proc -> Slot]
  BY <1>3, <1>6, <1>7
<1>11. ASSUME NEW q \in Proc PROVE SameMemory(pr[q], pr'[q]) /\ SlotInv(m, shm, q, pr'[q])
  <2>1. CASE q = p
    BY <1>3, <1>7, <1>8, <1>9, <2>1
  <2>2. CASE q # p
    <3>1. pr'[q] = pr[q]
      BY <1>3, <1>7, <2>2
    <3> QED BY <1>2, <3>1 DEF RunInv, SlotsInv, SameMemory
  <2> QED BY <2>1, <2>2
<1>12. InvOf(m, pr', shm)
  BY <1>1, <1>2, <1>10, <1>11, SameViewInv
<1> QED BY <1>1, <1>12 DEF IInv

-----------------------------------------------------------------------------
(* wait().                                                                 *)

LEMMA KfreeGood ==
  ASSUME NEW x, NEW F, NEW R, NEW n, NEW g \in Page, Good(x, F, R \cup {g}, n), InHand(x.m, g, R),
         NEW y \in Work, y.m = kfree(x.m, g), y.v = x.v
  PROVE  Good(y, F, R, n) /\ Later(x, y)
<1>1. x \in Work /\ x.m \in Mem /\ (x.m.panic # "" => x.m.short)
  BY WorkFields DEF Good, Sound
<1>2. y.m.short = x.m.short /\ (x.m.panic # "" => y.m.panic # "")
  BY <1>1, KfreeMem
<1>3. Later(x, y)
  BY <1>2 DEF Later
<1>4. ~y.m.short => Exact(y.v, F, n)
  BY <1>2 DEF Good
<1>5. CASE x.m.panic # ""
  BY <1>1, <1>2, <1>3, <1>4, <1>5 DEF Good, Sound
<1>6. CASE x.m.panic = ""
  <2>1. Acct(x, F, R \cup {g}) /\ g \notin R
    BY <1>6 DEF Good, Sound, InHand
  <2>2. g \notin x.m.free
    BY <2>1 DEF Acct, Apart
  <2>3. y.m.free = x.m.free \cup {g} /\ y.m.twice = x.m.twice /\ y.m.panic = x.m.panic
    <3>1. /\ kfree(x.m, g).free = x.m.free \cup {g} /\ kfree(x.m, g).twice = x.m.twice
          /\ kfree(x.m, g).panic = x.m.panic
      BY <1>1, <2>2, KfreeFacts, Zenon
    <3> QED BY <3>1
  <2>4. Acct(y, F, R)
    BY <1>1, <1>2, <2>1, <2>3, FreePage
  <2> QED BY <1>3, <1>4, <1>6, <2>3, <2>4 DEF Good, Sound
<1> QED BY <1>5, <1>6

LEMMA RefileGood ==
  ASSUME NEW x, NEW F, NEW R, NEW n, Good(x, F, R, n),
         Running(x.m) => \A a \in Va : a \in F => x.v.pte[a].pg \notin Page
  PROVE  Good(x, {}, R, n)
<1>1. x \in Work /\ (x.m.panic # "" => x.m.short)
  BY DEF Good, Sound
<1>2. CASE ~Running(x.m)
  BY <1>1, <1>2 DEF Good, Sound, Running
<1>3. CASE Running(x.m)
  <2>0. \A a \in Va : a \in F => x.v.pte[a].pg \notin Page
    BY <1>3
  <2>1. Acct(x, F, R) /\ (~x.m.short => Exact(x.v, F, n))
    BY <1>3 DEF Good, Sound, Running
  <2>2. Acct(x, {}, R)
    BY <1>1, <2>0, <2>1, Refile
  <2>3. ~x.m.short => NoZero(x.v)
    BY <2>1 DEF Acct
  <2>4. \A a \in Va : x.v.pte[a].pg \in Page \cup {0, None}
    BY <1>1, VmFields
  <2>5. ~x.m.short => Exact(x.v, {}, n)
    BY <2>0, <2>1, <2>3, <2>4 DEF Exact, NoZero
  <2> QED BY <1>1, <1>3, <2>2, <2>5 DEF Good, Sound, Running
<1> QED BY <1>2, <1>3

\* The page of palloc() is taken out of both places and freed.
PallocFits(x, page) ==
  /\ x.v.pte[VA1].pg \in {None, page} /\ x.v.pte[VA2].pg \in {None, page}
  /\ ~x.m.short => x.v.pte[VA1].pg = page /\ x.v.pte[VA2].pg = page
LEMMA UnpallocPage ==
  ASSUME NEW x, NEW R, NEW n \in Nat, n <= VA1, n <= VA2, NEW page \in Page, page \notin R,
         Good(x, {VA1, VA2}, R \cup {page}, n), PallocFits(x, page),
         NEW y, y = clearptep(clearptep(x, VA1), VA2), NEW z \in Work, z.m = kfree(y.m, page), z.v = y.v
  PROVE  Good(z, {}, R, n) /\ Later(x, z)
<1> DEFINE F == {VA1, VA2}
           Q == R \cup {page}
           w == clearptep(x, VA1)
<1>1. VA1 \in Va /\ VA2 \in Va /\ VA1 # VA2 /\ VA1 \in F /\ VA2 \in F
  BY Sizes DEF Va
<1>2. ~x.m.short => x.v.pte[VA1].pg # None /\ x.v.pte[VA2].pg # None
  BY PageFacts DEF PallocFits
<1>3. ClearedForeign(x, w, F, Q, n, VA1)
  <2>1. Good(x, F, Q, n)
    OBVIOUS
  <2> HIDE DEF F, Q, w
  <2> QED BY <1>1, <1>2, <2>1, ClearForeign DEF w
<1>4. Good(w, F, Q, n) /\ (~w.m.short => w.v.pte[VA2].pg # None) /\ Later(x, w)
  <2> HIDE DEF F, Q, w
  <2> QED BY <1>1, <1>2, <1>3 DEF ClearedForeign
<1>5. ClearedForeign(w, y, F, Q, n, VA2)
  <2>1. y = clearptep(w, VA2)
    OBVIOUS
  <2> HIDE DEF F, Q, w
  <2> QED BY <1>1, <1>4, <2>1, ClearForeign
<1>6. Good(y, F, Q, n) /\ Later(w, y)
  <2> HIDE DEF F, Q, w
  <2> QED BY <1>5 DEF ClearedForeign
<1>7. Good(z, F, R, n) /\ Later(y, z)
  <2>1. InHand(y.m, page, R)
    BY DEF InHand
  <2>2. Good(y, F, R \cup {page}, n)
    BY <1>6
  <2> HIDE DEF F, Q, w
  <2> QED BY <2>1, <2>2, KfreeGood
<1>8. Later(w, z) /\ Later(x, z)
  <2> HIDE DEF w
  <2> QED BY <1>4, <1>6, <1>7, LaterLater
<1>9. ASSUME Running(z.m) PROVE \A a \in Va : a \in F => z.v.pte[a].pg \notin Page
  <2>1. y.m.panic = "" /\ w.m.panic = ""
    <3> HIDE DEF w
    <3> QED BY <1>7, <1>8, <1>9 DEF Later, Running
  <2>2. z.v.pte[VA2].pg = None
    <3> HIDE DEF w, F, Q
    <3> QED BY <1>5, <2>1 DEF ClearedForeign
  <2>3. w.v.pte[VA1].pg = None
    <3> HIDE DEF w, F, Q
    <3> QED BY <1>3, <2>1 DEF ClearedForeign
  <2>4. z.v.pte[VA1] = w.v.pte[VA1]
    <3> HIDE DEF w, F, Q
    <3> QED BY <1>1, <1>5 DEF ClearedForeign
  <2> QED BY <2>2, <2>3, <2>4, PageFacts
<1>10. Good(z, {}, R, n)
  <2> HIDE DEF F
  <2> QED BY <1>7, <1>9, RefileGood
<1> QED BY <1>8, <1>10

\* What wait() frees of the child.
LEMMA WaitFrees ==
  ASSUME NEW mem, NEW prs, NEW sh, Typed(mem, prs, sh), Running(mem), RunInv(mem, prs, sh),
         NEW c \in Proc, NEW s, s = prs[c], s.st = "zombie",
         NEW x, x = On(kfree(mem, s.kstack), s.v, s.sz), NEW y, y = Unpalloc(x, s)
  PROVE  /\ \E n : Good(y, {}, Beyond(prs, sh, Unused, c), n)
         /\ Worse(mem, y.m)
<1> DEFINE R == Beyond(prs, sh, s, c)
           R0 == Beyond(prs, sh, Unused, c)
           x0 == On(mem, s.v, s.sz)
           n == TopOf(s)
           F == ForeignOf(s)
<1>1. /\ mem \in Mem /\ s \in Slot /\ SlotFits(mem, prs, sh, s, c) /\ SlotInv(mem, sh, c, s) /\ NewKeeps(prs, sh, s, sh, c)
      /\ KeepInv(prs, sh)
  BY Before DEF RunInv
<1>2. s.v \in Vm /\ s.sz \in Nat /\ s.kstack \in Page /\ s.page \in Page \cup {0} /\ s.kstack # s.page
  BY <1>1, SlotFields DEF SlotInv, NewKeeps
<1>3. x0 \in Work /\ x0.m = mem /\ x0.v = s.v
  BY <1>1, <1>2, OnFields
<1>4. Good(x0, F, R, n)
  BY <1>1 DEF SlotFits
<1>5. \A g \in Page : /\ g \in R <=> g \in (R0 \cup {s.page}) \cup {s.kstack}
                      /\ KeepsOf(s, g) <=> (g = s.kstack \/ g = s.page)
  BY UnusedFields DEF Beyond, KeepsOf
\* Nobody else has the stack or the page.
<1>6. ASSUME NEW g \in Page, KeepsOf(s, g) PROVE g \notin R0
  <2>1. g \notin SharedOf(sh)
    BY <1>1, <1>6 DEF NewKeeps
  <2>2. ASSUME NEW q \in Proc, q # c PROVE ~KeepsOf(prs[q], g) /\ ~OwnOf(prs[q], g)
    <3>1. ~KeepsOf(prs[q], g)
      BY <1>1, <1>6, <2>2 DEF KeepInv
    <3>2. g \in OutsideOf(prs, sh, q)
      BY <1>6, <2>2 DEF OutsideOf, OthersOf
    <3>3. FitsPages(mem, prs, sh, q)
      <4>1. Fits(mem, prs, sh, q) /\ prs \in [Proc -> Slot]
        BY DEF RunInv, Accounted, Typed
      <4> QED BY <1>1, <4>1, FitsParts
    <3> QED BY <3>1, <3>2, <3>3 DEF FitsPages
  <2> QED BY <2>1, <2>2, UnusedFields DEF Beyond, OthersOf
<1>7. s.kstack \notin R0 \cup {s.page}
  BY <1>2, <1>6 DEF KeepsOf
<1>8. s.page \notin R0
  <2>1. CASE s.page = 0
    BY <2>1, PageFacts DEF Beyond
  <2>2. CASE s.page \in Page
    BY <1>6, <2>2 DEF KeepsOf
  <2> QED BY <1>2, <2>1, <2>2
<1>9. n \in Nat /\ (s.using # "none" => n <= VA1 /\ n <= VA2)
  <2>1. PGROUNDUP(s.sz) \in Nat /\ VA1 \in Nat /\ VA2 \in Nat
    BY <1>2, Rounded, Sizes
  <2>2. s.using # "none" => PGROUNDUP(s.sz) <= VA1 /\ PGROUNDUP(s.sz) <= VA2
    BY <1>1 DEF SlotInv, Below
  <2> QED BY <2>1, <2>2 DEF TopOf
<1> DEFINE m1 == kfree(mem, s.kstack)
<1>10. m1 \in Mem /\ m1.short = mem.short
  BY <1>1, KfreeMem
<1>11. x \in Work /\ x.m = m1 /\ x.v = s.v
  <2> HIDE DEF m1
  <2> QED BY <1>2, <1>10, OnFields DEF m1
<1> HIDE DEF m1
<1>12. Good(x, F, R0 \cup {s.page}, n) /\ Worse(mem, x.m)
  <2> DEFINE Q == R0 \cup {s.page}
             g == s.kstack
  <2>1. Good(x0, F, Q \cup {g}, n)
    <3>1. \A h \in Page : h \in R <=> h \in Q \cup {g}
      BY <1>5
    <3> HIDE DEF Q, R, g, x0, F, n
    <3> QED BY <1>4, <3>1, SameRest
  <2>2. g \in Page /\ InHand(x0.m, g, Q) /\ x.m = kfree(x0.m, g) /\ x.v = x0.v
    BY <1>2, <1>3, <1>7, <1>11 DEF InHand, m1
  <2> HIDE DEF Q, R, g, x0, F, n
  <2>3. Good(x, F, Q, n) /\ Later(x0, x)
    BY <1>11, <2>1, <2>2, KfreeGood
  <2>4. Worse(mem, x.m)
    BY <1>3, <2>3, LaterWorse
  <2> QED BY <2>3, <2>4 DEF Q
<1>13. s.using = "shared" => s.st = "run"
  BY <1>1 DEF SlotInv
<1>14. s.using = "palloc" => PallocPages(mem, s) /\ F = {VA1, VA2}
  BY <1>1 DEF SlotInv, ForeignOf
<1>15. CASE s.page = 0
  <2>1. y = x
    BY <1>15 DEF Unpalloc
  <2>2. Good(x, F, R0, n)
    <3>1. \A h \in Page : h \in R0 \cup {s.page} <=> h \in R0
      BY <1>15, PageFacts
    <3> HIDE DEF R0, F, n
    <3> QED BY <1>12, <3>1, SameRest
  <2>3. \A a \in Va : a \in F => x.v.pte[a].pg \notin Page
    <3>1. CASE s.using = "none"
      <4>1. F = {}
        BY <1>1, <3>1, ForeignPages
      <4> QED BY <4>1
    <3>2. CASE s.using = "palloc"
      <4>1. s.v.pte[VA1].pg \in {None, 0} /\ s.v.pte[VA2].pg \in {None, 0}
        BY <1>14, <1>15, <3>2 DEF PallocPages
      <4> QED BY <1>11, <1>14, <3>2, <4>1, PageFacts
    <3> QED BY <1>1, <1>13, <3>1, <3>2 DEF Slot
  <2>4. Good(x, {}, R0, n)
    <3> HIDE DEF R0, F, n
    <3> QED BY <2>2, <2>3, RefileGood
  <2> QED BY <1>12, <2>1, <2>4
<1>16. CASE s.page # 0
  <2>1. s.using = "palloc"
    BY <1>1, <1>16 DEF SlotInv
  <2>2. F = {VA1, VA2} /\ PallocPages(mem, s) /\ s.page \in Page /\ n <= VA1 /\ n <= VA2
    BY <1>2, <1>9, <1>14, <1>16, <2>1
  <2>3. PallocFits(x, s.page)
    BY <1>10, <1>11, <2>2 DEF PallocPages, PallocFits
  <2> DEFINE w == clearptep(clearptep(x, VA1), VA2)
             page == s.page
             mw == kfree(w.m, page)
  <2>4. y = [w EXCEPT !.m = mw]
    BY <1>16 DEF Unpalloc
  <2>5. w \in Work
    <3>1. \A u \in Work, a \in Va : clearptep(u, a) \in Work
      <4> SUFFICES ASSUME NEW u \in Work, NEW a \in Va PROVE clearptep(u, a) \in Work
        OBVIOUS
      <4>1. u.m \in Mem
        BY WorkFields
      <4>2. "clearpteu" \in Panics
        BY DEF Panics
      <4>3. Panic(u.m, "clearpteu") \in Mem
        BY <4>1, <4>2, PanicFacts
      <4>4. [u EXCEPT !.m = Panic(u.m, "clearpteu")] \in Work
        BY <4>3, MemFields
      <4>5. SetEntry(u, a, NoPte) \in Work
        <5>1. NoPte \in Entry
          BY DEF NoPte, Entry
        <5> QED BY <5>1, PteFields
      <4> QED BY <4>4, <4>5, Zenon DEF clearptep, SetEntry
    <3>2. VA1 \in Va /\ VA2 \in Va
      BY Sizes DEF Va
    <3> QED BY <1>11, <3>1, <3>2
  <2>6. y \in Work /\ y.m = mw /\ y.v = w.v
    <3>1. w.m \in Mem
      <4> HIDE DEF w
      <4> QED BY <2>5, WorkFields
    <3>2. mw \in Mem
      <4> HIDE DEF w
      <4> QED BY <3>1, KfreeMem
    <3> HIDE DEF w, mw
    <3> QED BY <2>4, <2>5, <3>2, MemFields
  <2>7. Good(y, {}, R0, n) /\ Later(x, y)
    <3>1. /\ page \in Page /\ page \notin R0 /\ Good(x, {VA1, VA2}, R0 \cup {page}, n) /\ PallocFits(x, page)
          /\ n \in Nat /\ n <= VA1 /\ n <= VA2
      BY <1>8, <1>9, <1>12, <2>2, <2>3
    <3>2. y \in Work /\ y.m = kfree(w.m, page) /\ y.v = w.v /\ w = clearptep(clearptep(x, VA1), VA2)
      BY <2>6
    <3> HIDE DEF w, page, R0, n
    <3> QED BY <3>1, <3>2, UnpallocPage, SMTT(40)
  <2>8. Worse(mem, y.m)
    BY <1>12, <2>7, LaterWorse, WorseWorse
  <2> QED BY <2>7, <2>8
<1> QED BY <1>15, <1>16

LEMMA WaitStep ==
  ASSUME IInv, NEW p \in Proc, Wait(p)
  PROVE  IInv'
<1>1. Running(m) /\ shm' = shm
  BY DEF Wait, Runs, Running
<1>2. Typed(m, pr, shm) /\ RunInv(m, pr, shm)
  BY <1>1 DEF IInv, InvOf
<1>3. PICK c \in Proc : /\ pr[c].parent = p /\ pr[c].st = "zombie"
                        /\ m' = Release(Unpalloc(On(kfree(m, pr[c].kstack), pr[c].v, pr[c].sz), pr[c]))
                        /\ pr' = [pr EXCEPT ![c] = Unused]
  BY DEF Wait
<1> DEFINE y == Unpalloc(On(kfree(m, pr[c].kstack), pr[c].v, pr[c].sz), pr[c])
           R == Beyond(pr, shm, Unused, c)
<1>4. m' = freevm(y.m, y.v)
  BY <1>3 DEF Release
<1>5. (\E n : Good(y, {}, R, n)) /\ Worse(m, y.m)
  BY <1>1, <1>2, <1>3, WaitFrees
<1> HIDE DEF y
<1>6. FreeOnly(m', R) /\ Worse(y.m, m')
  <2>1. PICK n : Good(y, {}, R, n)
    BY <1>5
  <2>2. y.m \in Mem /\ y.v \in Vm
    BY <2>1, GoodMem
  <2>3. Sound(On(y.m, y.v, 0), {}, R)
    <3>1. Good(On(y.m, y.v, 0), {}, R, n)
      BY <2>1, GoodOn
    <3> QED BY <3>1 DEF Good
  <2> HIDE DEF R
  <2>4. FreeOnly(m', R) /\ (y.m.short => m'.short) /\ (y.m.panic # "" => m'.panic # "")
    BY <1>4, <2>2, <2>3, Freevm, ZenonT(40)
  <2> QED BY <2>4 DEF Worse
<1>7. m' \in Mem /\ (~Running(m') => m'.short) /\ Worse(m, m')
  BY <1>5, <1>6, WorseWorse DEF FreeOnly, Running
<1>8. SlotFits(m', pr, shm, Unused, c)
  BY <1>6, UnusedFits
<1>9. NewKeeps(pr, shm, Unused, shm, c)
  BY UnusedFields, PageFacts DEF NewKeeps
<1>10. SlotInv(m', shm, c, Unused)
  BY UnusedFields, Kern DEF SlotInv
<1>11. Unused.using = "shared" <=> pr[c].using = "shared"
  <2>1. SlotInv(m, shm, c, pr[c])
    BY <1>2 DEF RunInv, SlotsInv
  <2> QED BY <1>3, <2>1, UnusedFields DEF SlotInv
<1>12. Unused \in Slot
  BY UnusedFields
<1>13. InvOf(m', pr', shm)
  BY <1>1, <1>2, <1>3, <1>7, <1>8, <1>9, <1>10, <1>11, <1>12, ChangeOwn, ZenonT(30)
<1> QED BY <1>1, <1>13 DEF IInv

-----------------------------------------------------------------------------
(* palloc().                                                               *)

\* Both mappings.
PallocDone(x, y, R, n, g) ==
  /\ Good(y, {VA1, VA2}, R \cup {g}, n) /\ Later(x, y)
  /\ g \in Page \cup {0} /\ (~y.m.short => g # 0)
  /\ y.m.panic = "" => /\ g \notin R \/ g = 0
                       /\ y.v.pte[VA1].pg \in {None, g} /\ y.v.pte[VA2].pg \in {None, g}
                       /\ ~y.m.short => y.v.pte[VA1].pg = g /\ y.v.pte[VA2].pg = g
LEMMA PallocMaps ==
  ASSUME NEW x, NEW R, NEW n \in Nat, Good(x, {}, R, n), n <= VA1, n <= VA2, NEW g, g = Got(x.m),
         NEW y, y = MapAnyway(MapAnyway(UncheckedOn(x), VA1, g), VA2, g)
  PROVE  PallocDone(x, y, R, n, g)
<1> DEFINE w == UncheckedOn(x)
           y1 == MapAnyway(w, VA1, g)
           Q == R \cup {g}
<1>1. VA1 \in Va /\ VA2 \in Va /\ VA1 # VA2
  BY Sizes DEF Va
<1>2. UncheckedGot(x, w, {}, R, n, g)
  <2> HIDE DEF w
  <2> QED BY UncheckedFacts DEF w
<1>3. /\ Good(w, {}, Q, n) /\ Later(x, w) /\ g \in Page \cup {0} /\ (g = 0 => w.m.short) /\ (g \in Page => InHand(w.m, g, R))
  <2> HIDE DEF w
  <2> QED BY <1>2 DEF UncheckedGot
<1>4. MappedForeign(w, y1, {}, Q, n, VA1, g)
  <2> HIDE DEF w, Q, y1
  <2> QED BY <1>1, <1>3, MapForeign DEF y1
<1>5. Good(y1, {VA1}, Q, n) /\ Later(w, y1)
  <2>1. Good(y1, {} \cup {VA1}, Q, n) /\ Later(w, y1)
    <3> HIDE DEF w, Q, y1
    <3> QED BY <1>4 DEF MappedForeign
  <2>2. {} \cup {VA1} = {VA1}
    OBVIOUS
  <2> QED BY <2>1, <2>2
<1>6. g = 0 => y1.m.short
  <2> HIDE DEF w, y1
  <2> QED BY <1>3, <1>5 DEF Later
<1>7. MappedForeign(y1, y, {VA1}, Q, n, VA2, g)
  <2>1. y = MapAnyway(y1, VA2, g)
    OBVIOUS
  <2>2. VA2 \notin {VA1}
    BY <1>1
  <2> HIDE DEF w, Q, y1
  <2> QED BY <1>1, <1>3, <1>5, <1>6, <2>1, <2>2, MapForeign
<1>8. Good(y, {VA1, VA2}, Q, n) /\ Later(y1, y)
  <2>1. Good(y, {VA1} \cup {VA2}, Q, n) /\ Later(y1, y)
    <3> HIDE DEF w, Q, y1
    <3> QED BY <1>7 DEF MappedForeign
  <2>2. {VA1} \cup {VA2} = {VA1, VA2}
    OBVIOUS
  <2> QED BY <2>1, <2>2
<1>9. Later(w, y) /\ Later(x, y)
  <2> HIDE DEF w, y1
  <2> QED BY <1>3, <1>5, <1>8, LaterLater
<1> HIDE DEF w, y1
<1>10. ~y.m.short => g # 0
  BY <1>6, <1>8 DEF Later
<1>11. y.m.panic = "" => y1.m.panic = "" /\ w.m.panic = ""
  BY <1>8, <1>9 DEF Later
<1>12. y.m.panic = "" => y.v.pte[VA1] = y1.v.pte[VA1] /\ y1.v.pte[VA1].pg \in {None, g} /\ y.v.pte[VA2].pg \in {None, g}
  <2> HIDE DEF Q
  <2>1. y.m.panic = "" => y.v.pte[VA2].pg \in {None, g} /\ \A b \in Va : b # VA2 => y.v.pte[b] = y1.v.pte[b]
    BY <1>7 DEF MappedForeign
  <2>2. y1.m.panic = "" => y1.v.pte[VA1].pg \in {None, g}
    BY <1>4 DEF MappedForeign
  <2> QED BY <1>1, <1>11, <2>1, <2>2
<1>13. ~y.m.short => ~y1.m.short
  BY <1>8 DEF Later
<1>14. ~y.m.short => y1.v.pte[VA1].pg = g /\ y.v.pte[VA2].pg = g
  <2> HIDE DEF Q
  <2> QED BY <1>4, <1>7, <1>13 DEF MappedForeign
<1>15. y.m.panic = "" => g \notin R \/ g = 0
  BY <1>3, <1>11 DEF InHand
<1> QED BY <1>3, <1>8, <1>9, <1>10, <1>12, <1>14, <1>15 DEF PallocDone

LEMMA OnUnchecked ==
  ASSUME NEW mem, NEW v, NEW sz
  PROVE  On(Unchecked(mem), v, sz) = UncheckedOn(On(mem, v, sz))
<1> DEFINE u == Unchecked(mem)
           x == On(mem, v, sz)
<1>1. x = [m |-> mem, v |-> v, sz |-> sz, ok |-> TRUE]
  BY DEF On
<1>2. On(u, v, sz) = [m |-> u, v |-> v, sz |-> sz, ok |-> TRUE]
  BY DEF On
<1>3. UncheckedOn(x) = [x EXCEPT !.m = u]
  <2>1. x.m = mem
    BY <1>1
  <2> QED BY <2>1, Zenon DEF UncheckedOn
<1> HIDE DEF u, x
<1>4. [x EXCEPT !.m = u] = [m |-> u, v |-> v, sz |-> sz, ok |-> TRUE]
  <2>1. \A b : [[m |-> mem, v |-> v, sz |-> sz, ok |-> b] EXCEPT !.m = u] = [m |-> u, v |-> v, sz |-> sz, ok |-> b]
    OBVIOUS
  <2> QED BY <1>1, <2>1, Zenon
<1> QED BY <1>2, <1>3, <1>4 DEF u, x

PallocSlot(s, v, g) == [s EXCEPT !.v = v, !.page = g, !.using = "palloc"]
LEMMA PallocFields ==
  ASSUME NEW s \in Slot, NEW v \in Vm, NEW g \in Page \cup {0}, NEW s2, s2 = PallocSlot(s, v, g)
  PROVE  /\ s2 \in Slot /\ s2.v = v /\ s2.page = g /\ s2.using = "palloc"
         /\ s2.st = s.st /\ s2.kstack = s.kstack /\ s2.shared = s.shared
         /\ s2.vaddr = s.vaddr /\ s2.sz = s.sz /\ s2.at = s.at
BY DEF PallocSlot, Slot

LEMMA PallocStep ==
  ASSUME IInv, NEW p \in Proc, Palloc(p)
  PROVE  IInv'
<1> DEFINE s == pr[p]
           x == On(m, s.v, s.sz)
           R == OutsideOf(pr, shm, p)
           g == Got(m)
           y == MapAnyway(MapAnyway(UncheckedOn(x), VA1, g), VA2, g)
           n == PGROUNDUP(s.sz)
           s2 == PallocSlot(s, y.v, g)
<1>1. Running(m) /\ s.st = "run" /\ s.at = "user" /\ s.using = "none" /\ shm' = shm /\ Below(s.sz)
  BY DEF Palloc, Runs, Running
<1>2. Typed(m, pr, shm) /\ RunInv(m, pr, shm)
  BY <1>1 DEF IInv, InvOf
<1>3. /\ m \in Mem /\ s \in Slot /\ SlotFits(m, pr, shm, s, p) /\ SlotInv(m, shm, p, s)
      /\ NewKeeps(pr, shm, s, shm, p) /\ R = Beyond(pr, shm, s, p)
  BY <1>1, <1>2, Before
<1>4. s.v \in Vm /\ s.sz \in Nat /\ s.page = 0 /\ s.kstack \in Page /\ s.sz <= KERNBASE
  BY <1>1, <1>3, SlotFields DEF SlotInv
<1>5. ForeignOf(s) = {} /\ TopOf(s) = n
  BY <1>1, <1>3, ForeignPages DEF TopOf
<1>6. x \in Work /\ x.m = m /\ x.v = s.v
  <2> HIDE DEF s
  <2> QED BY <1>3, <1>4, OnFields
<1>7. Good(x, {}, R, n)
  BY <1>3, <1>5 DEF SlotFits
<1>8. m' = y.m /\ pr' = [pr EXCEPT ![p] = s2]
  <2>1. On(Unchecked(m), s.v, s.sz) = UncheckedOn(x)
    BY OnUnchecked
  <2>2. m' = y.m /\ pr' = [pr EXCEPT ![p].v = y.v, ![p].page = g, ![p].using = "palloc"]
    BY <2>1, Zenon DEF Palloc
  <2>3. pr \in [Proc -> Slot]
    BY <1>2 DEF Typed
  <2> HIDE DEF y, g
  <2>4. pr' = [pr EXCEPT ![p] = s2]
    BY <2>2, <2>3 DEF PallocSlot
  <2> QED BY <2>2, <2>4
<1>9. n \in Nat /\ n <= VA1 /\ n <= VA2
  BY <1>1, <1>4, Rounded DEF Below
<1>10. PallocDone(x, y, R, n, g)
  <2>1. g = Got(x.m)
    BY <1>6
  <2> HIDE DEF x, R, n, g, y
  <2> QED BY <1>7, <1>9, <2>1, PallocMaps DEF y
<1> HIDE DEF x, y, g
<1>11. Good(y, {VA1, VA2}, R \cup {g}, n) /\ Worse(m, y.m) /\ g \in Page \cup {0}
  BY <1>6, <1>10, LaterWorse DEF PallocDone
<1>12. y.m \in Mem /\ y.v \in Vm /\ (~Running(y.m) => y.m.short)
  <2> HIDE DEF R, n
  <2> QED BY <1>11, GoodMem
<1>13. /\ s2 \in Slot /\ s2.v = y.v /\ s2.page = g /\ s2.using = "palloc"
       /\ s2.st = s.st /\ s2.kstack = s.kstack /\ s2.shared = s.shared
       /\ s2.vaddr = s.vaddr /\ s2.sz = s.sz /\ s2.at = s.at
  <2> HIDE DEF s, s2
  <2> QED BY <1>3, <1>11, <1>12, PallocFields DEF s2
<1> HIDE DEF s2
<1>14. ForeignOf(s2) = {VA1, VA2} /\ TopOf(s2) = n
  BY <1>1, <1>13 DEF ForeignOf, TopOf
<1>15. \A h \in Page : /\ KeepsOf(s2, h) <=> (h = s.kstack \/ h = g)
                       /\ KeepsOf(s, h) <=> h = s.kstack
  BY <1>4, <1>13, PageFacts DEF KeepsOf
<1>16. \A h \in Page : h \in R \cup {g} <=> h \in Beyond(pr, shm, s2, p)
  BY <1>3, <1>15 DEF Beyond
<1>17. SlotFits(y.m, pr, shm, s2, p)
  <2>1. Good(On(y.m, y.v, s.sz), {VA1, VA2}, R \cup {g}, n)
    <3> HIDE DEF R, n, s
    <3> QED BY <1>4, <1>11, GoodOn
  <2>2. Good(On(y.m, y.v, s.sz), {VA1, VA2}, Beyond(pr, shm, s2, p), n)
    <3> HIDE DEF R, n, s
    <3> QED BY <1>16, <2>1, SameRest
  <2> QED BY <1>13, <1>14, <2>2 DEF SlotFits
<1>18. ASSUME Running(y.m) PROVE NewKeeps(pr, shm, s2, shm, p) /\ SlotInv(y.m, shm, p, s2)
  <2>1. /\ g \notin R \/ g = 0
        /\ y.v.pte[VA1].pg \in {None, g} /\ y.v.pte[VA2].pg \in {None, g}
        /\ ~y.m.short => g # 0 /\ y.v.pte[VA1].pg = g /\ y.v.pte[VA2].pg = g
    BY <1>10, <1>18 DEF PallocDone, Running
  <2>2. s.kstack \in R /\ \A h \in Page : h \in SharedOf(shm) => h \in R
    BY <1>3, <1>4, <1>15 DEF Beyond
  <2>3. NewKeeps(pr, shm, s2, shm, p)
    <3>1. \A h \in Page : KeepsOf(s2, h) => h \notin SharedOf(shm)
      BY <1>3, <1>15, <2>1, <2>2, PageFacts DEF NewKeeps
    <3>2. \A h \in Page : KeepsOf(s2, h) => KeepsOf(pr[p], h) \/ h \notin OutsideOf(pr, shm, p)
      BY <1>15, <2>1, PageFacts
    <3>3. s2.kstack # s2.page
      BY <1>4, <1>13, <2>1, <2>2, PageFacts
    <3> QED BY <3>1, <3>2, <3>3 DEF NewKeeps
  <2>4. PallocPages(y.m, s2)
    BY <1>13, <2>1 DEF PallocPages
  <2>5. SlotInv(y.m, shm, p, s2)
    <3>1. Below(s2.sz) /\ s2.st = "run" /\ s2.at = "user"
      BY <1>1, <1>13
    <3> QED BY <1>4, <1>13, <2>4, <3>1 DEF SlotInv
  <2> QED BY <2>3, <2>5
<1>19. s2.using = "shared" <=> pr[p].using = "shared"
  BY <1>1, <1>13
<1>20. InvOf(y.m, pr', shm)
  BY <1>1, <1>2, <1>8, <1>11, <1>12, <1>13, <1>17, <1>18, <1>19, ChangeOwn, ZenonT(30)
<1> QED BY <1>1, <1>8, <1>20 DEF IInv

-----------------------------------------------------------------------------
(* mmap_alloc() and mmap_attach().                                         *)

SharedSlot(s, v, va) == [s EXCEPT !.v = v, !.at = "user", !.shared = TRUE, !.vaddr = va, !.using = "shared"]
LEMMA SharedFields ==
  ASSUME NEW s \in Slot, NEW v \in Vm, NEW va \in Nat, NEW s2, s2 = SharedSlot(s, v, va)
  PROVE  /\ s2 \in Slot /\ s2.v = v /\ s2.at = "user" /\ s2.shared /\ s2.vaddr = va /\ s2.using = "shared"
         /\ s2.st = s.st /\ s2.kstack = s.kstack /\ s2.page = s.page /\ s2.sz = s.sz
<1>1. /\ s2 \in Slot /\ s2.v = v /\ s2.at = "user" /\ s2.vaddr = va /\ s2.using = "shared"
      /\ s2.st = s.st /\ s2.kstack = s.kstack /\ s2.page = s.page /\ s2.sz = s.sz
  BY DEF SharedSlot, Slot
<1>2. s2.shared
  BY DEF SharedSlot, Slot
<1> QED BY <1>1, <1>2

\* The processes that use shared memory.
LEMMA UsersFinite ==
  ASSUME NEW prs
  PROVE  IsFiniteSet(Users(prs)) /\ Cardinality(Users(prs)) \in Nat
<1>1. IsFiniteSet(Proc)
  BY Sizes, FS_Interval DEF Proc
<1>2. Users(prs) \subseteq Proc
  BY DEF Users
<1> QED BY <1>1, <1>2, FS_Subset, FS_CardinalityType

LEMMA UsersJoin ==
  ASSUME NEW prs \in [Proc -> Slot], NEW p \in Proc, prs[p].using # "shared", NEW s2, s2.using = "shared",
         NEW prs2, prs2 = [prs EXCEPT ![p] = s2]
  PROVE  Cardinality(Users(prs2)) = Cardinality(Users(prs)) + 1
<1>1. p \notin Users(prs) /\ Users(prs2) = Users(prs) \cup {p}
  BY DEF Users
<1> QED BY <1>1, UsersFinite, FS_AddElement

LEMMA UsersLeave ==
  ASSUME NEW prs \in [Proc -> Slot], NEW p \in Proc, prs[p].using = "shared", NEW s2, s2.using # "shared",
         NEW prs2, prs2 = [prs EXCEPT ![p] = s2]
  PROVE  Cardinality(Users(prs2)) = Cardinality(Users(prs)) - 1 /\ Cardinality(Users(prs)) > 0
<1>1. p \in Users(prs) /\ Users(prs2) = Users(prs) \ {p}
  BY DEF Users
<1>2. Cardinality(Users(prs2)) = Cardinality(Users(prs)) - 1
  BY <1>1, UsersFinite, FS_RemoveElement
<1>3. Cardinality(Users(prs2)) \in Nat /\ Cardinality(Users(prs)) \in Nat
  BY UsersFinite
<1> QED BY <1>2, <1>3

\* A process maps the pages of shared memory sh2 from va on.
LEMMA NowShared ==
  ASSUME NEW mem, NEW prs, NEW sh, Typed(mem, prs, sh), Running(mem), RunInv(mem, prs, sh),
         NEW p \in Proc, NEW s, s = prs[p], s.st = "run", s.using = "none", Below(s.sz),
         NEW y, NEW va \in {VA1, VA2}, NEW sh2 \in Shm, sh2.refcount > 0, NEW Q,
         Good(y, Span(va, NSHARED), Q, PGROUNDUP(s.sz)), Worse(mem, y.m),
         \A g \in Page : g \in Q <=> (g \in OutsideOf(prs, sh, p) \/ g \in SharedOf(sh2)),
         MappedAll(y, va, sh2.pages, NSHARED),
         \A g \in Page : g \in SharedOf(sh) => g \in SharedOf(sh2),
         NEW s2, s2 = SharedSlot(s, y.v, va), NEW prs2, prs2 = [prs EXCEPT ![p] = s2],
         Running(y.m) => /\ \A g \in Page : g \in SharedOf(sh2) => g \in SharedOf(sh) \/ g \notin OutsideOf(prs, sh, p)
                         /\ ShmInv(y.m, prs2, sh2),
         SharesKept(prs, sh, sh2, p)
  PROVE  InvOf(y.m, prs2, sh2)
<1> DEFINE R == OutsideOf(prs, sh, p)
           n == PGROUNDUP(s.sz)
<1>1. /\ s \in Slot /\ SlotInv(mem, sh, p, s) /\ NewKeeps(prs, sh, s, sh, p) /\ R = Beyond(prs, sh, s, p)
  BY Before
<1>2. y.m \in Mem /\ y.v \in Vm /\ (~Running(y.m) => y.m.short)
  BY GoodMem
<1>3. va \in Nat
  BY Sizes
<1>4. /\ s2 \in Slot /\ s2.v = y.v /\ s2.at = "user" /\ s2.shared /\ s2.vaddr = va /\ s2.using = "shared"
      /\ s2.st = s.st /\ s2.kstack = s.kstack /\ s2.page = s.page /\ s2.sz = s.sz
  BY <1>1, <1>2, <1>3, SharedFields
<1>5. s.sz \in Nat /\ s.sz <= KERNBASE /\ s.page = 0 /\ s.kstack \in Page
  BY <1>1, SlotFields DEF SlotInv
<1>6. ForeignOf(s2) = Span(va, NSHARED) /\ TopOf(s2) = n
  BY <1>4 DEF ForeignOf, TopOf
<1>7. \A g \in Page : KeepsOf(s2, g) <=> KeepsOf(s, g)
  BY <1>4 DEF KeepsOf
<1>8. \A g \in Page : g \in Q <=> g \in Beyond(prs, sh2, s2, p)
  BY <1>1, <1>7 DEF Beyond
<1>9. SlotFits(y.m, prs, sh2, s2, p)
  <2> DEFINE F == Span(va, NSHARED)
  <2>1. Good(On(y.m, y.v, s.sz), F, Q, n)
    <3>1. Good(y, F, Q, n)
      OBVIOUS
    <3> HIDE DEF n, F
    <3> QED BY <1>5, <3>1, GoodOn
  <2>2. Good(On(y.m, y.v, s.sz), F, Beyond(prs, sh2, s2, p), n)
    <3> HIDE DEF n, F
    <3> QED BY <1>8, <2>1, SameRest
  <2> QED BY <1>4, <1>6, <2>2 DEF SlotFits
<1>10. ASSUME Running(y.m) PROVE NewKeeps(prs, sh, s2, sh2, p)
  <2>1. \A g \in Page : g \in SharedOf(sh2) => g \in SharedOf(sh) \/ g \notin R
    BY <1>10
  <2>2. \A g \in Page : KeepsOf(s, g) => g \in R
    BY <1>1 DEF Beyond
  <2>3. \A g \in Page : KeepsOf(s2, g) => g \notin SharedOf(sh2)
    BY <1>1, <1>7, <2>1, <2>2 DEF NewKeeps
  <2>4. s2.kstack # s2.page
    BY <1>4, <1>5, PageFacts
  <2> QED BY <1>7, <2>1, <2>3, <2>4 DEF NewKeeps
<1>11. SlotInv(y.m, sh2, p, s2)
  <2>1. SeesShared(y.m, sh2, s2)
    BY <1>4 DEF MappedAll, SeesShared
  <2> QED BY <1>4, <1>5, <2>1 DEF SlotInv
<1>12. Running(y.m) => Stepped(mem, prs, sh, y.m, s2, prs2, sh2, p)
  BY <1>9, <1>10, <1>11, Zenon DEF Stepped
<1> QED BY <1>2, <1>4, <1>12, ChangeSlot, ZenonT(30)

\* One process calls mmap_alloc(), as in the programs of the repository: the
\* test of shared_refcount comes before the lock, so two could both pass it.
OneAllocator == \A a, b \in Allocators : a = b

LEMMA MmapAllocStep ==
  ASSUME OneAllocator, IInv, NEW p \in Proc, MmapAlloc(p)
  PROVE  IInv'
<1> DEFINE s == pr[p]
           x == On(m, s.v, s.sz)
           R == OutsideOf(pr, shm, p)
           n == PGROUNDUP(s.sz)
           x0 == [x |-> x, pages |-> <<>>]
           y == SharePages(x0, NSHARED)
           sh2 == [refcount |-> 1, pages |-> y.pages]
           s2 == SharedSlot(s, y.x.v, VA1)
<1>1. Running(m) /\ s.st = "run" /\ s.at = "mmap_alloc"
  BY DEF MmapAlloc, Running
<1>2. Typed(m, pr, shm) /\ RunInv(m, pr, shm)
  BY <1>1 DEF IInv, InvOf
<1>3. /\ m \in Mem /\ shm \in Shm /\ s \in Slot /\ SlotFits(m, pr, shm, s, p) /\ SlotInv(m, shm, p, s)
      /\ ShmInv(m, pr, shm) /\ R = Beyond(pr, shm, s, p)
  BY <1>1, <1>2, Before
<1>4. s.v \in Vm /\ s.sz \in Nat /\ s.using = "none" /\ Below(s.sz) /\ p \in Allocators /\ shm.refcount = 0
  BY <1>1, <1>3, SlotFields DEF SlotInv
<1>5. ForeignOf(s) = {} /\ TopOf(s) = n
  BY <1>1, <1>3, <1>4, ForeignPages DEF TopOf
<1>6. x \in Work /\ x.m = m /\ x.v = s.v
  <2> HIDE DEF s
  <2> QED BY <1>3, <1>4, OnFields
<1>7. Good(x, {}, R, n)
  BY <1>3, <1>5 DEF SlotFits
<1>8. n \in Nat /\ n <= VA1
  BY <1>4, Rounded DEF Below
<1>9. m' = y.x.m /\ pr' = [pr EXCEPT ![p] = s2] /\ shm' = sh2
  <2>1. Self(p) = x
    BY DEF Self
  <2>2. y = Repeat(SharePage, [x |-> Self(p), pages |-> <<>>], NSHARED)
    BY <2>1, Zenon DEF SharePages
  <2>3. Shared(p, y.x, VA1) /\ shm' = sh2
    BY <2>2, Zenon DEF MmapAlloc
  <2> HIDE DEF y
  <2>4. m' = y.x.m /\ pr' = [pr EXCEPT ![p].v = y.x.v, ![p].at = "user", ![p].shared = TRUE, ![p].vaddr = VA1, ![p].using = "shared"]
    BY <2>3 DEF Shared
  <2>5. pr \in [Proc -> Slot]
    BY <1>2 DEF Typed
  <2>6. pr' = [pr EXCEPT ![p] = s2]
    BY <2>4, <2>5 DEF SharedSlot
  <2> QED BY <2>3, <2>4, <2>6
<1>10. ShareInv(x, x0, R, n, 0)
  <2>1. x0.x = x /\ x0.pages = <<>> /\ x0 \in Shares /\ Len(x0.pages) = 0
    <3> HIDE DEF x
    <3> QED BY <1>6 DEF Shares
  <2> HIDE DEF x0, x
  <2>2. Span(VA1, 0) = {}
    BY Sizes, SpanNext
  <2>3. Elems(x0.pages) = {}
    BY <2>1 DEF Elems
  <2>4. Good(x0.x, Span(VA1, 0), R \cup Elems(x0.pages), n)
    <3>1. R \cup {} = R
      OBVIOUS
    <3> QED BY <1>7, <2>1, <2>2, <2>3, <3>1
  <2>5. NewPages(x0.x.m, x0.pages, R)
    <3>1. 1 .. Len(x0.pages) = {}
      BY <2>1
    <3> QED BY <3>1, Zenon DEF NewPages
  <2>6. MappedAll(x0.x, VA1, x0.pages, 0)
    BY DEF MappedAll
  <2> QED BY <2>1, <2>4, <2>5, <2>6, LaterSelf DEF ShareInv
<1>11. ShareInv(x, y, R, n, NSHARED)
  <2>1. NSHARED \in Nat /\ NSHARED <= NSHARED
    BY Sizes
  <2> HIDE DEF x, x0, R, n, y
  <2> QED BY <1>8, <1>10, <2>1, ShareLoop DEF y
<1> HIDE DEF x, x0, y
<1>12. /\ y \in Shares /\ Len(y.pages) = NSHARED /\ Good(y.x, Span(VA1, NSHARED), R \cup Elems(y.pages), n)
       /\ Worse(m, y.x.m) /\ NewPages(y.x.m, y.pages, R) /\ MappedAll(y.x, VA1, y.pages, NSHARED)
  <2> HIDE DEF R, n
  <2> QED BY <1>6, <1>11, LaterWorse DEF ShareInv
<1>13. sh2 \in Shm /\ sh2.refcount = 1 /\ sh2.pages = y.pages
  BY <1>12 DEF Shm, Shares
<1>14. SharedOf(sh2) = Elems(y.pages) /\ SharedOf(shm) = {}
  BY <1>4, <1>13 DEF SharedOf
<1>15. Users(pr) = {}
  <2>1. Cardinality(Users(pr)) = 0
    BY <1>3, <1>4 DEF ShmInv
  <2> QED BY <2>1, UsersFinite, FS_EmptySet
<1>16. SharesKept(pr, shm, sh2, p)
  <2>1. \A q \in Proc : pr[q].using # "shared"
    BY <1>15 DEF Users
  <2>2. \A q \in Proc : pr[q].at = "mmap_alloc" => q \in Allocators
    BY <1>2 DEF RunInv, SlotsInv, SlotInv
  <2>3. \A q \in Proc : q # p => pr[q].at # "mmap_alloc"
    BY <1>4, <2>2 DEF OneAllocator
  <2> QED BY <2>1, <2>3 DEF SharesKept
<1>17. s2.using = "shared" /\ s2 \in Slot
  <2>1. y.x.v \in Vm /\ VA1 \in Nat
    <3> HIDE DEF R, n
    <3> QED BY <1>12, GoodMem, Sizes
  <2> HIDE DEF s
  <2> QED BY <1>3, <2>1, SharedFields
<1>18. ASSUME Running(y.x.m)
       PROVE  /\ \A g \in Page : g \in SharedOf(sh2) => g \in SharedOf(shm) \/ g \notin R
              /\ ShmInv(y.x.m, pr', sh2)
  <2>1. /\ \A i, j \in 1 .. NSHARED : y.pages[i] = y.pages[j] /\ y.pages[j] \in Page => i = j
        /\ \A i \in 1 .. NSHARED : y.pages[i] \in Page => y.pages[i] \notin R
    BY <1>12, <1>18 DEF NewPages, Running
  <2>2. \A g \in Page : g \in Elems(y.pages) => g \notin R
    BY <1>12, <2>1 DEF Elems
  <2>3. Cardinality(Users(pr')) = 1
    <3> HIDE DEF s2
    <3>1. Users(pr') = {p}
      <4>1. pr \in [Proc -> Slot]
        BY <1>2 DEF Typed
      <4> QED BY <1>9, <1>15, <1>17, <4>1 DEF Users
    <3> QED BY <3>1, FS_Singleton
  <2>4. ~y.x.m.short => \A i \in 1 .. NSHARED : y.pages[i] # 0
    BY <1>12 DEF MappedAll
  <2>5. ShmInv(y.x.m, pr', sh2)
    <3> HIDE DEF sh2
    <3> QED BY <1>12, <1>13, <2>1, <2>3, <2>4 DEF ShmInv
  <2> QED BY <1>14, <2>2, <2>5
<1>19. InvOf(y.x.m, pr', sh2)
  <2> DEFINE z == y.x
             Q == R \cup Elems(y.pages)
             prs2 == pr'
  <2>1. /\ VA1 \in {VA1, VA2} /\ sh2.refcount > 0
        /\ \A g \in Page : g \in Q <=> (g \in R \/ g \in SharedOf(sh2))
        /\ \A g \in Page : g \in SharedOf(shm) => g \in SharedOf(sh2)
        /\ MappedAll(z, VA1, sh2.pages, NSHARED)
    BY <1>1, <1>12, <1>13, <1>14
  <2>2. prs2 = [pr EXCEPT ![p] = SharedSlot(s, z.v, VA1)]
    BY <1>9
  <2>3. Good(z, Span(VA1, NSHARED), Q, PGROUNDUP(s.sz)) /\ Worse(m, z.m)
    BY <1>12
  <2>4. Running(z.m) => /\ \A g \in Page : g \in SharedOf(sh2) => g \in SharedOf(shm) \/ g \notin OutsideOf(pr, shm, p)
                        /\ ShmInv(z.m, prs2, sh2)
    BY <1>18
  <2> HIDE DEF z, Q, sh2, prs2
  <2>5. InvOf(z.m, prs2, sh2)
    BY <1>1, <1>2, <1>4, <1>13, <1>16, <2>1, <2>2, <2>3, <2>4, NowShared, ZenonT(60)
  <2> QED BY <2>5 DEF z, prs2
<1> QED BY <1>9, <1>19 DEF IInv

LEMMA MmapAttachStep ==
  ASSUME IInv, NEW p \in Proc, MmapAttach(p)
  PROVE  IInv'
<1> DEFINE s == pr[p]
           x == On(m, s.v, s.sz)
           R == OutsideOf(pr, shm, p)
           n == PGROUNDUP(s.sz)
           pages == shm.pages
           y == AttachPages(x, VA2, pages, NSHARED)
           sh2 == [shm EXCEPT !.refcount = shm.refcount + 1]
           s2 == SharedSlot(s, y.v, VA2)
<1>1. Running(m) /\ s.st = "run" /\ s.at = "user" /\ s.using = "none" /\ Below(s.sz) /\ shm.refcount > 0
  BY DEF MmapAttach, Runs, Running
<1>2. Typed(m, pr, shm) /\ RunInv(m, pr, shm)
  BY <1>1 DEF IInv, InvOf
<1>3. /\ m \in Mem /\ shm \in Shm /\ s \in Slot /\ SlotFits(m, pr, shm, s, p) /\ SlotInv(m, shm, p, s)
      /\ ShmInv(m, pr, shm) /\ R = Beyond(pr, shm, s, p)
  BY <1>1, <1>2, Before
<1>4. s.v \in Vm /\ s.sz \in Nat
  BY <1>3, SlotFields
<1>5. ForeignOf(s) = {} /\ TopOf(s) = n
  BY <1>1, <1>3, ForeignPages DEF TopOf
<1>6. x \in Work /\ x.m = m /\ x.v = s.v
  <2> HIDE DEF s
  <2> QED BY <1>3, <1>4, OnFields
<1>7. Good(x, {}, R, n)
  BY <1>3, <1>5 DEF SlotFits
<1>8. n \in Nat /\ n <= VA2
  BY <1>1, <1>4, Rounded DEF Below
<1>9. m' = y.m /\ pr' = [pr EXCEPT ![p] = s2] /\ shm' = sh2
  <2>1. Self(p) = x
    BY DEF Self
  <2>2. y = Repeat(LAMBDA u, k : MapAnyway(u, VA2 + k, shm.pages[k + 1]), Self(p), NSHARED)
    BY <2>1, Zenon DEF AttachPages
  <2>3. Shared(p, y, VA2) /\ shm' = [shm EXCEPT !.refcount = AttachedOne(shm.refcount)]
    BY <2>2, Zenon DEF MmapAttach
  <2>4. shm' = sh2
    BY <2>3 DEF AttachedOne
  <2> HIDE DEF y
  <2>5. m' = y.m /\ pr' = [pr EXCEPT ![p].v = y.v, ![p].at = "user", ![p].shared = TRUE, ![p].vaddr = VA2, ![p].using = "shared"]
    BY <2>3 DEF Shared
  <2>6. pr \in [Proc -> Slot]
    BY <1>2 DEF Typed
  <2>7. pr' = [pr EXCEPT ![p] = s2]
    BY <2>5, <2>6 DEF SharedSlot
  <2> QED BY <2>4, <2>5, <2>7
<1>10. AttachInv(x, x, R, n, VA2, pages, 0)
  <2> HIDE DEF x, pages
  <2>1. Span(VA2, 0) = {}
    BY Sizes, SpanNext
  <2>2. MappedAll(x, VA2, pages, 0)
    BY DEF MappedAll
  <2> QED BY <1>7, <2>1, <2>2, LaterSelf DEF AttachInv
<1>11. Attachable(x, pages)
  <2>1. Len(pages) = NSHARED /\ (~m.short => \A i \in 1 .. NSHARED : pages[i] # 0)
    BY <1>1, <1>3 DEF ShmInv
  <2>2. pages \in Seq(Page \cup {0})
    BY <1>3 DEF Shm
  <2> HIDE DEF pages, x
  <2>3. \A i \in 1 .. NSHARED : pages[i] \in Page \cup {0}
    BY <2>1, <2>2
  <2> QED BY <1>6, <2>1, <2>3 DEF Attachable
<1>12. AttachInv(x, y, R, n, VA2, pages, NSHARED)
  <2>1. NSHARED \in Nat /\ NSHARED <= NSHARED /\ VA2 \in Nat /\ VA2 + NSHARED <= KERNPAGES
    BY Sizes
  <2> HIDE DEF x, pages, R, n, y
  <2> QED BY <1>8, <1>10, <1>11, <2>1, AttachLoop DEF y
<1> HIDE DEF x, y
<1>13. Good(y, Span(VA2, NSHARED), R, n) /\ Worse(m, y.m) /\ MappedAll(y, VA2, pages, NSHARED)
  <2> HIDE DEF R, n
  <2> QED BY <1>6, <1>12, LaterWorse DEF AttachInv
<1>14. sh2 \in Shm /\ sh2.refcount = shm.refcount + 1 /\ sh2.pages = pages /\ sh2.refcount > 0
  BY <1>1, <1>3 DEF Shm
<1>15. SharedOf(sh2) = SharedOf(shm)
  BY <1>1, <1>14 DEF SharedOf
<1>16. SharesKept(pr, shm, sh2, p)
  <2>1. \A q \in Proc : pr[q].at = "mmap_alloc" => shm.refcount = 0
    BY <1>2 DEF RunInv, SlotsInv, SlotInv
  <2> HIDE DEF sh2
  <2> QED BY <1>1, <1>14, <2>1 DEF SharesKept
<1>17. ShmInv(y.m, pr', sh2)
  <2>1. Cardinality(Users(pr')) = Cardinality(Users(pr)) + 1
    <3>1. y.v \in Vm /\ VA2 \in Nat
      <4> HIDE DEF R, n
      <4> QED BY <1>13, GoodMem, Sizes
    <3>2. s2.using = "shared"
      <4> HIDE DEF s
      <4> QED BY <1>3, <3>1, SharedFields
    <3>3. pr \in [Proc -> Slot] /\ pr[p].using # "shared"
      BY <1>1, <1>2 DEF Typed
    <3> HIDE DEF s2
    <3> QED BY <1>9, <3>2, <3>3, UsersJoin
  <2>2. m.short => y.m.short
    BY <1>13 DEF Worse
  <2> HIDE DEF sh2
  <2> QED BY <1>1, <1>3, <1>14, <2>1, <2>2 DEF ShmInv
<1>18. InvOf(y.m, pr', sh2)
  <2> DEFINE prs2 == pr'
  <2>1. /\ VA2 \in {VA1, VA2}
        /\ \A g \in Page : g \in R <=> (g \in R \/ g \in SharedOf(sh2))
        /\ \A g \in Page : g \in SharedOf(shm) => g \in SharedOf(sh2)
        /\ MappedAll(y, VA2, sh2.pages, NSHARED)
    BY <1>1, <1>3, <1>13, <1>14, <1>15 DEF Beyond
  <2>2. prs2 = [pr EXCEPT ![p] = SharedSlot(s, y.v, VA2)]
    BY <1>9
  <2>3. Running(y.m) => /\ \A g \in Page : g \in SharedOf(sh2) => g \in SharedOf(shm) \/ g \notin OutsideOf(pr, shm, p)
                        /\ ShmInv(y.m, prs2, sh2)
    BY <1>15, <1>17
  <2> HIDE DEF sh2, prs2
  <2>4. InvOf(y.m, prs2, sh2)
    BY <1>1, <1>2, <1>4, <1>13, <1>14, <1>16, <2>1, <2>2, <2>3, NowShared, ZenonT(60)
  <2> QED BY <2>4 DEF prs2
<1> QED BY <1>9, <1>18 DEF IInv

-----------------------------------------------------------------------------
(* mmap_detach().                                                          *)

FreedAll(mem, S, z) ==
  /\ z \in Mem /\ z.free = mem.free \cup (S \cap Page) /\ z.short = mem.short
  /\ S \cap mem.free = {} => z.twice = mem.twice
  /\ S \subseteq Page => z.panic = mem.panic
  /\ mem.panic # "" => z.panic # ""
LEMMA KfreeAllFields ==
  ASSUME NEW mem \in Mem, NEW S, NEW z, z = kfreeAll(mem, S)
  PROVE  FreedAll(mem, S, z)
<1>1. "kfree" \in Panics
  BY DEF Panics
<1> DEFINE t == mem.twice \/ S \cap mem.free # {}
           w == IF mem.panic = "" /\ ~(S \subseteq Page) THEN "kfree" ELSE mem.panic
           f == mem.free \cup (S \cap Page)
<1>2. mem.free \in SUBSET Page /\ mem.twice \in BOOLEAN /\ mem.panic \in Panics \cup {""} /\ mem.short \in BOOLEAN
  BY DEF Mem
<1>3. f \in SUBSET Page /\ t \in BOOLEAN /\ w \in Panics \cup {""}
  BY <1>1, <1>2
<1>4. z = [mem EXCEPT !.free = f, !.twice = t, !.panic = w]
  BY Zenon DEF kfreeAll
<1>5. (S \subseteq Page => w = mem.panic) /\ (mem.panic # "" => w # "")
  OBVIOUS
<1>6. S \cap mem.free = {} => t = mem.twice
  BY <1>2
<1> HIDE DEF f, t, w
<1>7. z \in Mem /\ z.free = f /\ z.twice = t /\ z.panic = w /\ z.short = mem.short
  BY <1>3, <1>4 DEF Mem
<1> QED BY <1>5, <1>6, <1>7 DEF f, FreedAll

\* kfree() of pages that only shared memory has.
LEMMA FreeMore ==
  ASSUME NEW y, NEW R, NEW n, Good(y, {}, R, n), NEW S, S \subseteq Page \cup {0}, 0 \in S => y.m.short,
         \A g \in Page : g \in S => g \in R,
         NEW Q, \A g \in Page : g \in Q <=> (g \in R /\ g \notin S),
         NEW z \in Work, z.m = kfreeAll(y.m, S), z.v = y.v
  PROVE  Good(z, {}, Q, n) /\ Later(y, z)
<1>1. y \in Work /\ y.m \in Mem /\ (y.m.panic # "" => y.m.short)
  BY WorkFields DEF Good, Sound
<1>2. /\ z.m.free = y.m.free \cup (S \cap Page) /\ z.m.short = y.m.short
      /\ S \cap y.m.free = {} => z.m.twice = y.m.twice
      /\ S \subseteq Page => z.m.panic = y.m.panic
      /\ y.m.panic # "" => z.m.panic # ""
  <2>1. FreedAll(y.m, S, z.m)
    BY <1>1, KfreeAllFields
  <2> QED BY <2>1 DEF FreedAll
<1>3. Later(y, z)
  BY <1>2 DEF Later
<1>4. z.m.panic # "" => z.m.short
  <2>1. CASE S \subseteq Page
    BY <1>1, <1>2, <2>1
  <2>2. CASE ~(S \subseteq Page)
    <3>1. 0 \in S
      BY <2>2
    <3> QED BY <1>2, <3>1
  <2> QED BY <2>1, <2>2
<1>5. ~z.m.short => Exact(z.v, {}, n)
  BY <1>2 DEF Good
<1>6. ASSUME z.m.panic = "" PROVE Acct(z, {}, Q)
  <2>1. Acct(y, {}, R)
    BY <1>2, <1>6 DEF Good, Sound
  <2>2. y.m.free \in SUBSET Page
    BY <1>1, FreeField
  <2>3. S \cap y.m.free = {}
    BY <2>1, <2>2 DEF Acct, Apart
  <2>4. ~z.m.twice /\ Distinct(z.v, {}) /\ Tables(z.v)
    BY <1>2, <2>1, <2>3 DEF Acct
  <2>5. Apart(z.m, z.v, {}, Q)
    <3>1. Apart(y.m, y.v, {}, R)
      BY <2>1 DEF Acct
    <3> QED BY <1>2, <3>1 DEF Apart
  <2>6. ~z.m.short => Covered(z.m, z.v, {}, Q) /\ NoZero(z.v)
    <3>1. ~y.m.short => Covered(y.m, y.v, {}, R) /\ NoZero(y.v)
      BY <2>1 DEF Acct
    <3> QED BY <1>2, <3>1 DEF Covered
  <2> QED BY <2>4, <2>5, <2>6 DEF Acct
<1> QED BY <1>3, <1>4, <1>5, <1>6 DEF Good, Sound

PrivateSlot(s, v) == [s EXCEPT !.v = v, !.using = "none"]
LEMMA PrivateFields ==
  ASSUME NEW s \in Slot, NEW v \in Vm, NEW s2, s2 = PrivateSlot(s, v)
  PROVE  /\ s2 \in Slot /\ s2.v = v /\ s2.using = "none" /\ s2.at = s.at
         /\ s2.st = s.st /\ s2.kstack = s.kstack /\ s2.page = s.page /\ s2.sz = s.sz
BY DEF PrivateSlot, Slot

\* A process no longer uses shared memory, which is then sh2.
LEMMA NowPrivate ==
  ASSUME NEW mem, NEW prs, NEW sh, Typed(mem, prs, sh), Running(mem), RunInv(mem, prs, sh),
         NEW p \in Proc, NEW s, s = prs[p], s.st = "run", s.at = "user", s.using = "shared",
         NEW mem2, NEW v, NEW Q, Good(On(mem2, v, s.sz), {}, Q, PGROUNDUP(s.sz)), mem2 \in Mem, v \in Vm,
         ~Running(mem2) => mem2.short, Worse(mem, mem2),
         NEW sh2 \in Shm, sh2.refcount = sh.refcount - 1, sh2.pages = sh.pages,
         \A g \in Page : g \in SharedOf(sh2) => g \in SharedOf(sh),
         \A g \in Page : g \in Q <=> (KeepsOf(s, g) \/ g \in SharedOf(sh2) \/ g \in OthersOf(prs, p)),
         NEW s2, s2 = PrivateSlot(s, v), NEW prs2, prs2 = [prs EXCEPT ![p] = s2]
  PROVE  InvOf(mem2, prs2, sh2)
<1> DEFINE R == OutsideOf(prs, sh, p)
           n == PGROUNDUP(s.sz)
<1>1. /\ s \in Slot /\ SlotInv(mem, sh, p, s) /\ NewKeeps(prs, sh, s, sh, p) /\ ShmInv(mem, prs, sh)
      /\ sh \in Shm /\ R = Beyond(prs, sh, s, p) /\ prs \in [Proc -> Slot]
  BY Before DEF Typed
<1>2. /\ s2 \in Slot /\ s2.v = v /\ s2.using = "none" /\ s2.at = "user"
      /\ s2.st = s.st /\ s2.kstack = s.kstack /\ s2.page = s.page /\ s2.sz = s.sz
  BY <1>1, PrivateFields
<1>3. s.sz \in Nat /\ s.sz <= KERNBASE /\ s.page = 0 /\ s.kstack \in Page
  BY <1>1, SlotFields DEF SlotInv
<1>4. ForeignOf(s2) = {} /\ TopOf(s2) = n
  BY <1>2 DEF ForeignOf, TopOf
<1>5. \A g \in Page : KeepsOf(s2, g) <=> KeepsOf(s, g)
  BY <1>2 DEF KeepsOf
<1>6. \A g \in Page : g \in Q <=> g \in Beyond(prs, sh2, s2, p)
  BY <1>5 DEF Beyond
<1>7. SlotFits(mem2, prs, sh2, s2, p)
  <2>1. Good(On(mem2, v, s.sz), {}, Beyond(prs, sh2, s2, p), n)
    <3> DEFINE x == On(mem2, v, s.sz)
    <3>1. Good(x, {}, Q, n)
      OBVIOUS
    <3> HIDE DEF n, x
    <3> QED BY <1>6, <3>1, SameRest DEF x
  <2> QED BY <1>2, <1>4, <2>1 DEF SlotFits
<1>8. NewKeeps(prs, sh, s2, sh2, p)
  <2>1. \A g \in Page : KeepsOf(s2, g) => g \notin SharedOf(sh2)
    BY <1>1, <1>5 DEF NewKeeps
  <2>2. s2.kstack # s2.page
    BY <1>2, <1>3, PageFacts
  <2> QED BY <1>5, <2>1, <2>2 DEF NewKeeps
<1>9. SlotInv(mem2, sh2, p, s2)
  BY <1>2, <1>3 DEF SlotInv
<1>10. Cardinality(Users(prs2)) = Cardinality(Users(prs)) - 1 /\ Cardinality(Users(prs)) > 0
  <2>1. prs[p].using = "shared" /\ s2.using # "shared"
    BY <1>2
  <2> QED BY <1>1, <2>1, UsersLeave
<1>11. ShmInv(mem2, prs2, sh2)
  <2>1. mem.short => mem2.short
    BY DEF Worse
  <2>2. sh2.refcount > 0 => sh.refcount > 0
    BY <1>1 DEF Shm
  <2> QED BY <1>1, <1>10, <2>1, <2>2 DEF ShmInv
<1>12. SharesKept(prs, sh, sh2, p)
  <2>1. sh.refcount # 0
    BY <1>1, <1>10 DEF ShmInv
  <2>2. \A q \in Proc : prs[q].at = "mmap_alloc" => sh.refcount = 0
    BY DEF RunInv, SlotsInv, SlotInv
  <2> QED BY <2>1, <2>2 DEF SharesKept
<1>13. Stepped(mem, prs, sh, mem2, s2, prs2, sh2, p)
  BY <1>7, <1>8, <1>9, <1>11, <1>12 DEF Stepped
<1> QED BY <1>2, <1>13, ChangeSlot, ZenonT(30)

\* The pages of shared memory are only there, and in the address spaces of those that use it.
LEMMA SharedAlone ==
  ASSUME NEW mem, NEW prs, NEW sh, Typed(mem, prs, sh), Running(mem), RunInv(mem, prs, sh), NEW p \in Proc
  PROVE  \A g \in Page : g \in SharedOf(sh) => ~KeepsOf(prs[p], g) /\ g \notin OthersOf(prs, p) /\ ~OwnOf(prs[p], g)
<1> SUFFICES ASSUME NEW g \in Page, g \in SharedOf(sh)
             PROVE  ~KeepsOf(prs[p], g) /\ g \notin OthersOf(prs, p) /\ ~OwnOf(prs[p], g)
  OBVIOUS
<1>1. mem \in Mem /\ prs \in [Proc -> Slot] /\ KeepInv(prs, sh) /\ Accounted(mem, prs, sh)
  BY DEF Typed, RunInv
<1>2. ASSUME NEW q \in Proc PROVE ~KeepsOf(prs[q], g) /\ ~OwnOf(prs[q], g)
  <2>1. ~KeepsOf(prs[q], g)
    BY <1>1 DEF KeepInv
  <2>2. g \in OutsideOf(prs, sh, q)
    BY DEF OutsideOf
  <2>3. FitsPages(mem, prs, sh, q)
    BY <1>1, FitsParts DEF Accounted
  <2> QED BY <2>1, <2>2, <2>3 DEF FitsPages
<1> QED BY <1>2 DEF OthersOf

LEMMA MmapDetachStep ==
  ASSUME IInv, NEW p \in Proc, MmapDetach(p)
  PROVE  IInv'
<1> DEFINE s == pr[p]
           x == On(m, s.v, s.sz)
           R == OutsideOf(pr, shm, p)
           n == PGROUNDUP(s.sz)
           va == s.vaddr
           F == Span(va, NSHARED)
           pages == shm.pages
           y == DetachPages(x, va, NSHARED)
           sh2 == [shm EXCEPT !.refcount = shm.refcount - 1]
           s2 == PrivateSlot(s, y.v)
<1>1. Running(m) /\ s.st = "run" /\ s.at = "user" /\ s.using = "shared"
  BY DEF MmapDetach, Runs, Running
<1>2. Typed(m, pr, shm) /\ RunInv(m, pr, shm)
  BY <1>1 DEF IInv, InvOf
<1>3. /\ m \in Mem /\ shm \in Shm /\ s \in Slot /\ SlotFits(m, pr, shm, s, p) /\ SlotInv(m, shm, p, s)
      /\ ShmInv(m, pr, shm) /\ R = Beyond(pr, shm, s, p)
  BY <1>1, <1>2, Before
<1>4. /\ s.v \in Vm /\ s.sz \in Nat /\ va \in {VA1, VA2} /\ Below(s.sz) /\ SeesShared(m, shm, s)
  BY <1>1, <1>3, SlotFields DEF SlotInv
<1>5. ForeignOf(s) = F /\ TopOf(s) = n
  BY <1>1 DEF TopOf, ForeignOf
<1>6. x \in Work /\ x.m = m /\ x.v = s.v
  <2> HIDE DEF s
  <2> QED BY <1>3, <1>4, OnFields
<1>7. Good(x, F, R, n)
  BY <1>3, <1>5 DEF SlotFits
<1>8. n \in Nat /\ n <= va /\ va \in Nat /\ va + NSHARED <= KERNPAGES
  <2>1. n \in Nat /\ n <= VA1 /\ n <= VA2
    BY <1>4, Rounded DEF Below
  <2> HIDE DEF n, va
  <2> QED BY <1>4, <2>1, Sizes
<1>9. shm.refcount \in Nat /\ shm.refcount > 0 /\ Len(pages) = NSHARED /\ pages \in Seq(Page \cup {0})
  <2>1. shm.refcount \in Nat /\ pages \in Seq(Page \cup {0})
    BY <1>3 DEF Shm
  <2>2. p \in Users(pr)
    BY <1>1 DEF Users
  <2>3. Cardinality(Users(pr)) # 0 /\ Cardinality(Users(pr)) \in Nat
    BY <2>2, UsersFinite, FS_EmptySet
  <2>4. shm.refcount > 0
    BY <1>3, <2>1, <2>3 DEF ShmInv
  <2> QED BY <1>3, <2>1, <2>4 DEF ShmInv
<1>10. m' = Detached(y, shm.refcount = 1) /\ pr' = [pr EXCEPT ![p] = s2] /\ shm' = sh2
  <2>1. Self(p) = x
    BY DEF Self
  <2>2. y = Repeat(LAMBDA u, k : clearptep(u, pr[p].vaddr + k), Self(p), Len(shm.pages))
    BY <1>9, <2>1, Zenon DEF DetachPages
  <2>3. m' = Detached(y, shm.refcount = 1) /\ pr' = [pr EXCEPT ![p].v = y.v, ![p].using = "none"] /\ shm' = sh2
    BY <2>2, Zenon DEF MmapDetach
  <2>4. pr \in [Proc -> Slot]
    BY <1>2 DEF Typed
  <2> HIDE DEF y
  <2>5. pr' = [pr EXCEPT ![p] = s2]
    BY <2>3, <2>4 DEF PrivateSlot
  <2> QED BY <2>3, <2>5
<1>11. DetachInv(x, y, F, R, n, va, NSHARED)
  <2>1. \A i \in 0 .. NSHARED - 1 : ~x.m.short => x.v.pte[va + i].pg # None
    <3>1. ASSUME NEW i \in 0 .. NSHARED - 1, ~x.m.short PROVE x.v.pte[va + i].pg # None
      <4>1. i + 1 \in 1 .. NSHARED /\ (i + 1) - 1 = i
        BY Sizes
      <4>2. pages[i + 1] # 0 /\ s.v.pte[va + ((i + 1) - 1)].pg = pages[i + 1]
        BY <1>4, <1>6, <3>1, <4>1 DEF SeesShared
      <4>3. pages[i + 1] \in Page \cup {0}
        BY <1>9, <4>1
      <4> QED BY <1>6, <4>1, <4>2, <4>3, PageFacts
    <3> QED BY <3>1
  <2>2. DetachInv(x, x, F, R, n, va, 0)
    <3> HIDE DEF x, F, R, n, va
    <3> QED BY <1>7, LaterSelf DEF DetachInv
  <2>3. NSHARED \in Nat /\ NSHARED <= NSHARED /\ F = Span(va, NSHARED)
    BY Sizes
  <2> HIDE DEF x, F, R, n, va, y
  <2> QED BY <1>8, <2>1, <2>2, <2>3, DetachLoop DEF y
<1> HIDE DEF x, y
<1>12. Good(y, {}, R, n) /\ Worse(m, y.m)
  <2>1. Good(y, F, R, n) /\ Later(x, y)
    <3> HIDE DEF F, R, n, va
    <3> QED BY <1>11 DEF DetachInv
  <2>2. Running(y.m) => \A a \in Va : a \in F => y.v.pte[a].pg \notin Page
    <3> SUFFICES ASSUME Running(y.m), NEW a \in Va, a \in F PROVE y.v.pte[a].pg \notin Page
      OBVIOUS
    <3>1. \A i \in 0 .. NSHARED - 1 : y.v.pte[va + i].pg = None
      <4> HIDE DEF F, R, n, va
      <4> QED BY <1>11 DEF DetachInv, Running
    <3>2. PICK i \in 0 .. NSHARED - 1 : a = va + i
      BY DEF Span
    <3> QED BY <3>1, <3>2, PageFacts
  <2> HIDE DEF F, R, n
  <2>3. Good(y, {}, R, n)
    BY <2>1, <2>2, RefileGood
  <2> QED BY <1>6, <2>1, <2>3, LaterWorse
<1>13. y.m \in Mem /\ y.v \in Vm /\ (~Running(y.m) => y.m.short)
  <2> HIDE DEF R, n
  <2> QED BY <1>12, GoodMem
<1>14. sh2 \in Shm /\ sh2.refcount = shm.refcount - 1 /\ sh2.pages = pages
  BY <1>3, <1>9 DEF Shm
<1>15. \A g \in Page : g \in SharedOf(shm) => ~KeepsOf(s, g) /\ g \notin OthersOf(pr, p)
  BY <1>1, <1>2, SharedAlone
<1>16. SharedOf(shm) = Elems(pages)
  BY <1>9 DEF SharedOf
<1> HIDE DEF sh2
<1>17. CASE shm.refcount # 1
  <2>1. m' = y.m
    BY <1>10, <1>17 DEF Detached
  <2>2. SharedOf(sh2) = SharedOf(shm)
    BY <1>9, <1>14, <1>17 DEF SharedOf
  <2>3. \A g \in Page : g \in R <=> (KeepsOf(s, g) \/ g \in SharedOf(sh2) \/ g \in OthersOf(pr, p))
    BY <1>3, <2>2 DEF Beyond
  <2>4. Good(On(y.m, y.v, s.sz), {}, R, n)
    <3> HIDE DEF R, n, s
    <3> QED BY <1>4, <1>12, GoodOn
  <2>5. InvOf(y.m, pr', sh2)
    <3> DEFINE prs2 == pr'
    <3>1. prs2 = [pr EXCEPT ![p] = PrivateSlot(s, y.v)] /\ sh2.pages = shm.pages
          /\ \A g \in Page : g \in SharedOf(sh2) => g \in SharedOf(shm)
      BY <1>10, <1>14, <2>2
    <3> HIDE DEF prs2, R
    <3>2. InvOf(y.m, prs2, sh2)
      BY <1>1, <1>2, <1>12, <1>13, <1>14, <2>3, <2>4, <3>1, NowPrivate, ZenonT(60)
    <3> QED BY <3>2 DEF prs2
  <2> QED BY <1>10, <2>1, <2>5 DEF IInv
<1>18. CASE shm.refcount = 1
  <2> DEFINE S == Elems(pages)
             Q == {g \in R : g \notin S}
             mz == kfreeAll(y.m, S)
             z == On(mz, y.v, s.sz)
  <2>1. m' = mz
    <3>1. DOMAIN pages = 1 .. Len(pages)
      BY <1>9
    <3>2. {shm.pages[k] : k \in DOMAIN shm.pages} = S
      BY <3>1 DEF Elems
    <3> QED BY <1>10, <1>18, <3>2, Zenon DEF Detached
  <2>2. SharedOf(sh2) = {}
    BY <1>14, <1>18 DEF SharedOf
  <2>3. S \subseteq Page \cup {0} /\ (0 \in S => y.m.short)
    <3>1. S \subseteq Page \cup {0}
      BY <1>9 DEF Elems
    <3>2. ~m.short => \A i \in 1 .. NSHARED : pages[i] # 0
      BY <1>3, <1>9 DEF ShmInv
    <3>3. 0 \in S => m.short
      BY <1>9, <3>2 DEF Elems
    <3> QED BY <1>12, <3>1, <3>3 DEF Worse
  <2>4. mz \in Mem
    <3> HIDE DEF S
    <3> QED BY <1>13, KfreeAllFields DEF FreedAll
  <2>5. z \in Work /\ z.m = mz /\ z.v = y.v
    <3> HIDE DEF mz, s
    <3> QED BY <1>4, <1>13, <2>4, OnFields
  <2>6. Good(z, {}, Q, n) /\ Later(y, z)
    <3>1. \A g \in Page : g \in S => g \in R
      BY <1>3, <1>16 DEF Beyond
    <3>2. \A g \in Page : g \in Q <=> (g \in R /\ g \notin S)
      OBVIOUS
    <3>3. z.m = kfreeAll(y.m, S)
      BY <2>5
    <3> HIDE DEF S, Q, z, mz, R, n
    <3> QED BY <1>12, <2>3, <2>5, <3>1, <3>2, <3>3, FreeMore
  <2>7. Worse(m, mz) /\ (~Running(mz) => mz.short)
    <3>1. Worse(y.m, mz)
      <4> HIDE DEF z, mz
      <4> QED BY <2>5, <2>6, LaterWorse
    <3>2. ~Running(z.m) => z.m.short
      <4> HIDE DEF z, Q, n
      <4> QED BY <2>6, GoodMem
    <3> HIDE DEF z, mz
    <3> QED BY <1>12, <2>5, <3>1, <3>2, WorseWorse
  <2>8. \A g \in Page : g \in Q <=> (KeepsOf(s, g) \/ g \in SharedOf(sh2) \/ g \in OthersOf(pr, p))
    BY <1>3, <1>15, <1>16, <2>2 DEF Beyond
  <2>9. InvOf(mz, pr', sh2)
    <3> DEFINE prs2 == pr'
               v == y.v
    <3>1. /\ prs2 = [pr EXCEPT ![p] = PrivateSlot(s, v)] /\ sh2.pages = shm.pages
          /\ \A g \in Page : g \in SharedOf(sh2) => g \in SharedOf(shm)
          /\ Good(On(mz, v, s.sz), {}, Q, PGROUNDUP(s.sz)) /\ v \in Vm
      BY <1>10, <1>13, <1>14, <2>2, <2>6
    <3> HIDE DEF prs2, Q, mz, v
    <3>2. InvOf(mz, prs2, sh2)
      BY <1>1, <1>2, <1>14, <2>4, <2>7, <2>8, <3>1, NowPrivate, ZenonT(60)
    <3> QED BY <3>2 DEF prs2
  <2> QED BY <1>10, <2>1, <2>9 DEF IInv
<1> QED BY <1>17, <1>18

-----------------------------------------------------------------------------
(* The first process.                                                      *)

\* inituvm(): one page, or none when memory is short.
LEMMA FirstPage ==
  ASSUME NEW x, NEW R, Good(x, {}, R, 0), NEW y, y = MapAnyway(UncheckedOn(x), 0, Got(x.m))
  PROVE  Good(y, {}, R, 1)
<1> DEFINE w == UncheckedOn(x)
           g == Got(x.m)
<1>1. UncheckedGot(x, w, {}, R, 0, g)
  <2> HIDE DEF w, g
  <2> QED BY UncheckedFacts DEF w, g
<1>2. /\ Good(w, {}, R \cup {g}, 0) /\ g \in Page \cup {0} /\ (g = 0 => w.m.short) /\ (g \in Page => InHand(w.m, g, R))
  <2> HIDE DEF w, g
  <2> QED BY <1>1 DEF UncheckedGot
<1>3. 0 \in Va /\ 0 \in Va \ {} /\ w \in Work
  <2>1. w \in Work
    <3> HIDE DEF w, g
    <3> QED BY <1>2 DEF Good, Sound
  <2> QED BY <2>1, Sizes DEF Va
<1>4. y = MapAnyway(w, 0, g)
  OBVIOUS
<1> HIDE DEF w, g
<1>5. CASE g \in Page
  <2> DEFINE z == mappages(w, 0, g, TRUE)
  <2>1. [pg |-> g, u |-> TRUE] \in Entry
    BY <1>5 DEF Entry
  <2>2. MappedOwn(w, z, {}, R, 0)
    <3> HIDE DEF z
    <3> QED BY <1>2, <1>3, <1>5, <2>1, MapOwn DEF z
  <2>3. y = OkOf(z, w)
    BY <1>4, Zenon DEF MapAnyway, OkOf
  <2> HIDE DEF z
  <2>4. Good(z, {}, R, 1)
    <3>1. Good(z, {}, R, 0 + 1)
      BY <2>2 DEF MappedOwn
    <3>2. 0 + 1 = 1
      OBVIOUS
    <3> QED BY <3>1, <3>2
  <2>5. z \in Work
    BY <2>4 DEF Good, Sound
  <2>6. y \in Work /\ y.m = z.m /\ y.v = z.v
    BY <1>3, <2>3, <2>5, OkOfFields
  <2> QED BY <2>4, <2>6, SameGood
<1>6. CASE g = 0
  <2>1. MappedForeign(w, y, {}, R \cup {g}, 0, 0, g)
    <3>1. g \in Page \cup {0} /\ 0 \in Nat /\ 0 <= 0 /\ 0 \notin {} /\ (g = 0 => w.m.short)
      BY <1>2
    <3> QED BY <1>2, <1>3, <1>4, <3>1, MapForeign
  <2>2. /\ Good(y, {} \cup {0}, R \cup {g}, 0) /\ Later(w, y) /\ (y.m.panic = "" => y.v.pte[0].pg \in {None, g})
    BY <2>1 DEF MappedForeign
  <2>3. Good(y, {0}, R \cup {g}, 0)
    <3>1. {} \cup {0} = {0}
      OBVIOUS
    <3> QED BY <2>2, <3>1
  <2>4. Running(y.m) => \A a \in Va : a \in {0} => y.v.pte[a].pg \notin Page
    BY <1>6, <2>2, PageFacts DEF Running
  <2>5. Good(y, {}, R \cup {g}, 0)
    BY <2>3, <2>4, RefileGood
  <2>6. Good(y, {}, R, 0)
    <3>1. \A h \in Page : h \in R \cup {g} <=> h \in R
      BY <1>6, PageFacts
    <3> QED BY <2>5, <3>1, SameRest
  <2>7. y.m.short
    BY <1>2, <1>6, <2>2 DEF Later
  <2> QED BY <2>6, <2>7 DEF Good
<1> QED BY <1>2, <1>5, <1>6

\* Before the first process there is none, and all pages are free.
LEMMA NoProcess ==
  ASSUME NEW prs, prs = [p \in Proc |-> Unused], NEW sh, sh = [refcount |-> 0, pages |-> <<>>]
  PROVE  /\ Typed(Memory0, prs, sh) /\ Running(Memory0) /\ RunInv(Memory0, prs, sh)
         /\ \A c \in Proc : Beyond(prs, sh, Unused, c) = {} /\ prs[c].st = "unused"
         /\ FreeOnly(Memory0, {}) /\ Memory0.free = Page
         /\ \A mem : Worse(Memory0, mem)
<1>1. /\ Memory0 \in Mem /\ Memory0.free = Page /\ ~Memory0.twice /\ Memory0.panic = "" /\ ~Memory0.short
  BY DEF Memory0, Mem
<1>2. sh \in Shm /\ sh.refcount = 0
  BY DEF Shm
<1>3. prs \in [Proc -> Slot] /\ \A p \in Proc : prs[p] = Unused
  BY UnusedFields
<1>4. SharedOf(sh) = {}
  BY <1>2 DEF SharedOf
<1>5. \A g \in Page : ~OwnOf(Unused, g)
  BY UnusedFields, NoVmOwn DEF OwnOf
<1>6. ASSUME NEW c \in Proc PROVE Beyond(prs, sh, Unused, c) = {}
  BY <1>3, <1>4, <1>5, UnusedFields DEF Beyond, OthersOf
<1>7. FreeOnly(Memory0, {})
  BY <1>1 DEF FreeOnly
<1>8. Accounted(Memory0, prs, sh)
  <2> SUFFICES ASSUME NEW c \in Proc PROVE Fits(Memory0, prs, sh, c)
    BY DEF Accounted
  <2>1. SlotFits(Memory0, prs, sh, Unused, c)
    BY <1>6, <1>7, UnusedFits
  <2>2. OutsideOf(prs, sh, c) = Beyond(prs, sh, Unused, c)
    BY <1>3 DEF OutsideOf, Beyond
  <2> QED BY <1>3, <2>1, <2>2 DEF Fits, SlotFits
<1>9. KeepInv(prs, sh)
  <2>1. \A p \in Proc, g \in Page : ~KeepsOf(prs[p], g)
    BY <1>3, UnusedFields
  <2>2. \A p \in Proc : prs[p].kstack \notin Page
    BY <1>3, UnusedFields, PageFacts
  <2> QED BY <2>1, <2>2 DEF KeepInv
<1>10. SlotsInv(Memory0, prs, sh)
  BY <1>3, UnusedFields, Kern DEF SlotsInv, SlotInv
<1>11. ShmInv(Memory0, prs, sh)
  <2>1. Users(prs) = {}
    BY <1>3, UnusedFields DEF Users
  <2> QED BY <1>2, <2>1, FS_EmptySet DEF ShmInv
<1>12. Typed(Memory0, prs, sh) /\ Running(Memory0)
  BY <1>1, <1>2, <1>3 DEF Typed, Shm, Running
<1>13. \A c \in Proc : prs[c].st = "unused"
  BY <1>3, UnusedFields
<1>14. \A mem : Worse(Memory0, mem)
  BY <1>1 DEF Worse
<1> QED BY <1>1, <1>6, <1>7, <1>8, <1>9, <1>10, <1>11, <1>12, <1>13, <1>14 DEF RunInv

LEMMA Initially ==
  ASSUME Init
  PROVE  IInv
<1> DEFINE prs == [p \in Proc |-> Unused]
           stack == Got(Memory0)
           x == setupkvm(Taken(Memory0))
           y == MapAnyway(UncheckedOn(x), 0, Got(x.m))
           c == initproc
           s == ChildSlot(0, PGSIZE, y.v, stack)
           R == Beyond(prs, shm, Unused, c)
<1>1. shm = [refcount |-> 0, pages |-> <<>>]
  BY DEF Init
<1>2. /\ Typed(Memory0, prs, shm) /\ Running(Memory0) /\ RunInv(Memory0, prs, shm)
      /\ \A d \in Proc : Beyond(prs, shm, Unused, d) = {} /\ prs[d].st = "unused"
      /\ FreeOnly(Memory0, {}) /\ Memory0.free = Page
      /\ \A mem : Worse(Memory0, mem)
  BY <1>1, NoProcess
<1>3. c \in Proc /\ PGSIZE \in Nat /\ PGSIZE <= KERNBASE /\ PGROUNDUP(PGSIZE) = 1
  <2>1. c \in Proc
    BY Sizes DEF initproc, Proc
  <2>2. PGSIZE \in Nat /\ 1 * PGSIZE = PGSIZE /\ 1 <= KERNPAGES
    BY Sizes
  <2>3. 1 * PGSIZE <= KERNPAGES * PGSIZE
    BY <2>2, MulMono, Sizes
  <2>4. PGROUNDUP(1 * PGSIZE) = 1
    BY RoundMultiple
  <2> QED BY <2>1, <2>2, <2>3, <2>4 DEF KERNBASE
<1>4. stack \in Page /\ stack # 0
  <2>1. Memory0 \in Mem /\ Memory0.free # {}
    <3>1. Memory0 \in Mem
      BY <1>2 DEF FreeOnly
    <3>2. 1 \in Page
      BY Sizes DEF Page
    <3> QED BY <1>2, <3>1, <3>2
  <2> QED BY <2>1, GotFacts
<1>5. FreeOnly(Taken(Memory0), R \cup {stack})
  <2>1. R = {}
    BY <1>2, <1>3
  <2> HIDE DEF R, stack
  <2> QED BY <1>2, <1>4, <2>1, TakeOnly DEF stack
<1>6. Good(x, {}, R \cup {stack}, 0)
  <2> HIDE DEF R, stack, x
  <2> QED BY <1>5, Setupkvm DEF x
<1>7. Good(y, {}, R \cup {stack}, 1)
  <2> HIDE DEF R, stack, x, y
  <2> QED BY <1>6, FirstPage DEF y
<1>8. m = y.m /\ pr = [prs EXCEPT ![c] = s]
  <2>1. FirstProcess(x, stack)
    BY DEF Init
  <2>2. MapAnyway([x EXCEPT !.m = Unchecked(x.m)], 0, Got(x.m)) = y
    BY Zenon DEF UncheckedOn
  <2>3. /\ m = y.m
        /\ pr = [p \in Proc |-> IF p = initproc THEN [Unused EXCEPT !.st = "run", !.sz = PGSIZE, !.v = y.v, !.kstack = stack]
                                ELSE Unused]
    BY <2>1, <2>2, Zenon DEF FirstProcess
  <2> HIDE DEF y, stack
  <2>4. s = [Unused EXCEPT !.st = "run", !.sz = PGSIZE, !.v = y.v, !.kstack = stack]
    <3>1. Unused \in Slot /\ Unused.parent = 0
      BY UnusedFields DEF Unused
    <3> QED BY <3>1 DEF ChildSlot, Slot
  <2> HIDE DEF s
  <2>5. pr = [prs EXCEPT ![c] = s]
    BY <2>3, <2>4
  <2> QED BY <2>3, <2>5
<1>9. InvOf(y.m, pr, shm)
  <2>1. prs[c].st = "unused" /\ stack \in Memory0.free /\ Worse(Memory0, y.m) /\ 0 \in Proc \cup {0}
    BY <1>2, <1>3, <1>4
  <2>2. Good(y, {}, Beyond(prs, shm, Unused, c) \cup {stack}, PGROUNDUP(PGSIZE))
    BY <1>3, <1>7
  <2>3. pr = [prs EXCEPT ![c] = ChildSlot(0, PGSIZE, y.v, stack)]
    BY <1>8
  <2> HIDE DEF y, stack, c, prs
  <2> QED BY <1>2, <1>3, <1>4, <2>1, <2>2, <2>3, NewProcess, ZenonT(60)
<1> QED BY <1>8, <1>9 DEF IInv

-----------------------------------------------------------------------------
(* Theorems.                                                               *)

LEMMA PageParts ==
  ASSUME IInv, Running(m)
  PROVE  /\ Typed(m, pr, shm) /\ KeepInv(pr, shm) /\ ShmInv(m, pr, shm) /\ SlotsInv(m, pr, shm)
         /\ \A p \in Proc : pr[p] \in Slot /\ FitsPages(m, pr, shm, p) /\ FitsRest(m, pr[p])
<1>1. Typed(m, pr, shm) /\ RunInv(m, pr, shm)
  BY DEF IInv, InvOf
<1>2. m \in Mem /\ pr \in [Proc -> Slot]
  BY <1>1 DEF Typed
<1>3. \A p \in Proc : Fits(m, pr, shm, p)
  BY <1>1 DEF RunInv, Accounted
<1>4. \A p \in Proc : FitsPages(m, pr, shm, p) /\ FitsRest(m, pr[p])
  BY <1>2, <1>3, FitsParts
<1> QED BY <1>1, <1>2, <1>4 DEF RunInv

\* Memory below the size of a process is there.
LEMMA MappedBelow ==
  ASSUME IInv, Running(m), ~m.short, NEW p \in Proc, NEW a \in 0 .. PGROUNDUP(pr[p].sz) - 1
  PROVE  pr[p].v.pte[a].pg \in Page
<1>1. pr[p] \in Slot /\ FitsRest(m, pr[p]) /\ SlotInv(m, shm, p, pr[p])
  BY PageParts DEF SlotsInv
<1>2. Exact(pr[p].v, ForeignOf(pr[p]), PGROUNDUP(pr[p].sz))
  BY <1>1 DEF FitsRest, TopOf
<1>3. pr[p].sz \in Nat /\ pr[p].sz <= KERNBASE
  BY <1>1, SlotFields DEF SlotInv
<1>4. PGROUNDUP(pr[p].sz) \in Nat /\ PGROUNDUP(pr[p].sz) <= KERNPAGES
  BY <1>3, Rounded, Kern
<1>5. a \in Va /\ a < PGROUNDUP(pr[p].sz)
  BY <1>4, Sizes DEF Va
<1> QED BY <1>2, <1>5 DEF Exact

LEMMA FetchStep ==
  ASSUME IInv, NEW p \in Proc, Fetch(p)
  PROVE  IInv'
<1> DEFINE mem == Panic(m, "trap")
<1>1. Running(m) /\ m' = mem /\ pr' = pr /\ shm' = shm
  BY DEF Fetch, Runs, Running
<1>2. m.short
  <2>1. PICK a \in 0 .. PGROUNDUP(pr[p].sz) - 1 : pr[p].v.pte[a].pg = None
    BY DEF Fetch
  <2>2. None \notin Page
    BY DEF None, Page
  <2> QED BY <1>1, <2>1, <2>2, MappedBelow
<1>3. Typed(m, pr, shm)
  BY <1>1, PageParts
<1>4. mem \in Mem /\ mem.panic # "" /\ mem.short
  <2>1. m \in Mem /\ "trap" \in Panics
    BY <1>3 DEF Typed, Panics
  <2> QED BY <1>2, <2>1, PanicFacts
<1> HIDE DEF mem
<1>5. Typed(mem, pr, shm)
  BY <1>3, <1>4 DEF Typed
<1>6. InvOf(mem, pr, shm)
  BY <1>4, <1>5 DEF InvOf, Running
<1> QED BY <1>1, <1>6 DEF IInv

\* The invariant holds of the machine.
LEMMA Inductive ==
  ASSUME OneAllocator
  PROVE  Spec => []IInv
<1>1. Init => IInv
  BY Initially
<1>2. IInv /\ [Next]_vars => IInv'
  <2> SUFFICES ASSUME IInv, [Next]_vars PROVE IInv'
    OBVIOUS
  <2>1. ASSUME NEW p \in Proc, NEW n \in Grows \cup {-pr[p].sz}, Sbrk(p, n) PROVE IInv'
    BY <2>1, SbrkStep
  <2>2. ASSUME NEW p \in Proc, NEW segs \in Images, NEW n \in 1 .. MAXARGS, Exec(p, segs, n) PROVE IInv'
    BY <2>2, ExecStep
  <2>3. ASSUME NEW p \in Proc, Fork(p) PROVE IInv'
    BY <2>3, ForkStep
  <2>4. ASSUME NEW p \in Proc, Exit(p) PROVE IInv'
    BY <2>4, ExitStep
  <2>5. ASSUME NEW p \in Proc, Wait(p) PROVE IInv'
    BY <2>5, WaitStep
  <2>13. ASSUME NEW p \in Proc, Fetch(p) PROVE IInv'
    BY <2>13, FetchStep
  <2>6. ASSUME NEW p \in Proc, Palloc(p) PROVE IInv'
    BY <2>6, PallocStep
  <2>7. ASSUME NEW p \in Proc, MmapTest(p) PROVE IInv'
    BY <2>7, MmapTestStep
  <2>8. ASSUME NEW p \in Proc, MmapAlloc(p) PROVE IInv'
    BY <2>8, MmapAllocStep
  <2>9. ASSUME NEW p \in Proc, MmapAttach(p) PROVE IInv'
    BY <2>9, MmapAttachStep
  <2>10. ASSUME NEW p \in Proc, MmapDetach(p) PROVE IInv'
    BY <2>10, MmapDetachStep
  <2>11. CASE UNCHANGED vars
    BY <2>11 DEF vars, IInv
  <2>12. CASE Halted
    BY <2>11, <2>12 DEF Halted
  <2> QED BY <2>1, <2>2, <2>3, <2>4, <2>5, <2>6, <2>7, <2>8, <2>9, <2>10, <2>11, <2>12, <2>13 DEF Next
<1> QED BY <1>1, <1>2, PTL DEF Spec

\* The uses of a page that the invariant knows of.
SlotUses(s, kind, i, g) ==
  \/ kind = "kstack" /\ i = 0 /\ s.kstack = g
  \/ kind = "page" /\ i = 0 /\ s.page = g
  \/ kind = "dir" /\ i = 0 /\ s.v.dir = g
  \/ kind = "ktab" /\ i = 0 /\ g \in s.v.ktab
  \/ kind = "tab" /\ i \in Tab /\ s.v.tab[i] = g
  \/ kind = "pte" /\ i \in Va \ ForeignOf(s) /\ s.v.pte[i].pg = g
Kinds == {"shared", "kstack", "page", "dir", "ktab", "tab", "pte"}

LEMMA SlotUsesParts ==
  ASSUME NEW s, NEW g
  PROVE  /\ \A kind, i : SlotUses(s, kind, i, g) => KeepsOf(s, g) \/ OwnOf(s, g)
         /\ KeepsOf(s, g) \/ OwnOf(s, g) =>
              \E kind \in Kinds, i \in {0} \cup Tab \cup Va : SlotUses(s, kind, i, g)
<1>1. \A kind, i : SlotUses(s, kind, i, g) => KeepsOf(s, g) \/ OwnOf(s, g)
  BY Zenon DEF SlotUses, KeepsOf, OwnOf, Own
<1>2. KeepsOf(s, g) => SlotUses(s, "kstack", 0, g) \/ SlotUses(s, "page", 0, g)
  BY Zenon DEF SlotUses, KeepsOf
<1>3. OwnOf(s, g) => \/ SlotUses(s, "dir", 0, g) \/ SlotUses(s, "ktab", 0, g)
                     \/ \E t \in Tab : SlotUses(s, "tab", t, g)
                     \/ \E a \in Va : SlotUses(s, "pte", a, g)
  BY Zenon DEF SlotUses, OwnOf, Own
<1>4. {"kstack", "page", "dir", "ktab", "tab", "pte"} \subseteq Kinds
  BY DEF Kinds
<1> QED BY <1>1, <1>2, <1>3, <1>4

LEMMA SlotUsesOnce ==
  ASSUME NEW s \in Slot, NEW g \in Page, Distinct(s.v, ForeignOf(s)), s.kstack \in Page => s.kstack # s.page,
         ~(KeepsOf(s, g) /\ OwnOf(s, g)),
         NEW k, NEW i, NEW l, NEW j, SlotUses(s, k, i, g), SlotUses(s, l, j, g)
  PROVE  k = l /\ i = j
<1>1. /\ g # 0
      /\ g = s.v.dir => g \notin s.v.ktab
      /\ \A t \in Tab : s.v.tab[t] = g => g # s.v.dir /\ g \notin s.v.ktab
      /\ \A t, u \in Tab : s.v.tab[t] = g /\ s.v.tab[u] = g => t = u
      /\ \A a \in Va \ ForeignOf(s) : s.v.pte[a].pg = g => g # s.v.dir /\ g \notin s.v.ktab /\ \A t \in Tab : s.v.tab[t] # g
      /\ \A a, b \in Va \ ForeignOf(s) : s.v.pte[a].pg = g /\ s.v.pte[b].pg = g => a = b
  BY PageFacts DEF Distinct, TabsDistinct, NoTable, OneEntry
<1>2. ~(s.kstack = g /\ s.page = g)
  OBVIOUS
<1>3. (s.kstack = g \/ s.page = g) =>
         /\ s.v.dir # g /\ g \notin s.v.ktab /\ \A t \in Tab : s.v.tab[t] # g
         /\ \A a \in Va \ ForeignOf(s) : s.v.pte[a].pg # g
  BY Zenon DEF KeepsOf, OwnOf, Own
<1>4. CASE k = "kstack" /\ i = 0 /\ s.kstack = g
  BY <1>2, <1>3, <1>4, Zenon DEF SlotUses
<1>5. CASE k = "page" /\ i = 0 /\ s.page = g
  BY <1>2, <1>3, <1>5, Zenon DEF SlotUses
<1>6. CASE k = "dir" /\ i = 0 /\ s.v.dir = g
  BY <1>1, <1>3, <1>6, Zenon DEF SlotUses
<1>7. CASE k = "ktab" /\ i = 0 /\ g \in s.v.ktab
  BY <1>1, <1>3, <1>7, Zenon DEF SlotUses
<1>8. CASE k = "tab" /\ i \in Tab /\ s.v.tab[i] = g
  BY <1>1, <1>3, <1>8, Zenon DEF SlotUses
<1>9. CASE k = "pte" /\ i \in Va \ ForeignOf(s) /\ s.v.pte[i].pg = g
  BY <1>1, <1>3, <1>9, Zenon DEF SlotUses
<1> QED BY <1>4, <1>5, <1>6, <1>7, <1>8, <1>9, Zenon DEF SlotUses

LEMMA UsedFacts ==
  ASSUME NEW g
  PROVE  \A p, kind, i : UsedAs(p, kind, i, g) <=>
           \/ p = 0 /\ kind = "shared" /\ shm.refcount > 0 /\ i \in DOMAIN shm.pages /\ shm.pages[i] = g
           \/ p \in Proc /\ SlotUses(pr[p], kind, i, g)
<1>1. \A p \in Proc : Foreign(p) = ForeignOf(pr[p])
  BY DEF Foreign, ForeignOf, Span
<1>2. ASSUME NEW p \in Proc, NEW kind, NEW i
      PROVE  SlotUses(pr[p], kind, i, g) <=>
               \/ kind = "kstack" /\ i = 0 /\ pr[p].kstack = g
               \/ kind = "page" /\ i = 0 /\ pr[p].page = g
               \/ kind = "dir" /\ i = 0 /\ pr[p].v.dir = g
               \/ kind = "ktab" /\ i = 0 /\ g \in pr[p].v.ktab
               \/ kind = "tab" /\ i \in Tab /\ pr[p].v.tab[i] = g
               \/ kind = "pte" /\ i \in Va \ Foreign(p) /\ pr[p].v.pte[i].pg = g
  <2>1. Foreign(p) = ForeignOf(pr[p])
    BY <1>1
  <2> QED BY <2>1, ZenonT(30) DEF SlotUses
<1>3. ASSUME NEW p, NEW kind, NEW i
      PROVE  UsedAs(p, kind, i, g) <=>
               \/ p = 0 /\ kind = "shared" /\ shm.refcount > 0 /\ i \in DOMAIN shm.pages /\ shm.pages[i] = g
               \/ p \in Proc /\ SlotUses(pr[p], kind, i, g)
  <2>1. CASE p \in Proc
    BY <1>2, <2>1, ZenonT(30) DEF UsedAs
  <2>2. CASE p \notin Proc
    BY <2>2, Zenon DEF UsedAs
  <2> QED BY <2>1, <2>2
<1> QED BY <1>3, Zenon

\* The invariant in terms of pages.
\* Whose a page is: no more than one process has it, or shared memory, or it is free.
Has(p, g) == KeepsOf(pr[p], g) \/ OwnOf(pr[p], g)
LEMMA OneHolder ==
  ASSUME IInv, Running(m), NEW g \in Page
  PROVE  /\ \A p, q \in Proc : Has(p, g) /\ Has(q, g) => p = q
         /\ \A p \in Proc : Has(p, g) => g \notin SharedOf(shm) /\ g \notin m.free /\ ~(KeepsOf(pr[p], g) /\ OwnOf(pr[p], g))
         /\ g \in SharedOf(shm) => g \notin m.free
         /\ ~m.short => g \in m.free \/ g \in SharedOf(shm) \/ \E p \in Proc : Has(p, g)
<1>1. KeepInv(pr, shm) /\ \A p \in Proc : FitsPages(m, pr, shm, p)
  BY PageParts
<1>2. \A p \in Proc : g \in OutsideOf(pr, shm, p) <=> KeepsOf(pr[p], g) \/ g \in SharedOf(shm) \/ \E q \in Proc : q # p /\ Has(q, g)
  BY DEF OutsideOf, OthersOf, Has
<1>3. \A p \in Proc : /\ g \in m.free => ~OwnOf(pr[p], g) /\ g \notin OutsideOf(pr, shm, p)
                      /\ OwnOf(pr[p], g) => g \notin OutsideOf(pr, shm, p)
                      /\ ~m.short => g \in m.free \/ OwnOf(pr[p], g) \/ g \in OutsideOf(pr, shm, p)
  BY <1>1 DEF FitsPages
<1>4. initproc \in Proc
  BY Sizes DEF initproc, Proc
<1>5. ASSUME NEW p \in Proc, NEW q \in Proc, Has(p, g), Has(q, g) PROVE p = q
  <2>1. KeepsOf(pr[p], g) /\ KeepsOf(pr[q], g) => p = q
    BY <1>1 DEF KeepInv
  <2>2. OwnOf(pr[p], g) => p = q
    BY <1>2, <1>3, <1>5
  <2>3. OwnOf(pr[q], g) => p = q
    BY <1>2, <1>3, <1>5
  <2> QED BY <1>5, <2>1, <2>2, <2>3 DEF Has
<1>6. ASSUME NEW p \in Proc, Has(p, g)
      PROVE  g \notin SharedOf(shm) /\ g \notin m.free /\ ~(KeepsOf(pr[p], g) /\ OwnOf(pr[p], g))
  <2>1. KeepsOf(pr[p], g) => g \notin SharedOf(shm)
    BY <1>1 DEF KeepInv
  <2> QED BY <1>2, <1>3, <1>6, <2>1 DEF Has
<1>7. g \in SharedOf(shm) => g \notin m.free
  BY <1>2, <1>3, <1>4
<1>8. ~m.short => g \in m.free \/ g \in SharedOf(shm) \/ \E p \in Proc : Has(p, g)
  BY <1>2, <1>3, <1>4 DEF Has
<1> QED BY <1>5, <1>6, <1>7, <1>8

\* A page has at most one use, none when it is free, and one when it is not and
\* memory was never short.
LEMMA OneUse ==
  ASSUME IInv, Running(m), NEW g \in Page
  PROVE  /\ \A u, w \in Uses(g) : u = w
         /\ g \in m.free => Uses(g) = {}
         /\ ~m.short /\ g \notin m.free => Uses(g) # {}
<1>1. /\ Typed(m, pr, shm) /\ KeepInv(pr, shm) /\ ShmInv(m, pr, shm)
      /\ \A p \in Proc : pr[p] \in Slot /\ FitsRest(m, pr[p])
  BY PageParts
<1>2. /\ \A p, q \in Proc : Has(p, g) /\ Has(q, g) => p = q
      /\ \A p \in Proc : Has(p, g) => g \notin SharedOf(shm) /\ g \notin m.free /\ ~(KeepsOf(pr[p], g) /\ OwnOf(pr[p], g))
      /\ g \in SharedOf(shm) => g \notin m.free
      /\ ~m.short => g \in m.free \/ g \in SharedOf(shm) \/ \E p \in Proc : Has(p, g)
  BY OneHolder
<1>3. shm.pages \in Seq(Page \cup {0}) /\ DOMAIN shm.pages = 1 .. Len(shm.pages) /\ 0 \notin Proc
  BY <1>1 DEF Typed, Proc
<1>4. \A p \in Proc : \A kind, i : SlotUses(pr[p], kind, i, g) => Has(p, g)
  BY SlotUsesParts DEF Has
<1>5. \A i \in DOMAIN shm.pages : shm.refcount > 0 /\ shm.pages[i] = g => g \in SharedOf(shm)
  BY <1>3 DEF SharedOf, Elems
<1>6. \A i, j \in DOMAIN shm.pages : shm.refcount > 0 /\ shm.pages[i] = g /\ shm.pages[j] = g => i = j
  BY <1>1, <1>3 DEF ShmInv
<1>7. ASSUME NEW p, NEW k, NEW i, NEW q, NEW l, NEW j, UsedAs(p, k, i, g), UsedAs(q, l, j, g)
      PROVE  p = q /\ k = l /\ i = j
  <2>1. CASE p = 0 /\ q = 0
    <3>1. p \notin Proc /\ q \notin Proc
      BY <1>3, <2>1
    <3> QED BY <1>6, <1>7, <2>1, <3>1, UsedFacts, Zenon
  <2>2. CASE p \in Proc /\ q \in Proc
    <3>1. p # 0 /\ q # 0
      BY <1>3, <2>2
    <3>2. SlotUses(pr[p], k, i, g) /\ SlotUses(pr[q], l, j, g)
      BY <1>7, <3>1, UsedFacts, Zenon
    <3>3. Has(p, g) /\ Has(q, g)
      BY <1>4, <2>2, <3>2
    <3>4. p = q /\ ~(KeepsOf(pr[p], g) /\ OwnOf(pr[p], g))
      BY <1>2, <2>2, <3>3
    <3>5. pr[p] \in Slot /\ Distinct(pr[p].v, ForeignOf(pr[p])) /\ (pr[p].kstack \in Page => pr[p].kstack # pr[p].page)
      BY <1>1, <2>2 DEF FitsRest, KeepInv
    <3> QED BY <3>2, <3>4, <3>5, SlotUsesOnce
  <2>3. CASE p = 0 /\ q \in Proc
    <3>1. p \notin Proc /\ q # 0
      BY <1>3, <2>3
    <3>2. g \in SharedOf(shm) /\ SlotUses(pr[q], l, j, g)
      BY <1>5, <1>7, <3>1, UsedFacts, Zenon
    <3> QED BY <1>2, <1>4, <2>3, <3>2
  <2>4. CASE p \in Proc /\ q = 0
    <3>1. p # 0 /\ q \notin Proc
      BY <1>3, <2>4
    <3>2. g \in SharedOf(shm) /\ SlotUses(pr[p], k, i, g)
      BY <1>5, <1>7, <3>1, UsedFacts, Zenon
    <3> QED BY <1>2, <1>4, <2>4, <3>2
  <2> QED BY <1>7, <2>1, <2>2, <2>3, <2>4, UsedFacts, Zenon
<1> DEFINE Places == (0 .. NPROC) \X Kinds \X (0 .. KERNPAGES)
<1>8. Uses(g) = {u \in Places : UsedAs(u[1], u[2], u[3], g)}
  BY DEF Uses, Kinds
<1>9. ASSUME NEW u \in Uses(g), NEW w \in Uses(g) PROVE u = w
  <2>1. u \in Places /\ w \in Places /\ UsedAs(u[1], u[2], u[3], g) /\ UsedAs(w[1], w[2], w[3], g)
    BY <1>8
  <2>2. u[1] = w[1] /\ u[2] = w[2] /\ u[3] = w[3]
    BY <1>7, <2>1
  <2>3. u = <<u[1], u[2], u[3]>> /\ w = <<w[1], w[2], w[3]>>
    BY <2>1
  <2> QED BY <2>2, <2>3
<1>10. ASSUME NEW u \in Uses(g) PROVE g \notin m.free
  <2>1. UsedAs(u[1], u[2], u[3], g)
    BY <1>8
  <2>2. g \in SharedOf(shm) \/ \E p \in Proc : Has(p, g)
    BY <1>4, <1>5, <2>1, UsedFacts, Zenon
  <2> QED BY <1>2, <2>2
<1>11. ASSUME ~m.short, g \notin m.free PROVE Uses(g) # {}
  <2>0. NSHARED <= KERNPAGES /\ {0} \cup Tab \cup Va \subseteq 0 .. KERNPAGES /\ Proc \subseteq 0 .. NPROC /\ 0 \in 0 .. NPROC
    <3>1. (KERNPAGES - 1) \div NPTE \in Nat /\ (KERNPAGES - 1) \div NPTE <= KERNPAGES - 1
      <4>1. KERNPAGES - 1 \in Nat /\ NPTE \in Nat \ {0}
        BY Sizes
      <4> DEFINE b == (KERNPAGES - 1) \div NPTE
      <4>2. b \in Nat /\ b * NPTE <= KERNPAGES - 1
        BY <4>1, DivBound
      <4> HIDE DEF b
      <4>3. b * 1 <= b * NPTE
        BY <4>1, <4>2
      <4> QED BY <4>1, <4>2, <4>3 DEF b
    <3> QED BY <3>1, Sizes DEF Tab, Va, Proc
  <2>1. CASE g \in SharedOf(shm)
    <3>1. shm.refcount > 0 /\ \E i \in 1 .. Len(shm.pages) : shm.pages[i] = g
      BY <2>1 DEF SharedOf, Elems
    <3>2. PICK i \in 1 .. Len(shm.pages) : shm.pages[i] = g
      BY <3>1
    <3>3. Len(shm.pages) = NSHARED
      BY <1>1, <3>1 DEF ShmInv
    <3>4. i \in 0 .. KERNPAGES
      BY <2>0, <3>2, <3>3, Sizes
    <3>5. UsedAs(0, "shared", i, g)
      BY <1>3, <3>1, <3>2, Zenon DEF UsedAs
    <3>6. <<0, "shared", i>> \in Places
      BY <2>0, <3>4 DEF Kinds
    <3> QED BY <1>8, <3>5, <3>6
  <2>2. CASE \E p \in Proc : Has(p, g)
    <3>1. PICK p \in Proc : Has(p, g)
      BY <2>2
    <3>2. PICK kind \in Kinds, i \in {0} \cup Tab \cup Va : SlotUses(pr[p], kind, i, g)
      BY <3>1, SlotUsesParts DEF Has
    <3>3. UsedAs(p, kind, i, g)
      BY <3>2, UsedFacts, Zenon
    <3>4. <<p, kind, i>> \in Places
      BY <2>0, <3>2
    <3> QED BY <1>8, <3>3, <3>4
  <2> QED BY <1>2, <1>11, <2>1, <2>2
<1> QED BY <1>9, <1>10, <1>11

\* A page is free or has one use, never both or two; unless an unhandled
\* allocation failed, no page is lost and the kernel does not panic (kalloc.c,
\* vm.c, exec.c, wait(), palloc, mmap_alloc, mmap_attach, mmap_detach).
THEOREM PagesAreAccounted ==
  ASSUME OneAllocator
  PROVE  Spec => []PagesAccounted
<1>1. IInv => PagesAccounted
  <2> SUFFICES ASSUME IInv PROVE PagesAccounted
    OBVIOUS
  <2>1. ~m.short => m.panic = ""
    BY DEF IInv, InvOf, Running
  <2>2. ASSUME m.panic = ""
        PROVE  /\ ~m.twice
               /\ \A g \in Page :
                    LET n == Cardinality(Uses(g)) + (IF g \in m.free THEN 1 ELSE 0) IN n <= 1 /\ (~m.short => n = 1)
    <3>0. Running(m)
      BY <2>2 DEF Running
    <3>1. ~m.twice
      <4>1. initproc \in Proc
        BY Sizes DEF initproc, Proc
      <4> QED BY <3>0, <4>1, PageParts DEF FitsRest
    <3>2. ASSUME NEW g \in Page
          PROVE  LET n == Cardinality(Uses(g)) + (IF g \in m.free THEN 1 ELSE 0) IN n <= 1 /\ (~m.short => n = 1)
      <4>1. /\ \A u, w \in Uses(g) : u = w
            /\ g \in m.free => Uses(g) = {}
            /\ ~m.short /\ g \notin m.free => Uses(g) # {}
        BY <3>0, OneUse
      <4>2. Uses(g) = {} => Cardinality(Uses(g)) = 0
        BY FS_EmptySet
      <4>3. Uses(g) # {} => Cardinality(Uses(g)) = 1
        <5>1. Uses(g) # {} => \E u : Uses(g) = {u}
          BY <4>1
        <5> QED BY <5>1, FS_Singleton
      <4>4. CASE g \in m.free
        BY <4>1, <4>2, <4>4
      <4>5. CASE g \notin m.free /\ Uses(g) # {}
        BY <4>3, <4>5
      <4>6. CASE g \notin m.free /\ Uses(g) = {}
        BY <4>1, <4>2, <4>6
      <4> QED BY <4>4, <4>5, <4>6
    <3> QED BY <3>1, <3>2
  <2> QED BY <2>1, <2>2 DEF PagesAccounted
<1> QED BY <1>1, Inductive, PTL

\* Programs with access see the shared pages.
LEMMA UserSees ==
  ASSUME IInv, Running(m), ~m.short, NEW p \in Users(pr), NEW k \in DOMAIN shm.pages
  PROVE  pr[p].v.pte[pr[p].vaddr + k - 1].pg = shm.pages[k]
<1>1. Typed(m, pr, shm) /\ ShmInv(m, pr, shm) /\ SlotsInv(m, pr, shm)
  BY PageParts
<1>2. shm.refcount = Cardinality(Users(pr)) /\ (shm.refcount > 0 => Len(shm.pages) = NSHARED)
  BY <1>1 DEF ShmInv
<1>3. Cardinality(Users(pr)) # 0 /\ Cardinality(Users(pr)) \in Nat
  BY UsersFinite, FS_EmptySet
<1>4. shm.refcount > 0
  BY <1>2, <1>3
<1>5. shm.pages \in Seq(Page \cup {0})
  BY <1>1 DEF Typed
<1>6. k \in 1 .. NSHARED
  BY <1>2, <1>4, <1>5
<1>7. p \in Proc /\ pr[p].using = "shared" /\ pr[p] \in Slot
  BY <1>1 DEF Users, Typed
<1>8. SeesShared(m, shm, pr[p])
  BY <1>1, <1>7 DEF SlotsInv, SlotInv
<1>9. pr[p].v.pte[pr[p].vaddr + (k - 1)].pg = shm.pages[k]
  BY <1>6, <1>8 DEF SeesShared
<1>10. pr[p].vaddr \in Nat
  BY <1>7, SlotFields
<1>11. pr[p].vaddr + k - 1 = pr[p].vaddr + (k - 1)
  BY <1>6, <1>10, Sizes
<1> QED BY <1>9, <1>11

\* shared_refcount is the number of processes with access, and unless memory was
\* short these see the same pages (mmap_alloc, mmap_attach, mmap_detach).
THEOREM SharedIsCounted ==
  ASSUME OneAllocator
  PROVE  Spec => []SharedCounted
<1>1. IInv => SharedCounted
  <2> SUFFICES ASSUME IInv, m.panic = ""
               PROVE  LET users == {p \in Proc : pr[p].st # "unused" /\ pr[p].using = "shared"}
                      IN  /\ shm.refcount = Cardinality(users)
                          /\ ~m.short => \A p \in users, k \in DOMAIN shm.pages :
                                           pr[p].v.pte[pr[p].vaddr + k - 1].pg = shm.pages[k]
    BY DEF SharedCounted
  <2>1. Running(m)
    BY DEF Running
  <2>2. Typed(m, pr, shm) /\ ShmInv(m, pr, shm) /\ SlotsInv(m, pr, shm)
    BY <2>1, PageParts
  <2>3. {p \in Proc : pr[p].st # "unused" /\ pr[p].using = "shared"} = Users(pr)
    BY <2>2 DEF Users, SlotsInv, SlotInv
  <2>4. ~m.short => \A p \in Users(pr), k \in DOMAIN shm.pages :
                      pr[p].v.pte[pr[p].vaddr + k - 1].pg = shm.pages[k]
    BY <2>1, UserSees
  <2>5. shm.refcount = Cardinality(Users(pr))
    BY <2>2 DEF ShmInv
  <2> QED BY <2>3, <2>4, <2>5
<1> QED BY <1>1, Inductive, PTL

\* Unless memory was short or sbrk() has emptied a process, all memory below
\* proc->sz is there (growproc(), copyuvm(), exec(), argint() and its kin).
THEOREM SizeIsMapped ==
  ASSUME OneAllocator
  PROVE  Spec => []SizeMapped
<1>1. IInv => SizeMapped
  <2> SUFFICES ASSUME IInv, ~m.short, NEW p \in Proc, pr[p].st = "run",
                      NEW a \in 0 .. PGROUNDUP(pr[p].sz) - 1
               PROVE  pr[p].v.pte[a].pg \in Page
    BY DEF SizeMapped
  <2>1. Running(m)
    BY DEF IInv, InvOf
  <2> QED BY <2>1, MappedBelow
<1> QED BY <1>1, Inductive, PTL

=============================================================================
