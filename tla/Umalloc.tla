------------------------------- MODULE Umalloc -------------------------------
(***************************************************************************)
(* The user-level allocator (project4/umalloc.c): a circular list of free  *)
(* blocks in the order of their addresses, headers included.               *)
(*                                                                         *)
(* Addresses count headers.  base, in the program's data, is at 0; the     *)
(* heap starts at Start and sbrk() moves its end.  A program may also call *)
(* sbrk() itself, which leaves a gap between two parts of the heap.        *)
(***************************************************************************)
EXTENDS Naturals, FiniteSets

CONSTANTS Start,      \* the first heap address
          Limit,      \* sbrk() fails beyond this address
          MinCore,    \* units that morecore() asks for at least
          Requests    \* units of the requests, header included

VARIABLES mem,        \* the headers: ptr and size, by address
          freep,      \* where the search starts, or NULL
          brk,        \* the end of the heap
          used,       \* the addresses of the blocks that the program has
          gaps        \* addresses that the program got from sbrk()

vars == <<mem, freep, brk, used, gaps>>

base == 0
NULL == Limit + 1
Addr == {base} \cup (Start .. Limit)

Init ==
  /\ mem = [a \in Addr |-> [ptr |-> base, size |-> 0]]
  /\ freep = NULL /\ brk = Start /\ used = {} /\ gaps = {}

\* The free block after which bp belongs: the first one that free() stops at.
Stops(m, bp, p) ==
  \/ bp > p /\ bp < m[p].ptr
  \/ p >= m[p].ptr /\ (bp > p \/ bp < m[p].ptr)
RECURSIVE Place(_, _, _)
Place(m, bp, p) == IF Stops(m, bp, p) THEN p ELSE Place(m, bp, m[p].ptr)

JoinUp(m, bp, p) ==
  IF bp + m[bp].size = m[p].ptr
  THEN [m EXCEPT ![bp] = [ptr |-> m[m[p].ptr].ptr, size |-> @.size + m[m[p].ptr].size]]
  ELSE [m EXCEPT ![bp].ptr = m[p].ptr]
\* Mutant: the block is not joined with the one below it but its size is added.
JoinDownTwice(m, bp, p) ==
  IF p + m[p].size = bp THEN [m EXCEPT ![p] = [ptr |-> bp, size |-> @.size + m[bp].size]]
  ELSE [m EXCEPT ![p].ptr = bp]
JoinDown(m, bp, p) ==
  IF p + m[p].size = bp THEN [m EXCEPT ![p] = [ptr |-> m[bp].ptr, size |-> @.size + m[bp].size]]
  ELSE [m EXCEPT ![p].ptr = bp]

\* free(): the headers and freep after block bp was given back.
FreeAt(m, bp, p) == [m |-> JoinDown(JoinUp(m, bp, p), bp, p), freep |-> p]
free(m, fp, bp) == FreeAt(m, bp, Place(m, bp, fp))

\* morecore(nu): h is the heap: m, freep, brk, ok.
CoreSize(nu) == IF nu < MinCore THEN MinCore ELSE nu
morecore(h, nu) ==
  IF h.brk + CoreSize(nu) > Limit + 1 THEN [h EXCEPT !.ok = FALSE]
  ELSE LET f == free([h.m EXCEPT ![h.brk].size = CoreSize(nu)], h.freep, h.brk)
       IN  [m |-> f.m, freep |-> f.freep, brk |-> h.brk + CoreSize(nu), ok |-> TRUE]

\* Block p, found after prevp, or its upper end, becomes the program's.
Carve(h, prevp, p, n) ==
  IF h.m[p].size = n
  THEN [h |-> [h EXCEPT !.m[prevp].ptr = h.m[p].ptr, !.freep = prevp], got |-> p]
  ELSE LET q == p + h.m[p].size - n
       IN  [h |-> [h EXCEPT !.m = [@ EXCEPT ![p].size = @ - n, ![q].size = n], !.freep = prevp], got |-> q]

\* The search of malloc(), standing at p behind prevp.
RECURSIVE Search(_, _, _, _)
Search(h, prevp, p, n) ==
  IF h.m[p].size >= n THEN Carve(h, prevp, p, n)
  ELSE IF p # h.freep THEN Search(h, p, h.m[p].ptr, n)
  ELSE LET g == morecore(h, n)
       IN  IF ~g.ok THEN [h |-> g, got |-> NULL] ELSE Search(g, g.freep, g.m[g.freep].ptr, n)

\* The list is made at the first call.
Prepared ==
  IF freep # NULL THEN [m |-> mem, freep |-> freep, brk |-> brk, ok |-> TRUE]
  ELSE [m |-> [mem EXCEPT ![base] = [ptr |-> base, size |-> 0]], freep |-> base, brk |-> brk, ok |-> TRUE]
malloc(h, n) == Search(h, h.freep, h.m[h.freep].ptr, n)

Malloc(n) ==
  LET r == malloc(Prepared, n)
  IN  /\ mem' = r.h.m /\ freep' = r.h.freep /\ brk' = r.h.brk
      /\ used' = used \cup ({r.got} \ {NULL})
      /\ UNCHANGED gaps
Free(bp) ==
  LET f == free(mem, freep, bp)
  IN  mem' = f.m /\ freep' = f.freep /\ used' = used \ {bp} /\ UNCHANGED <<brk, gaps>>
Sbrk ==
  /\ brk <= Limit
  /\ brk' = brk + 1 /\ gaps' = gaps \cup {brk} /\ UNCHANGED <<mem, freep, used>>

Next == (\E n \in Requests : Malloc(n)) \/ (\E bp \in used : Free(bp)) \/ Sbrk
Spec == Init /\ [][Next]_vars

-----------------------------------------------------------------------------

\* The blocks on the free list, base left out; walking stops after n.
RECURSIVE ListFrom(_, _)
ListFrom(p, n) == IF n = 0 \/ p = base THEN {} ELSE {p} \cup ListFrom(mem[p].ptr, n - 1)
FreeBlocks == IF freep = NULL THEN {} ELSE ListFrom(mem[base].ptr, Limit)
Units(a) == a .. a + mem[a].size - 1

\* malloc() and free() in any order: the program's blocks, the free blocks and what
\* sbrk() gave the program directly tile the heap, without a unit in two of them or
\* in none; the free list is ordered by address and no two free blocks that touch
\* are left apart.
HeapTiled ==
  LET B == FreeBlocks \cup used
  IN  /\ FreeBlocks \cap used = {}
      /\ \A a \in B : mem[a].size > 0
      /\ \A a \in B : \A b \in B \ {a} : Units(a) \cap Units(b) = {}
      /\ UNION {Units(a) : a \in B} \cup gaps = Start .. brk - 1
      /\ \A a \in B : Units(a) \cap gaps = {}
      /\ \A a \in FreeBlocks : /\ mem[a].ptr = base \/ mem[a].ptr > a
                               /\ a + mem[a].size \notin FreeBlocks
=============================================================================
