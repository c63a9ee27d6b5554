-------------------------------- MODULE List --------------------------------
(***************************************************************************)
(* The doubly linked lists of project4/list.c, pointer by pointer, beside   *)
(* the sequences that they stand for.                                      *)
(*                                                                         *)
(* A node is a number: 0 is NULL, 1 .. N are the elements, and each of the *)
(* two lists has a head and a tail of its own.  Removed elements keep the  *)
(* pointers they had, as in the code.  A failed ASSERT clears l.ok; one of *)
(* list_next() or list_prev() gives PANIC, which is no node: no call gets  *)
(* further with it, and none has to return it.                             *)
(***************************************************************************)
EXTENDS Naturals, Sequences, FiniteSets

CONSTANTS N,          \* elements
          Keys,       \* the values that less() compares
          MaxCalls    \* calls made on the lists, after those that fill list 1

VARIABLES l,          \* the memory: prev, next, ok
          key,        \* the value of each element
          ret,        \* what the last call returned
          ref,        \* the sequences that the two lists stand for
          want,       \* what the last call has to return
          calls       \* calls made

vars == <<l, key, ret, ref, want, calls>>

NULL == 0
PANIC == N + 5
Elem == 1 .. N
Node == 1 .. N + 4
head(L) == N + L
tail(L) == N + 2 + L

-----------------------------------------------------------------------------
(* The pointers.  An operation maps the memory to the memory.              *)

ASSERT(m, b) == [m EXCEPT !.ok = @ /\ b]
is_head(m, e) == e # NULL /\ m.prev[e] = NULL /\ m.next[e] # NULL
is_interior(m, e) == e # NULL /\ m.prev[e] # NULL /\ m.next[e] # NULL
is_tail(m, e) == e # NULL /\ m.prev[e] # NULL /\ m.next[e] = NULL
less(a, b) == key[a] < key[b]

list_init(m, L) ==
  [m EXCEPT !.prev[head(L)] = NULL, !.next[head(L)] = tail(L),
            !.prev[tail(L)] = head(L), !.next[tail(L)] = NULL]
list_begin(m, L) == m.next[head(L)]
list_next(m, e) == IF is_head(m, e) \/ is_interior(m, e) THEN m.next[e] ELSE PANIC
list_prev(m, e) == IF is_interior(m, e) \/ is_tail(m, e) THEN m.prev[e] ELSE PANIC
list_end(m, L) == tail(L)
list_rbegin(m, L) == m.prev[tail(L)]
list_rend(m, L) == head(L)
list_empty(m, L) == list_begin(m, L) = list_end(m, L)
list_front(m, L) == list_begin(m, L)
list_back(m, L) == list_rbegin(m, L)

CanPrecede(m, e) == is_interior(m, e) \/ is_tail(m, e)

list_insert(m, before, e) ==
  LET p == m.prev[before]
  IN  [ASSERT(m, CanPrecede(m, before)) EXCEPT
         !.prev = [@ EXCEPT ![e] = p, ![before] = e],
         !.next = [@ EXCEPT ![e] = before, ![p] = e]]
list_push_front(m, L, e) == list_insert(m, list_begin(m, L), e)
list_push_back(m, L, e) == list_insert(m, list_end(m, L), e)

\* Mutant: the links of the element's neighbour behind it are left alone.
list_remove_half(m, e) ==
  [ASSERT(m, is_interior(m, e)) EXCEPT !.next[m.prev[e]] = m.next[e]]
list_remove(m, e) ==
  [ASSERT(m, is_interior(m, e)) EXCEPT !.next[m.prev[e]] = m.next[e], !.prev[m.next[e]] = m.prev[e]]

\* The two halves of list_splice(): take first .. last out, put them in.
Cut(m, first, last) ==
  [ASSERT(m, is_interior(m, first) /\ is_interior(m, last)) EXCEPT
     !.next[m.prev[first]] = m.next[last], !.prev[m.next[last]] = m.prev[first]]
Paste(m, before, first, last) ==
  LET p == m.prev[before]
  IN  [m EXCEPT !.prev = [@ EXCEPT ![first] = p, ![before] = last],
                !.next = [@ EXCEPT ![last] = before, ![p] = first]]
list_splice(m, before, first, last) ==
  IF first = last THEN ASSERT(m, CanPrecede(m, before))
  ELSE Paste(Cut(ASSERT(m, CanPrecede(m, before)), first, list_prev(m, last)), before, first, list_prev(m, last))

\* The nodes from a up to b, which is left out, along the next pointers.
RECURSIVE Between(_, _, _)
Between(m, a, b) == IF a = b THEN <<>> ELSE <<a>> \o Between(m, list_next(m, a), b)
list_size(m, L) == Len(Between(m, list_begin(m, L), list_end(m, L)))

\* for(e = begin; e != end; e = e->prev) swap(&e->prev, &e->next)
RECURSIVE SwapLinks(_, _, _)
SwapLinks(m, e, end) ==
  IF e = end THEN m
  ELSE SwapLinks([m EXCEPT !.prev[e] = m.next[e], !.next[e] = m.prev[e]], m.next[e], end)
SwapEnds(m, L) == [m EXCEPT !.next[head(L)] = m.prev[tail(L)], !.prev[tail(L)] = m.next[head(L)]]
SwapOuter(m, f, b) == [m EXCEPT !.prev[f] = m.next[b], !.next[b] = m.prev[f]]
SwapBoth(m, L) == SwapOuter(m, m.next[head(L)], m.prev[tail(L)])
list_reverse(m, L) ==
  IF list_empty(m, L) THEN m
  ELSE SwapBoth(SwapEnds(SwapLinks(m, list_begin(m, L), list_end(m, L)), L), L)

is_sorted(m, a, b) ==
  LET q == Between(m, a, b) IN \A k \in 2 .. Len(q) : ~less(q[k], q[k - 1])

\* The end of the run that starts at a and does not pass b.
RECURSIVE find_end_of_run(_, _, _)
find_end_of_run(m, a, b) ==
  LET e == list_next(m, a)
  IN  IF e # b /\ ~less(e, list_prev(m, e)) THEN find_end_of_run(m, e, b) ELSE e

\* The next element of the merge comes from the second run.
TakesSecond(b, a) == less(b, a)

RECURSIVE Merge(_, _, _, _)
Merge(m, a0, a1b0, b1) ==
  IF a0 = a1b0 \/ a1b0 = b1 THEN m
  ELSE IF ~TakesSecond(a1b0, a0) THEN Merge(m, list_next(m, a0), a1b0, b1)
  ELSE Merge(list_splice(m, a0, a1b0, list_next(m, a1b0)), a0, list_next(m, a1b0), b1)
inplace_merge(m, a0, a1b0, b1) ==
  Merge(ASSERT(m, is_sorted(m, a0, a1b0) /\ is_sorted(m, a1b0, b1)), a0, a1b0, b1)

\* One pass of list_sort() from a0 on, n runs so far, and the passes.
RECURSIVE Pass(_, _, _, _)
Pass(m, L, a0, n) ==
  IF a0 = list_end(m, L) THEN [m |-> m, n |-> n]
  ELSE LET a1b0 == find_end_of_run(m, a0, list_end(m, L))
       IN  IF a1b0 = list_end(m, L) THEN [m |-> m, n |-> n + 1]
           ELSE LET b1 == find_end_of_run(m, a1b0, list_end(m, L))
                IN  Pass(inplace_merge(m, a0, a1b0, b1), L, b1, n + 1)
RECURSIVE list_sort(_, _)
list_sort(m, L) ==
  LET p == Pass(m, L, list_begin(m, L), 0)
  IN  IF p.n > 1 THEN list_sort(p.m, L)
      ELSE ASSERT(p.m, is_sorted(p.m, list_begin(p.m, L), list_end(p.m, L)))

\* The first element that e is less than, or the tail.
RECURSIVE Position(_, _, _, _)
Position(m, e, at, end) ==
  IF at = end \/ less(e, at) THEN at ELSE Position(m, e, list_next(m, at), end)
list_insert_ordered(m, L, e) == list_insert(m, Position(m, e, list_begin(m, L), list_end(m, L)), e)

\* list_unique() from e on, the duplicates going to list D.
RECURSIVE Unique(_, _, _, _)
Unique(m, L, D, e) ==
  LET n == list_next(m, e)
  IN  IF n = list_end(m, L) THEN m
      ELSE IF ~less(e, n) /\ ~less(n, e) THEN Unique(list_push_back(list_remove(m, n), D, n), L, D, e)
      ELSE Unique(m, L, D, n)
list_unique(m, L, D) == IF list_empty(m, L) THEN m ELSE Unique(m, L, D, list_begin(m, L))

\* The best of b and the elements from e on, when Better(x, y) says x beats y.
RECURSIVE Best(_, _, _, _, _)
Best(m, Better(_, _), b, e, end) ==
  IF e = end THEN b ELSE Best(m, Better, IF Better(e, b) THEN e ELSE b, list_next(m, e), end)
list_max(m, L) ==
  IF list_empty(m, L) THEN list_end(m, L)
  ELSE Best(m, LAMBDA x, y : less(y, x), list_begin(m, L), list_next(m, list_begin(m, L)), list_end(m, L))
list_min(m, L) ==
  IF list_empty(m, L) THEN list_end(m, L)
  ELSE Best(m, less, list_begin(m, L), list_next(m, list_begin(m, L)), list_end(m, L))

-----------------------------------------------------------------------------
(* The calls, and what they mean for the sequences                         *)

InLists == {ref[1][k] : k \in DOMAIN ref[1]} \cup {ref[2][k] : k \in DOMAIN ref[2]}
Outside == Elem \ InLists

\* One call: the memory, the returned value and the sequences after it.
Call(m, r, refs, w) ==
  /\ calls < MaxCalls
  /\ l' = m /\ ret' = r /\ ref' = refs /\ want' = w /\ calls' = calls + 1
  /\ UNCHANGED key

With(L, q) == [ref EXCEPT ![L] = q]
InsertAt(q, k, e) == SubSeq(q, 1, k - 1) \o <<e>> \o SubSeq(q, k, Len(q))
RemoveAt(q, k) == SubSeq(q, 1, k - 1) \o SubSeq(q, k + 1, Len(q))
At(q, k, L) == IF k <= Len(q) THEN q[k] ELSE tail(L)

PushFront(L, e) == Call(list_push_front(l, L, e), NULL, With(L, <<e>> \o ref[L]), NULL)
PushBack(L, e) == Call(list_push_back(l, L, e), NULL, With(L, Append(ref[L], e)), NULL)
Insert(L, e) ==
  \E k \in DOMAIN ref[L] : Call(list_insert(l, ref[L][k], e), NULL, With(L, InsertAt(ref[L], k, e)), NULL)
Remove(L) ==
  \E k \in DOMAIN ref[L] :
    Call(list_remove(l, ref[L][k]), list_next(l, ref[L][k]), With(L, RemoveAt(ref[L], k)), At(ref[L], k + 1, L))
PopFront(L) ==
  /\ ref[L] # <<>>
  /\ Call(list_remove(l, list_front(l, L)), list_front(l, L), With(L, Tail(ref[L])), Head(ref[L]))
PopBack(L) ==
  /\ ref[L] # <<>>
  /\ Call(list_remove(l, list_back(l, L)), list_back(l, L),
          With(L, RemoveAt(ref[L], Len(ref[L]))), ref[L][Len(ref[L])])
\* Elements i .. j - 1 of list L go to just before element k of list M.
Splice(L, M) ==
  \E i \in DOMAIN ref[L], k \in 1 .. Len(ref[M]) + 1 : \E j \in i .. Len(ref[L]) + 1 :
    Call(list_splice(l, At(ref[M], k, M), ref[L][i], At(ref[L], j, L)), NULL,
         [ref EXCEPT ![L] = SubSeq(@, 1, i - 1) \o SubSeq(@, j, Len(@)),
                     ![M] = SubSeq(@, 1, k - 1) \o SubSeq(ref[L], i, j - 1) \o SubSeq(@, k, Len(@))], NULL)
Size(L) == Call(l, list_size(l, L), ref, Len(ref[L]))
Reverse(L) == Call(list_reverse(l, L), NULL, With(L, [k \in DOMAIN ref[L] |-> ref[L][Len(ref[L]) + 1 - k]]), NULL)

\* The sequence in the order of the keys, equal ones as they were.
Rank(q, k) == Cardinality({j \in DOMAIN q : key[q[j]] < key[q[k]] \/ (key[q[j]] = key[q[k]] /\ j <= k)})
StableSort(q) == [r \in DOMAIN q |-> q[CHOOSE k \in DOMAIN q : Rank(q, k) = r]]
Sort(L) == Call(list_sort(l, L), NULL, With(L, StableSort(ref[L])), NULL)

\* list_insert_ordered() requires a sorted list, list_unique() does not.
InsertOrdered(L, e) ==
  /\ StableSort(ref[L]) = ref[L]
  /\ Call(list_insert_ordered(l, L, e), NULL, With(L, StableSort(Append(ref[L], e))), NULL)
Kept(q) == {k \in DOMAIN q : k = 1 \/ key[q[k]] # key[q[k - 1]]}
Pick(q, K) ==
  [r \in 1 .. Cardinality(K) |-> q[CHOOSE k \in K : Cardinality({j \in K : j <= k}) = r]]
UniqueCall(L, D) ==
  Call(list_unique(l, L, D), NULL,
       [ref EXCEPT ![L] = Pick(@, Kept(@)), ![D] = @ \o Pick(ref[L], DOMAIN ref[L] \ Kept(ref[L]))], NULL)

FirstBest(L, Better(_, _)) ==
  IF ref[L] = <<>> THEN tail(L)
  ELSE ref[L][CHOOSE k \in DOMAIN ref[L] :
                \A j \in DOMAIN ref[L] : /\ ~Better(ref[L][j], ref[L][k])
                                         /\ j < k => Better(ref[L][k], ref[L][j])]
MaxCall(L) == Call(l, list_max(l, L), ref, FirstBest(L, LAMBDA x, y : key[x] > key[y]))
MinCall(L) == Call(l, list_min(l, L), ref, FirstBest(L, LAMBDA x, y : key[x] < key[y]))

Blank == [prev |-> [n \in Node |-> NULL], next |-> [n \in Node |-> NULL], ok |-> TRUE]
RECURSIVE FillList(_, _)
FillList(m, k) == IF k = 0 THEN m ELSE list_push_back(FillList(m, k - 1), 1, k)

Init ==
  /\ key \in [Elem -> Keys]
  /\ \E k \in {0, N} : l = FillList(list_init(list_init(Blank, 1), 2), k) /\ ref = <<[i \in 1 .. k |-> i], <<>>>>
  /\ ret = NULL /\ want = NULL /\ calls = 0

Next ==
  \E L \in 1 .. 2 :
    \/ \E e \in Outside : PushFront(L, e) \/ PushBack(L, e) \/ Insert(L, e) \/ InsertOrdered(L, e)
    \/ Remove(L) \/ PopFront(L) \/ PopBack(L) \/ Splice(L, 3 - L)
    \/ Size(L) \/ Reverse(L) \/ Sort(L) \/ UniqueCall(L, 3 - L) \/ MaxCall(L) \/ MinCall(L)

Spec == Init /\ [][Next]_vars

-----------------------------------------------------------------------------

\* Walking list L backwards from its tail, at most n elements.
RECURSIVE Backwards(_, _, _)
Backwards(m, e, n) ==
  IF n = 0 \/ ~is_interior(m, e) THEN <<>> ELSE Append(Backwards(m, m.prev[e], n - 1), e)
RECURSIVE Forwards(_, _, _)
Forwards(m, e, n) ==
  IF n = 0 \/ ~is_interior(m, e) THEN <<>> ELSE <<e>> \o Forwards(m, m.next[e], n - 1)

\* After any calls the pointers of both lists, followed in either direction, are
\* the sequences that the comments of list.c promise, the last call returned what
\* they promise, and no ASSERT failed: removal, splicing, reversal and the merge
\* sort, which is stable, leave no stale link.
ListsAreSequences ==
  /\ l.ok /\ ret = want
  /\ \A L \in 1 .. 2 : /\ Forwards(l, list_begin(l, L), N + 1) = ref[L]
                       /\ Backwards(l, list_rbegin(l, L), N + 1) = ref[L]
=============================================================================
