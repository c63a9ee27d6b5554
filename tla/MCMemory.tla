------------------------------ MODULE MCMemory ------------------------------
(***************************************************************************)
(* Memory with programs of one and of two segments, one that cannot be     *)
(* read, and amounts of memory around the size of a page, 0 and KERNBASE.  *)
(***************************************************************************)
EXTENDS Memory

Seg(start, end, reads) == [start |-> start, end |-> end, reads |-> reads]
MCImages == {<<Seg(0, 1, TRUE)>>, <<Seg(0, 1, TRUE), Seg(1, 3, FALSE)>>}
MCGrows == {PGSIZE + 1, -PGSIZE - 1, KERNBASE, -KERNBASE}

\* States that differ only in which page has which use are one: the view keeps
\* of each page what refers to it and whether it is free, and not its number.
\* (shared_pages means nothing while shared_refcount is 0.)
Refers(g) ==
  UNION {LET q == pr[p]
         IN  {<<p, w>> : w \in {w \in {"kstack", "page"} : q[w] = g}}
             \cup {<<p, w>> : w \in {w \in {"dir"} : q.v[w] = g}}
             \cup {<<p, "ktab">> : k \in q.v.ktab \cap {g}}
             \cup {<<p, "tab", t>> : t \in {t \in Tab : q.v.tab[t] = g}}
             \cup {<<p, "pte", a, q.v.pte[a].u>> : a \in {a \in Va : q.v.pte[a].pg = g}} : p \in Proc}
  \cup {<<0, "shared", k>> : k \in {k \in DOMAIN shm.pages : shm.refcount > 0 /\ shm.pages[k] = g}}
View ==
  <<{<<Refers(g), g \in m.free>> : g \in Page \cup {0}}, Cardinality(m.free), m.twice, m.panic, m.short,
    shm.refcount, Len(shm.pages),
    [p \in Proc |-> LET q == pr[p] IN <<q.st, q.parent, q.sz, q.shared, q.vaddr, q.at, q.using>>]>>
=============================================================================
