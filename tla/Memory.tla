------------------------------- MODULE Memory -------------------------------
(***************************************************************************)
(* Physical pages and address spaces: kalloc.c, vm.c, exec.c, growproc(),  *)
(* what fork(), wait() and exec() do with memory (proc.c), and the calls   *)
(* palloc, mmap_alloc, mmap_attach and mmap_detach (sysfile.c).            *)
(*                                                                         *)
(* kalloc() and kfree() are atomic by kmem.lock, and a call touches only   *)
(* pages and page tables of its own process (wait() those of a zombie), so *)
(* a call is one step, except mmap_alloc(), which tests a shared counter   *)
(* before it takes the lock.  Which free page kalloc() returns does not    *)
(* matter to any property: the model takes the lowest.                     *)
(*                                                                         *)
(* Some failures of kalloc() are not handled, and sbrk() to a size of 0    *)
(* leaves a hole in the address space: see short.                          *)
(***************************************************************************)
EXTENDS Integers, Sequences, FiniteSets

CONSTANTS NPAGES,      \* physical pages that kinit1() and kinit2() free
          PGSIZE,      \* units in a page
          NPTE,        \* entries of a page table
          KERNPAGES,   \* pages below KERNBASE
          KTABS,       \* page tables of the kernel's half of an address space
          NPROC,       \* slots of ptable; 1 is init
          VA1, VA2,    \* the pages where mtest and mmaptest map
          NSHARED,     \* pages that a program asks mmap_alloc() for
          MAXARGS,     \* most stack pages that arguments of exec() fill
          Images,      \* programs: sequences of segments [start, end, reads]
          Grows,       \* arguments of sbrk()
          Allocators   \* processes that call mmap_alloc()

ASSUME MemoryAssumption ==
  /\ {NPAGES, PGSIZE, NPTE, KERNPAGES, KTABS, NPROC, NSHARED, MAXARGS} \subseteq Nat \ {0}
  /\ {VA1, VA2} \subseteq 0 .. KERNPAGES - NSHARED /\ VA1 # VA2 /\ Allocators \subseteq 1 .. NPROC
  /\ \A segs \in Images : segs \in Seq([start : Nat, end : Nat, reads : BOOLEAN])
  /\ Grows \subseteq Int

VARIABLES
  m,       \* free, the free list; twice, a page was freed that was free;
           \* panic; short, a page is missing that the code takes to be there: a
           \* kalloc() has failed whose failure is not checked or not undone, or
           \* sbrk() has failed after it removed the memory
  pr,      \* the processes
  shm      \* shared_refcount and shared_pages

vars == <<m, pr, shm>>

Proc == 1 .. NPROC
initproc == 1
Page == 1 .. NPAGES
KERNBASE == KERNPAGES * PGSIZE
Va == 0 .. KERNPAGES - 1
Tab == 0 .. (KERNPAGES - 1) \div NPTE

\* Unsigned arithmetic; KERNBASE is half of the address space.
Uint(n) == n % (2 * KERNBASE)
\* The number of pages that n units need.
PGROUNDUP(n) == (n + PGSIZE - 1) \div PGSIZE
Least(S) == CHOOSE g \in S : \A h \in S : g <= h
\* A loop over k = 0 .. n - 1 that starts from x.
Repeat(Do(_, _), x, n) ==
  LET loop[k \in 0 .. n] == IF k = 0 THEN x ELSE Do(loop[k - 1], k - 1) IN loop[n]

-----------------------------------------------------------------------------
(* kalloc.c                                                                *)

Panic(mem, what) == [mem EXCEPT !.panic = IF @ = "" THEN what ELSE @]

\* The page kalloc() returns, or 0.
Got(mem) == IF mem.free = {} THEN 0 ELSE Least(mem.free)
Taken(mem) == [mem EXCEPT !.free = @ \ {Got(mem)}]

kfree(mem, g) ==
  CASE g \notin Page -> Panic(mem, "kfree")
    [] g \in mem.free -> [mem EXCEPT !.twice = TRUE]
    [] OTHER -> [mem EXCEPT !.free = @ \cup {g}]

\* kfree() of each page of a set.
kfreeAll(mem, S) ==
  [mem EXCEPT !.free = @ \cup (S \cap Page), !.twice = @ \/ S \cap mem.free # {},
              !.panic = IF @ = "" /\ ~(S \subseteq Page) THEN "kfree" ELSE @]

-----------------------------------------------------------------------------
(* vm.c.  An address space is its directory, the kernel's page tables, its *)
(* own page tables and the entries of those.  A function works on x, which *)
(* is memory m, an address space v, its size sz in units, and ok, FALSE    *)
(* when a call has failed.                                                 *)

None == -1      \* an entry without PTE_P; page 0 is a failed kalloc() mapped
NoPte == [pg |-> None, u |-> FALSE]
NoVm == [dir |-> 0, ktab |-> {}, tab |-> [t \in Tab |-> 0], pte |-> [a \in Va |-> NoPte]]
On(mem, v, sz) == [m |-> mem, v |-> v, sz |-> sz, ok |-> TRUE]
Failed(x) == [x EXCEPT !.ok = FALSE]
Short(x) == [x EXCEPT !.m.short = TRUE]

\* setupkvm(): when it fails half way, what it allocated is lost.
KernelTable(x, k) ==
  IF Got(x.m) = 0 THEN Failed(Short(x)) ELSE [x EXCEPT !.m = Taken(@), !.v.ktab = @ \cup {Got(x.m)}]
Complete(x) == IF x.ok THEN x ELSE [x EXCEPT !.v = NoVm]
setupkvm(mem) ==
  IF Got(mem) = 0 THEN Failed(On(mem, NoVm, 0))
  ELSE Complete(Repeat(KernelTable, On(Taken(mem), [NoVm EXCEPT !.dir = Got(mem)], 0), KTABS))

\* walkpgdir(..., 1): the page table of a is there afterwards unless kalloc()
\* has failed.
Table(v, a) == v.tab[a \div NPTE]
walkpgdir(x, a) ==
  IF Table(x.v, a) # 0 THEN x ELSE [x EXCEPT !.m = Taken(@), !.v.tab[a \div NPTE] = Got(x.m)]

\* mappages() of the page g at a; allocuvm(), palloc() and the mmap calls
\* ignore that it failed.
SetPte(x, a, g, u) ==
  CASE Table(x.v, a) = 0 -> Failed(Short(x))
    [] Table(x.v, a) # 0 /\ x.v.pte[a].pg # None -> [x EXCEPT !.m = Panic(@, "remap")]
    [] OTHER -> [x EXCEPT !.v.pte[a] = [pg |-> g, u |-> u]]
mappages(x, a, g, u) == SetPte(walkpgdir(x, a), a, g, u)
MapAnyway(x, a, g) == [mappages(x, a, g, TRUE) EXCEPT !.ok = x.ok]

\* Mutant: the page that holds the new end is freed too.
FirstFreedDown(newsz) == newsz \div PGSIZE

\* deallocuvm() starts with the first whole page above newsz.
FirstFreed(newsz) == PGROUNDUP(newsz)

Clear(x, a) ==
  IF x.v.pte[a].pg = None THEN x
  ELSE [x EXCEPT !.m = kfree(@, x.v.pte[a].pg), !.v.pte[a] = NoPte]

\* The loop of deallocuvm(), which is at y.a: for a missing table it adds the
\* size of a table, wherever in the table it is.
ClearNext(y, end) ==
  IF y.a * PGSIZE >= end THEN y
  ELSE IF Table(y.x.v, y.a) = 0 THEN [y EXCEPT !.a = @ + NPTE]
  ELSE [x |-> Clear(y.x, y.a), a |-> y.a + 1]
deallocuvm(x, newsz) ==
  IF newsz >= x.sz THEN x
  ELSE [Repeat(LAMBDA y, k : ClearNext(y, x.sz), [x |-> x, a |-> FirstFreed(newsz)], KERNPAGES).x EXCEPT !.sz = newsz]

\* allocuvm(): when a page is missing, what was allocated is freed again.
AllocPage(x, a) ==
  CASE ~x.ok -> x
    [] x.ok /\ Got(x.m) = 0 -> Failed(x)
    [] OTHER -> MapAnyway([x EXCEPT !.m = Taken(@)], a, Got(x.m))

\* The end of allocuvm(), after its loop.
Settle(x, newsz) == IF x.ok THEN [x EXCEPT !.sz = newsz] ELSE deallocuvm([x EXCEPT !.sz = newsz], x.sz)
allocuvm(x, newsz) ==
  CASE newsz >= KERNBASE -> Failed(x)
    [] newsz < KERNBASE /\ newsz < x.sz -> x
    [] OTHER -> Settle(Repeat(LAMBDA y, k : AllocPage(y, PGROUNDUP(x.sz) + k), x, PGROUNDUP(newsz) - PGROUNDUP(x.sz)), newsz)

\* freevm(): the user pages, the page tables, the directory.
FreeTables(x) == kfreeAll(x.m, (x.v.ktab \cup {x.v.tab[t] : t \in Tab} \cup {x.v.dir}) \ {0})
freevm(mem, v) == FreeTables(deallocuvm(On(mem, v, KERNBASE), 0))

\* clearptep(): the entry is no longer present; its table must be there.
clearptep(x, a) ==
  IF Table(x.v, a) = 0 THEN [x EXCEPT !.m = Panic(@, "clearpteu")] ELSE [x EXCEPT !.v.pte[a] = NoPte]

\* copyuvm(): one page of the parent's v; x is the child's.
CopyPage(x, a, v) ==
  CASE ~x.ok -> x
    [] x.ok /\ (Table(v, a) = 0 \/ v.pte[a].pg = None) -> [x EXCEPT !.m = Panic(@, "copyuvm")]
    [] x.ok /\ Table(v, a) # 0 /\ v.pte[a].pg # None /\ Got(x.m) = 0 -> Failed(x)
    [] OTHER -> mappages([x EXCEPT !.m = Taken(@)], a, Got(x.m), v.pte[a].u)
Kept(x) == IF x.ok \/ x.v.dir = 0 THEN x ELSE [x EXCEPT !.m = freevm(@, x.v), !.v = NoVm]
CopyAll(x, v, sz) ==
  IF ~x.ok THEN x ELSE Kept(Repeat(LAMBDA y, a : CopyPage(y, a, v), x, PGROUNDUP(sz)))
copyuvm(mem, v, sz) == CopyAll(setupkvm(mem), v, sz)

-----------------------------------------------------------------------------
(* exec.c                                                                  *)

\* One segment: it ends at seg.end, and reading it works or does not.
\* loaduvm() needs its page tables.
LoadSegment(x, seg) ==
  CASE ~x.ok -> x
    [] x.ok /\ \E a \in seg.start .. PGROUNDUP(seg.end) - 1 : Table(x.v, a) = 0 ->
         [x EXCEPT !.m = Panic(@, "loaduvm: address should exist")]
    [] OTHER -> IF seg.reads THEN x ELSE Failed(x)
Segment(x, seg) == IF x.ok THEN LoadSegment(allocuvm(x, seg.end), seg) ELSE x

\* The stack page and the page below it, which loses PTE_U.
Guard(x, top) ==
  CASE ~x.ok -> x
    [] x.ok /\ Table(x.v, top - 2) = 0 -> [x EXCEPT !.m = Panic(@, "clearpteu")]
    [] OTHER -> [x EXCEPT !.v.pte[top - 2].u = FALSE]

\* copyout() of arguments that fill n pages below top.
Arguments(x, top, n) ==
  IF x.ok /\ (\A a \in top - n .. top - 1 : a \in Va /\ x.v.pte[a].u) THEN x ELSE Failed(x)

\* exec()'s new image: on failure all of it is freed.
PageAligned(x) == [x EXCEPT !.sz = PGROUNDUP(@) * PGSIZE]
MoreStack(x) == IF x.ok THEN allocuvm(x, x.sz + 2 * PGSIZE) ELSE x
Push(x, n) == Arguments(Guard(x, x.sz \div PGSIZE), x.sz \div PGSIZE, n)
Loaded(mem, segs) == Repeat(LAMBDA y, k : Segment(y, segs[k + 1]), setupkvm(mem), Len(segs))
Image(mem, segs, n) == Kept(Push(MoreStack(PageAligned(Loaded(mem, segs))), n))

-----------------------------------------------------------------------------
(* Processes                                                               *)

\* at: in user code, or past the test of mmap_alloc().  using: what the program
\* has mapped.
Unused == [st |-> "unused", parent |-> 0, sz |-> 0, v |-> NoVm, kstack |-> 0, page |-> 0,
           shared |-> FALSE, vaddr |-> 0, at |-> "user", using |-> "none"]

\* An unchecked kalloc().
Unchecked(mem) == IF Got(mem) = 0 THEN [mem EXCEPT !.short = TRUE] ELSE Taken(mem)

\* userinit() and inituvm(), on the memory that kinit1() and kinit2() freed; the
\* machine does not start when setupkvm() fails.
FirstProcess(x, stack) ==
  LET y == MapAnyway([x EXCEPT !.m = Unchecked(@)], 0, Got(x.m))
  IN  /\ x.ok /\ m = y.m
      /\ pr = [p \in Proc |-> IF p = initproc THEN [Unused EXCEPT !.st = "run", !.sz = PGSIZE, !.v = y.v, !.kstack = stack]
                              ELSE Unused]
Memory0 == [free |-> Page, twice |-> FALSE, panic |-> "", short |-> FALSE]
Init == FirstProcess(setupkvm(Taken(Memory0)), Got(Memory0)) /\ shm = [refcount |-> 0, pages |-> <<>>]

\* The heap is below the pages where programs map.
Below(sz) == PGROUNDUP(sz) <= VA1 /\ PGROUNDUP(sz) <= VA2

Self(p) == On(m, pr[p].v, pr[p].sz)
Runs(p) == m.panic = "" /\ pr[p].st = "run" /\ pr[p].at = "user"

\* sbrk(n), growproc(n).  A size of 0 reads as a failure: the memory is gone, and
\* sz is what it was.  switchuvm() is not reached, so the process may run on, with
\* what its TLB still holds, and make any call, or fault.
Emptied(x) == x.ok /\ x.sz = 0
Resized(p, x) ==
  /\ m' = IF Emptied(x) THEN Short(x).m ELSE x.m
  /\ pr' = [pr EXCEPT ![p].v = x.v, ![p].sz = IF x.ok /\ x.sz > 0 THEN x.sz ELSE @]
Sbrk(p, n) ==
  /\ Runs(p) /\ (p = initproc => pr[p].sz + n # 0)
  /\ pr[p].using # "none" => Below(Uint(pr[p].sz + n)) \/ Uint(pr[p].sz + n) >= KERNBASE
  /\ \/ n > 0 /\ Resized(p, allocuvm(Self(p), Uint(pr[p].sz + n)))
     \/ n < 0 /\ Resized(p, deallocuvm(Self(p), Uint(pr[p].sz + n)))
  /\ UNCHANGED shm

\* exec(): the old image goes after the new one is complete.
ExecDone(p, x) ==
  IF x.ok THEN m' = freevm(x.m, pr[p].v) /\ pr' = [pr EXCEPT ![p].v = x.v, ![p].sz = x.sz]
  ELSE m' = x.m /\ UNCHANGED pr
Exec(p, segs, n) ==
  /\ Runs(p) /\ pr[p].using = "none"
  /\ ExecDone(p, Image(m, segs, n))
  /\ UNCHANGED shm

\* fork(): a stack, then the address space; without it the stack is freed.
Forked(p, c, stack, x) ==
  IF x.ok THEN /\ m' = x.m
               /\ pr' = [pr EXCEPT ![c] = [Unused EXCEPT !.st = "run", !.parent = p, !.sz = pr[p].sz,
                                                         !.v = x.v, !.kstack = stack]]
  ELSE m' = kfree(x.m, stack) /\ UNCHANGED pr
Fork(p) ==
  /\ Runs(p)
  /\ LET free == {c \in Proc : pr[c].st = "unused"}
     IN  /\ free # {} /\ Got(m) # 0
         /\ Forked(p, Least(free), Got(m), copyuvm(Taken(m), pr[p].v, pr[p].sz))
  /\ UNCHANGED shm

\* exit(), also of a process that faults; its memory stays until wait().
Exit(p) ==
  /\ Runs(p) /\ p # initproc
  /\ pr[p].using # "shared"
  /\ pr' = [c \in Proc |-> IF c = p THEN [pr[c] EXCEPT !.st = "zombie"]
                           ELSE IF pr[c].parent = p THEN [pr[c] EXCEPT !.parent = initproc] ELSE pr[c]]
  /\ UNCHANGED <<m, shm>>

\* fetchint(), fetchstr() and the users of argptr() read memory below sz.  A page
\* that is missing faults in the kernel, and trap() panics.
Fetch(p) ==
  /\ Runs(p)
  /\ \E a \in 0 .. PGROUNDUP(pr[p].sz) - 1 : pr[p].v.pte[a].pg = None
  /\ m' = Panic(m, "trap")
  /\ UNCHANGED <<pr, shm>>

\* Mutant: wait() leaves the second mapping of palloc()'s page to freevm().
UnpallocOne(x, q) == IF q.page = 0 THEN x ELSE LET y == clearptep(x, VA1) IN [y EXCEPT !.m = kfree(@, q.page)]

\* wait(): the page of palloc() is taken out of both places and freed.
Unpalloc(x, q) ==
  IF q.page = 0 THEN x ELSE LET y == clearptep(clearptep(x, VA1), VA2) IN [y EXCEPT !.m = kfree(@, q.page)]
Release(x) == freevm(x.m, x.v)
Wait(p) ==
  /\ Runs(p)
  /\ \E c \in Proc :
       /\ pr[c].parent = p /\ pr[c].st = "zombie"
       /\ m' = Release(Unpalloc(On(kfree(m, pr[c].kstack), pr[c].v, pr[c].sz), pr[c]))
       /\ pr' = [pr EXCEPT ![c] = Unused]
  /\ UNCHANGED shm

-----------------------------------------------------------------------------
(* palloc and shared memory.  Programs call them as mtest and mmaptest do: *)
(* once, not both, no exec() with pages mapped, a heap below these pages,  *)
(* attach while another process is attached, detach before exit.           *)

Palloc(p) ==
  /\ Runs(p) /\ pr[p].using = "none" /\ ~pr[p].shared /\ p # initproc /\ Below(pr[p].sz)
  /\ LET x == MapAnyway(MapAnyway(On(Unchecked(m), pr[p].v, pr[p].sz), VA1, Got(m)), VA2, Got(m))
     IN  m' = x.m /\ pr' = [pr EXCEPT ![p].v = x.v, ![p].page = Got(m), ![p].using = "palloc"]
  /\ UNCHANGED shm

\* mmap_alloc()'s test of shared_refcount, before the lock.
MmapTest(p) ==
  /\ Runs(p) /\ pr[p].using = "none" /\ p \in Allocators /\ shm.refcount = 0 /\ Below(pr[p].sz)
  /\ pr' = [pr EXCEPT ![p].at = "mmap_alloc"]
  /\ UNCHANGED <<m, shm>>

\* The rest of it, with shared_lock held.
SharePage(y, k) ==
  [x |-> MapAnyway([y.x EXCEPT !.m = Unchecked(@)], VA1 + k, Got(y.x.m)), pages |-> Append(y.pages, Got(y.x.m))]
Shared(p, x, va) ==
  /\ m' = x.m
  /\ pr' = [pr EXCEPT ![p].v = x.v, ![p].at = "user", ![p].shared = TRUE, ![p].vaddr = va, ![p].using = "shared"]
MmapAlloc(p) ==
  /\ m.panic = "" /\ pr[p].st = "run" /\ pr[p].at = "mmap_alloc"
  /\ LET y == Repeat(SharePage, [x |-> Self(p), pages |-> <<>>], NSHARED)
     IN  Shared(p, y.x, VA1) /\ shm' = [refcount |-> 1, pages |-> y.pages]

\* Mutant: attaching is not counted.
AttachedOneLess(n) == n
AttachedOne(n) == n + 1
MmapAttach(p) ==
  /\ Runs(p) /\ pr[p].using = "none" /\ p # initproc /\ pr[p].page = 0 /\ shm.refcount > 0 /\ Below(pr[p].sz)
  /\ Shared(p, Repeat(LAMBDA x, k : MapAnyway(x, VA2 + k, shm.pages[k + 1]), Self(p), NSHARED), VA2)
  /\ shm' = [shm EXCEPT !.refcount = AttachedOne(@)]

\* mmap_detach(): proc->shared stays set.
Detached(x, last) == IF last THEN kfreeAll(x.m, {shm.pages[k] : k \in DOMAIN shm.pages}) ELSE x.m
MmapDetach(p) ==
  /\ Runs(p) /\ pr[p].using = "shared" /\ pr[p].shared
  /\ LET x == Repeat(LAMBDA y, k : clearptep(y, pr[p].vaddr + k), Self(p), Len(shm.pages))
     IN  /\ m' = Detached(x, shm.refcount = 1)
         /\ pr' = [pr EXCEPT ![p].v = x.v, ![p].using = "none"]
  /\ shm' = [shm EXCEPT !.refcount = @ - 1]

-----------------------------------------------------------------------------
\* panic() stops the machine.
Halted == m.panic # "" /\ UNCHANGED vars

Next ==
  \/ \E p \in Proc :
       \/ \E n \in Grows \cup {-pr[p].sz} : Sbrk(p, n)
       \/ \E segs \in Images, n \in 1 .. MAXARGS : Exec(p, segs, n)
       \/ Fork(p) \/ Exit(p) \/ Wait(p) \/ Fetch(p)
       \/ Palloc(p) \/ MmapTest(p) \/ MmapAlloc(p) \/ MmapAttach(p) \/ MmapDetach(p)
  \/ Halted
Spec == Init /\ [][Next]_vars

-----------------------------------------------------------------------------
(* Properties                                                              *)

\* Where p has mapped pages that are not its own alone.
Foreign(p) ==
  CASE pr[p].using = "palloc" -> {VA1, VA2}
    [] pr[p].using = "shared" -> {pr[p].vaddr + k : k \in 0 .. NSHARED - 1}
    [] OTHER -> {}

\* Whether page g is page i of that kind of p, or of the shared memory (p = 0).
UsedAs(p, kind, i, g) ==
  \/ p = 0 /\ kind = "shared" /\ shm.refcount > 0 /\ i \in DOMAIN shm.pages /\ shm.pages[i] = g
  \/ /\ p \in Proc
     /\ \/ kind = "kstack" /\ i = 0 /\ pr[p].kstack = g
        \/ kind = "page" /\ i = 0 /\ pr[p].page = g
        \/ kind = "dir" /\ i = 0 /\ pr[p].v.dir = g
        \/ kind = "ktab" /\ i = 0 /\ g \in pr[p].v.ktab
        \/ kind = "tab" /\ i \in Tab /\ pr[p].v.tab[i] = g
        \/ kind = "pte" /\ i \in Va \ Foreign(p) /\ pr[p].v.pte[i].pg = g
Uses(g) ==
  {u \in (0 .. NPROC) \X {"shared", "kstack", "page", "dir", "ktab", "tab", "pte"} \X (0 .. KERNPAGES) :
     UsedAs(u[1], u[2], u[3], g)}

\* A page is free or has one use, and never both or two, whatever fails; and as
\* long as nothing failed that leaves a page missing, no page is lost and the
\* kernel does not panic, neither in its own checks nor when it reads memory of a
\* process (kalloc.c, vm.c, exec.c, wait(), syscall.c).
PagesAccounted ==
  /\ ~m.short => m.panic = ""
  /\ m.panic = "" =>
       /\ ~m.twice
       /\ \A g \in Page :
            LET n == Cardinality(Uses(g)) + (IF g \in m.free THEN 1 ELSE 0) IN n <= 1 /\ (~m.short => n = 1)

\* shared_refcount is the number of processes with access, and these see the
\* same pages (sysfile.c).
SharedCounted ==
  m.panic = "" =>
    LET users == {p \in Proc : pr[p].st # "unused" /\ pr[p].using = "shared"}
    IN  /\ shm.refcount = Cardinality(users)
        /\ ~m.short => \A p \in users, k \in DOMAIN shm.pages : pr[p].v.pte[pr[p].vaddr + k - 1].pg = shm.pages[k]

\* Memory below proc->sz is there: argint() and its kin read user memory after
\* a comparison with sz, and copyuvm() panics at a missing page.
SizeMapped ==
  ~m.short => \A p \in Proc : pr[p].st = "run" =>
                \A a \in 0 .. PGROUNDUP(pr[p].sz) - 1 : pr[p].v.pte[a].pg \in Page

\* copyuvm() asserts that its parent's memory is all there (vm.c:334-337).  It is
\* not after sbrk() to a size of 0: growproc() takes that size for the failure of
\* deallocuvm(), and a process whose memory is gone keeps its sz and may fork().
CopyFindsPages == m.panic # "copyuvm"
=============================================================================
