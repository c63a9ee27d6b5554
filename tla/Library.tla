------------------------------- MODULE Library -------------------------------
(***************************************************************************)
(* Algorithms of the user programs and of the kernel's small helpers, each *)
(* beside a definition of what it has to compute: the shell's parser       *)
(* (sh.c, in Shell), the regular expressions and the buffered line loop of *)
(* grep.c, wc.c, the sorted list of usfsort.c, the string functions of     *)
(* string.c and ulib.c, printint() of printf.c, and the argument checks of *)
(* syscall.c.  A job is an algorithm and its input; one step runs it.      *)
(***************************************************************************)
EXTENDS Shell, Integers, FiniteSets

CONSTANTS Jobs,         \* the jobs to run
          BufSize,      \* size of the buffers of grep and wc
          Bits          \* width of an int

VARIABLES job, result

vars == <<job, result>>

NotRun == <<>>
MaxOf(S) == CHOOSE x \in S : \A y \in S : x >= y
MinOf(S) == CHOOSE x \in S : \A y \in S : x <= y
From(q, k) == SubSeq(q, k, Len(q))

-----------------------------------------------------------------------------
(* grep.c                                                                  *)

RECURSIVE matchhere(_, _)
\* matchstar(c, re, text): one more character at a time.
RECURSIVE matchstar(_, _, _)
matchstar(c, re, text) ==
  \/ matchhere(re, text)
  \/ text # <<>> /\ c \in {Head(text), "."} /\ matchstar(c, re, Tail(text))
matchhere(re, text) ==
  IF re = <<>> THEN TRUE
  ELSE IF Len(re) > 1 /\ re[2] = "*" THEN matchstar(re[1], From(re, 3), text)
  ELSE IF re = <<"$">> THEN text = <<>>
  ELSE text # <<>> /\ re[1] \in {".", Head(text)} /\ matchhere(Tail(re), Tail(text))
match(re, text) ==
  IF re # <<>> /\ Head(re) = "^" THEN matchhere(Tail(re), text)
  ELSE \E k \in 1 .. Len(text) + 1 : matchhere(re, From(text, k))

\* The pieces of a pattern, a character and whether it is starred, and whether the
\* pattern is tied to the start and to the end of the text.
RECURSIVE Pieces(_)
Pieces(re) ==
  IF re \in {<<>>, <<"$">>} THEN <<>>
  ELSE IF Len(re) > 1 /\ re[2] = "*" THEN <<[c |-> re[1], star |-> TRUE]>> \o Pieces(From(re, 3))
  ELSE <<[c |-> re[1], star |-> FALSE]>> \o Pieces(Tail(re))
RECURSIVE TiedAtEnd(_)
TiedAtEnd(re) ==
  IF re = <<>> THEN FALSE ELSE IF re = <<"$">> THEN TRUE
  ELSE IF Len(re) > 1 /\ re[2] = "*" THEN TiedAtEnd(From(re, 3)) ELSE TiedAtEnd(Tail(re))
\* The text is a concatenation of what the pieces stand for.
RECURSIVE Spells(_, _)
Spells(ps, text) ==
  IF ps = <<>> THEN text = <<>>
  ELSE \E k \in 0 .. Len(text) : /\ Head(ps).star \/ k = 1
                                 /\ \A j \in 1 .. k : Head(ps).c \in {".", text[j]}
                                 /\ Spells(Tail(ps), From(text, k + 1))
Matches(re, text) ==
  LET tied == re # <<>> /\ Head(re) = "^"
      body == IF tied THEN Tail(re) ELSE re
  IN  \E i \in 1 .. Len(text) + 1 : \E j \in i - 1 .. Len(text) :
        /\ tied => i = 1
        /\ TiedAtEnd(body) => j = Len(text)
        /\ Spells(Pieces(body), SubSeq(text, i, j))

Newlines(q) == {k \in DOMAIN q : q[k] = "\n"}
\* The complete lines of q that pass, newlines included.
RECURSIVE LinesOf(_)
LinesOf(q) ==
  IF Newlines(q) = {} THEN <<>>
  ELSE <<SubSeq(q, 1, MinOf(Newlines(q)))>> \o LinesOf(From(q, MinOf(Newlines(q)) + 1))
RECURSIVE Concat(_)
Concat(qq) == IF qq = <<>> THEN <<>> ELSE Head(qq) \o Concat(Tail(qq))
Passing(re, lines, Test(_, _)) == Concat(SelectSeq(lines, LAMBDA l : Test(re, SubSeq(l, 1, Len(l) - 1))))

\* Whole buffers of a line that has no end in them are dropped: what grep() tests
\* and prints of a line is what is left after those.
LeftOf(l) == From(l, ((Len(l) - 1) \div (BufSize - 1)) * (BufSize - 1) + 1)
TestedLines(q) == LET lines == LinesOf(q) IN [k \in DOMAIN lines |-> LeftOf(lines[k])]

\* The loop of grep(): buf holds a piece of a line, file is what is still to read.
\* A buffer without a newline is dropped.
RECURSIVE Grep(_, _, _, _)
Grep(re, buf, file, out) ==
  IF file = <<>> \/ BufSize - Len(buf) - 1 = 0 THEN out
  ELSE LET n == MinOf({BufSize - Len(buf) - 1, Len(file)})
           b == buf \o SubSeq(file, 1, n)
       IN  IF Newlines(b) = {} THEN Grep(re, <<>>, From(file, n + 1), out)
           ELSE Grep(re, From(b, MaxOf(Newlines(b)) + 1), From(file, n + 1), out \o Passing(re, LinesOf(b), match))

-----------------------------------------------------------------------------
(* wc.c                                                                    *)

Blank == {" ", "\n"}
CountChar(s, c) ==
  [l |-> s.l + (IF c = "\n" THEN 1 ELSE 0), c |-> s.c + 1, inword |-> c \notin Blank,
   w |-> s.w + (IF c \notin Blank /\ ~s.inword THEN 1 ELSE 0)]
RECURSIVE CountBuf(_, _)
CountBuf(s, q) == IF q = <<>> THEN s ELSE CountBuf(CountChar(s, Head(q)), Tail(q))
RECURSIVE Wc(_, _)
Wc(s, file) ==
  IF file = <<>> THEN s
  ELSE LET n == MinOf({BufSize, Len(file)}) IN Wc(CountBuf(s, SubSeq(file, 1, n)), From(file, n + 1))
wc(file) == LET s == Wc([l |-> 0, w |-> 0, c |-> 0, inword |-> FALSE], file) IN <<s.l, s.w, s.c>>
WcMeaning(q) ==
  <<Cardinality(Newlines(q)),
    Cardinality({k \in DOMAIN q : q[k] \notin Blank /\ (k = 1 \/ q[k - 1] \in Blank)}), Len(q)>>

-----------------------------------------------------------------------------
(* usfsort.c: insert() into a doubly linked list without duplicates        *)

\* Node k is the k-th one made; 0 is NULL.
create_list == [head |-> 0, tail |-> 0, word |-> <<>>, next |-> <<>>, prev |-> <<>>]
create_node(l, w) ==
  [l EXCEPT !.word = Append(@, w), !.next = Append(@, 0), !.prev = Append(@, 0)]
RECURSIVE FindPlace(_, _, _)
FindPlace(l, w, curr) == IF curr # 0 /\ w > l.word[curr] THEN FindPlace(l, w, l.next[curr]) ELSE curr
Link(l, t, curr) ==
  CASE l.head = 0 -> [l EXCEPT !.head = t, !.tail = t]
    [] l.head # 0 /\ curr = 0 -> [l EXCEPT !.prev[t] = l.tail, !.next[l.tail] = t, !.tail = t]
    [] curr # 0 /\ curr = l.head -> [l EXCEPT !.next[t] = l.head, !.prev[l.head] = t, !.head = t]
    [] OTHER -> [l EXCEPT !.next = [@ EXCEPT ![t] = curr, ![l.prev[curr]] = t],
                          !.prev = [@ EXCEPT ![t] = l.prev[curr], ![curr] = t]]
InsertAt(l, w, curr) ==
  IF curr # 0 /\ l.word[curr] = w THEN l ELSE Link(create_node(l, w), Len(l.word) + 1, curr)
insert(l, w) == InsertAt(l, w, FindPlace(l, w, l.head))
RECURSIVE InsertAll(_, _)
InsertAll(l, q) == IF q = <<>> THEN l ELSE InsertAll(insert(l, Head(q)), Tail(q))
RECURSIVE Walk(_, _, _)
Walk(l, link, k) == IF k = 0 THEN <<>> ELSE <<l.word[k]>> \o Walk(l, link, link[k])
\* The words from head to tail, and from tail to head.
Sorted(q) == LET l == InsertAll(create_list, q) IN <<Walk(l, l.next, l.head), Walk(l, l.prev, l.tail)>>
RECURSIVE Ascending(_)
Ascending(S) == IF S = {} THEN <<>> ELSE <<MinOf(S)>> \o Ascending(S \ {MinOf(S)})
RECURSIVE Descending(_)
Descending(S) == IF S = {} THEN <<>> ELSE <<MaxOf(S)>> \o Descending(S \ {MaxOf(S)})

-----------------------------------------------------------------------------
(* string.c, on an array of cells                                          *)

RECURSIVE CopyUp(_, _, _, _)
CopyUp(m, d, s, n) == IF n = 0 THEN m ELSE CopyUp([m EXCEPT ![d] = m[s]], d + 1, s + 1, n - 1)
RECURSIVE CopyDown(_, _, _, _)
CopyDown(m, d, s, n) == IF n = 0 THEN m ELSE CopyDown([m EXCEPT ![d + n - 1] = m[s + n - 1]], d, s, n - 1)
memmove(m, d, s, n) == IF s < d /\ s + n > d THEN CopyDown(m, d, s, n) ELSE CopyUp(m, d, s, n)
Moved(m, d, s, n) == [k \in DOMAIN m |-> IF k \in d .. d + n - 1 THEN m[s + k - d] ELSE m[k]]

\* The copies of string t, a sequence that ends with 0, into n cells.
RECURSIVE strncpy(_, _)
strncpy(t, n) == IF n = 0 THEN <<>> ELSE <<Head(t)>> \o strncpy(IF Head(t) = 0 THEN t ELSE Tail(t), n - 1)
RECURSIVE safestrcpy(_, _)
safestrcpy(t, n) ==
  IF n <= 0 THEN <<>> ELSE IF n = 1 \/ Head(t) = 0 THEN <<0>> ELSE <<Head(t)>> \o safestrcpy(Tail(t), n - 1)

\* ulib.c's memmove() only copies upwards.
ulib_memmove(m, d, s, n) == CopyUp(m, d, s, n)

\* A char has a sign, and is compared as a uchar.
Uint(x) == x % 2^Bits
RECURSIVE memcmp(_, _, _)
memcmp(p, q, n) ==
  IF n = 0 THEN 0 ELSE IF p[1] # q[1] THEN Uint(p[1]) - Uint(q[1]) ELSE memcmp(Tail(p), Tail(q), n - 1)
RECURSIVE strncmp(_, _, _)
strncmp(p, q, n) ==
  IF n > 0 /\ p[1] # 0 /\ p[1] = q[1] THEN strncmp(Tail(p), Tail(q), n - 1)
  ELSE IF n = 0 THEN 0 ELSE Uint(p[1]) - Uint(q[1])
RECURSIVE strcmp(_, _)
strcmp(p, q) == IF p[1] # 0 /\ p[1] = q[1] THEN strcmp(Tail(p), Tail(q)) ELSE Uint(p[1]) - Uint(q[1])
\* By how much p and q differ within their first n chars.
Difference(p, q, n) ==
  LET D == {k \in DOMAIN p \cap DOMAIN q \cap 1 .. n : p[k] # q[k]}
  IN  IF D = {} THEN 0 ELSE Uint(p[MinOf(D)]) - Uint(q[MinOf(D)])

RECURSIVE strlen(_)
strlen(t) == IF t[1] = 0 THEN 0 ELSE 1 + strlen(Tail(t))
\* The place of c in t, or 0.
RECURSIVE strchr(_, _, _)
strchr(t, c, k) == IF t[k] = 0 THEN 0 ELSE IF t[k] = c THEN k ELSE strchr(t, c, k + 1)
\* The digits are the codes 48 .. 57.
RECURSIVE atoi(_, _)
atoi(t, n) == IF 48 <= t[1] /\ t[1] <= 57 THEN atoi(Tail(t), 10 * n + t[1] - 48) ELSE n
\* gets() with max cells, of what read() gives one char at a time; 10 and 13 end
\* a line.
RECURSIVE gets(_, _)
gets(typed, max) ==
  IF max <= 1 \/ typed = <<>> THEN <<0>>
  ELSE IF typed[1] \in {10, 13} THEN <<typed[1], 0>> ELSE <<typed[1]>> \o gets(Tail(typed), max - 1)

-----------------------------------------------------------------------------
(* Numbers                                                                 *)

RECURSIVE Digits(_, _)
Digits(x, base) == IF x < base THEN <<x>> ELSE Digits(x \div base, base) \o <<x % base>>
\* The sign and the digits that printint() prints of an int.
printint(xx, base, sgn) ==
  IF sgn /\ xx < 0 THEN <<"-", Digits(Uint(-xx), base)>> ELSE <<"+", Digits(Uint(xx), base)>>
RECURSIVE Value(_, _)
Value(q, base) == IF q = <<>> THEN 0 ELSE Value(SubSeq(q, 1, Len(q) - 1), base) * base + q[Len(q)]

\* fetchint(), fetchstr() and argptr() of a process of sz bytes: is the address let
\* through?  zeros are the addresses of the NUL bytes.
fetchint(addr, sz) == ~(addr >= sz \/ Uint(addr + 4) > sz)
fetchstr(addr, sz, zeros) == addr < sz /\ \E s \in addr .. sz - 1 : s \in zeros
argptr(i, size, sz) == ~(Uint(i) >= sz \/ Uint(Uint(i) + Uint(size)) > sz)
Inside(a, n, sz) == \A k \in 0 .. n - 1 : a + k >= 0 /\ a + k < sz

-----------------------------------------------------------------------------
(* The grammar of command lines, by cutting a line at its symbols          *)

Depth(q, k) == Cardinality({j \in 1 .. k : q[j] = "("}) - Cardinality({j \in 1 .. k : q[j] = ")"})
TopLevel(q, tok) == {k \in DOMAIN q : q[k] = tok /\ Depth(q, k) = 0}
Closing(q) == {k \in 2 .. Len(q) : Depth(q, k) = 0 /\ \A j \in 1 .. k - 1 : Depth(q, j) > 0}
IsFile(q, k) == k > 1 /\ q[k - 1] \in Redirs
RedirAt(q) == {k \in DOMAIN q : q[k] \in Redirs}
WellRedirected(q) == \A k \in RedirAt(q) : k < Len(q) /\ IsWord(q[k + 1])
RECURSIVE Wrap(_, _, _)
Wrap(cmd, q, ks) ==
  IF ks = {} THEN cmd ELSE Wrap(Redirected(cmd, q[MinOf(ks)], q[MinOf(ks) + 1]), q, ks \ {MinOf(ks)})
Two(l, r, Join(_, _)) == IF l.ok /\ r.ok THEN Parsed(Join(l.cmd, r.cmd), <<>>) ELSE Syntax

RECURSIVE LineMeans(_)
BlockMeans(q, k) ==
  LET in == LineMeans(SubSeq(q, 2, k - 1))
      r == From(q, k + 1)
  IN  IF in.ok /\ WellRedirected(r) /\ \A j \in DOMAIN r : r[j] \in Redirs \/ (IsWord(r[j]) /\ IsFile(r, j))
      THEN Parsed(Wrap(in.cmd, r, RedirAt(r)), <<>>) ELSE Syntax
ExecMeans(q) ==
  LET words == SelectSeq([k \in DOMAIN q |-> [w |-> q[k], arg |-> IsWord(q[k]) /\ ~IsFile(q, k)]], LAMBDA x : x.arg)
  IN  IF /\ WellRedirected(q) /\ \A k \in DOMAIN q : IsWord(q[k]) \/ q[k] \in Redirs
         /\ Len(words) < MAXARGS
      THEN Parsed(Wrap(ExecCmd([k \in DOMAIN words |-> words[k].w]), q, RedirAt(q)), <<>>) ELSE Syntax
RECURSIVE PipeMeans(_)
PipeMeans(q) ==
  LET cut == TopLevel(q, "|")
      One(r) == IF peek(r, {"("}) THEN IF Closing(r) = {} THEN Syntax ELSE BlockMeans(r, MinOf(Closing(r)))
                ELSE ExecMeans(r)
  IN  IF cut = {} THEN One(q)
      ELSE Two(One(SubSeq(q, 1, MinOf(cut) - 1)), PipeMeans(From(q, MinOf(cut) + 1)), PipeCmd)
RECURSIVE BackMeans(_)
BackMeans(q) ==
  IF q # <<>> /\ q[Len(q)] = "&"
  THEN LET p == BackMeans(SubSeq(q, 1, Len(q) - 1)) IN IF p.ok THEN Parsed(BackCmd(p.cmd), <<>>) ELSE Syntax
  ELSE PipeMeans(q)
LineMeans(q) ==
  LET cut == TopLevel(q, ";")
  IN  IF cut = {} THEN BackMeans(q)
      ELSE Two(BackMeans(SubSeq(q, 1, MinOf(cut) - 1)), LineMeans(From(q, MinOf(cut) + 1)), ListCmd)

-----------------------------------------------------------------------------

Run(j) ==
  CASE j.f = "parsecmd" -> parsecmd(j.line)
    [] j.f = "match" -> match(j.re, j.text)
    [] j.f = "grep" -> Grep(j.re, <<>>, j.file, <<>>)
    [] j.f = "wc" -> wc(j.file)
    [] j.f = "insert" -> Sorted(j.words)
    [] j.f = "memmove" -> <<memmove(j.m, j.d, j.s, j.n), ulib_memmove(j.m, j.d, j.s, j.n)>>
    [] j.f = "memcmp" -> memcmp(j.p, j.q, j.n)
    [] j.f = "strcmp" -> <<strcmp(j.p, j.q), strncmp(j.p, j.q, j.n)>>
    [] j.f = "scan" -> <<strlen(j.t), strchr(j.t, j.c, 1), atoi(j.t, 0)>>
    [] j.f = "gets" -> gets(j.typed, j.max)
    [] j.f = "strcpy" -> <<strncpy(j.t, j.n), safestrcpy(j.t, j.n)>>
    [] j.f = "printint" -> printint(j.x, j.base, TRUE)
    [] j.f = "arg" -> <<fetchint(j.addr, j.sz), fetchstr(j.addr, j.sz, j.zeros), argptr(j.addr, j.size, j.sz)>>

Init == job \in Jobs /\ result = NotRun
RunJob == result = NotRun /\ result' = <<Run(job)>> /\ UNCHANGED job
Next == RunJob
Spec == Init /\ [][Next]_vars

Right(j, r) ==
  CASE j.f = "parsecmd" -> r = LineMeans(j.line)
    [] j.f = "match" -> r = Matches(j.re, j.text)
    [] j.f = "grep" -> r = Passing(j.re, TestedLines(j.file), Matches)
    [] j.f = "wc" -> r = WcMeaning(j.file)
    [] j.f = "insert" -> LET S == {j.words[k] : k \in DOMAIN j.words} IN r = <<Ascending(S), Descending(S)>>
    [] j.f = "memmove" -> /\ r[1] = Moved(j.m, j.d, j.s, j.n)
                          /\ j.d <= j.s \/ j.s + j.n <= j.d => r[2] = Moved(j.m, j.d, j.s, j.n)
    [] j.f = "memcmp" -> r = Difference(j.p, j.q, j.n)
    [] j.f = "strcmp" -> r = <<Difference(j.p, j.q, Len(j.p)), Difference(j.p, j.q, j.n)>>
    [] j.f = "scan" ->
         LET z == Len(j.t)
             place == {k \in 1 .. z - 1 : j.t[k] = j.c}
             other == MinOf({k \in 1 .. z : j.t[k] \notin 48 .. 57})
         IN  r = <<z - 1, IF place = {} THEN 0 ELSE MinOf(place),
                   Value([k \in 1 .. other - 1 |-> j.t[k] - 48], 10)>>
    [] j.f = "gets" ->
         LET stop == MinOf({k \in DOMAIN j.typed : j.typed[k] \in {10, 13}} \cup {Len(j.typed), j.max - 1})
         IN  r = Append(SubSeq(j.typed, 1, stop), 0)
    [] j.f = "strcpy" ->
         LET z == MinOf({k \in DOMAIN j.t : j.t[k] = 0})
         IN  /\ r[1] = [k \in 1 .. j.n |-> IF k < z THEN j.t[k] ELSE 0]
             /\ j.n > 0 => r[2] = Append(SubSeq(j.t, 1, MinOf({z, j.n}) - 1), 0)
    [] j.f = "printint" -> (IF r[1] = "-" THEN -Value(r[2], j.base) ELSE Value(r[2], j.base)) = j.x
    [] j.f = "arg" -> /\ r[1] <=> Inside(j.addr, 4, j.sz)
                      /\ r[2] <=> \E z \in j.zeros : j.addr <= z /\ Inside(j.addr, z - j.addr + 1, j.sz)
                      /\ r[3] <=> Inside(j.addr, 1, j.sz) /\ j.addr + j.size \in 0 .. j.sz

\* Every algorithm computes what its reference says: parsecmd() builds the command
\* that the grammar gives a line or rejects it, match() and grep() find the lines
\* that the pattern describes wherever the buffers end (of a line longer than the
\* buffer they see the last part), wc counts across buffers, insert() keeps both
\* directions of its list sorted, memmove() is right for areas that overlap
\* (ulib.c's only downwards), strings compare as unsigned chars, gets() stops at
\* the end of a line or of its buffer, and printint() is right for the most
\* negative int.  fetchint() and fetchstr() let through exactly what lies inside the
\* process.  argptr() lets through an address inside it and a size that leads to an
\* end inside it: that is also a negative size, when the unsigned sum wraps to an
\* address that is not below 0; only for a size above 0 is it the whole block.
AlgorithmsRight == result # NotRun => Right(job, result[1])
=============================================================================
