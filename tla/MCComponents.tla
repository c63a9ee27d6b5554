---------------------------- MODULE MCComponents ----------------------------
(***************************************************************************)
(* The parts of the system that share no state with one another: a         *)
(* behaviour picks one of them and runs it.  Disk and Rings are extended,  *)
(* so that their properties are the ones that DiskProofs and RingProofs    *)
(* state; the others are instances.                                        *)
(***************************************************************************)
EXTENDS Integers, Disk, Rings

VARIABLES part,                                                  \* the part that runs
          l, key, ret, ref, wanted, calls,                       \* List
          mem, freep, brk, used, gaps,                           \* Umalloc
          job, result                                            \* Library

consoles == <<input, shift, down, reader, bytes, line, lines>>
upipes == <<upipe, mutex, cv, up, usent, got>>
lists == <<l, key, ret, ref, wanted, calls>>
heaps == <<mem, freep, brk, used, gaps>>
libraries == <<job, result>>
allVars == <<part, vars, consoles, upipes, lists, heaps, libraries>>

-----------------------------------------------------------------------------

L == INSTANCE List WITH N <- 4, Keys <- 1 .. 2, MaxCalls <- 3, want <- wanted
\* A heap of seven units, grown by three or more.
H == INSTANCE Umalloc WITH Start <- 2, Limit <- 9, MinCore <- 3, Requests <- {2, 3}

Upto(S, m) == UNION {[1 .. k -> S] : k \in 0 .. m}
Strings(S, m) == {q \o <<0>> : q \in Upto(S, m)}
Jobs ==
       [f : {"parsecmd"}, line : Upto({"a", ">", "|", "&", ";", "(", ")"}, 5)]
  \cup [f : {"match"}, re : Upto({"a", ".", "*", "^", "$"}, 3), text : Upto({"a", "b"}, 3)]
  \cup [f : {"grep"}, re : {<<"a">>, <<"^", "b">>}, file : Upto({"a", "b", "\n"}, 6)]
  \cup [f : {"wc"}, file : Upto({"x", " ", "\n"}, 6)]
  \cup [f : {"insert"}, words : Upto(1 .. 4, 4)]
  \cup [f : {"memmove"}, m : {<<1, 2, 3, 4, 5, 6>>}, d : 1 .. 3, s : 1 .. 3, n : 0 .. 3]
  \cup [f : {"strcpy"}, t : Strings({0, 1}, 3), n : 0 .. 5]
  \cup [f : {"memcmp"}, p : [1 .. 2 -> -1 .. 1], q : [1 .. 2 -> -1 .. 1], n : 0 .. 2]
  \cup [f : {"strcmp"}, p : Strings({-1, 1}, 2), q : Strings({-1, 1}, 2), n : 0 .. 3]
  \cup [f : {"scan"}, t : Strings({48, 57, 65}, 3), c : {48, 65}]
  \cup [f : {"gets"}, typed : Upto({1, 10, 13}, 4), max : 0 .. 4]
  \cup [f : {"printint"}, x : -8 .. 7, base : {2, 3, 10}]
  \cup [f : {"arg"}, addr : 0 .. 15, size : -8 .. 7, sz : 0 .. 7, zeros : {{}, {3}}]
B == INSTANCE Library WITH MAXARGS <- 3, BufSize <- 4, Bits <- 4

\* A part that does not run; Disk and the rings stay in their initial states.
NoList == l = <<>> /\ key = <<>> /\ ret = <<>> /\ ref = <<>> /\ wanted = <<>> /\ calls = <<>>
NoHeap == mem = <<>> /\ freep = <<>> /\ brk = <<>> /\ used = <<>> /\ gaps = <<>>
NoLibrary == job = <<>> /\ result = <<>>

AllInit ==
  /\ Init /\ C!Init /\ U!Init
  /\ \/ part \in {"disk", "console", "upipe"} /\ NoList /\ NoHeap /\ NoLibrary
     \/ part = "list" /\ L!Init /\ NoHeap /\ NoLibrary
     \/ part = "heap" /\ H!Init /\ NoList /\ NoLibrary
     \/ part = "library" /\ B!Init /\ NoList /\ NoHeap
AllNext ==
  /\ UNCHANGED part
  /\ \/ part = "disk" /\ Next /\ UNCHANGED <<consoles, upipes, lists, heaps, libraries>>
     \/ part = "console" /\ C!Next /\ UNCHANGED <<vars, upipes, lists, heaps, libraries>>
     \/ part = "upipe" /\ U!Next /\ UNCHANGED <<vars, consoles, lists, heaps, libraries>>
     \/ part = "list" /\ L!Next /\ UNCHANGED <<vars, consoles, upipes, heaps, libraries>>
     \/ part = "heap" /\ H!Next /\ UNCHANGED <<vars, consoles, upipes, lists, libraries>>
     \/ part = "library" /\ B!Next /\ UNCHANGED <<vars, consoles, upipes, lists, heaps>>

\* Disk's fairness asks for nothing in the initial state of Disk, in which the
\* other parts leave it.
AllSpec == AllInit /\ [][AllNext]_allVars /\ Fairness

-----------------------------------------------------------------------------

\* After any calls of list.c the links of its lists are those of the sequences
\* that the calls would make, forwards and backwards.
ListsAreSequences == part = "list" => L!ListsAreSequences

\* After any calls of malloc() and free(), the blocks in use and the free ones
\* tile the heap, and the free list goes round in order of address (umalloc.c).
HeapTiled == part = "heap" => H!HeapTiled

\* The shell's parser, grep's matcher and line buffer, wc, usfsort's insertion,
\* the string functions of string.c and ulib.c, printint() and the checks of
\* system call arguments compute what their references in Library say.
AlgorithmsRight == part = "library" => B!AlgorithmsRight
=============================================================================
