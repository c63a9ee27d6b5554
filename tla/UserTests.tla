----------------------------- MODULE UserTests -----------------------------
(***************************************************************************)
(* project4/usertests.c: the programs that exercise the file system, the   *)
(* pipes and the processes, as programs of Kernel.  A check that ends in   *)
(* exit() after a complaint is the result the call must have; messages are *)
(* left out.  Loops run N times instead of 20 to 1000, and four children   *)
(* are NCHILD, so that every interleaving can be explored.                 *)
(***************************************************************************)
EXTENDS Kernel

CONSTANTS N,        \* rounds of a loop
          NCHILD    \* children of the tests with several

\* for(i = 1; i <= n; i++) Body(i)
Repeat(n, Body(_)) == FlattenSeq([i \in 1 .. n |-> Body(i)])

\* The i-th name of a family, and the path of it.
Nth(c, i) == Name(c, i)
AtNth(c, i) == Path(FALSE, <<Nth(c, i)>>)

RDONLY == {}
CREATE == {"CREATE"}
RDWR == {"RDWR"}
CREATE_RDWR == {"CREATE", "RDWR"}

iputtest ==
  <<Mkdir(At(<<"iputdir">>), Ok), Chdir(At(<<"iputdir">>), Ok),
    Unlink(At(<<"..", "iputdir">>), Ok), Chdir(Root(<<>>), Ok)>>

exitiputtest ==
  <<Fork("pid", <<Mkdir(At(<<"iputdir">>), Ok), Chdir(At(<<"iputdir">>), Ok),
                  Unlink(At(<<"..", "iputdir">>), Ok), Exit>>, Ok),
    Wait(Whatever)>>

\* The child opens the directory for writing while the parent removes it.
openiputtest ==
  <<Mkdir(At(<<"oidir">>), Ok),
    Fork("pid", <<Open("fd", At(<<"oidir">>), RDWR, Err), Exit>>, Ok),
    Unlink(At(<<"oidir">>), Ok), Wait(Whatever)>>

opentest ==
  <<Open("fd", At(<<"echo">>), RDONLY, Ok), Close("fd"),
    Open("fd", At(<<"doesnotexist">>), RDONLY, Err)>>

\* Small writes of two kinds, read back in one piece.
writetest ==
  <<Open("fd", At(<<"small">>), CREATE_RDWR, Ok)>>
  \o Repeat(N, LAMBDA i : <<Write("fd", <<"a", "a">>, Just(2)), Write("fd", <<"b", "b">>, Just(2))>>)
  \o <<Close("fd"), Open("fd", At(<<"small">>), RDONLY, Ok), Read("fd", 4 * N, Just(4 * N)),
       Close("fd"), Unlink(At(<<"small">>), Ok)>>

\* A file of MAXFILE blocks; one more would be refused.
writetest1 ==
  LET blockOf(i) == [k \in 1 .. BSIZE |-> ToString(i)]
  IN  <<Open("fd", At(<<"big">>), CREATE_RDWR, Ok)>>
      \o Repeat(MAXFILE, LAMBDA i : <<Write("fd", blockOf(i), Just(BSIZE))>>)
      \o <<Close("fd"), Open("fd", At(<<"big">>), RDONLY, Ok), ReadLoop("fd", BSIZE, <<>>),
           Check({Bytes(Repeat(MAXFILE, blockOf))}), Close("fd"), Unlink(At(<<"big">>), Ok)>>

createtest ==
  Repeat(N, LAMBDA i : <<Open("fd", AtNth("a", i), CREATE_RDWR, Whatever), Close("fd")>>)
  \o Repeat(N, LAMBDA i : <<Unlink(AtNth("a", i), Whatever)>>)

dirtest ==
  <<Mkdir(At(<<"dir0">>), Ok), Chdir(At(<<"dir0">>), Ok), Chdir(At(<<"..">>), Ok), Unlink(At(<<"dir0">>), Ok)>>

exectest == <<Exec(At(<<"echo">>), <<Write("1", <<"ok">>, Just(1)), Exit>>, Ok)>>

\* The child writes more than the pipe holds; the parent must see it in order.
pipe1 ==
  LET seq == [k \in 1 .. 2 * PIPESIZE + 1 |-> ToString(k)]
  IN  <<Pipe("p", Ok),
        Fork("pid", <<Close("p"), Write("w", seq, Just(Len(seq))), Exit>>, Ok),
        Close("w"), ReadLoop("p", 2, <<>>), Check({Bytes(seq)}), Close("p"), Wait(Whatever)>>

\* Children that never leave user mode can be killed, whatever they hold.
preempt ==
  <<Fork("pid1", <<Forever>>, Whatever), Pipe("p", Whatever),
    Fork("pid2", <<Close("p"), Write("w", <<"x">>, Just(1)), Close("w"), Forever>>, Whatever),
    Close("w"), Read("p", 8, Just(1)), Close("p"), Kill("pid1"), Kill("pid2"), Wait(Ok), Wait(Ok)>>

\* The only child has the first free slot, which wait() must return.
exitwait == Repeat(N, LAMBDA i : <<Fork("pid", <<Exit>>, Just(3)), Wait(Just(3))>>)

\* Parent and child write through one struct file: the offset is shared.
sharedfd ==
  LET writes(c) == Repeat(N, LAMBDA i : <<Write("fd", <<c, c>>, Just(2))>>)
      counts == {q \in [1 .. 4 * N -> {"c", "p"}] : Cardinality({k \in DOMAIN q : q[k] = "c"}) = 2 * N}
  IN  <<Unlink(At(<<"sharedfd">>), Whatever), Open("fd", At(<<"sharedfd">>), CREATE_RDWR, Ok),
        Fork("pid", writes("c") \o <<Exit>>, Whatever)>>
      \o writes("p")
      \o <<Wait(Whatever), Close("fd"), Open("fd", At(<<"sharedfd">>), RDONLY, Ok), ReadLoop("fd", 2, <<>>),
           Check({Bytes(q) : q \in counts}), Close("fd"), Unlink(At(<<"sharedfd">>), Whatever)>>

\* Children allocate blocks for different files at the same time; only the
\* first two files are compared and removed, as in the code.
fourfiles ==
  LET child(i) == <<Open("fd", AtNth("f", i), CREATE_RDWR, Ok)>>
                  \o Repeat(N, LAMBDA j : <<Write("fd", <<ToString(i), ToString(i)>>, Just(2))>>) \o <<Exit>>
  IN  Repeat(NCHILD, LAMBDA i : <<Unlink(AtNth("f", i), Whatever), Fork("pid", child(i), Ok)>>)
      \o Repeat(NCHILD, LAMBDA i : <<Wait(Whatever)>>)
      \o Repeat(2, LAMBDA i : <<Open("fd", AtNth("f", i), RDONLY, Whatever), ReadLoop("fd", 4, <<>>),
                                Check({Bytes([k \in 1 .. 2 * N |-> ToString(i)])}), Close("fd"),
                                Unlink(AtNth("f", i), Whatever)>>)

\* Children create files in one directory and remove every file but the first
\* of the first half.  The names the parent removes at the end are not the
\* children's: 'p' + i and not 'p' + pi.
createdelete ==
  LET M == 3
      nm(i, c) == Path(FALSE, <<Name(ToString(c), i + 1)>>)
      child(c) == FlattenSeq([j \in 1 .. M |->
                    <<Open("fd", nm(j - 1, c), CREATE_RDWR, Ok), Close("fd")>>
                    \o IF j - 1 > 0 /\ (j - 1) % 2 = 0 THEN <<Unlink(nm((j - 1) \div 2, c), Ok)>> ELSE <<>>])
      gone(i) == i >= 1 /\ i < (M + 1) \div 2
  IN  Repeat(NCHILD, LAMBDA c : <<Fork("pid", child(c) \o <<Exit>>, Ok)>>)
      \o Repeat(NCHILD, LAMBDA c : <<Wait(Whatever)>>)
      \o Repeat(M, LAMBDA j : Repeat(NCHILD, LAMBDA c :
           <<Open("fd", nm(j - 1, c), RDONLY, IF gone(j - 1) THEN Err ELSE Ok), Close("fd")>>))
      \o Repeat(M, LAMBDA j : <<Unlink(nm(j - 1, j - 1), Whatever)>>)

\* An open file outlives its name, and the name can be used again.
unlinkread ==
  <<Open("fd", At(<<"ur">>), CREATE_RDWR, Ok), Write("fd", <<"h", "i">>, Whatever), Close("fd"),
    Open("fd", At(<<"ur">>), RDWR, Ok), Unlink(At(<<"ur">>), Ok),
    Open("fd1", At(<<"ur">>), CREATE_RDWR, Whatever), Write("fd1", <<"y">>, Whatever), Close("fd1"),
    Read("fd", 8, Just(2)), Check({Bytes(<<"h", "i">>)}), Write("fd", <<"h", "i", "x">>, Just(3)),
    Close("fd"), Unlink(At(<<"ur">>), Whatever)>>

linktest ==
  <<Unlink(At(<<"lf1">>), Whatever), Unlink(At(<<"lf2">>), Whatever),
    Open("fd", At(<<"lf1">>), CREATE_RDWR, Ok), Write("fd", <<"h", "i">>, Just(2)), Close("fd"),
    Link(At(<<"lf1">>), At(<<"lf2">>), Ok), Unlink(At(<<"lf1">>), Whatever),
    Open("fd", At(<<"lf1">>), RDONLY, Err), Open("fd", At(<<"lf2">>), RDONLY, Ok), Read("fd", 8, Just(2)),
    Close("fd"), Link(At(<<"lf2">>), At(<<"lf2">>), Err), Unlink(At(<<"lf2">>), Whatever),
    Link(At(<<"lf2">>), At(<<"lf1">>), Err), Link(At(<<".">>), At(<<"lf1">>), Err)>>

\* Parent and child create the same name, or link it to the first one; then
\* every name must be listed once; then each opens or removes them.  Of the 40
\* rounds, one for each way to pair the two: 0, 1, 2, 4 and 6.
concreate ==
  LET file(i) == AtNth("C", i)
      round == <<0, 1, 2, 4, 6>>
      make(i) == <<Open("fd", file(i), CREATE_RDWR, Ok), Close("fd")>>
      link(i) == <<Link(file(1), file(i), Whatever)>>
      openit(i) == <<Open("fd", file(i), RDONLY, Whatever), Close("fd"),
                     Open("fd", file(i), RDONLY, Whatever), Close("fd")>>
      drop(i) == <<Unlink(file(i), Whatever), Unlink(file(i), Whatever)>>
      both(child, parent) == <<Fork("pid", child \o <<Exit>>, Ok)>> \o parent \o <<Wait(Whatever)>>
  IN  Repeat(5, LAMBDA i : <<Unlink(file(i), Whatever)>> \o
        both(IF round[i] % 5 = 1 THEN link(i) ELSE make(i), IF round[i] % 3 = 1 THEN link(i) ELSE make(i)))
      \o <<Open("fd", At(<<".">>), RDONLY, Whatever), ReadLoop("fd", 1, <<>>), Close("fd"), Listed("C", 5)>>
      \o Repeat(5, LAMBDA i :
           both(IF round[i] % 3 = 0 THEN openit(i) ELSE drop(i), IF round[i] % 3 = 1 THEN openit(i) ELSE drop(i)))

\* Two processes create, link and unlink one name in any order; the code draws
\* the order with a random number generator.
linkunlink ==
  LET any == Either({<<Open("fd", At(<<"x">>), CREATE_RDWR, Whatever), Close("fd")>>,
                     <<Link(At(<<"cat">>), At(<<"x">>), Whatever)>>,
                     <<Unlink(At(<<"x">>), Whatever)>>})
      rounds == Repeat(N, LAMBDA i : <<any>>)
  IN  <<Unlink(At(<<"x">>), Whatever), Fork("pid", rounds \o <<Exit>>, Ok)>> \o rounds \o <<Wait(Whatever)>>

\* A directory that needs its indirect block.
bigdir ==
  LET M == NDIRECT * BSIZE
  IN  <<Unlink(At(<<"bd">>), Whatever), Open("fd", At(<<"bd">>), CREATE, Ok), Close("fd")>>
      \o Repeat(M, LAMBDA i : <<Link(At(<<"bd">>), AtNth("x", i), Ok)>>)
      \o <<Unlink(At(<<"bd">>), Whatever)>>
      \o Repeat(M, LAMBDA i : <<Unlink(AtNth("x", i), Ok)>>)

\* subdir(): names in a directory of a directory, and, from there on, names
\* that lead through a file or through nothing.
ff == <<"dd", "ff">>
ddff == <<"dd", "dd", "ff">>
ffff == <<"dd", "dd", "ffff">>
subdirMade ==
  <<Unlink(At(<<"ff">>), Whatever), Mkdir(At(<<"dd">>), Ok),
    Open("fd", At(ff), CREATE_RDWR, Ok), Write("fd", <<"f", "f">>, Whatever), Close("fd"),
    Unlink(At(<<"dd">>), Err), Mkdir(Root(<<"dd", "dd">>), Ok),
    Open("fd", At(ddff), CREATE_RDWR, Ok), Write("fd", <<"F", "F">>, Whatever), Close("fd"),
    Open("fd", At(<<"dd", "dd", "..", "ff">>), RDONLY, Ok), Read("fd", 8, Just(2)),
    Check({Bytes(<<"f", "f">>)}), Close("fd"),
    Link(At(ddff), At(ffff), Ok), Unlink(At(ddff), Ok), Open("fd", At(ddff), RDONLY, Err),
    Chdir(At(<<"dd">>), Ok), Chdir(At(<<"dd", "..", "..", "dd">>), Ok),
    Chdir(At(<<"dd", "..", "..", "..", "dd">>), Ok), Chdir(At(<<".", "..">>), Ok),
    Open("fd", At(ffff), RDONLY, Ok), Read("fd", 8, Just(2)), Close("fd")>>
subdir ==
  LET bad1 == At(<<"dd", "ff", "ff">>)
      bad2 == At(<<"dd", "xx", "ff">>)
  IN  subdirMade \o
      <<Open("fd", At(ddff), RDONLY, Err), Open("fd", bad1, CREATE_RDWR, Err), Open("fd", bad2, CREATE_RDWR, Err),
        Open("fd", At(<<"dd">>), CREATE, Err), Open("fd", At(<<"dd">>), RDWR, Err),
        Open("fd", At(<<"dd">>), {"WRONLY"}, Err),
        Link(bad1, At(<<"dd", "dd", "xx">>), Err), Link(bad2, At(<<"dd", "dd", "xx">>), Err),
        Link(At(ff), At(ffff), Err), Mkdir(bad1, Err), Mkdir(bad2, Err), Mkdir(At(ffff), Err),
        Unlink(bad2, Err), Unlink(bad1, Err), Chdir(At(ff), Err), Chdir(At(<<"dd", "xx">>), Err),
        Unlink(At(ffff), Ok), Unlink(At(ff), Ok), Unlink(At(<<"dd">>), Err),
        Unlink(At(<<"dd", "dd">>), Ok), Unlink(At(<<"dd">>), Ok)>>

\* Writes of every size up to more than two transactions.
bigwrite ==
  <<Unlink(At(<<"bw">>), Whatever)>>
  \o Repeat(2 * MaxChunk + 1, LAMBDA sz :
       LET w == Write("fd", [k \in 1 .. sz |-> "b"], Just(sz))
       IN  <<Open("fd", At(<<"bw">>), CREATE_RDWR, Ok), w, w, Close("fd"), Unlink(At(<<"bw">>), Whatever)>>)

\* Written in pieces of 2, read in pieces of 1.
bigfile ==
  <<Unlink(At(<<"bf">>), Whatever), Open("fd", At(<<"bf">>), CREATE_RDWR, Ok)>>
  \o Repeat(N, LAMBDA i : <<Write("fd", <<ToString(i), ToString(i)>>, Just(2))>>)
  \o <<Close("fd"), Open("fd", At(<<"bf">>), RDONLY, Ok), ReadLoop("fd", 1, <<>>),
       Check({Bytes(Repeat(N, LAMBDA i : <<ToString(i), ToString(i)>>))}), Close("fd"),
       Unlink(At(<<"bf">>), Whatever)>>

\* A name of DIRSIZ + 1 characters is the name of its first DIRSIZ.
fourteen ==
  LET n14 == Name("1", DIRSIZ)
      n15 == Name("1", DIRSIZ + 1)
      at(q) == Path(FALSE, q)
  IN  <<Mkdir(at(<<n14>>), Ok), Mkdir(at(<<n14, n15>>), Ok),
        Open("fd", at(<<n15, n15, n15>>), CREATE, Ok), Close("fd"),
        Open("fd", at(<<n14, n14, n14>>), RDONLY, Ok), Close("fd"),
        Mkdir(at(<<n14, n14>>), Err), Mkdir(at(<<n15, n14>>), Err)>>

rmdot ==
  <<Mkdir(At(<<"dots">>), Ok), Chdir(At(<<"dots">>), Ok), Unlink(At(<<".">>), Err), Unlink(At(<<"..">>), Err),
    Chdir(Root(<<>>), Ok), Unlink(At(<<"dots", ".">>), Err), Unlink(At(<<"dots", "..">>), Err),
    Unlink(At(<<"dots">>), Ok)>>

dirfile ==
  LET df == At(<<"dirfile">>)
      xx == At(<<"dirfile", "xx">>)
  IN  <<Open("fd", df, CREATE, Ok), Close("fd"), Chdir(df, Err), Open("fd", xx, RDONLY, Err),
        Open("fd", xx, CREATE, Err), Mkdir(xx, Err), Unlink(xx, Err), Link(At(<<"README">>), xx, Err),
        Unlink(df, Ok), Open("fd", At(<<".">>), RDWR, Err), Open("fd", At(<<".">>), RDONLY, Whatever),
        Write("fd", <<"x">>, Err), Close("fd")>>

\* Every failing call must give back the inodes it looked up: the cache has
\* NINODE entries, and this goes through more.
iref ==
  LET none == At(<<>>)
  IN  Repeat(NINODE + 1, LAMBDA i :
        <<Mkdir(At(<<"irefd">>), Ok), Chdir(At(<<"irefd">>), Ok), Mkdir(none, Err),
          Link(At(<<"README">>), none, Err), Open("fd", none, CREATE, Err), Close("fd"),
          Open("fd", At(<<"xx">>), CREATE, Ok), Close("fd"), Unlink(At(<<"xx">>), Ok)>>)
      \o <<Chdir(Root(<<>>), Ok)>>

\* fork() until it fails, then wait() for all and for one more.
forktest ==
  Repeat(NPROC - 2, LAMBDA i : <<Fork("pid", <<Exit>>, Ok)>>) \o <<Fork("pid", <<Exit>>, Err)>>
  \o Repeat(NPROC - 2, LAMBDA i : <<Wait(Ok)>>) \o <<Wait(Err)>>

\* exec() of an argument list that is too long fails and the child goes on.
bigargtest ==
  <<Unlink(At(<<"bo">>), Whatever),
    Fork("pid", <<Exec(At(<<"echo">>), <<>>, Whatever), Open("fd", At(<<"bo">>), CREATE, Whatever), Close("fd"),
                  Exit>>, Ok),
    Wait(Whatever), Open("fd", At(<<"bo">>), RDONLY, Ok), Close("fd"), Unlink(At(<<"bo">>), Whatever)>>

\* main() refuses to run twice on one disk.
main(test) ==
  <<Open("fd", At(<<"ran">>), RDONLY, Err), Open("fd", At(<<"ran">>), CREATE, Whatever), Close("fd")>>
  \o test \o <<Exit>>

Tests ==
  {iputtest, exitiputtest, openiputtest, opentest, writetest, writetest1, createtest, dirtest, exectest,
   pipe1, preempt, exitwait, sharedfd, fourfiles, createdelete, unlinkread, linktest, concreate, linkunlink,
   bigdir, subdir, bigwrite, bigfile, fourteen, rmdot, dirfile, iref, forktest, bigargtest}
=============================================================================
