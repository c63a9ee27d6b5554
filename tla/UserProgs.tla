----------------------------- MODULE UserProgs -----------------------------
(***************************************************************************)
(* init, the shell and the programs it starts, as programs of Kernel:      *)
(* init.c, runcmd() and main() of sh.c, cat.c, echo.c, ln.c, ls.c, mkdir.c, *)
(* rm.c, zombie.c, stressfs.c, and the shell of project2/usfsh.c.          *)
(* printf() writes one character at a time, so an argument of echo and     *)
(* what follows it are two writes.                                         *)
(***************************************************************************)
EXTENDS Kernel, Shell

CONSTANT ROUNDS    \* stressfs writes this many blocks

\* The program that exec() finds under argv[1].
Args(argv) == SubSeq(argv, 2, Len(argv))
ForArgs(argv, Body(_)) == FlattenSeq([k \in 1 .. Len(Args(argv)) |-> Body(Args(argv)[k])])

cat(fd) == ReadLoop(fd, 2, <<WriteBuf("1")>>)

catMain(argv) ==
  IF Len(argv) = 1 THEN <<cat("0"), Exit>>
  ELSE ForArgs(argv, LAMBDA a : <<Open("fd", At(<<a>>), {}, Ok), cat("fd"), Close("fd")>>) \o <<Exit>>

echoMain(argv) ==
  LET last == argv[Len(argv)]
  IN  ForArgs(argv, LAMBDA a : <<Write("1", <<a>>, Whatever),
                                Write("1", <<IF a = last THEN "nl" ELSE "sp">>, Whatever)>>) \o <<Exit>>

\* mkdir and rm stop at the first argument that fails.
mkdirMain(argv) == ForArgs(argv, LAMBDA a : <<Mkdir(At(<<a>>), Ok)>>) \o <<Exit>>
rmMain(argv) == ForArgs(argv, LAMBDA a : <<Unlink(At(<<a>>), Ok)>>) \o <<Exit>>
lnMain(argv) == <<Link(At(<<argv[2]>>), At(<<argv[3]>>), Whatever), Exit>>

ls(elems) ==
  <<Open("fd", At(elems), {}, Whatever),
    Fstat("fd", [file |-> <<Write("1", <<elems[Len(elems)]>>, Whatever)>>, dev |-> <<>>,
                 dir |-> <<ReadLoop("fd", 1, <<Entry(At(elems).elems)>>)>>]),
    Close("fd")>>
lsMain(argv) == (IF Len(argv) = 1 THEN ls(<<".">>) ELSE ForArgs(argv, LAMBDA a : ls(<<a>>))) \o <<Exit>>

\* The parent sleeps until the child is a zombie, or not long enough.
zombieMain(argv) == <<Fork("pid", <<Exit>>, Whatever), Exit>>

\* Each child forks the next; every process writes and reads a file of its own.
stressfsMain(argv) ==
  LET work(i) == LET f == Path(FALSE, <<Name("stressfs", i)>>)
                 IN  <<Open("fd", f, {"CREATE", "RDWR"}, Whatever)>>
                     \o FlattenSeq([k \in 1 .. ROUNDS |-> <<Write("fd", <<"a", "a">>, Whatever)>>])
                     \o <<Close("fd"), Open("fd", f, {}, Whatever)>>
                     \o FlattenSeq([k \in 1 .. ROUNDS |-> <<Read("fd", 2, Whatever)>>])
                     \o <<Close("fd"), Wait(Whatever), Exit>>
  IN  <<Fork("pid", <<Fork("pid", work(3), Whatever)>> \o work(2), Whatever)>> \o work(1)

Program(argv) ==
  CASE argv[1] = "cat" -> catMain(argv) [] argv[1] = "echo" -> echoMain(argv)
    [] argv[1] = "mkdir" -> mkdirMain(argv) [] argv[1] = "rm" -> rmMain(argv)
    [] argv[1] = "ln" -> lnMain(argv) [] argv[1] = "zombie" -> zombieMain(argv)
    [] argv[1] = "ls" -> lsMain(argv)
    [] argv[1] = "stressfs" -> stressfsMain(argv) [] OTHER -> <<Exit>>

-----------------------------------------------------------------------------
(* The shell                                                               *)

\* A process of a pipeline gives up both descriptors of the pipe.
PipeEnds == <<Close("p"), Close("w")>>

RECURSIVE runcmd(_)
runcmd(cmd) ==
  CASE cmd.type = "EXEC" /\ cmd.argv = <<>> -> <<Exit>>
    [] cmd.type = "EXEC" /\ cmd.argv # <<>> -> <<Exec(At(<<cmd.argv[1]>>), Program(cmd.argv), Whatever), Exit>>
    [] cmd.type = "REDIR" -> <<Close(cmd.fd), Open("fd", At(<<cmd.file>>), cmd.mode, Ok)>> \o runcmd(cmd.cmd)
    [] cmd.type = "LIST" -> <<Fork("pid", runcmd(cmd.left), Ok), Wait(Whatever)>> \o runcmd(cmd.right)
    [] cmd.type = "PIPE" ->
         <<Pipe("p", Ok),
           Fork("pid", <<Close("1"), Dup("w", "r")>> \o PipeEnds \o runcmd(cmd.left), Ok),
           Fork("pid", <<Close("0"), Dup("p", "r")>> \o PipeEnds \o runcmd(cmd.right), Ok)>>
         \o PipeEnds \o <<Wait(Whatever), Wait(Whatever), Exit>>
    [] cmd.type = "BACK" -> <<Fork("pid", runcmd(cmd.cmd), Ok), Exit>>

\* A child parses and runs the line, or ends at a syntax error.
runline(p) == IF p.ok THEN runcmd(p.cmd) ELSE <<Exit>>

\* sh's main(): a console on descriptor 3 is closed again; then each line, a
\* sequence of tokens, is run by a child that the shell waits for, except cd.
ForLines(lines, Body(_)) == FlattenSeq([k \in 1 .. Len(lines) |-> Body(lines[k])])
shMain(lines) ==
  <<Open("fd", At(<<"console">>), {"RDWR"}, Just(3)), Close("fd")>>
  \o ForLines(lines, LAMBDA q : IF peek(q, {"cd"}) THEN <<Chdir(At(<<q[2]>>), Whatever)>>
                                ELSE <<Fork("pid", runline(parsecmd(q)), Ok), Wait(Ok)>>)

-----------------------------------------------------------------------------
(* usfsh                                                                   *)

execvp(argv) == <<Exec(At(<<argv[1]>>), Program(argv), Whatever), Exit>>
execute_command_curr_dir(argv) == <<Fork("pid", execvp(argv), Whatever), Wait(Whatever)>>

\* The shell itself opens the file; the child makes it its descriptor 1.
output_file_redir(out, argv) ==
  <<Open("o", At(<<out>>), {"WRONLY", "CREATE"}, Ok),
    Fork("pid", <<Close("1"), Dup("o", "r"), Close("o")>> \o execvp(argv), Whatever),
    Close("o"), Wait(Whatever)>>

pipe_redir(right, left) ==
  <<Pipe("p", Whatever),
    Fork("id", <<Close("1"), Dup("w", "r"), Close("p"), Close("w")>> \o execvp(left), Whatever),
    Fork("id", <<Close("0"), Dup("p", "r"), Close("w"), Close("p")>> \o execvp(right), Whatever),
    Close("p"), Close("w"), Wait(Whatever), Wait(Whatever)>>

\* The first | or > decides; what follows is not looked at again.
find_command_and_args(q) ==
  LET cut == {k \in DOMAIN q : q[k] \in {"|", ">"}}
      k == First(cut)
  IN  IF q[1] = "cd" THEN <<Chdir(At(<<q[2]>>), Whatever)>>
      ELSE IF cut = {} THEN execute_command_curr_dir(q)
      ELSE IF q[k] = "|" THEN pipe_redir(SubSeq(q, k + 1, Len(q)), SubSeq(q, 1, k - 1))
      ELSE output_file_redir(q[k + 1], SubSeq(q, 1, k - 1))
usfshMain(lines) == ForLines(lines, find_command_and_args)

-----------------------------------------------------------------------------

\* init's main(): the descriptors 0, 1 and 2 are the console, then a shell is
\* started, and orphans are waited for.
initMain(shell) ==
  <<Open("fd", At(<<"console">>), {"RDWR"}, Whatever), Mknod(At(<<"console">>), Whatever),
    Open("fd", At(<<"console">>), {"RDWR"}, Whatever), Dup("0", "r"), Dup("0", "r"),
    Fork("pid", shell, Ok), Reap>>

\* Sessions: a shell, and the file f that must be there afterwards.
Session(shell, f, data) ==
  shell \o <<Open("fd", At(<<f>>), {}, Ok), ReadLoop("fd", 2, <<>>), Check({Bytes(data)}), Close("fd"), Exit>>

Sessions ==
  {Session(shMain(<<<<"echo", "a", "b", "|", "cat", ">", "f">>>>), "f", <<"a", "sp", "b", "nl">>),
   Session(shMain(<<<<"mkdir", "d", ";", "rm", "d">>, <<"echo", "a", ">", "f">>, <<"ln", "f", "g">>,
                    <<"cat", "<", "g", ">", "h">>>>), "h", <<"a", "nl">>),
   shMain(<<<<"mkdir", "d">>, <<"cd", "d">>, <<"cd", "..">>, <<"cat">>, <<>>, <<"a", "&", "b">>,
            <<"echo", "a", ">", "f", "&">>, <<"zombie">>>>) \o <<Exit>>,
   shMain(<<<<"echo", "a", "|">>>>) \o <<Exit>>,
   Session(shMain(<<<<"mkdir", "d", "e">>, <<"rm", "d", "e">>, <<"ls", ".", "README", ">", "f">>>>), "f",
           <<".", ".", "README", "cat", "echo", "mkdir", "rm", "ln", "zombie", "stressfs", "ls", "console", "f", "README">>),
   Session(usfshMain(<<<<"cd", "..">>, <<"zombie">>, <<"echo", "a", ">", "f">>, <<"cat", "f", "|", "cat">>>>),
           "f", <<"a", "nl">>),
   shMain(<<<<"stressfs">>>>) \o <<Exit>>}
=============================================================================
