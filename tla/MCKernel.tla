------------------------------ MODULE MCKernel ------------------------------
(***************************************************************************)
(* Kernel running, under init, one test of usertests or one session of the *)
(* shell.                                                                  *)
(***************************************************************************)
EXTENDS UserTests, UserProgs

\* The disk image: a text and programs, which start with an ELF header.
Files == <<<<Name("README", 1), Bytes(<<"r">>)>>>>
         \o [k \in 1 .. 8 |-> <<Name(<<"cat", "echo", "mkdir", "rm", "ln", "zombie", "stressfs", "ls">>[k], 1), Bytes(<<"elf">>)>>]

\* A program that uses up its descriptors, and two that use up the file table and
\* the memory for pipes between them.
fdsFull ==
  LET readme == Open("fd", At(<<"README">>), {}, Ok)
      none == <<Open("no", At(<<"README">>), {}, Err), Open("no", At(<<"x">>), CREATE, Err), Dup("0", "no")>>
  IN  <<readme, readme, readme, Open("last", At(<<"README">>), {}, Ok)>> \o none
      \o <<Pipe("p", Err), Close("last"), Pipe("p", Err), Close("fd"), Dup("0", "r"), Close("r"),
           readme, readme, Unlink(At(<<"x">>), Ok), Exit>>
filesFull ==
  LET grab == <<Open("fd", At(<<"README">>), {}, Whatever), Pipe("p", Whatever),
                Open("fd", At(<<"x">>), CREATE, Whatever)>>
  IN  <<Fork("pid", grab \o <<Close("p"), Exit>>, Ok)>> \o grab \o <<Close("w"), Wait(Ok), Pipe("p", Whatever), Exit>>

Init == \E code \in {main(t) : t \in Tests} \cup Sessions \cup {fdsFull, filesFull} : Boot(Files, initMain(code))
Spec == Init /\ [][Next]_vars

\* Every program gets the results it insists on, in every interleaving
\* (usertests.c; runcmd() of sh.c).
ProgramsSatisfied == ~oops
=============================================================================
