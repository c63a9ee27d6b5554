-------------------------------- MODULE Shell --------------------------------
(***************************************************************************)
(* The command lines of the shell (project4/sh.c): the commands it runs    *)
(* and the recursive-descent parser that makes them of a line.             *)
(*                                                                         *)
(* A line is the sequence of the tokens that gettoken() finds in it: words *)
(* and symbols.  A parser function returns the command, the tokens that    *)
(* are left and whether it went well; a panic ends the parsing.            *)
(***************************************************************************)
EXTENDS Naturals, Sequences

CONSTANT MAXARGS       \* entries of argv, the terminating 0 included

ExecCmd(argv) == [type |-> "EXEC", argv |-> argv]
RedirCmd(cmd, file, mode, fd) == [type |-> "REDIR", cmd |-> cmd, file |-> file, mode |-> mode, fd |-> fd]
PipeCmd(l, r) == [type |-> "PIPE", left |-> l, right |-> r]
ListCmd(l, r) == [type |-> "LIST", left |-> l, right |-> r]
BackCmd(cmd) == [type |-> "BACK", cmd |-> cmd]

Redirs == {"<", ">", ">>"}
Symbols == Redirs \cup {"|", "&", ";", "(", ")"}
IsWord(tok) == tok \notin Symbols

peek(q, toks) == q # <<>> /\ Head(q) \in toks
Parsed(cmd, q) == [cmd |-> cmd, left |-> q, ok |-> TRUE]
Syntax == [cmd |-> ExecCmd(<<>>), left |-> <<>>, ok |-> FALSE]

\* The redirection of cmd by token tok; >> is opened like >.
Redirected(cmd, tok, file) ==
  IF tok = "<" THEN RedirCmd(cmd, file, {}, "0") ELSE RedirCmd(cmd, file, {"WRONLY", "CREATE"}, "1")

RECURSIVE parseredirs(_, _)
parseredirs(cmd, q) ==
  IF ~peek(q, Redirs) THEN Parsed(cmd, q)
  ELSE IF Len(q) < 2 \/ ~IsWord(q[2]) THEN Syntax
  ELSE parseredirs(Redirected(cmd, q[1], q[2]), SubSeq(q, 3, Len(q)))

\* The words go to the EXEC at the bottom of the redirections made so far.
RECURSIVE AddArg(_, _)
AddArg(cmd, w) ==
  IF cmd.type = "REDIR" THEN [cmd EXCEPT !.cmd = AddArg(@, w)] ELSE [cmd EXCEPT !.argv = Append(@, w)]

\* The loop of parseexec(), with argc words so far.
RECURSIVE ParseArgs(_, _)
ParseArgs(p, argc) ==
  IF ~p.ok \/ p.left = <<>> \/ peek(p.left, {"|", ")", "&", ";"}) THEN p
  ELSE IF ~IsWord(Head(p.left)) \/ argc + 1 >= MAXARGS THEN Syntax
  ELSE ParseArgs(parseredirs(AddArg(p.cmd, Head(p.left)), Tail(p.left)), argc + 1)

RECURSIVE parseline(_)
\* What follows the "(": a line, ")" and redirections.
Grouped(p) == IF ~p.ok \/ ~peek(p.left, {")"}) THEN Syntax ELSE parseredirs(p.cmd, Tail(p.left))
parseblock(q) == Grouped(parseline(Tail(q)))
parseexec(q) == IF peek(q, {"("}) THEN parseblock(q) ELSE ParseArgs(parseredirs(ExecCmd(<<>>), q), 0)

\* Two commands joined by Join: p was parsed, Rest parses what follows the symbol.
Joined(p, Rest(_), Join(_, _)) ==
  LET r == Rest(Tail(p.left)) IN IF r.ok THEN Parsed(Join(p.cmd, r.cmd), r.left) ELSE Syntax

RECURSIVE parsepipe(_)
parsepipe(q) ==
  LET p == parseexec(q) IN IF p.ok /\ peek(p.left, {"|"}) THEN Joined(p, parsepipe, PipeCmd) ELSE p

RECURSIVE Backs(_)
Backs(p) == IF p.ok /\ peek(p.left, {"&"}) THEN Backs(Parsed(BackCmd(p.cmd), Tail(p.left))) ELSE p
\* Mutant: a list is grouped from the left, what follows ; first.
ListSwapped(l, r) == ListCmd(r, l)
ListOf(l, r) == ListCmd(l, r)
parseline(q) ==
  LET p == Backs(parsepipe(q)) IN IF p.ok /\ peek(p.left, {";"}) THEN Joined(p, parseline, ListOf) ELSE p

\* Leftovers are a syntax error.
parsecmd(q) == LET p == parseline(q) IN IF p.left = <<>> THEN p ELSE Syntax
=============================================================================
