------------------------------- MODULE Kernel -------------------------------
(***************************************************************************)
(* The system calls on files, pipes and processes (project4/sysfile.c,     *)
(* file.c, and fork, exit, wait and kill of proc.c) on top of Fs, and the  *)
(* processes that make them.                                               *)
(*                                                                         *)
(* A process runs a program: a sequence of calls, each with the result the *)
(* program insists on.  A call is split where the kernel holds no inode    *)
(* lock and other processes can run: between the steps of a path walk,     *)
(* between the parts of link() and create(), between the chunks of a       *)
(* write, between dropping a file and its inode.  begin_op() and end_op()  *)
(* are counted; what a transaction is made of is modelled in Log.          *)
(***************************************************************************)
EXTENDS Fs

CONSTANTS NPROC,      \* processes; 1 is init
          NFILE,      \* entries of the file table
          NOFILE,     \* descriptors of a process
          NPIPE,      \* pipes there is memory for
          PIPESIZE,   \* units in a pipe
          MaxChunk    \* units that filewrite() writes in one transaction

ASSUME KernelAssumption ==
  /\ {NPROC, NFILE, NOFILE, NPIPE, PIPESIZE, MaxChunk} \subseteq Nat \ {0}

VARIABLES
  s,            \* the file system
  ft,           \* ftable
  pipes,        \* the pipes
  pr,           \* the processes
  outstanding,  \* file system calls between begin_op() and end_op()
  oops          \* a program met a result that it does not accept

vars == <<s, ft, pipes, pr, outstanding, oops>>

Proc == 1 .. NPROC
File == 1 .. NFILE
Fd == 0 .. NOFILE - 1
initproc == 1

-----------------------------------------------------------------------------
(* Programs                                                                *)

\* The results a program accepts: lo .. hi.
Ok == [lo |-> 0, hi |-> 99]
Err == [lo |-> -1, hi |-> -1]
Whatever == [lo |-> -1, hi |-> 99]
Just(n) == [lo |-> n, hi |-> n]

\* The path of these one-letter names, from the working directory.
Elem(e) == IF e = "." THEN Dot ELSE IF e = ".." THEN DotDot ELSE Name(e, 1)
At(elems) == Path(FALSE, [k \in DOMAIN elems |-> Elem(elems[k])])
Root(elems) == Path(TRUE, [k \in DOMAIN elems |-> Elem(elems[k])])
Bytes(q) == [k \in DOMAIN q |-> Byte(q[k])]

Call(c, v, w) == [call |-> c, var |-> v, want |-> w]
Open(v, path, mode, w) == [call |-> "open", var |-> v, path |-> path, mode |-> mode, want |-> w]
Mkdir(path, w) == [call |-> "mkdir", var |-> "r", path |-> path, want |-> w]
Mknod(path, w) == [call |-> "mknod", var |-> "r", path |-> path, want |-> w]
Chdir(path, w) == [call |-> "chdir", var |-> "r", path |-> path, want |-> w]
Unlink(path, w) == [call |-> "unlink", var |-> "r", path |-> path, want |-> w]
Link(old, new, w) == [call |-> "link", var |-> "r", path |-> old, new |-> new, want |-> w]
Exec(path, code, w) == [call |-> "exec", var |-> "r", path |-> path, code |-> code, want |-> w]
Close(v) == [call |-> "close", var |-> "r", fd |-> v, want |-> Whatever]
Dup(v, r) == [call |-> "dup", var |-> r, fd |-> v, want |-> Whatever]
Read(v, n, w) == [call |-> "read", var |-> "r", fd |-> v, n |-> n, loop |-> FALSE, body |-> <<>>, want |-> w]
\* while((n = read(v, buf, n)) > 0) body, and what was read is kept in buf.
ReadLoop(v, n, body) == [call |-> "read", var |-> "r", fd |-> v, n |-> n, loop |-> TRUE, body |-> body, want |-> Whatever]
Write(v, q, w) == [call |-> "write", var |-> "r", fd |-> v, data |-> Bytes(q), buf |-> FALSE, want |-> w]
WriteBuf(v) == [call |-> "write", var |-> "r", fd |-> v, data |-> <<>>, buf |-> TRUE, want |-> Whatever]
Pipe(v, w) == [call |-> "pipe", var |-> v, want |-> w]
Fork(v, code, w) == [call |-> "fork", var |-> v, code |-> code, want |-> w]
\* fstat() and a switch on st.type.
Fstat(v, switch) == [call |-> "fstat", var |-> "r", fd |-> v, switch |-> switch, want |-> Whatever]
\* What ls does with the entry of directory dir that it has read.
Entry(dir) == [call |-> "entry", var |-> "r", dir |-> dir, want |-> Whatever]
Kill(v) == [call |-> "kill", var |-> "r", pid |-> v, want |-> Whatever]
Wait(w) == Call("wait", "r", w)
Exit == Call("exit", "r", Whatever)
Forever == Call("forever", "r", Whatever)
\* The program compares buf, what its last reads returned, with these.
Check(accept) == [call |-> "check", var |-> "r", accept |-> accept, want |-> Whatever]
\* A listing in buf has every name of c's family, Name(c, 1) .. Name(c, n), once.
Listed(c, n) == [call |-> "listed", var |-> "r", c |-> c, n |-> n, want |-> Whatever]
Either(alts) == [call |-> "either", var |-> "r", alts |-> alts, want |-> Whatever]
\* for(...) wait(): until there is no child, or for ever.
Reap == Call("reap", "r", Whatever)

User == [at |-> "user"]
Unused == [st |-> "unused", parent |-> 0, code |-> <<>>, reg |-> <<>>, buf |-> <<>>,
           of |-> [f \in Fd |-> 0], cwd |-> 0, killed |-> FALSE, k |-> User]
NoFile == [ref |-> 0, type |-> "none", ip |-> 0, off |-> 0, readable |-> FALSE, writable |-> FALSE, pipe |-> 0]
NoPipe == [data |-> <<>>, readopen |-> FALSE, writeopen |-> FALSE]

\* The variable v of q; the descriptors 0, 1 and 2 are spelled out.
Reg(q, v) == CASE v = "0" -> 0 [] v = "1" -> 1 [] v = "2" -> 2
               [] v \in DOMAIN q.reg -> q.reg[v] [] OTHER -> -1
SetReg(q, v, val) == [x \in DOMAIN q.reg \cup {v} |-> IF x = v THEN val ELSE q.reg[x]]

\* Process p is about to make call c; trap() sends a killed one to exit().
Calls(p, c) ==
  /\ pr[p].st = "run" /\ pr[p].k.at = "user" /\ ~pr[p].killed
  /\ pr[p].code # <<>> /\ Head(pr[p].code).call = c
Instr(p) == Head(pr[p].code)
In(p, at) == pr[p].st = "run" /\ pr[p].k.at = at

\* q after its call returned val: an unacceptable result ends the program.
Good(i, val) == i.want.lo <= val /\ val <= i.want.hi
Ret(q, val) ==
  LET i == Head(q.code)
  IN  [q EXCEPT !.k = User, !.reg = SetReg(q, i.var, val),
                !.code = IF Good(i, val) THEN Tail(@) ELSE <<Exit>>]

Return(p, q, val) ==
  /\ pr' = [pr EXCEPT ![p] = Ret(q, val)]
  /\ oops' = (oops \/ ~Good(Instr(p), val))
Continue(p, k) == pr' = [pr EXCEPT ![p].k = k] /\ UNCHANGED oops

BeginOp == outstanding' = outstanding + 1
EndOp == outstanding' = outstanding - 1

-----------------------------------------------------------------------------
(* Paths: namex(), one element per step                                    *)

ParentCalls == {"mkdir", "mknod", "unlink"}
Parent(i) == i.call \in ParentCalls \/ (i.call = "open" /\ "CREATE" \in i.mode)

\* begin_op() and the first inode of namex(); old is the inode of link()'s first
\* path while the second one is walked.
BeginPath(p) ==
  /\ \E c \in ParentCalls \cup {"open", "chdir", "link", "exec"} : Calls(p, c)
  /\ LET i == Instr(p)
     IN  /\ s' = NamexStart(s, pr[p].cwd, i.path)
         /\ Continue(p, [at |-> "walk", ip |-> NamexFrom(pr[p].cwd, i.path), elems |-> i.path.elems,
                         parent |-> Parent(i), old |-> 0])
  /\ BeginOp
  /\ UNCHANGED <<ft, pipes>>

\* dirlookup(): the inode number of the entry called nm, or 0.
Lookup(t, d, nm) == IF DirOff(t, d, nm) = -1 THEN 0 ELSE DirInum(t, d, nm)

Found(k, ip, nm) == [at |-> "found", ip |-> ip, name |-> nm, old |-> k.old]

\* One turn of namex()'s loop with the inode k.ip locked, in state t.
WalkOn(p, k, t, next) ==
  IF next = 0 THEN s' = IPut(t, k.ip) /\ Continue(p, Found(k, 0, Dot))
  ELSE s' = IPut(IGet(t, next), k.ip) /\ Continue(p, [k EXCEPT !.ip = next, !.elems = Tail(@)])
WalkLocked(p, k, t) ==
  \/ /\ Ino(t, k.ip).type # "dir"
     /\ s' = IPut(t, k.ip) /\ Continue(p, Found(k, 0, Dot))
  \/ /\ Ino(t, k.ip).type = "dir" /\ k.parent /\ Len(k.elems) = 1
     /\ s' = t /\ Continue(p, Found(k, k.ip, Head(k.elems)))
  \/ /\ Ino(t, k.ip).type = "dir" /\ ~(k.parent /\ Len(k.elems) = 1)
     /\ WalkOn(p, k, t, Lookup(t, k.ip, Head(k.elems)))
WalkEnds(p, k) ==
  \/ ~k.parent /\ s' = s /\ Continue(p, Found(k, k.ip, Dot))
  \/ k.parent /\ s' = IPut(s, k.ip) /\ Continue(p, Found(k, 0, Dot))
Walk(p) ==
  /\ In(p, "walk")
  /\ IF pr[p].k.elems = <<>> THEN WalkEnds(p, pr[p].k) ELSE WalkLocked(p, pr[p].k, ILock(s, pr[p].k.ip))
  /\ UNCHANGED <<ft, pipes, outstanding>>

\* The call's path was found to be, or to be in, an inode; or was not.
FoundFor(p, c) == In(p, "found") /\ Instr(p).call = c /\ pr[p].k.ip # 0
NotFound(p) ==
  /\ In(p, "found") /\ pr[p].k.ip = 0 /\ pr[p].k.old = 0
  /\ Return(p, pr[p], -1) /\ EndOp /\ UNCHANGED <<s, ft, pipes>>

\* The call gives up its inode and fails.
Fail(p, t, ip) == s' = IPut(t, ip) /\ Return(p, pr[p], -1) /\ EndOp /\ UNCHANGED <<ft, pipes>>

-----------------------------------------------------------------------------
(* open, mkdir, mknod                                                      *)

FreeFile == {f \in File : ft[f].ref = 0}
FreeFd(q) == {d \in Fd : q.of[d] = 0}

\* A file of filealloc().
Taken == [NoFile EXCEPT !.ref = 1]

\* The rest of sys_open() with ip locked: a file and a descriptor; without a
\* descriptor the file is given back by NoFd(), before which ip stays locked
\* (another open() of ip waits; no other call with ip looks at ftable).
OpenFile(p, t, ip) ==
  LET i == Instr(p)
      f == First(FreeFile)
      d == First(FreeFd(pr[p]))
  IN  /\ \A q \in Proc : ~(In(q, "nofd") /\ pr[q].k.ip = ip)
      /\ \/ FreeFile = {} /\ Fail(p, t, ip)
         \/ /\ FreeFile # {} /\ FreeFd(pr[p]) = {}
            /\ s' = t /\ ft' = [ft EXCEPT ![f] = Taken]
            /\ Continue(p, [at |-> "nofd", ip |-> ip, files |-> <<f>>]) /\ UNCHANGED <<pipes, outstanding>>
         \/ /\ FreeFile # {} /\ FreeFd(pr[p]) # {}
            /\ s' = t
            /\ ft' = [ft EXCEPT ![f] = [Taken EXCEPT !.type = "inode", !.ip = ip,
                        !.readable = "WRONLY" \notin i.mode,
                        !.writable = "WRONLY" \in i.mode \/ "RDWR" \in i.mode]]
            /\ Return(p, [pr[p] EXCEPT !.of[d] = f], d)
            /\ EndOp /\ UNCHANGED pipes

OpenFound(p) ==
  /\ FoundFor(p, "open") /\ "CREATE" \notin Instr(p).mode
  /\ LET ip == pr[p].k.ip
         t == ILock(s, ip)
     IN  IF Ino(t, ip).type = "dir" /\ Instr(p).mode # {} THEN Fail(p, t, ip) ELSE OpenFile(p, t, ip)

TypeOf(i) == CASE i.call = "open" -> "file" [] i.call = "mkdir" -> "dir" [] i.call = "mknod" -> "dev"

\* create() made ip in dp, or found a file: what its caller does next.
Created(p, t, ip) ==
  IF Instr(p).call = "open" THEN OpenFile(p, t, ip)
  ELSE s' = IPut(t, ip) /\ Return(p, pr[p], 0) /\ EndOp /\ UNCHANGED <<ft, pipes>>

\* The new inode a.i of type type in directory dp: its link count, its own
\* entries, its entry in dp.
OwnEntries(t, i, dp) == DirLink(DirLink(IUpdate([t EXCEPT !.ic[dp].ino.nlink = @ + 1], dp), i, Dot, i), i, DotDot, dp)
Linked1(t, i) == IUpdate([t EXCEPT !.ic[i].ino.nlink = 1], i)
NewInode(a, dp, nm, type) ==
  LET n == Linked1(ILock(a.s, a.i), a.i)
  IN  IF a.i = 0 THEN a
      ELSE [a EXCEPT !.s = IPut(DirLink(IF type = "dir" THEN OwnEntries(n, a.i, dp) ELSE n, dp, nm, a.i), dp)]

Creating(p) == \E c \in {"open", "mkdir", "mknod"} : FoundFor(p, c) /\ Parent(Instr(p))
MadeIn(p, n) == Created(p, n.s, n.i)
CreateIn(p, k, t, type) ==
  DirOff(t, k.ip, k.name) = -1 /\ MadeIn(p, NewInode(IAlloc(t, type), k.ip, k.name, type))
CreateNew(p) == Creating(p) /\ CreateIn(p, pr[p].k, ILock(s, pr[p].k.ip), TypeOf(Instr(p)))

\* The name exists: the directory is unlocked before the inode is locked.
CreateOver(p, k, t, ip) ==
  ip # 0 /\ s' = IPut(IGet(t, ip), k.ip) /\ Continue(p, [k EXCEPT !.at = "exists", !.ip = ip])
CreateFound(p) ==
  /\ Creating(p)
  /\ LET k == pr[p].k
         t == ILock(s, k.ip)
     IN  CreateOver(p, k, t, Lookup(t, k.ip, k.name))
  /\ UNCHANGED <<ft, pipes, outstanding>>

CreateExists(p) ==
  /\ In(p, "exists")
  /\ LET ip == pr[p].k.ip
         t == ILock(s, ip)
     IN  IF TypeOf(Instr(p)) = "file" /\ Ino(t, ip).type = "file" THEN Created(p, t, ip) ELSE Fail(p, t, ip)

-----------------------------------------------------------------------------
(* link, unlink, chdir, exec                                               *)

LinkOld(p) ==
  /\ FoundFor(p, "link") /\ pr[p].k.old = 0
  /\ LET ip == pr[p].k.ip
         t == ILock(s, ip)
         n == IUpdate([t EXCEPT !.ic[ip].ino.nlink = @ + 1], ip)
         new == Instr(p).new
     IN  IF Ino(t, ip).type = "dir" THEN Fail(p, t, ip)
         ELSE /\ s' = NamexStart(n, pr[p].cwd, new)
              /\ Continue(p, [at |-> "walk", ip |-> NamexFrom(pr[p].cwd, new), elems |-> new.elems,
                              parent |-> TRUE, old |-> ip])
              /\ UNCHANGED <<ft, pipes, outstanding>>

LinkNew(p) ==
  /\ FoundFor(p, "link") /\ pr[p].k.old # 0
  /\ LET k == pr[p].k
         t == ILock(s, k.ip)
     IN  /\ DirOff(t, k.ip, k.name) = -1
         /\ s' = IPut(IPut(DirLink(t, k.ip, k.name, k.old), k.ip), k.old)
  /\ Return(p, pr[p], 0) /\ EndOp /\ UNCHANGED <<ft, pipes>>

\* The new name exists; its directory is given up before the link count is
\* taken back.
LinkExists(p) ==
  /\ FoundFor(p, "link") /\ pr[p].k.old # 0
  /\ LET k == pr[p].k
         t == ILock(s, k.ip)
     IN  DirOff(t, k.ip, k.name) # -1 /\ s' = IPut(t, k.ip) /\ Continue(p, [k EXCEPT !.ip = 0])
  /\ UNCHANGED <<ft, pipes, outstanding>>

\* Mutant: the link count is not taken back.
UnlinkedNot(t, ip) == t

\* The inode with one link less.
Unlinked(t, ip) == IUpdate([t EXCEPT !.ic[ip].ino.nlink = @ - 1], ip)

LinkBad(p) ==
  /\ In(p, "found") /\ pr[p].k.ip = 0 /\ pr[p].k.old # 0
  /\ LET ip == pr[p].k.old IN Fail(p, Unlinked(ILock(s, ip), ip), ip)

\* sys_unlink()'s test of an inode: not a directory with entries.
Removable(t, ip) == Ino(t, ip).type = "dir" => IsDirEmpty(t, ip)

\* sys_unlink() with dp (state t), then ip (state u) locked: the entry at off is
\* cleared, then the link counts, the directory's first.
Clear(u, dp, ip, off) ==
  LET w == WriteI(u, dp, off, <<Zero>>)
  IN  IF Ino(u, ip).type = "dir" THEN Unlinked(w, dp) ELSE w
UnlinkIn(p, u, dp, ip, off) ==
  CASE ~Removable(u, ip) -> Fail(p, IPut(u, ip), dp)
    [] OTHER -> /\ s' = IPut(Unlinked(IPut(Clear(IF Ino(u, ip).nlink < 1 THEN Panic(u, "unlink") ELSE u, dp, ip, off), dp), ip), ip)
                /\ Return(p, pr[p], 0) /\ EndOp /\ UNCHANGED <<ft, pipes>>
UnlinkAt(p, t, dp, nm, ip) ==
  IF Cut(nm) \in {Dot, DotDot} \/ ip = 0 THEN Fail(p, t, dp)
  ELSE UnlinkIn(p, ILock(IGet(t, ip), ip), dp, ip, DirOff(t, dp, nm))
UnlinkFound(p) ==
  /\ FoundFor(p, "unlink")
  /\ LET k == pr[p].k
         t == ILock(s, k.ip)
     IN  UnlinkAt(p, t, k.ip, k.name, Lookup(t, k.ip, k.name))

\* The old working directory is put before cwd is set.
ChdirFound(p) ==
  /\ FoundFor(p, "chdir")
  /\ LET ip == pr[p].k.ip
         t == ILock(s, ip)
     IN  IF Ino(t, ip).type # "dir" THEN Fail(p, t, ip)
         ELSE /\ s' = IPut(t, pr[p].cwd) /\ Return(p, [pr[p] EXCEPT !.cwd = ip], 0)
              /\ EndOp /\ UNCHANGED <<ft, pipes>>

\* exec(): a file that starts with an ELF header replaces the program; the
\* descriptors and the working directory stay.  Argument lists that do not fit
\* the stack page have no code.
ExecFound(p) ==
  /\ FoundFor(p, "exec")
  /\ LET ip == pr[p].k.ip
         t == ILock(s, ip)
         q == pr[p]
         code == Head(q.code).code
     IN  IF ReadI(t, ip, 0, 1) # <<Byte("elf")>> \/ code = <<>> THEN Fail(p, t, ip)
         ELSE /\ s' = IPut(t, ip) /\ EndOp
              /\ pr' = [pr EXCEPT ![p] = [q EXCEPT !.code = code, !.reg = <<>>, !.buf = <<>>, !.k = User]]
              /\ UNCHANGED <<ft, pipes, oops>>

-----------------------------------------------------------------------------
(* Descriptors, read and write                                             *)

\* argfd(): the file of the descriptor that variable v holds, or 0.
FileOf(q, v) == IF Reg(q, v) \in Fd THEN q.of[Reg(q, v)] ELSE 0

\* A call with a descriptor that is not open, or not open for this, fails.
BadFd(p) ==
  /\ \/ (Calls(p, "close") \/ Calls(p, "dup")) /\ FileOf(pr[p], Instr(p).fd) = 0
     \/ /\ Calls(p, "read")
        /\ LET f == FileOf(pr[p], Instr(p).fd) IN f = 0 \/ ~ft[f].readable
     \/ /\ Calls(p, "write")
        /\ LET f == FileOf(pr[p], Instr(p).fd) IN f = 0 \/ ~ft[f].writable
     \/ /\ Calls(p, "fstat")
        /\ LET f == FileOf(pr[p], Instr(p).fd) IN f = 0 \/ ft[f].type # "inode"
  /\ Return(p, pr[p], -1)
  /\ UNCHANGED <<s, ft, pipes, outstanding>>

\* fstat() of an inode: filestat() and stati().
FstatFd(p) ==
  /\ Calls(p, "fstat")
  /\ LET f == FileOf(pr[p], Instr(p).fd)
     IN  /\ f # 0 /\ ft[f].type = "inode"
         /\ s' = ILock(s, ft[f].ip)
         /\ pr' = [pr EXCEPT ![p].code = Instr(p).switch[Ino(s', ft[f].ip).type] \o Tail(@)]
  /\ UNCHANGED <<ft, pipes, outstanding, oops>>

DupFd(p) ==
  /\ Calls(p, "dup") /\ FileOf(pr[p], Instr(p).fd) # 0
  /\ LET f == FileOf(pr[p], Instr(p).fd)
         d == First(FreeFd(pr[p]))
     IN  IF FreeFd(pr[p]) = {} THEN Return(p, pr[p], -1) /\ UNCHANGED ft
         ELSE Return(p, [pr[p] EXCEPT !.of[d] = f], d) /\ ft' = [ft EXCEPT ![f].ref = @ + 1]
  /\ UNCHANGED <<s, pipes, outstanding>>

\* pipeclose() for file f.
EndClosed(f) ==
  IF ft[f].writable THEN [pipes EXCEPT ![ft[f].pipe].writeopen = FALSE]
                    ELSE [pipes EXCEPT ![ft[f].pipe].readopen = FALSE]

\* The pipe's memory is freed when both ends are closed.
Freed(ps) == [x \in DOMAIN ps |-> IF ps[x].readopen \/ ps[x].writeopen THEN ps[x] ELSE NoPipe]

\* fileclose(): the last reference closes the pipe's end, or leaves the inode k
\* to be put in a transaction of its own.
FileClose(f) ==
  /\ ft' = [ft EXCEPT ![f] = IF @.ref = 1 THEN NoFile ELSE [@ EXCEPT !.ref = @ - 1]]
  /\ pipes' = IF ft[f].ref = 1 /\ ft[f].type = "pipe" THEN Freed(EndClosed(f)) ELSE pipes
LastInode(f) == ft[f].ref = 1 /\ ft[f].type = "inode"

CloseFd(p) ==
  /\ Calls(p, "close") /\ FileOf(pr[p], Instr(p).fd) # 0
  /\ LET d == Reg(pr[p], Instr(p).fd)
         f == pr[p].of[d]
         q == [pr[p] EXCEPT !.of[d] = 0]
     IN  /\ FileClose(f)
         /\ IF LastInode(f)
            THEN pr' = [pr EXCEPT ![p] = [q EXCEPT !.k = [at |-> "put", ip |-> ft[f].ip]]] /\ UNCHANGED oops
            ELSE Return(p, q, 0)
  /\ UNCHANGED <<s, outstanding>>

\* begin_op(); iput(); end_op(): for a killed or exiting process, on to exit.
ClosePut(p) ==
  /\ In(p, "put")
  /\ s' = IPut(s, pr[p].k.ip)
  /\ IF Instr(p).call = "close" THEN Return(p, pr[p], 0) ELSE Continue(p, [at |-> "exit"])
  /\ UNCHANGED <<ft, pipes, outstanding>>

\* q after a read of data: the loop of a program goes round.
Received(q, data) ==
  LET i == Head(q.code)
      buf == IF i.loop /\ i.body = <<>> THEN q.buf \o data ELSE data
  IN  IF i.loop /\ data # <<>> THEN [q EXCEPT !.code = i.body \o @, !.buf = buf, !.k = User]
      ELSE Ret([q EXCEPT !.buf = IF i.loop THEN @ ELSE buf], Len(data))
Receive(p, data) ==
  /\ pr' = [pr EXCEPT ![p] = Received(pr[p], data)]
  /\ oops' = (oops \/ (~Instr(p).loop /\ ~Good(Instr(p), Len(data))))

\* fileread() of an inode; the console is at end of file.
ReadInode(p) ==
  /\ Calls(p, "read")
  /\ LET f == FileOf(pr[p], Instr(p).fd)
         t == ILock(s, ft[f].ip)
         data == IF Ino(t, ft[f].ip).type = "dev" THEN <<>> ELSE ReadI(t, ft[f].ip, ft[f].off, Instr(p).n)
     IN  /\ f # 0 /\ ft[f].readable /\ ft[f].type = "inode"
         /\ s' = t
         /\ ft' = [ft EXCEPT ![f].off = @ + Len(data)]
         /\ Receive(p, data)
  /\ UNCHANGED <<pipes, outstanding>>

ReadPipe(p) ==
  /\ Calls(p, "read")
  /\ LET f == FileOf(pr[p], Instr(p).fd)
         x == ft[f].pipe
         n == IF Len(pipes[x].data) < Instr(p).n THEN Len(pipes[x].data) ELSE Instr(p).n
     IN  /\ f # 0 /\ ft[f].readable /\ ft[f].type = "pipe"
         /\ pipes[x].data # <<>> \/ ~pipes[x].writeopen
         /\ pipes' = [pipes EXCEPT ![x].data = SubSeq(@, n + 1, Len(@))]
         /\ Receive(p, SubSeq(pipes[x].data, 1, n))
  /\ UNCHANGED <<s, ft, outstanding>>

\* What a write has left to write: kept in k between its steps.
Left(p) == IF In(p, "write") THEN pr[p].k.left ELSE IF Instr(p).buf THEN pr[p].buf ELSE Instr(p).data
Total(p) == IF Instr(p).buf THEN Len(pr[p].buf) ELSE Len(Instr(p).data)
Writes(p) == Calls(p, "write") \/ In(p, "write")

\* Mutant: the offset is the writer's own and not the file's.
OffsetStays(f, n) == [ft EXCEPT ![f].off = @]

\* The offset is in struct file, which processes share.
OffsetMoves(f, n) == [ft EXCEPT ![f].off = @ + n]

\* One chunk of filewrite(): one transaction.
WriteInode(p) ==
  /\ Writes(p)
  /\ LET f == FileOf(pr[p], Instr(p).fd)
         left == Left(p)
         n == IF Len(left) < MaxChunk THEN Len(left) ELSE MaxChunk
         t == ILock(s, ft[f].ip)
         dev == Ino(t, ft[f].ip).type = "dev"
     IN  /\ f # 0 /\ ft[f].writable /\ ft[f].type = "inode"
         /\ \/ /\ left # <<>> /\ ~dev /\ WriteRefused(t, ft[f].ip, ft[f].off, n)
               /\ s' = t /\ Return(p, pr[p], -1) /\ UNCHANGED ft
            \/ /\ left # <<>> /\ (dev \/ ~WriteRefused(t, ft[f].ip, ft[f].off, n))
               /\ s' = IF dev THEN t ELSE WriteI(t, ft[f].ip, ft[f].off, SubSeq(left, 1, n))
               /\ ft' = OffsetMoves(f, n)
               /\ Continue(p, [at |-> "write", left |-> SubSeq(left, n + 1, Len(left))])
            \/ left = <<>> /\ Return(p, pr[p], Total(p)) /\ UNCHANGED <<s, ft>>
  /\ UNCHANGED <<pipes, outstanding>>

\* pipewrite(): what fits, then wait for the reader; without one it fails.
WritePipe(p) ==
  /\ Writes(p)
  /\ LET f == FileOf(pr[p], Instr(p).fd)
         x == ft[f].pipe
         left == Left(p)
         room == PIPESIZE - Len(pipes[x].data)
         n == IF Len(left) < room THEN Len(left) ELSE room
     IN  /\ f # 0 /\ ft[f].writable /\ ft[f].type = "pipe"
         /\ \/ /\ left # <<>> /\ n > 0
               /\ pipes' = [pipes EXCEPT ![x].data = @ \o SubSeq(left, 1, n)]
               /\ Continue(p, [at |-> "write", left |-> SubSeq(left, n + 1, Len(left))])
            \/ /\ left # <<>> /\ n = 0 /\ (~pipes[x].readopen \/ pr[p].killed)
               /\ Return(p, pr[p], -1) /\ UNCHANGED pipes
            \/ left = <<>> /\ Return(p, pr[p], Total(p)) /\ UNCHANGED pipes
  /\ UNCHANGED <<s, ft, outstanding>>

\* fileclose() and iunlockput() of an open() that found no descriptor.
NoFd(p) ==
  /\ In(p, "nofd")
  /\ FileClose(Head(pr[p].k.files))
  /\ s' = IPut(s, pr[p].k.ip) /\ Return(p, pr[p], -1) /\ EndOp

\* pipealloc(): filealloc() twice; without a file, what there is is given back.
PipeFile(p) ==
  /\ Calls(p, "pipe") \/ (In(p, "pipe") /\ Len(pr[p].k.files) < 2)
  /\ LET files == IF In(p, "pipe") THEN pr[p].k.files ELSE <<>>
         f == First(FreeFile)
     IN  IF FreeFile = {} THEN Continue(p, [at |-> "nopipe", files |-> files]) /\ UNCHANGED ft
         ELSE Continue(p, [at |-> "pipe", files |-> Append(files, f)]) /\ ft' = [ft EXCEPT ![f] = Taken]
  /\ UNCHANGED <<s, pipes, outstanding>>

\* kalloc(), and the two files become the ends of the pipe.
PipeAlloc(p) ==
  /\ In(p, "pipe") /\ Len(pr[p].k.files) = 2
  /\ LET x == First({y \in DOMAIN pipes : pipes[y] = NoPipe})
         files == pr[p].k.files
         end == [Taken EXCEPT !.type = "pipe", !.pipe = x]
     IN  IF \A y \in DOMAIN pipes : pipes[y] # NoPipe
         THEN Continue(p, [at |-> "nopipe", files |-> files]) /\ UNCHANGED <<ft, pipes>>
         ELSE /\ pipes' = [pipes EXCEPT ![x] = [data |-> <<>>, readopen |-> TRUE, writeopen |-> TRUE]]
              /\ ft' = [ft EXCEPT ![files[1]] = [end EXCEPT !.readable = TRUE],
                                  ![files[2]] = [end EXCEPT !.writable = TRUE]]
              /\ Continue(p, [at |-> "piped", files |-> files])
  /\ UNCHANGED <<s, outstanding>>

\* Mutant: the descriptor of the read end is not given back.
PipeFdKept(p) ==
  /\ In(p, "piped")
  /\ LET fd0 == First(FreeFd(pr[p]))
         fd1 == First(FreeFd(pr[p]) \ {fd0})
         files == pr[p].k.files
         free == Cardinality(FreeFd(pr[p]))
     IN  IF free < 2
         THEN /\ pr' = [pr EXCEPT ![p].k = [at |-> "nopipe", files |-> files],
                                  ![p].of = IF free = 0 THEN @ ELSE [@ EXCEPT ![fd0] = files[1]]]
              /\ UNCHANGED oops
         ELSE Return(p, [pr[p] EXCEPT !.of[fd0] = files[1], !.of[fd1] = files[2],
                                      !.reg = SetReg(pr[p], "w", fd1)], fd0)
  /\ UNCHANGED <<s, ft, pipes, outstanding>>

\* The rest of sys_pipe(): v holds the descriptor that is read, and the next one
\* is the one that is written; a descriptor that is alone is given back, which
\* nobody else can see.
PipeFds(p) ==
  /\ In(p, "piped")
  /\ LET fd0 == First(FreeFd(pr[p]))
         fd1 == First(FreeFd(pr[p]) \ {fd0})
         files == pr[p].k.files
     IN  IF Cardinality(FreeFd(pr[p])) < 2 THEN Continue(p, [at |-> "nopipe", files |-> files])
         ELSE Return(p, [pr[p] EXCEPT !.of[fd0] = files[1], !.of[fd1] = files[2],
                                      !.reg = SetReg(pr[p], "w", fd1)], fd0)
  /\ UNCHANGED <<s, ft, pipes, outstanding>>

\* The fileclose() of each file of a pipe() that fails.
NoPipeLeft(p) ==
  /\ In(p, "nopipe")
  /\ LET files == pr[p].k.files
     IN  IF files = <<>> THEN Return(p, pr[p], -1) /\ UNCHANGED <<ft, pipes>>
         ELSE FileClose(Head(files)) /\ Continue(p, [at |-> "nopipe", files |-> Tail(files)])
  /\ UNCHANGED <<s, outstanding>>

-----------------------------------------------------------------------------
(* Processes                                                               *)

\* filedup() of every descriptor of q.
FileDups(q) == [f \in File |-> [ft[f] EXCEPT !.ref = @ + Cardinality({d \in Fd : q.of[d] = f})]]

\* fork(): the child has the parent's descriptors, directory and variables.
ForkCall(p) ==
  /\ Calls(p, "fork")
  /\ LET free == {c \in Proc : pr[c].st = "unused"}
         c == First(free)
         q == pr[p]
         child == [q EXCEPT !.parent = p, !.code = Instr(p).code, !.killed = FALSE]
     IN  IF free = {} THEN Return(p, q, -1) /\ UNCHANGED <<s, ft>>
         ELSE /\ pr' = [pr EXCEPT ![c] = child, ![p] = Ret(q, c)]
              /\ oops' = (oops \/ ~Good(Instr(p), c))
              /\ ft' = FileDups(q)
              /\ s' = IDup(s, q.cwd)
  /\ UNCHANGED <<pipes, outstanding>>

\* exit(), or a killed process on its way out of the kernel: from where it
\* sleeps in piperead(), wait() or sleep() too.
ExitStart(p) ==
  /\ \/ Calls(p, "exit")
     \/ In(p, "user") /\ pr[p].killed
  /\ p # initproc
  /\ Continue(p, [at |-> "exit"])
  /\ UNCHANGED <<s, ft, pipes, outstanding>>

OpenFds(q) == {d \in Fd : q.of[d] # 0}

ExitClose(p) ==
  /\ In(p, "exit") /\ OpenFds(pr[p]) # {}
  /\ LET d == First(OpenFds(pr[p]))
         f == pr[p].of[d]
     IN  /\ FileClose(f)
         /\ pr' = [pr EXCEPT ![p].of[d] = 0,
                             ![p].code = <<Exit>>,
                             ![p].k = IF LastInode(f) THEN [at |-> "put", ip |-> ft[f].ip] ELSE @]
  /\ UNCHANGED <<s, outstanding, oops>>

\* The rest of exit(): the working directory, the children, the ZOMBIE.
ExitDone(p) ==
  /\ In(p, "exit") /\ OpenFds(pr[p]) = {}
  /\ s' = IPut(s, pr[p].cwd)
  /\ pr' = [c \in Proc |->
              IF c = p THEN [Unused EXCEPT !.st = "zombie", !.parent = pr[p].parent]
              ELSE IF pr[c].st # "unused" /\ pr[c].parent = p THEN [pr[c] EXCEPT !.parent = initproc]
              ELSE pr[c]]
  /\ UNCHANGED <<ft, pipes, outstanding, oops>>

Children(p) == {c \in Proc : pr[c].st # "unused" /\ pr[c].parent = p}
Zombies(p) == {c \in Children(p) : pr[c].st = "zombie"}

\* wait(), once or, for the program's loop of it, until it fails; init's loop
\* does not end.
WaitCall(p) ==
  /\ Calls(p, "wait") \/ Calls(p, "reap")
  /\ LET z == First(Zombies(p))
         q == pr[p]
     IN  \/ /\ Zombies(p) # {}
            /\ pr' = [pr EXCEPT ![z] = Unused, ![p] = IF Instr(p).call = "reap" THEN q ELSE Ret(q, z)]
            /\ oops' = (oops \/ (Instr(p).call = "wait" /\ ~Good(Instr(p), z)))
         \/ Children(p) = {} /\ p # initproc /\ Return(p, q, -1)
  /\ UNCHANGED <<s, ft, pipes, outstanding>>

KillCall(p) ==
  /\ Calls(p, "kill")
  /\ LET c == Reg(pr[p], Instr(p).pid)
         live == c \in Proc /\ pr[c].st # "unused"
     IN  /\ pr' = IF live THEN [[pr EXCEPT ![p] = Ret(@, 0)] EXCEPT ![c].killed = TRUE]
                          ELSE [pr EXCEPT ![p] = Ret(@, -1)]
         /\ UNCHANGED oops
  /\ UNCHANGED <<s, ft, pipes, outstanding>>

\* What a program does between its calls.
CheckBuf(p) ==
  /\ Calls(p, "check")
  /\ pr' = [pr EXCEPT ![p] = [Ret(@, 0) EXCEPT !.buf = <<>>]]
  /\ oops' = (oops \/ pr[p].buf \notin Instr(p).accept)
  /\ UNCHANGED <<s, ft, pipes, outstanding>>
\* concreate's reading of a directory: no name is weird, a duplicate or missing.
CheckListing(p) ==
  /\ Calls(p, "listed")
  /\ LET i == Instr(p)
         named == SelectSeq(pr[p].buf, LAMBDA u : u.inum # 0 /\ u.name.c = i.c)
     IN  oops' = (oops \/ Len(named) # i.n \/ {named[k].name.n : k \in DOMAIN named} # 1 .. i.n)
  /\ pr' = [pr EXCEPT ![p] = [Ret(@, 0) EXCEPT !.buf = <<>>]]
  /\ UNCHANGED <<s, ft, pipes, outstanding>>
EitherOf(p) ==
  /\ Calls(p, "either")
  /\ \E code \in Instr(p).alts : pr' = [pr EXCEPT ![p].code = code \o Tail(@)]
  /\ UNCHANGED <<s, ft, pipes, outstanding, oops>>

\* stat() of an entry in use, and a line for it unless it is gone.
StatEntry(dir, e) ==
  LET found == <<Close("st"), Write("1", <<e.name.c>>, Whatever)>>
  IN  IF e.inum = 0 THEN <<>>
      ELSE <<Open("st", Path(FALSE, Append(dir, e.name)), {}, Whatever),
             Fstat("st", [file |-> found, dir |-> found, dev |-> found])>>
EntryRead(p) ==
  /\ Calls(p, "entry")
  /\ pr' = [pr EXCEPT ![p].code = StatEntry(Instr(p).dir, Head(pr[p].buf)) \o Tail(@)]
  /\ UNCHANGED <<s, ft, pipes, outstanding, oops>>

-----------------------------------------------------------------------------
\* Every program has ended and init waits for the next child.
Ended == \A p \in Proc \ {initproc} : pr[p].st = "unused"
Idle == Ended /\ Calls(initproc, "reap") /\ UNCHANGED vars

Step(p) ==
  \/ BeginPath(p) \/ Walk(p) \/ NotFound(p) \/ OpenFound(p)
  \/ CreateNew(p) \/ CreateFound(p) \/ CreateExists(p)
  \/ LinkOld(p) \/ LinkNew(p) \/ LinkExists(p) \/ LinkBad(p)
  \/ UnlinkFound(p) \/ ChdirFound(p) \/ ExecFound(p)
  \/ BadFd(p) \/ FstatFd(p) \/ DupFd(p) \/ CloseFd(p) \/ ClosePut(p)
  \/ ReadInode(p) \/ ReadPipe(p) \/ WriteInode(p) \/ WritePipe(p)
  \/ PipeFile(p) \/ PipeAlloc(p) \/ PipeFds(p) \/ NoPipeLeft(p) \/ NoFd(p)
  \/ ForkCall(p) \/ ExitStart(p) \/ ExitClose(p) \/ ExitDone(p)
  \/ WaitCall(p) \/ KillCall(p) \/ CheckBuf(p) \/ CheckListing(p) \/ EitherOf(p) \/ EntryRead(p)
Next == (\E p \in Proc : Step(p)) \/ Idle

\* The machine after mkfs(files), with init about to run code from the root.
Boot(files, code) ==
  /\ s = IDup(Mkfs(files), ROOTINO)
  /\ ft = [f \in File |-> NoFile]
  /\ pipes = [x \in 1 .. NPIPE |-> NoPipe]
  /\ pr = [p \in Proc |-> IF p = initproc THEN [Unused EXCEPT !.st = "run", !.code = code, !.cwd = ROOTINO]
                          ELSE Unused]
  /\ outstanding = 0
  /\ oops = FALSE

-----------------------------------------------------------------------------
(* Properties                                                              *)

\* Between transactions, which is where the log commits, the disk is
\* consistent: links are counted, names lead to inodes, blocks have one owner
\* and none is lost (fs.c, create(), sys_link(), sys_unlink()).
CommitsConsistent == outstanding = 0 => Consistent(s)

\* What is cached of an inode is what is on the disk: every change of an inode
\* ends in iupdate() before the inode is unlocked (fs.c).
CacheCoherent == \A i \in Inum : s.ic[i].ref > 0 /\ s.ic[i].valid => s.ic[i].ino = s.dino[i]

\* The references to inodes: those of open files, of working directories and
\* of calls in progress.
Holds(p) ==
  LET k == pr[p].k
  IN  CASE k.at \in {"walk", "found"} -> <<k.ip, k.old>> [] k.at \in {"exists", "put", "nofd"} -> <<k.ip>> [] OTHER -> <<>>
RefsCounted ==
  \A i \in Inum :
    s.ic[i].ref =   Cardinality({f \in File : ft[f].type = "inode" /\ ft[f].ip = i})
                  + Cardinality({p \in Proc : pr[p].st = "run" /\ pr[p].cwd = i})
                  + Cardinality({<<p, n>> \in Proc \X {1, 2} : n \in DOMAIN Holds(p) /\ Holds(p)[n] = i})

\* The references to files: a file is in use exactly as often as it is in a
\* descriptor table, or once for the open() or pipe() that has taken it, and a
\* pipe's end is open exactly while a file has it.
InHand(p) == IF "files" \in DOMAIN pr[p].k THEN {pr[p].k.files[n] : n \in DOMAIN pr[p].k.files} ELSE {}
FilesCounted ==
  /\ \A f \in File : ft[f].ref =   Cardinality({<<p, d>> \in Proc \X Fd : pr[p].of[d] = f})
                                + Cardinality({p \in Proc : f \in InHand(p)})
  /\ \A x \in DOMAIN pipes :
       /\ pipes[x].readopen <=> \E f \in File : ft[f].type = "pipe" /\ ft[f].pipe = x /\ ft[f].readable
       /\ pipes[x].writeopen <=> \E f \in File : ft[f].type = "pipe" /\ ft[f].pipe = x /\ ft[f].writable

\* Every reference is counted, in the inode cache and in the file table, on
\* the paths through the calls, fork() and exit(), those too on which open(),
\* dup() or pipe() finds no file, no descriptor or no page: iput(), filedup() and
\* fileclose() are where they must be, no table overflows for references that
\* were not given back, and no call panics (fs.c, file.c, sysfile.c, proc.c).
CountsExact == s.panic = "" /\ RefsCounted /\ FilesCounted
=============================================================================
