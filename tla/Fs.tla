--------------------------------- MODULE Fs ---------------------------------
(***************************************************************************)
(* The file system of project4/fs.c, as functions from one state of it to  *)
(* the next, and mkfs.c, which makes the first state.                      *)
(*                                                                         *)
(* A state s is a record:                                                  *)
(*   used   the free map: the blocks whose bit is set                      *)
(*   blk    the blocks, each with two views: u, its BSIZE units (a unit is *)
(*          the size of a directory entry), and a, the block numbers in an *)
(*          indirect block                                                 *)
(*   dino   the inodes on disk                                             *)
(*   ic     the inode cache, indexed by inode number: ref, I_VALID and the *)
(*          copy of the inode                                              *)
(*   panic  what panic() was called with, or ""                            *)
(*                                                                         *)
(* Each function is called with the inodes it works on locked; Kernel      *)
(* makes one step of what happens while they are.                          *)
(***************************************************************************)
EXTENDS Integers, Sequences, FiniteSets, SequencesExt

CONSTANTS NBLOCK,     \* data blocks of the disk
          NINODES,    \* inodes of the disk: 1 .. NINODES
          NINODE,     \* entries of the inode cache
          BSIZE,      \* units in a block, and block numbers in an indirect block
          NDIRECT,    \* direct blocks of an inode
          DIRSIZ      \* longest name

ASSUME FsAssumption ==
  /\ {NBLOCK, NINODES, NINODE, BSIZE, NDIRECT, DIRSIZ} \subseteq Nat \ {0}

Block == 1 .. NBLOCK
Inum == 1 .. NINODES
NoBlock == 0
ROOTINO == 1
NINDIRECT == BSIZE
MAXFILE == NDIRECT + NINDIRECT

\* A name is its letter and its length; names are compared up to DIRSIZ.
Name(c, n) == [c |-> c, n |-> n]
Dot == Name(".", 1)
DotDot == Name(".", 2)

\* A unit is a directory entry; a unit of a file's data has inode number 1.
Dirent(i, nm) == [inum |-> i, name |-> nm]
Zero == Dirent(0, Name("", 0))
Byte(c) == Dirent(1, Name(c, 1))

ZeroBlock == [u |-> [k \in 0 .. BSIZE - 1 |-> Zero], a |-> [k \in 0 .. NINDIRECT - 1 |-> NoBlock]]
FreeInode == [type |-> "none", nlink |-> 0, size |-> 0, addrs |-> [k \in 0 .. NDIRECT |-> NoBlock]]

Panic(s, what) == [s EXCEPT !.panic = IF @ = "" THEN what ELSE @]

-----------------------------------------------------------------------------
(* Blocks                                                                  *)

\* The first block whose bit is clear, marked and zeroed.
Balloc(s) ==
  IF Block \subseteq s.used
  THEN [s |-> Panic(s, "balloc: out of blocks"), b |-> NoBlock]
  ELSE LET b == CHOOSE b \in Block \ s.used : \A c \in Block \ s.used : b <= c
       IN  [s |-> [s EXCEPT !.used = @ \cup {b}, !.blk[b] = ZeroBlock], b |-> b]

Bfree(s, b) ==
  IF b \notin s.used THEN Panic(s, "freeing free block") ELSE [s EXCEPT !.used = @ \ {b}]

-----------------------------------------------------------------------------
(* Inodes                                                                  *)

Ino(s, i) == s.ic[i].ino

IUpdate(s, i) == [s EXCEPT !.dino[i] = s.ic[i].ino]

\* iget(): a cached inode is shared, an uncached one takes an empty entry.
IGet(s, i) ==
  IF s.ic[i].ref = 0 /\ Cardinality({j \in Inum : s.ic[j].ref > 0}) >= NINODE
  THEN Panic(s, "iget: no inodes")
  ELSE [s EXCEPT !.ic[i].ref = @ + 1, !.ic[i].valid = @ /\ s.ic[i].ref > 0]

IDup(s, i) == [s EXCEPT !.ic[i].ref = @ + 1]

\* ilock() reads the inode unless the copy is valid.
ILock(s, i) ==
  CASE s.ic[i].ref < 1 -> Panic(s, "ilock")
    [] s.ic[i].valid -> s
    [] s.dino[i].type = "none" -> Panic(s, "ilock: no type")
    [] OTHER -> [s EXCEPT !.ic[i].ino = s.dino[i], !.ic[i].valid = TRUE]

\* The first free inode, or 0 with a panic.
IAlloc(s, type) ==
  LET free == {i \in Inum : s.dino[i].type = "none"}
      i == CHOOSE i \in free : \A j \in free : i <= j
  IN  IF free = {} THEN [s |-> Panic(s, "ialloc: no inodes"), i |-> 0]
      ELSE [s |-> IGet([s EXCEPT !.dino[i] = [FreeInode EXCEPT !.type = type]], i), i |-> i]

\* bmap() puts the block that balloc() returned into addrs, or into the
\* indirect block ind.
SetAddr(t, i, k) == [t EXCEPT !.s.ic[i].ino.addrs[k] = t.b]
SetFar(t, ind, k) == IF t.b = NoBlock THEN t ELSE [t EXCEPT !.s.blk[ind].a[k] = t.b]

\* bmap()'s second half: block k of those that the indirect block t.b lists.
Far(t, k) ==
  CASE t.b = NoBlock -> t
    [] t.b # NoBlock /\ t.s.blk[t.b].a[k] # NoBlock -> [t EXCEPT !.b = t.s.blk[t.b].a[k]]
    [] OTHER -> SetFar(Balloc(t.s), t.b, k)

\* The block in addrs[k], allocated if there is none.
Near(s, i, k) ==
  IF Ino(s, i).addrs[k] # NoBlock THEN [s |-> s, b |-> Ino(s, i).addrs[k]] ELSE SetAddr(Balloc(s), i, k)

\* bmap(): the block that holds block bn of inode i, allocated if there is none.
BMap(s, i, bn) ==
  CASE bn < NDIRECT -> Near(s, i, bn)
    [] bn \in NDIRECT .. MAXFILE - 1 -> Far(Near(s, i, NDIRECT), bn - NDIRECT)
    [] OTHER -> [s |-> Panic(s, "bmap: out of range"), b |-> NoBlock]

\* The blocks that an inode's addrs reach, its indirect block last.
BlocksOf(s, ino) ==
  LET direct == [k \in 1 .. NDIRECT |-> ino.addrs[k - 1]]
      ind == ino.addrs[NDIRECT]
      far == IF ind = NoBlock THEN <<>>
             ELSE Append([k \in 1 .. NINDIRECT |-> s.blk[ind].a[k - 1]], ind)
  IN  SelectSeq(direct \o far, LAMBDA b : b # NoBlock)

\* itrunc(): every block of the inode is freed.
ITrunc(s, i) ==
  LET f == FoldLeft(Bfree, s, BlocksOf(s, Ino(s, i)))
  IN  IUpdate([f EXCEPT !.ic[i].ino.size = 0, !.ic[i].ino.addrs = FreeInode.addrs], i)

\* iput()'s condition for freeing the inode.
LastPut(s, i) == s.ic[i].ref = 1 /\ s.ic[i].valid /\ Ino(s, i).nlink = 0

\* iput(): the last reference to an inode without links frees it.
IFree(t, i) == [IUpdate([t EXCEPT !.ic[i].ino.type = "none"], i) EXCEPT !.ic[i].valid = FALSE]
IPut(s, i) == [IF LastPut(s, i) THEN IFree(ITrunc(s, i), i) ELSE s EXCEPT !.ic[i].ref = @ - 1]

\* Unit k of inode i.  bmap() allocates nothing here, because no inode has a
\* hole (see Consistent).
Unit(s, i, k) == s.blk[BMap(s, i, k \div BSIZE).b].u[k % BSIZE]

\* readi(): the units from off on, at most n, as a sequence.
ReadI(s, i, off, n) ==
  LET len == IF off + n > Ino(s, i).size THEN Ino(s, i).size - off ELSE n
  IN  [k \in 1 .. len |-> Unit(s, i, off + k - 1)]

\* Mutant: writei() grows the file without writing the inode back.
GrownQuietly(s, i, end) == [s EXCEPT !.ic[i].ino.size = IF @ < end THEN end ELSE @]

\* writei()'s last step: the inode is written back when the file has grown.
Grown(s, i, end) ==
  IF Ino(s, i).size < end THEN IUpdate([s EXCEPT !.ic[i].ino.size = end], i) ELSE s

\* writei() returns -1 and writes nothing.
WriteRefused(s, i, off, n) == off > Ino(s, i).size \/ off + n > MAXFILE * BSIZE

\* writei(): the units of data from off on.
PutUnit(m, k, u) == IF m.b = NoBlock THEN m.s ELSE [m.s EXCEPT !.blk[m.b].u[k] = u]
WriteI(s, i, off, data) ==
  LET put(t, k) == PutUnit(BMap(t, i, k \div BSIZE), k % BSIZE, data[k - off + 1])
  IN  IF WriteRefused(s, i, off, Len(data)) THEN s
      ELSE Grown(FoldLeft(put, s, [k \in 1 .. Len(data) |-> off + k - 1]), i, off + Len(data))

-----------------------------------------------------------------------------
(* Directories and paths                                                   *)

\* What skipelem() keeps of a name: DIRSIZ characters.
Cut(nm) == [nm EXCEPT !.n = IF @ > DIRSIZ THEN DIRSIZ ELSE @]

\* The offsets of directory d whose entry satisfies P.
Offsets(s, d, P(_)) == {o \in 0 .. Ino(s, d).size - 1 : P(Unit(s, d, o))}
First(S) == CHOOSE o \in S : \A p \in S : o <= p
FirstOr(S, none) == IF S = {} THEN none ELSE First(S)

\* dirlookup(): the offset of the entry called nm, or -1; the inode it names.
DirOff(s, d, nm) == FirstOr(Offsets(s, d, LAMBDA u : u.inum # 0 /\ u.name = Cut(nm)), -1)
DirInum(s, d, nm) == Unit(s, d, DirOff(s, d, nm)).inum

\* dirlink(): a free entry, or a new one at the end, becomes (nm, i).
PutEntry(s, d, off, u) == IF WriteRefused(s, d, off, 1) THEN Panic(s, "dirlink") ELSE WriteI(s, d, off, <<u>>)
DirLink(s, d, nm, i) ==
  PutEntry(s, d, FirstOr(Offsets(s, d, LAMBDA u : u.inum = 0), Ino(s, d).size), Dirent(i, Cut(nm)))

\* isdirempty(): nothing after the first two entries.
IsDirEmpty(s, d) == \A o \in Offsets(s, d, LAMBDA u : u.inum # 0) : o < 2

\* The path of these names, from the root when abs.
Path(abs, elems) == [abs |-> abs, elems |-> elems]

\* namex()'s first inode.
NamexStart(s, cwd, path) == IF path.abs THEN IGet(s, ROOTINO) ELSE IDup(s, cwd)
NamexFrom(cwd, path) == IF path.abs THEN ROOTINO ELSE cwd

-----------------------------------------------------------------------------
(* mkfs                                                                    *)

\* mkfs.c's ialloc(): inodes are handed out in order, with one link.
MkfsIAlloc(s, i, type) ==
  [s EXCEPT !.dino[i] = [FreeInode EXCEPT !.type = type, !.nlink = 1],
            !.ic[i].ino = [FreeInode EXCEPT !.type = type, !.nlink = 1]]

\* iappend(): blocks are handed out in order too.
IAppend(s, i, data) == IUpdate(WriteI(s, i, Ino(s, i).size, data), i)

EmptyDisk ==
  [used |-> {}, blk |-> [b \in Block |-> ZeroBlock], panic |-> "",
   dino |-> [i \in Inum |-> FreeInode],
   ic |-> [i \in Inum |-> [ref |-> 0, valid |-> FALSE, ino |-> FreeInode]]]

\* mkfs's main(): the root directory, then one inode, one entry and the content
\* of each file of the sequence files of <<name, data>>; last the size of the
\* root directory is rounded up.
Mkfs(files) ==
  LET root == IAppend(MkfsIAlloc(EmptyDisk, ROOTINO, "dir"), ROOTINO,
                      <<Dirent(ROOTINO, Dot), Dirent(ROOTINO, DotDot)>>)
      add(s, k) ==
        LET t == IAppend(MkfsIAlloc(s, k + 1, "file"), ROOTINO, <<Dirent(k + 1, Cut(files[k][1]))>>)
        IN  IAppend(t, k + 1, files[k][2])
      s == FoldLeft(add, root, [k \in 1 .. Len(files) |-> k])
      f == [s EXCEPT !.dino[ROOTINO].size = ((@ \div BSIZE) + 1) * BSIZE]
  IN  [f EXCEPT !.ic = EmptyDisk.ic]

-----------------------------------------------------------------------------
(* What a consistent disk is                                               *)

\* The blocks of the inodes, and the entries of the directories, on disk s.  A
\* removed directory that a process is still in has no entries worth counting.
Owned(s) == UNION {LET q == BlocksOf(s, s.dino[i]) IN {<<i, k, q[k]>> : k \in DOMAIN q} : i \in Inum}
DiskBlock(s, ino, bn) ==
  CASE bn < NDIRECT -> ino.addrs[bn]
    [] bn >= NDIRECT /\ ino.addrs[NDIRECT] = NoBlock -> NoBlock
    [] OTHER -> s.blk[ino.addrs[NDIRECT]].a[bn - NDIRECT]
Entries(s) ==
  UNION {{<<d, k, s.blk[DiskBlock(s, s.dino[d], k \div BSIZE)].u[k % BSIZE]>> : k \in 0 .. s.dino[d].size - 1} :
           d \in {d \in Inum : s.dino[d].type = "dir" /\ s.dino[d].nlink > 0}}

\* No inode has a hole, blocks in use are those of the inodes, each of one
\* inode, every link is counted, no directory has a name twice, and every name is
\* of an allocated inode.
Consistent(s) ==
  LET owned == Owned(s)
      names == {e \in Entries(s) : e[3].inum # 0 /\ e[3].name # Dot}
  IN  /\ \A i \in Inum : \A bn \in 0 .. (s.dino[i].size - 1) \div BSIZE : DiskBlock(s, s.dino[i], bn) # NoBlock
      /\ s.used = {o[3] : o \in owned}
      /\ Cardinality(s.used) = Cardinality(owned)
      /\ \A i \in Inum : Cardinality({e \in names : e[3].inum = i}) = s.dino[i].nlink
      /\ Cardinality({<<e[1], e[3].name>> : e \in names}) = Cardinality(names)
      /\ \A e \in names : s.dino[e[3].inum].type # "none"
=============================================================================
