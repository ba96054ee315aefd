------------------------------- MODULE Inodes --------------------------------
(***************************************************************************)
(* Blocks, inodes, their contents, directories and path names: the lower   *)
(* half of kernel/fs.c, as operators on the contents of the disk.          *)
(*                                                                         *)
(*   F = [inode, block, used, panic]                                       *)
(*                                                                         *)
(* has the inodes, the data blocks, the bitmap and whether the kernel has  *)
(* panicked.  A block holds BSIZE units.  A unit is a tuple: a directory   *)
(* entry <<inum, name>>, a block number <<b>>, or a byte <<v>>.            *)
(*                                                                         *)
(* The fields of an inode in memory are a copy of those on disk: whatever  *)
(* changes one calls iupdate() before it unlocks the inode.  Here there is *)
(* only one of the two.                                                    *)
(***************************************************************************)
EXTENDS Integers, Sequences, FiniteSets, FiniteSetsExt, SequencesExt

CONSTANTS
    Inodes, Blocks,     \* their numbers; 0 is none
    BSIZE,              \* units of a block
    NDIRECT, NINDIRECT, \* block numbers in an inode, and in an indirect block
    NLINK_MAX,
    DIRSIZ              \* characters of a name

ROOTINO == 1
MAXFILE == NDIRECT + NINDIRECT

ASSUME InodeAssumption ==
    /\ ROOTINO \in Inodes /\ 0 \notin Inodes \cup Blocks
    /\ NINDIRECT <= BSIZE

zero == <<0>>
zeroBlock == [k \in 0 .. BSIZE - 1 |-> zero]
Fault == <<-1>>         \* a unit that either_copyin() cannot read

NoInode == [type |-> "none", nlink |-> 0, size |-> 0, addrs |-> [k \in 0 .. NDIRECT |-> 0]]

lowest(S) == IF S = {} THEN 0 ELSE Min(S)

(***************************************************************************)
(* Blocks.                                                                 *)
(***************************************************************************)
grant(F, b) ==
    IF b = 0 THEN [F |-> F, addr |-> 0]
    ELSE [F |-> [F EXCEPT !.used = @ \cup {b}, !.block[b] = zeroBlock], addr |-> b]

balloc(F) == grant(F, lowest(Blocks \ F.used))

bfree(F, bs) == [F EXCEPT !.used = @ \ bs, !.panic = @ \/ ~(bs \subseteq F.used)]

\* The k-th block number of inode i, or of the indirect block b, with a new
\* block if there is none.
setAddr(r, i, k) == IF r.addr = 0 THEN r ELSE [r EXCEPT !.F.inode[i].addrs[k] = r.addr]
setEntry(r, b, k) == IF r.addr = 0 THEN r ELSE [r EXCEPT !.F.block[b][k] = <<r.addr>>]

direct(F, i, k) ==
    IF F.inode[i].addrs[k] = 0 THEN setAddr(balloc(F), i, k)
    ELSE [F |-> F, addr |-> F.inode[i].addrs[k]]

indirect(r, k) ==
    IF r.addr = 0 THEN r
    ELSE IF r.F.block[r.addr][k] = zero THEN setEntry(balloc(r.F), r.addr, k)
    ELSE [r EXCEPT !.addr = r.F.block[@][k][1]]

bmap(F, i, bn) ==
    IF bn < NDIRECT THEN direct(F, i, bn) ELSE indirect(direct(F, i, NDIRECT), bn - NDIRECT)

\* All blocks of an inode, as places: k for a direct one, NDIRECT for the
\* indirect one, and above that those it lists.
placesOf(F, i) ==
    LET a == F.inode[i].addrs IN
    {<<k, a[k]>> : k \in {k \in 0 .. NDIRECT : a[k] # 0}}
    \cup (IF a[NDIRECT] = 0 THEN {}
          ELSE {<<NDIRECT + 1 + k, F.block[a[NDIRECT]][k][1]>> :
                    k \in {k \in 0 .. NINDIRECT - 1 : F.block[a[NDIRECT]][k] # zero}})

itrunc(F, i) ==
    [bfree(F, {x[2] : x \in placesOf(F, i)})
        EXCEPT !.inode[i].addrs = NoInode.addrs, !.inode[i].size = 0]

(***************************************************************************)
(* Contents.                                                               *)
(***************************************************************************)

\* Without allocation: every block below the size is there.
addrOf(F, i, bn) ==
    IF bn < NDIRECT THEN F.inode[i].addrs[bn]
    ELSE F.block[F.inode[i].addrs[NDIRECT]][bn - NDIRECT][1]

unitAt(F, i, off) == F.block[addrOf(F, i, off \div BSIZE)][off % BSIZE]

readi(F, i, off, n) ==
    [k \in 1 .. Min({n, F.inode[i].size - off}) |-> unitAt(F, i, off + k - 1)]

\* The units of us up to the first that cannot be read go to the block, from k on.
copyin(block, k, us) ==
    [j \in DOMAIN block |->
        IF j >= k /\ j < k + Len(us) /\ \A m \in 1 .. j - k + 1 : us[m] # Fault
        THEN us[j - k + 1] ELSE block[j]]

\* One turn of the loop of writei(): us go to the block that bmap() returns.  A
\* block that is written in part is kept, but not counted.
written(w, us, r) ==
    IF r.addr = 0 THEN [w EXCEPT !.F = r.F, !.ended = TRUE]
    ELSE LET F == [r.F EXCEPT !.block[r.addr] = copyin(@, w.off % BSIZE, us)] IN
         IF Contains(us, Fault) THEN [w EXCEPT !.F = F, !.ended = TRUE]
         ELSE [w EXCEPT !.F = F, !.off = @ + Len(us), !.left = SubSeq(@, Len(us) + 1, Len(@))]

writeBlock(w, turn) ==
    IF w.ended \/ w.left = <<>> THEN w
    ELSE written(w, SubSeq(w.left, 1, Min({Len(w.left), BSIZE - (w.off % BSIZE)})),
                 bmap(w.F, w.i, w.off \div BSIZE))

grown(w, off) ==
    [F |-> [w.F EXCEPT !.inode[w.i].size = Max({@, w.off})], n |-> w.off - off]

writei(F, i, off, units) ==
    IF off > F.inode[i].size \/ off + Len(units) > MAXFILE * BSIZE THEN [F |-> F, n |-> -1]
    ELSE grown(FoldLeft(writeBlock, [F |-> F, i |-> i, off |-> off, left |-> units, ended |-> FALSE],
                        [turn \in 1 .. MAXFILE |-> turn]), off)

(***************************************************************************)
(* Inodes and directories.                                                 *)
(***************************************************************************)

\* A free inode is marked allocated; 0 if there is none.
ialloc(F, type) ==
    LET i == lowest({i \in Inodes : F.inode[i].type = "none"})
    IN  [i |-> i, F |-> IF i = 0 THEN F ELSE [F EXCEPT !.inode[i] = [NoInode EXCEPT !.type = type]]]

Dot == <<".">>
DotDot == <<".", ".">>

\* Where the entry for a name is, -1 if there is none, and what it refers to.
offsetOf(F, d, name) ==
    LET offs == {off \in 0 .. F.inode[d].size - 1 :
                    unitAt(F, d, off)[1] # 0 /\ unitAt(F, d, off)[2] = name}
    IN  IF offs = {} THEN -1 ELSE Min(offs)

dirlookup(F, d, name) ==
    IF offsetOf(F, d, name) = -1 THEN 0 ELSE unitAt(F, d, offsetOf(F, d, name))[1]

\* The first empty entry, or the end.
emptyEntry(F, d) ==
    Min({F.inode[d].size} \cup {off \in 0 .. F.inode[d].size - 1 : unitAt(F, d, off)[1] = 0})

\* The inode that dirlookup() finds is put again; it has links.
linked(w) == [F |-> w.F, ok |-> w.n = 1]

dirlink(F, d, name, inum) ==
    IF offsetOf(F, d, name) # -1 THEN [F |-> F, ok |-> FALSE]
    ELSE linked(writei(F, d, emptyEntry(F, d), <<<<inum, name>>>>))

isdirempty(F, d) == \A off \in 2 .. F.inode[d].size - 1 : unitAt(F, d, off)[1] = 0

(***************************************************************************)
(* Path names, as sequences of characters.                                 *)
(***************************************************************************)

\* The characters from k on that are all slashes, or all not.
spanEnd(path, k, slashes) ==
    CHOOSE e \in k .. Len(path) + 1 :
        /\ \A j \in k .. e - 1 : (path[j] = "/") = slashes
        /\ e <= Len(path) => (path[e] = "/") # slashes

elemAt(path, s, e) ==
    [name |-> SubSeq(path, s, Min({e - 1, s + DIRSIZ - 1})),
     rest |-> SubSeq(path, spanEnd(path, e, TRUE), Len(path))]

\* The first element, cut to DIRSIZ characters, and the path after it; an empty
\* name if there is no element.
skipelem(path) ==
    LET s == spanEnd(path, 1, TRUE) IN elemAt(path, s, spanEnd(path, s, FALSE))
==============================================================================
