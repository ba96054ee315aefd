-------------------------------- MODULE Mkfs ---------------------------------
(* The file system that mkfs/mkfs.c builds, from files <<name, units>>. *)
EXTENDS Inodes

\* Blocks and inodes are handed out in order: freeblock++ and freeinode++.
newFile(F, type) == ialloc(F, type)

linkedOnce(r) == [r.F EXCEPT !.inode[r.i].nlink = 1]

iappend(F, i, units) == writei(F, i, F.inode[i].size, units).F

addFile(F, file) ==
    LET i == newFile(F, "FILE").i IN
    iappend(iappend(linkedOnce(newFile(F, "FILE")), ROOTINO, <<<<i, file[1]>>>>), i, file[2])

\* The size of the root directory is rounded up to whole blocks, plus one block
\* if there is nothing to round.
fixRoot(F) == [F EXCEPT !.inode[ROOTINO].size = (@ \div BSIZE + 1) * BSIZE]

emptyDisk ==
    [inode |-> [i \in Inodes |-> NoInode], block |-> [b \in Blocks |-> zeroBlock],
     used |-> {}, panic |-> FALSE]

rootOnly ==
    iappend(linkedOnce(newFile(emptyDisk, "DIR")), ROOTINO, <<<<ROOTINO, Dot>>, <<ROOTINO, DotDot>>>>)

mkfs(files) == fixRoot(FoldLeft(addFile, rootOnly, files))
==============================================================================
