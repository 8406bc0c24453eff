-------------------------------- MODULE Mkfs --------------------------------
(***************************************************************************)
(* The disk layout of kernel/fs.h and the image mkfs/mkfs.c builds: a root *)
(* directory and the files given to it.  A block is a function from 0 ..   *)
(* BSIZE - 1; a cell is a byte, a directory entry or a block number.       *)
(***************************************************************************)
EXTENDS Naturals, Sequences, FiniteSets, SequencesExt

CONSTANTS BSIZE,
          NDIRECT, NINDIRECT,
          FSSIZE,        \* blocks of the image
          nlog,          \* LOGSIZE
          NINODES,
          IPB,           \* inodes per block
          BPB,           \* bitmap bits per block
          Image          \* the contents of the files given to mkfs

ROOTINO == 1
Inum == 1..NINODES
MAXFILE == NDIRECT + NINDIRECT

ninodeblocks == NINODES \div IPB + 1
nbitmap == FSSIZE \div BPB + 1
nmeta == 2 + nlog + ninodeblocks + nbitmap
inodestart == 2 + nlog
bmapstart == 2 + nlog + ninodeblocks

IBLOCK(i) == i \div IPB + inodestart
BBLOCK(b) == b \div BPB + bmapstart

Blk == 0..(FSSIZE - 1)
Data == nmeta..(FSSIZE - 1)
Zeroes == [c \in 0..(BSIZE - 1) |-> 0]
NoAddrs == [k \in 0..NDIRECT |-> 0]

\* One bitmap block, "assert(used < BPB)".  A root directory that fills its
\* last block exactly would get a size one block beyond what is mapped.
ASSUME MkfsAssumption ==
    /\ {BSIZE, NDIRECT, NINDIRECT, FSSIZE, nlog, NINODES, IPB, BPB}
          \subseteq Nat \ {0}
    /\ NINDIRECT <= BSIZE
    /\ Image \in Seq(Seq(Nat)) /\ Len(Image) < NINODES
    /\ (Len(Image) + 2) % BSIZE # 0
    /\ FSSIZE <= BPB

\* The block that holds block bn of an inode (0: none).
Addr(din, data, bn) ==
    IF bn < NDIRECT THEN din.addrs[bn]
    ELSE IF din.addrs[NDIRECT] = 0 THEN 0
    ELSE data[din.addrs[NDIRECT]][bn - NDIRECT]

\* An image under construction: the next free inode and block are counters.
Empty ==
    [din |-> [i \in Inum |-> [size |-> 0, addrs |-> NoAddrs]],
     data |-> [b \in Data |-> Zeroes],
     freeinode |-> 1, freeblock |-> nmeta]

\* The link to block bn, or to the indirect block, is made if it is missing.
Link(img, i, bn) ==
    LET x == img.freeblock
        slot == IF bn < NDIRECT THEN bn ELSE NDIRECT
        one == IF img.din[i].addrs[slot] = 0
               THEN [img EXCEPT !.din[i].addrs[slot] = x, !.freeblock = x + 1]
               ELSE img
        table == one.din[i].addrs[NDIRECT]
    IN IF bn < NDIRECT \/ one.data[table][bn - NDIRECT] # 0 THEN one
       ELSE [one EXCEPT !.data[table][bn - NDIRECT] = one.freeblock,
                        !.freeblock = one.freeblock + 1]

\* One byte of iappend.
AppendByte(img, i, v) ==
    LET off == img.din[i].size
        linked == Link(img, i, off \div BSIZE)
        x == Addr(linked.din[i], linked.data, off \div BSIZE)
    IN [linked EXCEPT !.data[x][off % BSIZE] = v, !.din[i].size = off + 1]

iappend(img, i, s) == FoldLeft(LAMBDA g, v : AppendByte(g, i, v), img, s)

\* ialloc, the directory entry and the contents of one file.
AddFile(img, s) ==
    LET i == img.freeinode
    IN iappend(iappend([img EXCEPT !.freeinode = i + 1], ROOTINO, <<i>>), i, s)

\* "." and "..", the files, and the size of the root rounded up.
mkfs ==
    LET root == iappend([Empty EXCEPT !.freeinode = 2], ROOTINO,
                        <<ROOTINO, ROOTINO>>)
        img == FoldLeft(AddFile, root, Image)
    IN [img EXCEPT !.din[ROOTINO].size = (@ \div BSIZE + 1) * BSIZE]

\* balloc(freeblock): the first blocks are marked in the bitmap.
mkfs_bitmap == 0..(mkfs.freeblock - 1)
=============================================================================
