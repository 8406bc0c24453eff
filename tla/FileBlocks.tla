------------------------------ MODULE FileBlocks ------------------------------
(***************************************************************************)
(* The contents of files: the block allocator, bmap, itrunc, readi and     *)
(* writei of kernel/fs.c under fileread, filewrite and open(O_TRUNC) of    *)
(* kernel/file.c and kernel/sysfile.c.                                     *)
(*                                                                         *)
(* A write holds ip->lock, so only the bitmap and the free blocks are      *)
(* shared by writers of different files: each allocation, each block       *)
(* copied and each block freed is a step.  bitmap, data and dinode are     *)
(* what the log has accepted; they are committed only while no operation   *)
(* is open (see Log).  inode is the copy in the inode table.  Bytes that   *)
(* a failed write leaves in a buffer without logging it stay in data, as   *)
(* they do until the buffer is recycled.                                   *)
(***************************************************************************)
EXTENDS Mkfs, FiniteSetsExt

CONSTANTS Proc,
          ByteOf,        \* the byte a process writes
          File, InodeOf, \* the open files, shared by all processes
          MAXOPBLOCKS,
          Requests       \* bound: the calls that are made, with their lengths

VARIABLES bitmap,   \* blocks marked in use
          data,     \* contents of the data blocks
          dinode,   \* inodes on disk
          inode,    \* the same in the inode table
          lock,     \* ip->lock: the processes that have it
          off,      \* f->off
          t,        \* the call each process is in
          logged    \* blocks its operation has logged

vars == <<bitmap, data, dinode, inode, lock, off, t, logged>>

Idle == [pc |-> "idle", f |-> 0, ip |-> 0, n |-> 0, i |-> 0, n1 |-> 0,
         tot |-> 0, j |-> 0]

Init ==
    /\ bitmap = mkfs_bitmap
    /\ data = mkfs.data
    /\ dinode = mkfs.din
    /\ inode = mkfs.din
    /\ lock = [i \in Inum |-> {}]
    /\ off = [f \in File |-> 0]
    /\ t = [p \in Proc |-> Idle]
    /\ logged = [p \in Proc |-> {}]
-----------------------------------------------------------------------------
At(p, l) == t[p].pc = l

\* Continue with the fields of s changed.
Go(p, s) ==
    t' = [t EXCEPT ![p] = [x \in DOMAIN @ |-> IF x \in DOMAIN s THEN s[x]
                                              ELSE @[x]]]

log_write(p, B) == logged' = [logged EXCEPT ![p] = @ \cup B]

\* Blocks a bread() of the bitmap finds free; balloc takes the first.
FreeBlocks == Blk \ bitmap
balloc == Min(FreeBlocks)

\* data after bzero(b)
bzero(b) == [data EXCEPT ![b] = Zeroes]

MaxNoSlop == (MAXOPBLOCKS - 1 - 1) * BSIZE

\* "write a few blocks at a time to avoid exceeding the maximum log
\* transaction size"
max == ((MAXOPBLOCKS - 1 - 1 - 2) \div 2) * BSIZE
-----------------------------------------------------------------------------
filewrite(p, f, n) ==
    /\ At(p, "idle")
    /\ Go(p, [pc |-> "chunk", f |-> f, ip |-> InodeOf[f], n |-> n, i |-> 0])
    /\ UNCHANGED <<bitmap, data, dinode, inode, lock, off, logged>>

BadNoGap(ip, o, n) == o + n > MAXFILE * BSIZE

Bad(ip, o, n) == o > inode[ip].size \/ o + n > MAXFILE * BSIZE

\* begin_op(), ilock() and the tests at the head of writei; a call that
\* fails them returns -1 after iunlock() and end_op().
filewrite_chunk(p) ==
    LET ip == t[p].ip
        n1 == Min({t[p].n - t[p].i, max})
    IN
    /\ At(p, "chunk")
    /\ lock[ip] = {}
    /\ \/ /\ Bad(ip, off[t[p].f], n1)
          /\ t' = [t EXCEPT ![p] = Idle]
          /\ UNCHANGED lock
       \/ /\ ~Bad(ip, off[t[p].f], n1)
          /\ lock' = [lock EXCEPT ![ip] = {p}]
          /\ Go(p, [pc |-> "writei", n1 |-> n1, tot |-> 0])
    /\ UNCHANGED <<bitmap, data, dinode, inode, off, logged>>

\* Where the loop of writei is: the position, and its block in the file.
Pos(p) == off[t[p].f] + t[p].tot
Bn(p) == Pos(p) \div BSIZE
Writing(p) == At(p, "writei") /\ t[p].tot < t[p].n1

\* bmap allocates the block, or first the indirect block, that is missing.
bmap(p) ==
    LET ip == t[p].ip
        slot == IF Bn(p) < NDIRECT THEN Bn(p) ELSE NDIRECT
        table == inode[ip].addrs[NDIRECT]
        b == balloc
    IN
    /\ Writing(p)
    /\ Addr(inode[ip], data, Bn(p)) = 0
    /\ FreeBlocks # {}
    /\ bitmap' = bitmap \cup {b}
    /\ \/ /\ inode[ip].addrs[slot] = 0
          /\ inode' = [inode EXCEPT ![ip].addrs[slot] = b]
          /\ data' = bzero(b)
          /\ log_write(p, {BBLOCK(b), b})
       \/ /\ inode[ip].addrs[slot] # 0
          /\ data' = [bzero(b) EXCEPT ![table][Bn(p) - NDIRECT] = b]
          /\ log_write(p, {BBLOCK(b), b, table})
          /\ UNCHANGED inode
    /\ UNCHANGED <<dinode, lock, off, t>>

CopiedAtStart(p, b, o, m) ==
    [data EXCEPT ![b] = [c \in DOMAIN @ |-> IF c < m THEN ByteOf[p] ELSE @[c]]]

\* data with the first m bytes of p's at position o of block b.
Copied(p, b, o, m) ==
    [data EXCEPT ![b] = [c \in DOMAIN @ |->
                           IF c \in o..(o + m - 1) THEN ByteOf[p] ELSE @[c]]]

\* bmap finds no block; or either_copyin fails, with the block in place and
\* the bytes before the bad page copied but not logged.
writei_break(p) ==
    LET b == Addr(inode[t[p].ip], data, Bn(p))
        o == Pos(p) % BSIZE
    IN
    /\ Writing(p)
    /\ \/ b = 0 /\ FreeBlocks = {} /\ UNCHANGED data
       \/ /\ b # 0
          /\ \E m \in 0..(Min({t[p].n1 - t[p].tot, BSIZE - o}) - 1) :
                data' = Copied(p, b, o, m)
    /\ Go(p, [pc |-> "writei_end"])
    /\ UNCHANGED <<bitmap, dinode, inode, lock, off, logged>>

\* One block of data is copied.
writei(p) ==
    LET b == Addr(inode[t[p].ip], data, Bn(p))
        o == Pos(p) % BSIZE
        m == Min({t[p].n1 - t[p].tot, BSIZE - o})
    IN
    /\ Writing(p)
    /\ b # 0
    /\ data' = Copied(p, b, o, m)
    /\ log_write(p, {b})
    /\ Go(p, [tot |-> t[p].tot + m])
    /\ UNCHANGED <<bitmap, dinode, inode, lock, off>>

UpdateIfGrown(ip, n) ==
    dinode' = IF n > dinode[ip].size THEN [dinode EXCEPT ![ip] = inode'[ip]]
              ELSE dinode

\* iupdate(ip), "even if the size didn't change"
iupdate(ip, n) == dinode' = [dinode EXCEPT ![ip] = inode'[ip]]

\* The end of writei, f->off += r, iunlock().
writei_end(p) ==
    LET ip == t[p].ip
        end == Pos(p)
    IN
    /\ At(p, "writei_end") \/ (At(p, "writei") /\ t[p].tot = t[p].n1)
    /\ inode' = [inode EXCEPT ![ip].size = Max({@, end})]
    /\ iupdate(ip, end)
    /\ log_write(p, {IBLOCK(ip)})
    /\ off' = [off EXCEPT ![t[p].f] = end]
    /\ lock' = [lock EXCEPT ![ip] = {}]
    /\ Go(p, [pc |-> "end_op"])
    /\ UNCHANGED <<bitmap, data>>

\* end_op(), and the next chunk unless r != n1 or all is written.
end_op(p) ==
    LET i == t[p].i + t[p].tot IN
    /\ At(p, "end_op")
    /\ t' = [t EXCEPT ![p] = IF t[p].tot = t[p].n1 /\ i < t[p].n
                             THEN [@ EXCEPT !.pc = "chunk", !.i = i,
                                            !.n1 = 0, !.tot = 0]
                             ELSE Idle]
    /\ logged' = [logged EXCEPT ![p] = {}]
    /\ UNCHANGED <<bitmap, data, dinode, inode, lock, off>>
-----------------------------------------------------------------------------
\* What readi copies: n bytes from o on, as far as the file goes.
readi(ip, o, n) ==
    IF o > inode[ip].size THEN << >>
    ELSE [k \in 1..Min({n, inode[ip].size - o}) |->
             data[Addr(inode[ip], data, (o + k - 1) \div BSIZE)]
                 [(o + k - 1) % BSIZE]]

\* No transaction, one step under ip->lock; nothing changes if copyout fails.
fileread(p, f, n) ==
    /\ At(p, "idle")
    /\ lock[InodeOf[f]] = {}
    /\ off' = [off EXCEPT ![f] = @ + Len(readi(InodeOf[f], @, n))]
    /\ UNCHANGED <<bitmap, data, dinode, inode, lock, t, logged>>
-----------------------------------------------------------------------------
\* open(O_TRUNC) by a process that has no call in progress.
sys_open(p, ip) ==
    /\ At(p, "idle")
    /\ lock[ip] = {}
    /\ lock' = [lock EXCEPT ![ip] = {p}]
    /\ Go(p, [pc |-> "itrunc", ip |-> ip, j |-> 0])
    /\ UNCHANGED <<bitmap, data, dinode, inode, off, logged>>

bfree(p, b) ==
    /\ b \in bitmap          \* panic("freeing free block")
    /\ bitmap' = bitmap \ {b}
    /\ log_write(p, {BBLOCK(b)})

\* Direct blocks that itrunc has not reached.
Direct(ip) == {k \in 0..(NDIRECT - 1) : inode[ip].addrs[k] # 0}

itrunc_direct(p) ==
    LET ip == t[p].ip
        k == Min(Direct(ip))
    IN
    /\ At(p, "itrunc") /\ Direct(ip) # {}
    /\ bfree(p, inode[ip].addrs[k])
    /\ inode' = [inode EXCEPT ![ip].addrs[k] = 0]
    /\ UNCHANGED <<data, dinode, lock, off, t>>

\* Entries of the indirect block that itrunc has not reached.
Indirect(p) ==
    LET table == inode[t[p].ip].addrs[NDIRECT] IN
    {k \in t[p].j..(NINDIRECT - 1) : table # 0 /\ data[table][k] # 0}

itrunc_indirect(p) ==
    LET ip == t[p].ip
        k == Min(Indirect(p))
    IN
    /\ At(p, "itrunc") /\ Direct(ip) = {} /\ Indirect(p) # {}
    /\ bfree(p, data[inode[ip].addrs[NDIRECT]][k])
    /\ Go(p, [j |-> k + 1])
    /\ UNCHANGED <<data, dinode, inode, lock, off>>

itrunc_table(p) ==
    LET ip == t[p].ip IN
    /\ At(p, "itrunc") /\ Direct(ip) = {} /\ Indirect(p) = {}
    /\ inode[ip].addrs[NDIRECT] # 0
    /\ bfree(p, inode[ip].addrs[NDIRECT])
    /\ inode' = [inode EXCEPT ![ip].addrs[NDIRECT] = 0]
    /\ UNCHANGED <<data, dinode, lock, off, t>>

\* ip->size = 0; iupdate(ip); iunlock(ip)
itrunc(p) ==
    LET ip == t[p].ip IN
    /\ At(p, "itrunc") /\ inode[ip].addrs = NoAddrs
    /\ inode' = [inode EXCEPT ![ip].size = 0]
    /\ iupdate(ip, 0)
    /\ log_write(p, {IBLOCK(ip)})
    /\ lock' = [lock EXCEPT ![ip] = {}]
    /\ Go(p, [pc |-> "end_op"])
    /\ UNCHANGED <<bitmap, data, off>>
-----------------------------------------------------------------------------
Step(p) ==
    \/ filewrite_chunk(p) \/ bmap(p) \/ writei(p) \/ writei_break(p)
    \/ writei_end(p) \/ end_op(p)
    \/ itrunc_direct(p) \/ itrunc_indirect(p) \/ itrunc_table(p) \/ itrunc(p)

Next ==
    \/ \E p \in Proc : Step(p)
    \/ \E r \in Requests :
          \/ r.call = "write" /\ filewrite(r.p, r.f, r.n)
          \/ r.call = "read" /\ fileread(r.p, r.f, r.n)
          \/ r.call = "open" /\ sys_open(r.p, InodeOf[r.f])

Spec == Init /\ [][Next]_vars
-----------------------------------------------------------------------------
\* The processes between begin_op() and end_op().
InOp == {p \in Proc : t[p].pc \in {"writei", "writei_end", "itrunc", "end_op"}}

\* The links to blocks in the inodes di, each with where it is kept.
Links(di) ==
    {<<i, k>> \in Inum \X (0..NDIRECT) : di[i].addrs[k] # 0}
    \cup {<<i, NDIRECT + 1 + k>> : <<i, k>> \in
             {x \in Inum \X (0..(NINDIRECT - 1)) :
                 /\ di[x[1]].addrs[NDIRECT] # 0
                 /\ data[di[x[1]].addrs[NDIRECT]][x[2]] # 0}}

Target(di, l) ==
    IF l[2] <= NDIRECT THEN di[l[1]].addrs[l[2]]
    ELSE data[di[l[1]].addrs[NDIRECT]][l[2] - NDIRECT - 1]

\* Whenever the log may commit, the bitmap and the inodes on disk agree: every
\* block in use belongs to one place, and no block is lost by a write that
\* failed half way (balloc, bmap, writei and itrunc).
BlocksExact ==
    InOp = {} =>
        /\ {Target(dinode, l) : l \in Links(dinode)} = bitmap \ (0..(nmeta - 1))
        /\ \A l, m \in Links(dinode) : Target(dinode, l) = Target(dinode, m) => l = m

\* Every block below the size of a file exists, so that bmap, called by readi
\* outside of a transaction, never allocates.
NoHoles ==
    \A i \in Inum : lock[i] = {} =>
        \A k \in 0..(inode[i].size - 1) : Addr(inode[i], data, k \div BSIZE) \in Data

\* No operation of filewrite or O_TRUNC logs more blocks than begin_op
\* reserved for it, however the chunk lies across blocks and whatever it
\* allocates (param.h: "max # of blocks any FS op writes").
OpFits == \A p \in Proc : Cardinality(logged[p]) <= MAXOPBLOCKS

\* Bytes show in the abstract file when they are copied, and are gone when
\* itrunc begins.
Writer(i) == {p \in lock[i] : t[p].pc \in {"writei", "writei_end"}}
Length(i) ==
    IF \E p \in lock[i] : At(p, "itrunc") THEN 0
    ELSE Max({inode[i].size} \cup {Pos(p) : p \in Writer(i)})

Bytes(i) ==
    [k \in 1..Length(i) |->
        data[Addr(inode[i], data, (k - 1) \div BSIZE)][(k - 1) % BSIZE]]

Abstract == INSTANCE ByteFile
    WITH content <- [i \in Inum |-> Bytes(i)],
         offset <- [f \in File |->
                      IF \E p \in Writer(InodeOf[f]) : t[p].f = f
                      THEN Pos(CHOOSE p \in Writer(InodeOf[f]) : t[p].f = f)
                      ELSE off[f]],
         Byte <- {ByteOf[p] : p \in Proc}, MaxRun <- BSIZE

\* fs.c implements files as sequences of bytes.
FileIsBytes == Abstract!Spec
=============================================================================
