-------------------------------- MODULE Files --------------------------------
(***************************************************************************)
(* The inode layer and directories of kernel/fs.c under the calls of       *)
(* kernel/sysfile.c that change the tree: open, create, mkdir, link,       *)
(* unlink, chdir and close.                                                *)
(*                                                                         *)
(* An itable entry with ref > 0 is found by its inode number, so core is   *)
(* indexed by it.  A section under itable.lock is one step; so is the work *)
(* done between ilock() and iunlock() of one inode, up to the next iget(), *)
(* ilock() or iput().  Every call runs inside a transaction (see Log), so  *)
(* disk is the state the log has accepted.                                 *)
(***************************************************************************)
EXTENDS Naturals, FiniteSets, Sequences

CONSTANTS Proc,
          Name,       \* names other than "." and ".."
          NINODES,    \* sb.ninodes - 1: inode 0 is not used
          Requests    \* bound: the calls each process makes, with their paths

DotDot == ".."
Inum == 1..NINODES
ROOTINO == 1

CallNames == {"open", "create", "mkdir", "link", "unlink", "chdir"}

ASSUME FilesAssumption ==
    /\ IsFiniteSet(Proc)
    /\ NINODES \in Nat \ {0}
    /\ DotDot \notin Name
    /\ \A p \in Proc : \A r \in Requests[p] :
          /\ r.call \in CallNames
          /\ \A s \in {r.old, r.new} :
                s.abs \in BOOLEAN /\ s.elems \in Seq(Name \cup {DotDot}) \ {<< >>}

VARIABLES
    disk,   \* dinodes: type, nlink
    dir,    \* directory contents, without "." and ".." (0: no entry)
    up,     \* the ".." entries
    core,   \* itable: ref, valid, type, nlink
    lock,   \* ip->lock: the processes that have it
    fd,     \* the inode each process has open (0: none)
    cwd,    \* its current directory
    t       \* its place in a call, with the inode pointers it holds (0: none)

vars == <<disk, dir, up, core, lock, fd, cwd, t>>

NoEntries == [n \in Name |-> 0]

Idle == [pc |-> "idle", call |-> "", path |-> << >>, new |-> << >>, ip |-> 0,
         dp |-> 0, old |-> 0, put |-> 0, then |-> "", fail |-> "", scan |-> 0]

\* The image mkfs makes: an empty root, where every process starts.
Init ==
    /\ disk = [i \in Inum |-> IF i = ROOTINO THEN [type |-> "dir", nlink |-> 1]
                              ELSE [type |-> "free", nlink |-> 0]]
    /\ dir = [i \in Inum |-> NoEntries]
    /\ up = [i \in Inum |-> IF i = ROOTINO THEN ROOTINO ELSE 0]
    /\ core = [i \in Inum |-> [ref |-> IF i = ROOTINO THEN Cardinality(Proc) ELSE 0,
                               valid |-> FALSE, type |-> "free", nlink |-> 0]]
    /\ lock = [i \in Inum |-> {}]
    /\ fd = [p \in Proc |-> 0]
    /\ cwd = [p \in Proc |-> ROOTINO]
    /\ t = [p \in Proc |-> Idle]
-----------------------------------------------------------------------------
At(p, l) == t[p].pc = l

\* Continue at s.pc with the other fields of s changed; end_op() at the end.
Go(p, s) ==
    t' = [t EXCEPT ![p] = IF s.pc = "return" THEN Idle
                          ELSE [f \in DOMAIN @ |-> IF f \in DOMAIN s THEN s[f]
                                                   ELSE @[f]]]

Free(i) == lock[i] = {}
Lock(p, i) == Free(i) /\ lock' = [lock EXCEPT ![i] = {p}]

\* ip->xxx once ilock() has read it.
Loaded(i) ==
    IF core[i].valid THEN core[i]
    ELSE [core[i] EXCEPT !.valid = TRUE, !.type = disk[i].type,
                         !.nlink = disk[i].nlink]

\* core after ilock(i).
ilock(i) == [core EXCEPT ![i] = Loaded(i)]

GetUncounted(c, i) ==
    [c EXCEPT ![i].ref = IF @ > 0 THEN @ ELSE 1, ![i].valid = @ /\ c[i].ref > 0]

\* c after iget(i): a new entry starts with valid = 0.
iget(c, i) ==
    [c EXCEPT ![i].ref = @ + 1, ![i].valid = @ /\ c[i].ref > 0]

\* dirlookup(i, n)
dirlookup(i, n) == IF n = DotDot THEN up[i] ELSE dir[i][n]

\* dir after dirlink(d, n, i); also when unlink overwrites the entry with 0.
\* The iput() of an entry that is in the way takes back what dirlookup got.
dirlink(d, n, i) == [dir EXCEPT ![d][n] = i]

\* dir after itrunc(i)
itrunc(i) == [dir EXCEPT ![i] = NoEntries]
-----------------------------------------------------------------------------
ReclaimLinked(i) == core[i].ref = 1 /\ core[i].valid

ReclaimShared(i) == core[i].valid /\ core[i].nlink = 0

\* ip->ref == 1 && ip->valid && ip->nlink == 0
Reclaim(i) == core[i].ref = 1 /\ core[i].valid /\ core[i].nlink = 0

\* iput: drop the pointer t[p].put, or lock the inode to free it.
iput(p) ==
    LET i == t[p].put IN
    /\ At(p, "iput")
    /\ \/ /\ Reclaim(i)
          /\ Lock(p, i)
          /\ Go(p, [pc |-> "iput_free"])
          /\ UNCHANGED core
       \/ /\ ~Reclaim(i)
          /\ core' = [core EXCEPT ![i].ref = @ - 1]
          /\ Go(p, [pc |-> t[p].then, put |-> 0])
          /\ UNCHANGED lock
    /\ UNCHANGED <<disk, dir, up, fd, cwd>>

\* itrunc(ip); ip->type = 0; iupdate(ip).
iput_free(p) ==
    LET i == t[p].put IN
    /\ At(p, "iput_free")
    /\ disk' = [disk EXCEPT ![i] = [type |-> "free", nlink |-> core[i].nlink]]
    /\ dir' = itrunc(i)
    /\ up' = [up EXCEPT ![i] = 0]
    /\ core' = [core EXCEPT ![i].type = "free"]
    /\ Go(p, [pc |-> "iput_unlock"])
    /\ UNCHANGED <<lock, fd, cwd>>

StillValid(i) == core

\* ip->valid = 0: whoever allocates the inode again must read it.
Invalidate(i) == [core EXCEPT ![i].valid = FALSE]

iput_unlock(p) ==
    LET i == t[p].put IN
    /\ At(p, "iput_unlock")
    /\ core' = Invalidate(i)
    /\ lock' = [lock EXCEPT ![i] = {}]
    /\ Go(p, [pc |-> "iput_ref"])
    /\ UNCHANGED <<disk, dir, up, fd, cwd>>

iput_ref(p) ==
    /\ At(p, "iput_ref")
    /\ core' = [core EXCEPT ![t[p].put].ref = @ - 1]
    /\ Go(p, [pc |-> t[p].then, put |-> 0])
    /\ UNCHANGED <<disk, dir, up, lock, fd, cwd>>
-----------------------------------------------------------------------------
\* namex starts at the root or in the current directory.
Start(p, s) == IF s.abs THEN ROOTINO ELSE cwd[p]

\* A system call: begin_op() and the start of its (first) namex.
call(p, r) ==
    /\ At(p, "idle")
    /\ r.call \in {"open", "create"} => fd[p] = 0
    /\ core' = iget(core, Start(p, r.old))
    /\ Go(p, [pc |-> "namex", call |-> r.call, path |-> r.old.elems,
              new |-> r.new, ip |-> Start(p, r.old), fail |-> "return"])
    /\ UNCHANGED <<disk, dir, up, lock, fd, cwd>>

\* The call is in nameiparent(), and this is the last name of the path.
AtParent(p) ==
    /\ t[p].call \in {"create", "mkdir", "unlink"} \/ t[p].old # 0
    /\ Len(t[p].path) = 1

\* One round of namex: lock ip, look the next name up, unlock, iput(ip).
namex(p) ==
    LET i == t[p].ip
        next == dirlookup(i, Head(t[p].path))
    IN
    /\ At(p, "namex") /\ t[p].path # << >>
    /\ Free(i)
    /\ \/ /\ Loaded(i).type # "dir" \/ (~AtParent(p) /\ next = 0)
          /\ core' = ilock(i)
          /\ Go(p, [pc |-> "iput", ip |-> 0, put |-> i, then |-> t[p].fail])
       \/ /\ Loaded(i).type = "dir" /\ AtParent(p)
          /\ core' = ilock(i)
          /\ Go(p, [pc |-> "parent", ip |-> 0, dp |-> i])
       \/ /\ Loaded(i).type = "dir" /\ ~AtParent(p) /\ next # 0
          /\ core' = iget(ilock(i), next)
          /\ Go(p, [pc |-> "iput", ip |-> next, put |-> i, then |-> "namex",
                    path |-> Tail(t[p].path)])
    /\ UNCHANGED <<disk, dir, up, lock, fd, cwd>>

\* namei() has returned ip to the call c.
Found(p, c) == At(p, "namex") /\ t[p].path = << >> /\ t[p].call = c

\* iunlockput(ip) and return.
PutAndReturn(p, i) ==
    Go(p, [pc |-> "iput", ip |-> 0, dp |-> 0, old |-> 0, put |-> i,
           then |-> "return"])

\* The file structure takes the pointer over; or there is none left.
OpenOrPut(p, i) ==
    \/ fd' = [fd EXCEPT ![p] = i] /\ Go(p, [pc |-> "return"])
    \/ PutAndReturn(p, i) /\ UNCHANGED fd

\* sys_open without O_CREATE; the mode may not suit a directory.
sys_open(p) ==
    LET i == t[p].ip IN
    /\ Found(p, "open")
    /\ Free(i)
    /\ core' = ilock(i)
    /\ OpenOrPut(p, i)
    /\ UNCHANGED <<disk, dir, up, lock, cwd>>

sys_chdir(p) ==
    LET i == t[p].ip IN
    /\ Found(p, "chdir")
    /\ Free(i)
    /\ core' = ilock(i)
    /\ \/ /\ Loaded(i).type # "dir"
          /\ PutAndReturn(p, i)
          /\ UNCHANGED cwd
       \/ /\ Loaded(i).type = "dir"
          /\ PutAndReturn(p, cwd[p])
          /\ cwd' = [cwd EXCEPT ![p] = i]
    /\ UNCHANGED <<disk, dir, up, lock, fd>>

\* sys_close, fileclose: iput(ff.ip) in a transaction.
fileclose(p) ==
    /\ At(p, "idle")
    /\ fd[p] # 0
    /\ PutAndReturn(p, fd[p])
    /\ fd' = [fd EXCEPT ![p] = 0]
    /\ UNCHANGED <<disk, dir, up, core, lock, cwd>>
-----------------------------------------------------------------------------
\* ip->nlink = n; iupdate(ip), under ip->lock.
SetLinks(i, n) ==
    /\ core' = [core EXCEPT ![i] = [Loaded(i) EXCEPT !.nlink = n]]
    /\ disk' = [disk EXCEPT ![i].nlink = n]

\* ip->nlink++; iupdate(ip)
Count(i) == SetLinks(i, Loaded(i).nlink + 1)

\* ip->nlink--; iupdate(ip)
Uncount(i) == SetLinks(i, Loaded(i).nlink - 1)

\* sys_link counts the link before it looks for the new directory.
sys_link(p) ==
    LET i == t[p].ip IN
    /\ Found(p, "link")
    /\ Free(i)
    /\ \/ /\ Loaded(i).type = "dir"
          /\ core' = ilock(i)
          /\ PutAndReturn(p, i)
          /\ UNCHANGED disk
       \/ /\ Loaded(i).type # "dir"
          /\ Count(i)
          /\ Go(p, [pc |-> "link_new", ip |-> 0, old |-> i])
    /\ UNCHANGED <<dir, up, lock, fd, cwd>>

\* nameiparent(new)
link_new(p) ==
    LET i == Start(p, t[p].new) IN
    /\ At(p, "link_new")
    /\ core' = iget(core, i)
    /\ Go(p, [pc |-> "namex", ip |-> i, path |-> t[p].new.elems,
              fail |-> "link_bad"])
    /\ UNCHANGED <<disk, dir, up, lock, fd, cwd>>

Last(p) == Head(t[p].path)

\* dirlink(dp, name, inum): fails if the name exists or there is no block.
link_dirlink(p) ==
    LET d == t[p].dp IN
    /\ At(p, "parent") /\ t[p].call = "link"
    /\ Free(d)
    /\ core' = ilock(d)
    /\ \/ /\ dirlookup(d, Last(p)) = 0
          /\ dir' = dirlink(d, Last(p), t[p].old)
          /\ Go(p, [pc |-> "iput", dp |-> 0, put |-> d, then |-> "link_put"])
       \/ /\ Go(p, [pc |-> "iput", dp |-> 0, put |-> d, then |-> "link_bad"])
          /\ UNCHANGED dir
    /\ UNCHANGED <<disk, up, lock, fd, cwd>>

link_put(p) ==
    /\ At(p, "link_put")
    /\ PutAndReturn(p, t[p].old)
    /\ UNCHANGED <<disk, dir, up, core, lock, fd, cwd>>

link_bad(p) ==
    LET i == t[p].old IN
    /\ At(p, "link_bad")
    /\ Free(i)
    /\ Uncount(i)
    /\ PutAndReturn(p, i)
    /\ UNCHANGED <<dir, up, lock, fd, cwd>>
-----------------------------------------------------------------------------
\* sys_unlink: lock dp and look the name up; ".." is refused.
sys_unlink(p) ==
    LET d == t[p].dp
        i == IF Last(p) = DotDot THEN 0 ELSE dirlookup(d, Last(p))
    IN
    /\ At(p, "parent") /\ t[p].call = "unlink"
    /\ \/ /\ i = 0
          /\ Free(d)
          /\ core' = ilock(d)
          /\ PutAndReturn(p, d)
          /\ UNCHANGED lock
       \/ /\ i # 0
          /\ Lock(p, d)
          /\ core' = iget(ilock(d), i)
          /\ Go(p, [pc |-> "unlink", ip |-> i])
    /\ UNCHANGED <<disk, dir, up, fd, cwd>>

isdirempty(i) == dir[i] = NoEntries

\* dp stays locked while ip is locked, found in use, and put.
unlink_refuse(p) ==
    LET i == t[p].ip IN
    /\ At(p, "unlink")
    /\ Free(i)
    /\ Loaded(i).type = "dir" /\ ~isdirempty(i)
    /\ core' = ilock(i)
    /\ Go(p, [pc |-> "iput", ip |-> 0, put |-> i, then |-> "bad"])
    /\ UNCHANGED <<disk, dir, up, lock, fd, cwd>>

\* Clear the entry; the ".." of a directory no longer counts for dp;
\* iunlockput(dp) while ip stays locked.
unlink_entry(p) ==
    LET d == t[p].dp
        i == t[p].ip
        n == core[d].nlink - (IF Loaded(i).type = "dir" THEN 1 ELSE 0)
    IN
    /\ At(p, "unlink")
    /\ Free(i)
    /\ Loaded(i).type = "dir" => isdirempty(i)
    /\ dir' = dirlink(d, Last(p), 0)
    /\ core' = [ilock(i) EXCEPT ![d].nlink = n]
    /\ disk' = [disk EXCEPT ![d].nlink = n]
    /\ lock' = [lock EXCEPT ![d] = {}, ![i] = {p}]
    /\ Go(p, [pc |-> "iput", dp |-> 0, put |-> d, then |-> "unlink_nlink"])
    /\ UNCHANGED <<up, fd, cwd>>

unlink_nlink(p) ==
    LET i == t[p].ip IN
    /\ At(p, "unlink_nlink")
    /\ Uncount(i)
    /\ lock' = [lock EXCEPT ![i] = {}]
    /\ PutAndReturn(p, i)
    /\ UNCHANGED <<dir, up, fd, cwd>>

\* bad: (and the end of create's fail:) iunlockput(dp)
bad(p) ==
    /\ At(p, "bad")
    /\ lock' = [lock EXCEPT ![t[p].dp] = {}]
    /\ PutAndReturn(p, t[p].dp)
    /\ UNCHANGED <<disk, dir, up, core, fd, cwd>>
-----------------------------------------------------------------------------
InCreate(p) == t[p].call \in {"create", "mkdir"}
Type(p) == IF t[p].call = "mkdir" THEN "dir" ELSE "file"

\* create: the name exists, or the scan for an inode starts with dp locked.
create(p) ==
    LET d == t[p].dp
        i == dirlookup(d, Last(p))
    IN
    /\ At(p, "parent") /\ InCreate(p)
    /\ \/ /\ i # 0
          /\ Free(d)
          /\ core' = iget(ilock(d), i)
          /\ Go(p, [pc |-> "iput", ip |-> i, dp |-> 0, put |-> d,
                    then |-> "create_old"])
          /\ UNCHANGED lock
       \/ /\ i = 0
          /\ Lock(p, d)
          /\ core' = ilock(d)
          /\ Go(p, [pc |-> "ialloc", scan |-> 1])
    /\ UNCHANGED <<disk, dir, up, fd, cwd>>

\* open(O_CREATE) takes an existing file; mkdir fails.
create_old(p) ==
    LET i == t[p].ip IN
    /\ At(p, "create_old")
    /\ Free(i)
    /\ core' = ilock(i)
    /\ \/ /\ Type(p) = "file" /\ Loaded(i).type = "file"
          /\ OpenOrPut(p, i)
       \/ /\ ~(Type(p) = "file" /\ Loaded(i).type = "file")
          /\ PutAndReturn(p, i)
          /\ UNCHANGED fd
    /\ UNCHANGED <<disk, dir, up, lock, cwd>>

\* ialloc looks at one dinode at a time, under its buffer's lock.
ialloc(p) ==
    LET i == t[p].scan IN
    /\ At(p, "ialloc")
    /\ \/ /\ i > NINODES
          /\ Go(p, [pc |-> "bad"])
          /\ UNCHANGED <<disk, core>>
       \/ /\ i <= NINODES /\ disk[i].type # "free"
          /\ Go(p, [pc |-> "ialloc", scan |-> i + 1])
          /\ UNCHANGED <<disk, core>>
       \/ /\ i <= NINODES /\ disk[i].type = "free"
          /\ disk' = [disk EXCEPT ![i] = [type |-> Type(p), nlink |-> 0]]
          /\ core' = iget(core, i)
          /\ Go(p, [pc |-> "create_new", ip |-> i, scan |-> 0])
    /\ UNCHANGED <<dir, up, lock, fd, cwd>>

\* ilock(ip), nlink = 1, the entries, and dp->nlink++ for the ".." of a new
\* directory; iunlockput(dp) while ip stays locked.
create_new(p) ==
    LET d == t[p].dp
        i == t[p].ip
        n == core[d].nlink + (IF Type(p) = "dir" THEN 1 ELSE 0)
    IN
    /\ At(p, "create_new")
    /\ Free(i)
    /\ dir' = dirlink(d, Last(p), i)
    /\ up' = [up EXCEPT ![i] = IF Type(p) = "dir" THEN d ELSE 0]
    /\ core' = [ilock(i) EXCEPT ![i].nlink = 1, ![d].nlink = n]
    /\ disk' = [disk EXCEPT ![i].nlink = 1, ![i].type = Loaded(i).type,
                            ![d].nlink = n]
    /\ lock' = [lock EXCEPT ![d] = {}, ![i] = {p}]
    /\ Go(p, [pc |-> "iput", dp |-> 0, put |-> d, then |-> "create_done"])
    /\ UNCHANGED <<fd, cwd>>

create_done(p) ==
    LET i == t[p].ip IN
    /\ At(p, "create_done")
    /\ lock' = [lock EXCEPT ![i] = {}]
    /\ \/ Type(p) = "file" /\ OpenOrPut(p, i)
       \/ Type(p) = "dir" /\ PutAndReturn(p, i) /\ UNCHANGED fd
    /\ UNCHANGED <<disk, dir, up, core, cwd>>

\* fail: a dirlink found no block; nlink = 0, iunlockput(ip), then dp.
create_fail(p) ==
    LET i == t[p].ip IN
    /\ At(p, "create_new")
    /\ Free(i)
    /\ SetLinks(i, 0)
    /\ Go(p, [pc |-> "iput", ip |-> 0, put |-> i, then |-> "bad"])
    /\ UNCHANGED <<dir, up, lock, fd, cwd>>
-----------------------------------------------------------------------------
Step(p) ==
    \/ iput(p) \/ iput_free(p) \/ iput_unlock(p) \/ iput_ref(p)
    \/ namex(p) \/ sys_open(p) \/ sys_chdir(p) \/ fileclose(p)
    \/ sys_link(p) \/ link_new(p) \/ link_dirlink(p) \/ link_put(p) \/ link_bad(p)
    \/ sys_unlink(p) \/ unlink_refuse(p) \/ unlink_entry(p) \/ unlink_nlink(p)
    \/ bad(p)
    \/ create(p) \/ create_old(p) \/ ialloc(p) \/ create_new(p)
    \/ create_done(p) \/ create_fail(p)

Next == \E p \in Proc : Step(p) \/ \E r \in Requests[p] : call(p, r)

Spec == Init /\ [][Next]_vars
-----------------------------------------------------------------------------
InodeType == {"free", "file", "dir"}

\* The types; nlink, a short in the code, never falls below 0.
TypeOK ==
    /\ disk \in [Inum -> [type : InodeType, nlink : Nat]]
    /\ dir \in [Inum -> [Name -> 0..NINODES]]
    /\ up \in [Inum -> 0..NINODES]
    /\ core \in [Inum -> [ref : Nat, valid : BOOLEAN, type : InodeType,
                          nlink : Nat]]
    /\ lock \in [Inum -> SUBSET Proc]
    /\ fd \in [Proc -> 0..NINODES]
    /\ cwd \in [Proc -> Inum]

\* "ip->ref tracks the number of in-memory pointers to the entry": on every
\* path through the calls, error paths too, each pointer is put once.
RefsExact ==
    LET Pointers(i) ==
            {<<p, f>> \in Proc \X {"ip", "dp", "old", "put"} : t[p][f] = i}
    IN \A i \in Inum :
         core[i].ref = Cardinality(Pointers(i))
                         + Cardinality({p \in Proc : fd[p] = i})
                         + Cardinality({p \in Proc : cwd[p] = i})

\* iput's comment: with ref == 1 nobody else has the inode locked, so the
\* acquiresleep() made with itable.lock held does not block.
ReclaimWontBlock ==
    \A p \in Proc : At(p, "iput") /\ Reclaim(t[p].put) => Free(t[p].put)

\* The inode whose ilock() the process is waiting for (0: none).
Wanted(p) ==
    CASE t[p].pc \in {"namex", "unlink", "create_old", "create_new"} -> t[p].ip
      [] t[p].pc = "parent" -> t[p].dp
      [] t[p].pc = "link_bad" -> t[p].old
      [] OTHER -> 0

\* ilock's panic("ilock: no type") is not reached: no inode is freed under a
\* process that found it, also when it is freed and allocated in between.
IlockFindsType ==
    \A p \in Proc : Wanted(p) # 0 /\ Free(Wanted(p)) =>
                        Loaded(Wanted(p)).type # "free"

Entries(i) == {<<d, n>> \in Inum \X Name : dir[d][n] = i}

\* nlink never counts fewer links than there are, so that the last unlink and
\* no earlier one frees the inode: no entry names a free inode.
NoDangling ==
    \A i \in Inum : Entries(i) # {} =>
        disk[i].type # "free" /\ disk[i].nlink >= Cardinality(Entries(i))
=============================================================================
