-------------------------------- MODULE Log --------------------------------
(***************************************************************************)
(* kernel/log.c: the redo log that makes a file-system call atomic across  *)
(* a crash, with the part of the buffer cache it relies on (a block in the *)
(* log stays in the cache until it is installed).                          *)
(*                                                                         *)
(* log.lock is held for the whole of begin_op, log_write and each half of  *)
(* end_op, so each of these is one step.  commit() runs without the lock:  *)
(* every bwrite() of it is a step, and Crash may fall between any two.     *)
(* sleep() and wakeup() on &log are the atomic pair that module Proc       *)
(* justifies.                                                              *)
(***************************************************************************)
EXTENDS Naturals, FiniteSets, Sequences

CONSTANTS Proc,         \* processes that make file-system calls
          Block,        \* home blocks (everything outside the log area)
          Val,          \* contents of a block
          NoBuf,        \* "this block has no buffer in the cache"
          MAXOPBLOCKS,  \* kernel/param.h
          LOGSIZE,      \* kernel/param.h
          NLOG,         \* sb.nlog, which mkfs sets to LOGSIZE: header + data
          OPBLOCKS      \* distinct blocks one call really writes

ASSUME LogAssumption ==
    /\ MAXOPBLOCKS \in Nat \ {0}
    /\ LOGSIZE \in Nat
    /\ MAXOPBLOCKS <= LOGSIZE
    /\ NLOG \in Nat \ {0}
    /\ OPBLOCKS \in 0..MAXOPBLOCKS
    /\ IsFiniteSet(Proc)
    /\ NoBuf \notin Val

VARIABLES
    home,         \* disk: every block at its home location
    logblk,       \* disk: data blocks of the log
    head,         \* disk: the block numbers in the log header
    buf,          \* buffer cache: contents, or NoBuf
    pin,          \* references the log holds on a buffer (bpin/bunpin)
    lh,           \* log.lh, the header in memory
    outstanding,  \* log.outstanding
    committing,   \* log.committing
    pc,           \* where each process is
    wrote,        \* blocks the open operation of each process has logged
    tail,         \* loop index of the one process in commit or recovery
    boot,         \* "up", or where recovery is
    panicked      \* panic() was called with log.lock held

disk == <<home, logblk, head>>
vars == <<home, logblk, head, buf, pin, lh, outstanding, committing, pc,
          wrote, tail, boot, panicked>>

CommitPc == {"write_log", "write_head", "install", "erase", "finish"}

Active == {p \in Proc : pc[p] = "op"}

Logged == {lh[i] : i \in DOMAIN lh}

\* Contents a bread() of b would return.
bread(b) == IF buf[b] = NoBuf THEN home[b] ELSE buf[b]

\* begin_op, end_op and log_write start by acquiring log.lock, which a
\* panicked CPU never releases; no process runs before recovery is over.
Running == boot = "up" /\ ~panicked

wakeup == [q \in Proc |-> IF pc[q] = "asleep" THEN "woken" ELSE pc[q]]
-----------------------------------------------------------------------------
Init ==
    /\ home \in [Block -> Val]
    /\ \E zeroes \in Val : logblk = [i \in 1..LOGSIZE |-> zeroes]  \* mkfs
    /\ head = << >>
    /\ buf = [b \in Block |-> NoBuf]
    /\ pin = [b \in Block |-> 0]
    /\ lh = << >>
    /\ outstanding = 0
    /\ committing = FALSE
    /\ pc = [p \in Proc |-> "user"]
    /\ wrote = [p \in Proc |-> {}]
    /\ tail = 0
    /\ boot = "read_head"
    /\ panicked = FALSE

\* The space test of begin_op.
Room == Len(lh) + (outstanding + 1) * MAXOPBLOCKS <= LOGSIZE

AdmitIfRoom == Room

Admit == ~committing /\ Room

begin_op(p) ==
    /\ Running
    /\ pc[p] \in {"user", "woken"}
    /\ Admit
    /\ outstanding' = outstanding + 1
    /\ pc' = [pc EXCEPT ![p] = "op"]
    /\ UNCHANGED <<disk, buf, pin, lh, committing, wrote, tail, boot,
                   panicked>>

begin_op_sleep(p) ==
    /\ Running
    /\ pc[p] \in {"user", "woken"}
    /\ ~Admit
    /\ pc' = [pc EXCEPT ![p] = "asleep"]
    /\ UNCHANGED <<disk, buf, pin, lh, outstanding, committing, wrote, tail,
                   boot, panicked>>

\* "too big a transaction"; tested before looking for an earlier entry.
TooBig == Len(lh) >= LOGSIZE \/ Len(lh) >= NLOG - 1

\* Log absorption: a block already in the header keeps its slot.
Absorb(b) == IF b \in Logged THEN lh ELSE Append(lh, b)

BpinNever(b) == pin

\* bpin() for a block the log did not hold yet.
Bpin(b) == IF b \in Logged THEN pin ELSE [pin EXCEPT ![b] = @ + 1]

\* An operation's own bound: it logs at most OPBLOCKS different blocks.
MayWrite(p, b) ==
    /\ Running
    /\ pc[p] = "op"
    /\ Cardinality(wrote[p] \cup {b}) <= OPBLOCKS

\* bread(b); modify; log_write(b); brelse(b).  The buffer is locked
\* throughout, so nobody sees the steps in between.
log_write(p, b, v) ==
    /\ MayWrite(p, b)
    /\ ~TooBig
    /\ buf' = [buf EXCEPT ![b] = v]
    /\ lh' = Absorb(b)
    /\ pin' = Bpin(b)
    /\ wrote' = [wrote EXCEPT ![p] = @ \cup {b}]
    /\ UNCHANGED <<disk, outstanding, committing, pc, tail, boot, panicked>>

\* The caller keeps the buffer locked for ever, so its change is never seen.
log_write_panic(p, b) ==
    /\ MayWrite(p, b)
    /\ TooBig
    /\ panicked' = TRUE
    /\ UNCHANGED <<disk, buf, pin, lh, outstanding, committing, pc, wrote,
                   tail, boot>>

NoWakeup(p) == [pc EXCEPT ![p] = "user"]

\* begin_op may be waiting for the space this operation had reserved.
EndWakeup(p) == [wakeup EXCEPT ![p] = "user"]

\* end_op by an operation that is not the last one.
end_op(p) ==
    /\ Running
    /\ pc[p] = "op"
    /\ outstanding > 1
    /\ outstanding' = outstanding - 1
    /\ pc' = EndWakeup(p)
    /\ wrote' = [wrote EXCEPT ![p] = {}]
    /\ UNCHANGED <<disk, buf, pin, lh, committing, tail, boot, panicked>>

\* end_op by the last operation: it commits for the whole group.
end_op_commit(p) ==
    /\ Running
    /\ pc[p] = "op"
    /\ outstanding = 1
    /\ outstanding' = 0
    /\ committing' = TRUE
    /\ pc' = [pc EXCEPT ![p] = IF lh = << >> THEN "finish" ELSE "write_log"]
    /\ tail' = 0
    /\ wrote' = [wrote EXCEPT ![p] = {}]
    /\ UNCHANGED <<disk, buf, pin, lh, boot, panicked>>
-----------------------------------------------------------------------------
\* The loops over lh end with this block.
Last == tail + 1 = Len(lh)

\* One iteration of write_log: cache to log.
write_log(p) ==
    /\ pc[p] = "write_log"
    /\ logblk' = [logblk EXCEPT ![tail + 1] = bread(lh[tail + 1])]
    /\ tail' = tail + 1
    /\ pc' = [pc EXCEPT ![p] = IF Last THEN "write_head" ELSE @]
    /\ UNCHANGED <<home, head, buf, pin, lh, outstanding, committing, wrote,
                   boot, panicked>>

\* The commit point.
write_head(p) ==
    /\ pc[p] = "write_head"
    /\ head' = lh
    /\ tail' = 0
    /\ pc' = [pc EXCEPT ![p] = "install"]
    /\ UNCHANGED <<home, logblk, buf, pin, lh, outstanding, committing, wrote,
                   boot, panicked>>

\* One iteration of install_trans: log to home, through the cache.
CopyHome(b) ==
    /\ home' = [home EXCEPT ![b] = logblk[tail + 1]]
    /\ buf' = [buf EXCEPT ![b] = logblk[tail + 1]]
    /\ tail' = tail + 1

BunpinNever(b) == pin

Bunpin(b) == [pin EXCEPT ![b] = @ - 1]

install_trans(p) ==
    /\ pc[p] = "install"
    /\ CopyHome(lh[tail + 1])
    /\ pin' = Bunpin(lh[tail + 1])
    /\ pc' = [pc EXCEPT ![p] = IF Last THEN "erase" ELSE @]
    /\ UNCHANGED <<logblk, head, lh, outstanding, committing, wrote, boot,
                   panicked>>

\* log.lh.n = 0; write_head().
erase(p) ==
    /\ pc[p] = "erase"
    /\ lh' = << >>
    /\ head' = << >>
    /\ tail' = 0
    /\ pc' = [pc EXCEPT ![p] = "finish"]
    /\ UNCHANGED <<home, logblk, buf, pin, outstanding, committing, wrote,
                   boot, panicked>>

\* The second half of end_op.
commit_done(p) ==
    /\ Running
    /\ pc[p] = "finish"
    /\ committing' = FALSE
    /\ pc' = EndWakeup(p)
    /\ UNCHANGED <<disk, buf, pin, lh, outstanding, wrote, tail, boot,
                   panicked>>
-----------------------------------------------------------------------------
\* bget recycles a buffer nobody refers to.
Evict(b) ==
    /\ boot = "up"
    /\ buf[b] # NoBuf
    /\ pin[b] = 0
    /\ buf' = [buf EXCEPT ![b] = NoBuf]
    /\ UNCHANGED <<disk, pin, lh, outstanding, committing, pc, wrote, tail,
                   boot, panicked>>

\* A read brings the block into the cache.
Fill(b) ==
    /\ boot = "up"
    /\ buf[b] = NoBuf
    /\ buf' = [buf EXCEPT ![b] = home[b]]
    /\ UNCHANGED <<disk, pin, lh, outstanding, committing, pc, wrote, tail,
                   boot, panicked>>

\* Memory is lost; every block write that reached the disk is kept.
Crash ==
    /\ buf' = [b \in Block |-> NoBuf]
    /\ pin' = [b \in Block |-> 0]
    /\ lh' = << >>
    /\ outstanding' = 0
    /\ committing' = FALSE
    /\ pc' = [p \in Proc |-> "user"]
    /\ wrote' = [p \in Proc |-> {}]
    /\ tail' = 0
    /\ boot' = "read_head"
    /\ panicked' = FALSE
    /\ UNCHANGED disk

\* recover_from_log, run by initlog before the first system call.
read_head ==
    /\ boot = "read_head"
    /\ lh' = head
    /\ tail' = 0
    /\ boot' = IF head = << >> THEN "erase" ELSE "install"
    /\ UNCHANGED <<disk, buf, pin, outstanding, committing, pc, wrote,
                   panicked>>

\* install_trans(1): as above, without bunpin.
recover_install ==
    /\ boot = "install"
    /\ CopyHome(lh[tail + 1])
    /\ boot' = IF Last THEN "erase" ELSE boot
    /\ UNCHANGED <<logblk, head, pin, lh, outstanding, committing, pc, wrote,
                   panicked>>

recover_erase ==
    /\ boot = "erase"
    /\ lh' = << >>
    /\ head' = << >>
    /\ tail' = 0
    /\ boot' = "up"
    /\ UNCHANGED <<home, logblk, buf, pin, outstanding, committing, pc, wrote,
                   panicked>>
-----------------------------------------------------------------------------
Kernel(p) ==
    \/ end_op(p) \/ end_op_commit(p)
    \/ write_log(p) \/ write_head(p) \/ install_trans(p) \/ erase(p)
    \/ commit_done(p)

Recovery == read_head \/ recover_install \/ recover_erase

Next ==
    \/ \E p \in Proc : begin_op(p) \/ begin_op_sleep(p) \/ Kernel(p)
    \/ \E p \in Proc, b \in Block :
          \/ log_write_panic(p, b)
          \/ \E v \in Val : log_write(p, b, v)
    \/ \E b \in Block : Evict(b) \/ Fill(b)
    \/ Crash
    \/ Recovery

Spec == Init /\ [][Next]_vars
-----------------------------------------------------------------------------
TypeOK ==
    /\ home \in [Block -> Val]
    /\ logblk \in [1..LOGSIZE -> Val]
    /\ head \in Seq(Block)
    /\ buf \in [Block -> Val \cup {NoBuf}]
    /\ pin \in [Block -> Nat]
    /\ lh \in Seq(Block)
    /\ outstanding \in Nat
    /\ committing \in BOOLEAN
    /\ pc \in [Proc -> {"user", "asleep", "woken", "op"} \cup CommitPc]
    /\ wrote \in [Proc -> SUBSET Block]
    /\ tail \in Nat
    /\ boot \in {"up", "read_head", "install", "erase"}
    /\ panicked \in BOOLEAN

\* What begin_op's reservation is for: the blocks in the log and the blocks
\* the open operations may still add (MAXOPBLOCKS each, less those already
\* logged) fit in the log together.
Credits ==
    {c \in Active \X (1..MAXOPBLOCKS) : c[2] > Cardinality(wrote[c[1]])}

ReservationFits == boot = "up" => Len(lh) + Cardinality(Credits) <= LOGSIZE

\* log_write's "too big a transaction" panic.
NoPanic == ~panicked

\* commit() runs only when no operation is open, by one process; end_op's
\* "log.committing" panic is unreachable.
CommitQuiescent ==
    /\ outstanding = Cardinality(Active)
    /\ committing <=> \E p \in Proc : pc[p] \in CommitPc
    /\ committing => outstanding = 0
    /\ \A p, q \in Proc : pc[p] \in CommitPc /\ pc[q] \in CommitPc => p = q

\* Blocks still to be installed.  All of lh until install_trans runs.
Uninstalled ==
    IF \E p \in Proc : pc[p] = "install"
    THEN {lh[i] : i \in {j \in DOMAIN lh : j > tail}}
    ELSE IF \E p \in Proc : pc[p] = "erase" THEN {} ELSE Logged

\* log_write pins a block once however often it is written, and install_trans
\* gives the pin back: no buffer is lost to the cache and none is recycled
\* while its only copy is in memory.
PinsMatchLog ==
    boot = "up" =>
        \A b \in Block : pin[b] = IF b \in Uninstalled THEN 1 ELSE 0

\* A process sleeps in begin_op only while begin_op would make it sleep again:
\* every change that lets it in wakes it.
SleepersMustWait == \A p \in Proc : pc[p] = "asleep" => ~Admit

\* What commit and recovery know at each point, which is why the order of
\* their disk writes matters.
LogHolds(n) == \A i \in 1..n : logblk[i] = bread(lh[i])

Installed(n) == \A i \in 1..n : home[lh[i]] = logblk[i]

CommitStage(p) ==
    /\ pc[p] = "write_log" =>
          head = << >> /\ tail < Len(lh) /\ LogHolds(tail)
    /\ pc[p] = "write_head" =>
          head = << >> /\ lh # << >> /\ LogHolds(Len(lh))
    /\ pc[p] = "install" =>
          /\ head = lh /\ tail < Len(lh)
          /\ LogHolds(Len(lh)) /\ Installed(tail)
    /\ pc[p] = "erase" =>
          head = lh /\ LogHolds(Len(lh)) /\ Installed(Len(lh))
    /\ pc[p] = "finish" => head = << >> /\ lh = << >>

BootStage ==
    /\ boot = "read_head" => lh = << >>
    /\ boot = "install" => lh = head /\ tail < Len(lh) /\ Installed(tail)
    /\ boot = "erase" => lh = head /\ Installed(Len(lh))
    /\ boot # "up" =>
          /\ outstanding = 0 /\ ~committing /\ ~panicked
          /\ pin = [b \in Block |-> 0]
          /\ \A p \in Proc : pc[p] = "user" /\ wrote[p] = {}

\* A buffer without a pin may be recycled at any time, so it holds nothing
\* the disk does not; a block waiting to be installed is in the cache.
CacheClean ==
    \A b \in Block :
        /\ pin[b] = 0 => buf[b] \in {NoBuf, home[b]}
        /\ pin[b] > 0 => buf[b] # NoBuf

\* Absorption keeps the entries of the log different, so that the order of
\* installation does not matter.
Injective(s) == \A i, j \in DOMAIN s : s[i] = s[j] => i = j

LogBounded ==
    /\ Injective(lh) /\ Len(lh) <= LOGSIZE
    /\ Injective(head) /\ Len(head) <= LOGSIZE
    /\ boot = "up" /\ ~committing => head = << >>
    /\ boot = "up" /\ ~committing /\ outstanding = 0 => lh = << >>

\* Every point of commit and of recovery finds on disk and in the cache what
\* it needs; checked by TLC here and by induction in LogProofs.
StageInv ==
    /\ \A p \in Proc : CommitStage(p)
    /\ BootStage
    /\ CacheClean
    /\ LogBounded

\* The image recovery would leave: the home blocks overwritten by the
\* committed log.
Recovered ==
    [b \in Block |->
        IF \E i \in DOMAIN head : head[i] = b
        THEN logblk[CHOOSE i \in DOMAIN head : head[i] = b]
        ELSE home[b]]

View ==
    IF boot = "up" THEN [b \in Block |-> bread(b)] ELSE Recovered

Store == INSTANCE AtomicStore
             WITH mem <- View, stable <- Recovered, active <- Active

\* Crash atomicity: log.c implements AtomicStore, in every crash of commit
\* and of recovery itself.
CrashAtomic == Store!Spec
=============================================================================
