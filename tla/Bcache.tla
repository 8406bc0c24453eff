------------------------------- MODULE Bcache -------------------------------
(***************************************************************************)
(* kernel/bio.c and kernel/sleeplock.c: the LRU cache of disk blocks and   *)
(* the sleep-lock of each buffer.  A client is one use of a buffer by a    *)
(* process (a process that holds two buffers is two clients).  The code    *)
(* under bcache.lock or lk->lk is one step; a client can be preempted      *)
(* between them and sleeps in acquiresleep() and in the disk driver.       *)
(***************************************************************************)
EXTENDS Naturals, FiniteSets

CONSTANTS Client, Block, Val,
          NoBlock,   \* blockno of a buffer never used (dev 0 in the code)
          NBUF,      \* kernel/param.h
          PINS       \* blocks the log keeps pinned at most (see Log)

ASSUME BcacheAssumption ==
    /\ IsFiniteSet(Client)
    /\ NoBlock \notin Block
    /\ NBUF \in Nat \ {0}
    /\ PINS \in Nat

Buf == 1..NBUF

VARIABLES blockno, valid, refcnt, data,  \* struct buf
          holder,   \* b->lock: the clients that have it (empty: not locked)
          pinned,   \* buffers the log has pinned
          lru,      \* the list, most recently used first
          pc,
          b,        \* the buffer each client works on (0: none)
          want,     \* the block it asked for
          disk

vars == <<blockno, valid, refcnt, data, holder, pinned, lru, pc, b, want,
          disk>>

Goto(c, l) == pc' = [pc EXCEPT ![c] = l]

\* binit
Init ==
    /\ blockno = [i \in Buf |-> NoBlock]
    /\ valid = [i \in Buf |-> FALSE]
    /\ refcnt = [i \in Buf |-> 0]
    /\ \E v \in Val : data = [i \in Buf |-> v]
    /\ holder = [i \in Buf |-> {}]
    /\ pinned = {}
    /\ lru = [i \in Buf |-> NBUF + 1 - i]
    /\ pc = [c \in Client |-> "idle"]
    /\ b = [c \in Client |-> 0]
    /\ want = [c \in Client |-> NoBlock]
    /\ \E v \in Val : disk = [k \in Block |-> v]
-----------------------------------------------------------------------------
\* A panic in bget() leaves bcache.lock held, and nobody else gets it.
LockFree == \A c \in Client : pc[c] # "panic"

Cached(k) == {i \in Buf : blockno[i] = k}

\* bget: the block is cached.
bget_hit(c, k) ==
    /\ pc[c] = "idle" /\ LockFree
    /\ \E i \in Cached(k) :
          /\ refcnt' = [refcnt EXCEPT ![i] = @ + 1]
          /\ b' = [b EXCEPT ![c] = i]
    /\ want' = [want EXCEPT ![c] = k]
    /\ Goto(c, "acquire")
    /\ UNCHANGED <<blockno, valid, data, holder, pinned, lru, disk>>

Unused == {i \in Buf : refcnt[i] = 0}

Victim(i) ==
    \E j \in 1..NBUF :
        /\ lru[j] = i
        /\ i \in Unused
        /\ \A h \in 1..NBUF : h > j => lru[h] \notin Unused

\* bget: recycle the least recently used buffer.
bget_miss(c, k) ==
    /\ pc[c] = "idle" /\ LockFree
    /\ Cached(k) = {}
    /\ \E i \in Buf :
          /\ Victim(i)
          /\ blockno' = [blockno EXCEPT ![i] = k]
          /\ valid' = [valid EXCEPT ![i] = FALSE]
          /\ refcnt' = [refcnt EXCEPT ![i] = 1]
          /\ b' = [b EXCEPT ![c] = i]
    /\ want' = [want EXCEPT ![c] = k]
    /\ Goto(c, "acquire")
    /\ UNCHANGED <<data, holder, pinned, lru, disk>>

\* bget: panic("bget: no buffers").
bget_panic(c, k) ==
    /\ pc[c] = "idle" /\ LockFree
    /\ Cached(k) = {}
    /\ Unused = {}
    /\ Goto(c, "panic")
    /\ UNCHANGED <<blockno, valid, refcnt, data, holder, pinned, lru, b, want,
                   disk>>

\* panic() spins for ever.
halted == ~LockFree /\ UNCHANGED vars

acquiresleep(c) ==
    /\ pc[c] = "acquire"
    /\ holder[b[c]] = {}
    /\ holder' = [holder EXCEPT ![b[c]] = {c}]
    /\ Goto(c, IF valid[b[c]] THEN "held" ELSE "read")
    /\ UNCHANGED <<blockno, valid, refcnt, data, pinned, lru, b, want, disk>>

acquiresleep_sleep(c) ==
    /\ pc[c] = "acquire"
    /\ holder[b[c]] # {}
    /\ Goto(c, "asleep")
    /\ UNCHANGED <<blockno, valid, refcnt, data, holder, pinned, lru, b, want,
                   disk>>

\* bread: virtio_disk_rw(b, 0); b->valid = 1.
bread(c) ==
    /\ pc[c] = "read"
    /\ data' = [data EXCEPT ![b[c]] = disk[blockno[b[c]]]]
    /\ valid' = [valid EXCEPT ![b[c]] = TRUE]
    /\ Goto(c, "held")
    /\ UNCHANGED <<blockno, refcnt, holder, pinned, lru, b, want, disk>>
-----------------------------------------------------------------------------
\* The caller changes b->data; every caller then calls log_write or bwrite.
modify(c, v) ==
    /\ pc[c] = "held"
    /\ data' = [data EXCEPT ![b[c]] = v]
    /\ Goto(c, "modified")
    /\ UNCHANGED <<blockno, valid, refcnt, holder, pinned, lru, b, want, disk>>

PinLost(i) == refcnt

\* bpin
PinRef(i) == [refcnt EXCEPT ![i] = @ + 1]

\* log_write pins a block when it is new to the transaction; begin_op() has
\* reserved room for it.
bpin(c) ==
    /\ pc[c] = "modified" /\ LockFree
    /\ Cardinality(pinned \cup {b[c]}) <= PINS
    /\ pinned' = pinned \cup {b[c]}
    /\ refcnt' = IF b[c] \in pinned THEN refcnt ELSE PinRef(b[c])
    /\ Goto(c, "held")
    /\ UNCHANGED <<blockno, valid, data, holder, lru, b, want, disk>>

\* bwrite: of a log block just changed, or by install_trans() of a pinned one.
bwrite(c) ==
    /\ pc[c] = "modified" \/ (pc[c] = "held" /\ b[c] \in pinned)
    /\ disk' = [disk EXCEPT ![blockno[b[c]]] = data[b[c]]]
    /\ Goto(c, IF b[c] \in pinned THEN "written" ELSE "held")
    /\ UNCHANGED <<blockno, valid, refcnt, data, holder, pinned, lru, b, want>>

UnpinLost(i) == refcnt

UnpinRef(i) == [refcnt EXCEPT ![i] = @ - 1]

\* bunpin, after it.
bunpin(c) ==
    /\ pc[c] = "written" /\ LockFree
    /\ pinned' = pinned \ {b[c]}
    /\ refcnt' = UnpinRef(b[c])
    /\ Goto(c, "held")
    /\ UNCHANGED <<blockno, valid, data, holder, lru, b, want, disk>>
-----------------------------------------------------------------------------
NoneWoken(c) == Goto(c, "released")

\* wakeup(lk): every sleeper on the lock tries again.
ReleaseWakes(c) ==
    pc' = [d \in Client |-> IF d = c THEN "released"
                            ELSE IF pc[d] = "asleep" /\ b[d] = b[c]
                            THEN "acquire" ELSE pc[d]]

\* brelse: releasesleep ...
releasesleep(c) ==
    /\ pc[c] = "held"
    /\ holder' = [holder EXCEPT ![b[c]] = {}]
    /\ ReleaseWakes(c)
    /\ UNCHANGED <<blockno, valid, refcnt, data, pinned, lru, b, want, disk>>

\* Out of its place in the list, and in at the head.
ToFront(i) ==
    LET place == CHOOSE j \in 1..NBUF : lru[j] = i
    IN  [j \in 1..NBUF |-> IF j = 1 THEN i
                           ELSE IF j <= place THEN lru[j - 1] ELSE lru[j]]

\* ... then, under bcache.lock, the count and the list.
brelse(c) ==
    /\ pc[c] = "released" /\ LockFree
    /\ refcnt' = [refcnt EXCEPT ![b[c]] = @ - 1]
    /\ lru' = IF refcnt'[b[c]] = 0 THEN ToFront(b[c]) ELSE lru
    /\ b' = [b EXCEPT ![c] = 0]
    /\ want' = [want EXCEPT ![c] = NoBlock]
    /\ Goto(c, "idle")
    /\ UNCHANGED <<blockno, valid, data, holder, pinned, disk>>
-----------------------------------------------------------------------------
Kernel(c) ==
    \/ acquiresleep(c) \/ acquiresleep_sleep(c) \/ bread(c)
    \/ bpin(c) \/ bunpin(c) \/ releasesleep(c) \/ brelse(c)

Next ==
    \/ \E c \in Client :
          \/ Kernel(c) \/ bwrite(c)
          \/ \E k \in Block :
                bget_hit(c, k) \/ bget_miss(c, k) \/ bget_panic(c, k)
          \/ \E v \in Val : modify(c, v)
    \/ halted

Spec == Init /\ [][Next]_vars
-----------------------------------------------------------------------------
Users(i) == {c \in Client : b[c] = i}

TypeOK ==
    /\ blockno \in [Buf -> Block \cup {NoBlock}]
    /\ valid \in [Buf -> BOOLEAN]
    /\ refcnt \in [Buf -> Nat]
    /\ data \in [Buf -> Val]
    /\ holder \in [Buf -> SUBSET Client]
    /\ pinned \subseteq Buf
    /\ lru \in [1..NBUF -> Buf]
    /\ \A i \in Buf : \E j \in 1..NBUF : lru[j] = i
    /\ pc \in [Client -> {"idle", "acquire", "asleep", "read", "held",
                          "modified", "written", "released", "panic"}]
    /\ b \in [Client -> Buf \cup {0}]
    /\ want \in [Client -> Block \cup {NoBlock}]
    /\ disk \in [Block -> Val]

\* refcnt is exact: the clients that work on the buffer, one more if the log
\* has pinned it.
RefcntExact ==
    \A i \in Buf : refcnt[i] =
        Cardinality(Users(i)) + (IF i \in pinned THEN 1 ELSE 0)

\* "Return a locked buf with the contents of the indicated block": a client
\* that waited for a buffer still finds its block there.
RightBuffer == \A c \in Client : b[c] # 0 => blockno[b[c]] = want[c]

\* A client sleeps on a sleep-lock only while somebody holds it.
SleepersMustWait ==
    \A c \in Client : pc[c] = "asleep" => holder[b[c]] # {}

\* No reference is leaked: when bget() finds no buffer to recycle, the uses of
\* buffers and the blocks the log has pinned make up all of them.
PanicOnlyWhenFull ==
    ~LockFree => Cardinality({c \in Client : b[c] # 0})
                     + Cardinality(pinned) >= NBUF

\* The content of a block: its buffer's if there is a valid one.
Content == [k \in Block |->
    IF \E i \in Cached(k) : valid[i]
    THEN data[CHOOSE i \in Cached(k) : valid[i]] ELSE disk[k]]

Holders == [k \in Block |-> {c \in Client :
    want[c] = k /\ pc[c] \in {"read", "held", "modified", "written"}}]

Abstract == INSTANCE BlockCache WITH content <- Content, holders <- Holders

\* Two clients never work on copies of one block or hold it together, and no
\* change of a block is lost by recycling its buffer.
CacheCoherent == Abstract!Spec
=============================================================================
