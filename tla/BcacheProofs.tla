---------------------------- MODULE BcacheProofs ----------------------------
(***************************************************************************)
(* The buffer cache for every number of clients, blocks and buffers:       *)
(* counts are exact, nobody waits for a lock that is free or gets the      *)
(* wrong block, bget() panics only when every buffer is in use, and the    *)
(* cache implements module BlockCache: one content and one holder for each *)
(* block, whatever buffers come and go.                                    *)
(***************************************************************************)
EXTENDS Bcache, FiniteSetTheorems, FunctionTheorems, TLAPS

\* Points at which a client has the sleep-lock of its buffer.
Locked == {"read", "held", "modified", "written"}

\* Who works on a buffer, and who has it locked.
HoldInv ==
    /\ \A c \in Client :
          /\ b[c] = 0 <=> pc[c] = "idle" \/ pc[c] = "panic"
          /\ b[c] # 0 => want[c] \in Block
          /\ \A i \in Buf : c \in holder[i] <=> b[c] = i /\ pc[c] \in Locked
    /\ \A i \in Buf : \A c, d \in holder[i] : c = d

\* A block has one buffer.
OneBuffer ==
    \A i, j \in Buf : blockno[i] = blockno[j] /\ blockno[i] # NoBlock => i = j

\* Where a buffer may differ from the disk: pinned, or in the hands of the
\* client that has changed it.
Changing(i) == \E c \in Client : b[c] = i /\ pc[c] = "modified"

BufferClean(i) ==
    /\ i \in pinned => valid[i]
    /\ valid[i] => blockno[i] \in Block
    /\ valid[i] /\ i \notin pinned /\ ~Changing(i)
          => data[i] = disk[blockno[i]]

ClientClean(c) ==
    /\ pc[c] \in {"held", "modified", "written"} => valid[b[c]]
    /\ pc[c] = "read" => ~valid[b[c]]
    /\ pc[c] = "written" =>
          b[c] \in pinned /\ data[b[c]] = disk[blockno[b[c]]]

CleanInv ==
    (\A i \in Buf : BufferClean(i)) /\ (\A c \in Client : ClientClean(c))

Inv ==
    /\ TypeOK /\ HoldInv /\ RefcntExact /\ RightBuffer /\ OneBuffer /\ CleanInv
    /\ SleepersMustWait /\ Cardinality(pinned) <= PINS
    /\ PanicOnlyWhenFull
-----------------------------------------------------------------------------
\* The list stays a list of all buffers.
LEMMA ListKept ==
    ASSUME TypeOK, NEW i \in Buf
    PROVE  /\ ToFront(i) \in [1..NBUF -> Buf]
           /\ \A h \in Buf : \E j \in 1..NBUF : ToFront(i)[j] = h
<1> DEFINE place == CHOOSE j \in 1..NBUF : lru[j] = i
<1>1. place \in 1..NBUF /\ lru[place] = i
  BY Zenon DEF TypeOK
<1> HIDE DEF place
<1>2. ToFront(i) = [j \in 1..NBUF |-> IF j = 1 THEN i
                       ELSE IF j <= place THEN lru[j - 1] ELSE lru[j]]
  BY DEF ToFront, place
<1>3. \A j \in 1..NBUF : lru[j] \in Buf
  BY Zenon DEF TypeOK
<1>4. \A j \in 1..NBUF : j # 1 => j - 1 \in 1..NBUF
  BY BcacheAssumption
<1>5. ToFront(i) \in [1..NBUF -> Buf]
  BY <1>2, <1>3, <1>4
<1>6. ASSUME NEW h \in Buf
      PROVE  \E j \in 1..NBUF : ToFront(i)[j] = h
  <2>1. PICK g \in 1..NBUF : lru[g] = h
    BY DEF TypeOK
  <2>2. CASE h = i
    BY <1>2, <2>2, BcacheAssumption
  <2>3. CASE g < place
    <3>1. g + 1 \in 1..NBUF /\ g + 1 # 1 /\ g + 1 <= place /\ (g + 1) - 1 = g
      BY <1>1, <2>3, BcacheAssumption
    <3>2. ToFront(i)[g + 1] = lru[g]
      BY <1>2, <3>1
    <3> QED
      BY <2>1, <3>1, <3>2
  <2>4. CASE g > place
    <3>1. g # 1 /\ ~(g <= place)
      BY <1>1, <2>4, BcacheAssumption
    <3> QED
      BY <1>2, <2>1, <3>1
  <2> QED
    BY <1>1, <2>1, <2>2, <2>3, <2>4, BcacheAssumption
<1> QED
  BY <1>5, <1>6

\* A client in one of the calls between bget() and brelse() has a buffer.
LEMMA HasBuffer ==
    ASSUME TypeOK, HoldInv
    PROVE  \A c \in Client :
              pc[c] # "idle" /\ pc[c] # "panic" =>
                 b[c] \in Buf /\ b[c] # 0 /\ want[c] \in Block
<1> SUFFICES ASSUME NEW c \in Client, pc[c] # "idle", pc[c] # "panic"
             PROVE  b[c] \in Buf /\ b[c] # 0 /\ want[c] \in Block
    OBVIOUS
<1>1. b[c] # 0
  BY Zenon DEF HoldInv
<1>2. b[c] \in Buf \cup {0}
  BY Zenon DEF TypeOK
<1> QED
  BY Zenon, <1>1, <1>2 DEF HoldInv

\* Types.
LEMMA TypeStep == Inv /\ [Next]_vars => TypeOK'
<1> SUFFICES ASSUME Inv, [Next]_vars PROVE TypeOK'
    OBVIOUS
<1>0. TypeOK /\ HoldInv /\ RefcntExact /\ RightBuffer /\ CleanInv
  BY DEF Inv
<1>a. \A c \in Client : pc[c] # "idle" /\ pc[c] # "panic" =>
         b[c] \in Buf /\ b[c] # 0 /\ want[c] \in Block
  BY <1>0, HasBuffer
<1> USE DEF TypeOK
<1>1. ASSUME NEW c \in Client, acquiresleep(c) PROVE TypeOK'
  <2>1. b[c] \in Buf
    BY Zenon, <1>1, <1>a DEF acquiresleep
  <2> QED
    BY <1>0, <1>1, <2>1 DEF acquiresleep, Goto
<1>2. ASSUME NEW c \in Client, acquiresleep_sleep(c) PROVE TypeOK'
  BY <1>0, <1>2 DEF acquiresleep_sleep, Goto
<1>3. ASSUME NEW c \in Client, bread(c) PROVE TypeOK'
  <2>1. b[c] \in Buf /\ blockno[b[c]] \in Block
    BY Zenon, <1>0, <1>3, <1>a DEF bread, RightBuffer
  <2> QED
    BY <1>0, <1>3, <2>1 DEF bread, Goto
<1>4. ASSUME NEW c \in Client, bpin(c) PROVE TypeOK'
  <2>1. b[c] \in Buf
    BY Zenon, <1>4, <1>a DEF bpin
  <2> QED
    BY SMTT(30), <1>0, <1>4, <2>1 DEF bpin, Goto, PinRef
<1>5. ASSUME NEW c \in Client, bunpin(c) PROVE TypeOK'
  <2>1. b[c] \in Buf /\ b[c] \in pinned
    BY Zenon, <1>0, <1>5, <1>a DEF bunpin, CleanInv, ClientClean
  <2>2. refcnt[b[c]] > 0
    <3>1. IsFiniteSet(Users(b[c]))
      BY BcacheAssumption, FS_Subset DEF Users
    <3> QED
      BY SMTT(30), <1>0, <2>1, <3>1, FS_CardinalityType DEF RefcntExact
  <2>3. refcnt' \in [Buf -> Nat]
    BY SMTT(30), <1>0, <1>5, <2>1, <2>2 DEF bunpin, UnpinRef
  <2> QED
    BY SMTT(30), <1>0, <1>5, <2>3 DEF bunpin, Goto
<1>6. ASSUME NEW c \in Client, releasesleep(c) PROVE TypeOK'
  <2>1. b[c] \in Buf
    BY Zenon, <1>6, <1>a DEF releasesleep
  <2> QED
    BY SMTT(30), <1>0, <1>6, <2>1 DEF releasesleep, ReleaseWakes
<1>7. ASSUME NEW c \in Client, brelse(c) PROVE TypeOK'
  <2>1. b[c] \in Buf
    BY Zenon, <1>7, <1>a DEF brelse
  <2>2. refcnt[b[c]] > 0
    <3>1. c \in Users(b[c]) /\ Users(b[c]) \subseteq Client
      BY DEF Users
    <3>2. IsFiniteSet(Users(b[c]))
      BY <3>1, BcacheAssumption, FS_Subset
    <3>3. Cardinality(Users(b[c])) \in Nat /\ Cardinality(Users(b[c])) # 0
      BY SMTT(30), <3>1, <3>2, FS_CardinalityType, FS_EmptySet
    <3>4. refcnt[b[c]] =
             Cardinality(Users(b[c])) + (IF b[c] \in pinned THEN 1 ELSE 0)
      BY SMTT(30), <1>0, <2>1 DEF RefcntExact
    <3> QED
      BY <3>3, <3>4
  <2>3. refcnt' \in [Buf -> Nat]
    BY SMTT(30), <1>0, <1>7, <2>1, <2>2 DEF brelse
  <2>4. /\ lru' \in [1..NBUF -> Buf]
        /\ \A h \in Buf : \E j \in 1..NBUF : lru'[j] = h
    BY SMTT(30), <1>0, <1>7, <2>1, ListKept DEF brelse
  <2> QED
    BY SMTT(30), <1>0, <1>7, <2>3, <2>4 DEF brelse, Goto
<1>8. ASSUME NEW c \in Client, bwrite(c) PROVE TypeOK'
  <2>1. pc[c] \in {"held", "modified"}
    BY <1>8 DEF bwrite
  <2>2. b[c] \in Buf /\ blockno[b[c]] \in Block
    BY Zenon, <1>0, <2>1, <1>a DEF RightBuffer
  <2>3. disk' \in [Block -> Val]
    BY ZenonT(30), <1>0, <1>8, <2>2 DEF bwrite
  <2> QED
    BY SMTT(30), <1>0, <1>8, <2>3 DEF bwrite, Goto
<1>9. ASSUME NEW c \in Client, NEW k \in Block, bget_hit(c, k) PROVE TypeOK'
  <2>1. PICK i \in Buf :
          /\ refcnt' = [refcnt EXCEPT ![i] = @ + 1]
          /\ b' = [b EXCEPT ![c] = i]
    BY Zenon, <1>9 DEF bget_hit, Cached
  <2> QED
    BY SMTT(30), <1>0, <1>9, <2>1 DEF bget_hit, Goto
<1>10. ASSUME NEW c \in Client, NEW k \in Block, bget_miss(c, k) PROVE TypeOK'
  <2>1. PICK i \in Buf :
          /\ blockno' = [blockno EXCEPT ![i] = k]
          /\ valid' = [valid EXCEPT ![i] = FALSE]
          /\ refcnt' = [refcnt EXCEPT ![i] = 1]
          /\ b' = [b EXCEPT ![c] = i]
    BY ZenonT(30), <1>10 DEF bget_miss
  <2> QED
    BY <1>0, <1>10, <2>1 DEF bget_miss, Goto
<1>11. ASSUME NEW c \in Client, NEW v \in Val, modify(c, v) PROVE TypeOK'
  BY ZenonT(30), <1>0, <1>11 DEF modify, Goto
<1>12. CASE UNCHANGED vars
  BY <1>0, <1>12 DEF vars
<1>13. ASSUME NEW c \in Client, NEW k \in Block, bget_panic(c, k)
      PROVE  TypeOK'
  BY <1>0, <1>13 DEF bget_panic, Goto
<1> QED
  BY ZenonT(30), <1>1, <1>2, <1>3, <1>4, <1>5, <1>6, <1>7, <1>8, <1>9, <1>10, <1>11,
     <1>12, <1>13,
     Zenon
  DEF Next, Kernel, halted

\* A buffer that bget() may recycle has no users, pins or changes.
LEMMA VictimFree ==
    ASSUME TypeOK, RefcntExact, NEW i \in Buf, refcnt[i] = 0
    PROVE  i \notin pinned /\ \A c \in Client : b[c] # i
<1>1. IsFiniteSet(Users(i))
  BY BcacheAssumption, FS_Subset DEF Users
<1>2. Cardinality(Users(i)) \in Nat
  BY <1>1, FS_CardinalityType
<1>3. refcnt[i] = Cardinality(Users(i)) + (IF i \in pinned THEN 1 ELSE 0)
  BY DEF RefcntExact
<1>4. Cardinality(Users(i)) = 0 /\ i \notin pinned
  BY <1>2, <1>3
<1>5. Users(i) = {}
  BY <1>1, <1>4, FS_EmptySet
<1> QED
  BY <1>4, <1>5 DEF Users

LEMMA MissFacts ==
    ASSUME Inv, NEW c \in Client, NEW k \in Block, bget_miss(c, k)
    PROVE  \E i \in Buf :
              /\ refcnt[i] = 0 /\ i \notin pinned
              /\ \A d \in Client : b[d] # i
              /\ \A j \in Buf : blockno[j] # k
              /\ blockno' = [blockno EXCEPT ![i] = k]
              /\ valid' = [valid EXCEPT ![i] = FALSE]
              /\ refcnt' = [refcnt EXCEPT ![i] = 1]
              /\ b' = [b EXCEPT ![c] = i]
<1>1. PICK i \in Buf :
        /\ refcnt[i] = 0
        /\ blockno' = [blockno EXCEPT ![i] = k]
        /\ valid' = [valid EXCEPT ![i] = FALSE]
        /\ refcnt' = [refcnt EXCEPT ![i] = 1]
        /\ b' = [b EXCEPT ![c] = i]
  BY Zenon DEF bget_miss, Victim, Unused
<1>2. i \notin pinned /\ \A d \in Client : b[d] # i
  BY <1>1, VictimFree DEF Inv
<1>3. \A j \in Buf : blockno[j] # k
  BY DEF bget_miss, Cached
<1> QED
  BY Zenon, <1>1, <1>2, <1>3

LEMMA HitFacts ==
    ASSUME Inv, NEW c \in Client, NEW k \in Block, bget_hit(c, k)
    PROVE  \E i \in Buf :
              /\ blockno[i] = k
              /\ refcnt' = [refcnt EXCEPT ![i] = @ + 1]
              /\ b' = [b EXCEPT ![c] = i]
BY ZenonT(30) DEF bget_hit, Cached

\* One client at a time has a sleep-lock, and it is working on that buffer.
LEMMA HoldStep == Inv /\ [Next]_vars => HoldInv'
<1> SUFFICES ASSUME Inv, [Next]_vars PROVE HoldInv'
    OBVIOUS
<1>0. TypeOK /\ HoldInv
  BY DEF Inv
<1> USE DEF TypeOK, HoldInv, Locked
<1>1. ASSUME NEW c \in Client, acquiresleep(c) PROVE HoldInv'
  BY SMTT(30), <1>0, <1>1 DEF acquiresleep, Goto
<1>2. ASSUME NEW c \in Client, acquiresleep_sleep(c) PROVE HoldInv'
  BY SMTT(30), <1>0, <1>2 DEF acquiresleep_sleep, Goto
<1>3. ASSUME NEW c \in Client, bread(c) PROVE HoldInv'
  BY SMTT(30), <1>0, <1>3 DEF bread, Goto
<1>4. ASSUME NEW c \in Client, bpin(c) PROVE HoldInv'
  BY SMTT(30), <1>0, <1>4 DEF bpin, Goto, PinRef
<1>5. ASSUME NEW c \in Client, bunpin(c) PROVE HoldInv'
  BY SMTT(30), <1>0, <1>5 DEF bunpin, Goto, UnpinRef
<1>6. ASSUME NEW c \in Client, releasesleep(c) PROVE HoldInv'
  BY SMTT(30), <1>0, <1>6 DEF releasesleep, ReleaseWakes
<1>7. ASSUME NEW c \in Client, brelse(c) PROVE HoldInv'
  BY SMTT(30), <1>0, <1>7 DEF brelse, Goto, Buf
<1>8. ASSUME NEW c \in Client, bwrite(c) PROVE HoldInv'
  BY <1>0, <1>8 DEF bwrite, Goto
<1>9. ASSUME NEW c \in Client, NEW k \in Block, bget_hit(c, k) PROVE HoldInv'
  <2>1. PICK i \in Buf :
          /\ blockno[i] = k
          /\ refcnt' = [refcnt EXCEPT ![i] = @ + 1]
          /\ b' = [b EXCEPT ![c] = i]
    BY SMTT(30), <1>9, HitFacts
  <2> QED
    BY SMTT(30), <1>0, <1>9, <2>1 DEF bget_hit, Goto, Buf
<1>10. ASSUME NEW c \in Client, NEW k \in Block, bget_miss(c, k) PROVE HoldInv'
  <2>1. PICK i \in Buf :
          /\ refcnt[i] = 0 /\ i \notin pinned
          /\ \A d \in Client : b[d] # i
          /\ \A j \in Buf : blockno[j] # k
          /\ blockno' = [blockno EXCEPT ![i] = k]
          /\ valid' = [valid EXCEPT ![i] = FALSE]
          /\ refcnt' = [refcnt EXCEPT ![i] = 1]
          /\ b' = [b EXCEPT ![c] = i]
    BY <1>10, MissFacts
  <2> QED
    BY SMTT(30), <1>0, <1>10, <2>1 DEF bget_miss, Goto
<1>11. ASSUME NEW c \in Client, NEW v \in Val, modify(c, v) PROVE HoldInv'
  BY SMTT(30), <1>0, <1>11 DEF modify, Goto
<1>12. CASE UNCHANGED vars
  BY <1>0, <1>12 DEF vars
<1>13. ASSUME NEW c \in Client, NEW k \in Block, bget_panic(c, k)
      PROVE  HoldInv'
  BY <1>0, <1>13 DEF bget_panic, Goto
<1> QED
  BY <1>1, <1>2, <1>3, <1>4, <1>5, <1>6, <1>7, <1>8, <1>9, <1>10, <1>11,
     <1>12, <1>13,
     Zenon
  DEF Next, Kernel, halted

\* A buffer in use keeps its block.
LEMMA RightStep == Inv /\ [Next]_vars => RightBuffer'
<1> SUFFICES ASSUME Inv, [Next]_vars PROVE RightBuffer'
    OBVIOUS
<1>0. TypeOK /\ HoldInv /\ RightBuffer
  BY DEF Inv
<1> USE DEF TypeOK, HoldInv, RightBuffer
<1>1. ASSUME NEW c \in Client, acquiresleep(c) PROVE RightBuffer'
  BY SMTT(30), <1>0, <1>1 DEF acquiresleep, Goto
<1>2. ASSUME NEW c \in Client, acquiresleep_sleep(c) PROVE RightBuffer'
  BY SMTT(30), <1>0, <1>2 DEF acquiresleep_sleep, Goto
<1>3. ASSUME NEW c \in Client, bread(c) PROVE RightBuffer'
  BY SMTT(30), <1>0, <1>3 DEF bread, Goto
<1>4. ASSUME NEW c \in Client, bpin(c) PROVE RightBuffer'
  BY SMTT(30), <1>0, <1>4 DEF bpin, Goto, PinRef
<1>5. ASSUME NEW c \in Client, bunpin(c) PROVE RightBuffer'
  BY SMTT(30), <1>0, <1>5 DEF bunpin, Goto, UnpinRef
<1>6. ASSUME NEW c \in Client, releasesleep(c) PROVE RightBuffer'
  BY SMTT(30), <1>0, <1>6 DEF releasesleep, ReleaseWakes
<1>7. ASSUME NEW c \in Client, brelse(c) PROVE RightBuffer'
  BY SMTT(30), <1>0, <1>7 DEF brelse, Goto
<1>8. ASSUME NEW c \in Client, bwrite(c) PROVE RightBuffer'
  BY SMTT(30), <1>0, <1>8 DEF bwrite, Goto
<1>9. ASSUME NEW c \in Client, NEW k \in Block, bget_hit(c, k)
      PROVE  RightBuffer'
  <2>1. PICK i \in Buf :
          /\ blockno[i] = k
          /\ refcnt' = [refcnt EXCEPT ![i] = @ + 1]
          /\ b' = [b EXCEPT ![c] = i]
    BY <1>9, HitFacts
  <2> QED
    BY SMTT(30), <1>0, <1>9, <2>1 DEF bget_hit, Goto
<1>10. ASSUME NEW c \in Client, NEW k \in Block, bget_miss(c, k)
      PROVE  RightBuffer'
  <2>1. PICK i \in Buf :
          /\ refcnt[i] = 0 /\ i \notin pinned
          /\ \A d \in Client : b[d] # i
          /\ \A j \in Buf : blockno[j] # k
          /\ blockno' = [blockno EXCEPT ![i] = k]
          /\ valid' = [valid EXCEPT ![i] = FALSE]
          /\ refcnt' = [refcnt EXCEPT ![i] = 1]
          /\ b' = [b EXCEPT ![c] = i]
    BY <1>10, MissFacts
  <2> QED
    BY SMTT(30), <1>0, <1>10, <2>1 DEF bget_miss, Goto
<1>11. ASSUME NEW c \in Client, NEW v \in Val, modify(c, v) PROVE RightBuffer'
  BY SMTT(30), <1>0, <1>11 DEF modify, Goto
<1>12. CASE UNCHANGED vars
  BY <1>0, <1>12 DEF vars
<1>13. ASSUME NEW c \in Client, NEW k \in Block, bget_panic(c, k)
      PROVE  RightBuffer'
  BY <1>0, <1>13 DEF bget_panic, Goto
<1> QED
  BY ZenonT(30), <1>1, <1>2, <1>3, <1>4, <1>5, <1>6, <1>7, <1>8, <1>9, <1>10, <1>11,
     <1>12, <1>13,
     Zenon
  DEF Next, Kernel, halted

\* Sleepers: whoever releases the lock wakes them.
LEMMA SleepStep == Inv /\ [Next]_vars => SleepersMustWait'
<1> SUFFICES ASSUME Inv, [Next]_vars PROVE SleepersMustWait'
    OBVIOUS
<1>0. TypeOK /\ HoldInv /\ SleepersMustWait
  BY DEF Inv
<1>a. ASSUME NEW c \in Client, NEW x \in Locked, pc' = [pc EXCEPT ![c] = x],
             UNCHANGED <<holder, b>>
      PROVE  SleepersMustWait'
  <2>1. \A d \in Client : pc'[d] = "asleep" => pc[d] = "asleep"
    BY <1>0, <1>a DEF TypeOK, Locked
  <2> QED
    BY <1>0, <1>a, <2>1 DEF SleepersMustWait
<1> USE DEF TypeOK, HoldInv, Locked, SleepersMustWait
<1>1. ASSUME NEW c \in Client, acquiresleep(c) PROVE SleepersMustWait'
  BY ZenonT(30), <1>0, <1>1 DEF acquiresleep, Goto
<1>2. ASSUME NEW c \in Client, acquiresleep_sleep(c) PROVE SleepersMustWait'
  BY <1>0, <1>2 DEF acquiresleep_sleep, Goto
<1>3. ASSUME NEW c \in Client, bread(c) PROVE SleepersMustWait'
  BY Zenon, <1>a, <1>3 DEF bread, Goto
<1>4. ASSUME NEW c \in Client, bpin(c) PROVE SleepersMustWait'
  BY Zenon, <1>a, <1>4 DEF bpin, Goto
<1>5. ASSUME NEW c \in Client, bunpin(c) PROVE SleepersMustWait'
  BY Zenon, <1>a, <1>5 DEF bunpin, Goto
<1>6. ASSUME NEW c \in Client, releasesleep(c) PROVE SleepersMustWait'
  BY <1>0, <1>6 DEF releasesleep, ReleaseWakes
<1>7. ASSUME NEW c \in Client, brelse(c) PROVE SleepersMustWait'
  BY SMTT(30), <1>0, <1>7 DEF brelse, Goto
<1>8. ASSUME NEW c \in Client, bwrite(c) PROVE SleepersMustWait'
  BY Zenon, <1>a, <1>8 DEF bwrite, Goto
<1>9. ASSUME NEW c \in Client, NEW k \in Block, bget_hit(c, k)
      PROVE  SleepersMustWait'
  <2>1. PICK i \in Buf :
          /\ blockno[i] = k
          /\ refcnt' = [refcnt EXCEPT ![i] = @ + 1]
          /\ b' = [b EXCEPT ![c] = i]
    BY <1>9, HitFacts
  <2> QED
    BY ZenonT(30), <1>0, <1>9, <2>1 DEF bget_hit, Goto
<1>10. ASSUME NEW c \in Client, NEW k \in Block, bget_miss(c, k)
      PROVE  SleepersMustWait'
  <2>1. PICK i \in Buf :
          /\ refcnt[i] = 0 /\ i \notin pinned
          /\ \A d \in Client : b[d] # i
          /\ \A j \in Buf : blockno[j] # k
          /\ blockno' = [blockno EXCEPT ![i] = k]
          /\ valid' = [valid EXCEPT ![i] = FALSE]
          /\ refcnt' = [refcnt EXCEPT ![i] = 1]
          /\ b' = [b EXCEPT ![c] = i]
    BY <1>10, MissFacts
  <2> QED
    BY SMTT(30), <1>0, <1>10, <2>1 DEF bget_miss, Goto
<1>11. ASSUME NEW c \in Client, NEW v \in Val, modify(c, v)
      PROVE  SleepersMustWait'
  BY Zenon, <1>a, <1>11 DEF modify, Goto
<1>12. CASE UNCHANGED vars
  BY <1>0, <1>12 DEF vars
<1>13. ASSUME NEW c \in Client, NEW k \in Block, bget_panic(c, k)
      PROVE  SleepersMustWait'
  BY ZenonT(30), <1>0, <1>13 DEF bget_panic, Goto
<1> QED
  BY <1>1, <1>2, <1>3, <1>4, <1>5, <1>6, <1>7, <1>8, <1>9, <1>10, <1>11,
     <1>12, <1>13,
     Zenon
  DEF Next, Kernel, halted

\* Only bget() gives a buffer a block, and only one no buffer has.
LEMMA OneStep == Inv /\ [Next]_vars => OneBuffer'
<1> SUFFICES ASSUME Inv, [Next]_vars PROVE OneBuffer'
    OBVIOUS
<1>0. TypeOK /\ OneBuffer
  BY DEF Inv
<1> USE DEF TypeOK, OneBuffer
<1>1. ASSUME NEW c \in Client, acquiresleep(c) PROVE OneBuffer'
  BY <1>0, <1>1 DEF acquiresleep, Goto
<1>2. ASSUME NEW c \in Client, acquiresleep_sleep(c) PROVE OneBuffer'
  BY <1>0, <1>2 DEF acquiresleep_sleep, Goto
<1>3. ASSUME NEW c \in Client, bread(c) PROVE OneBuffer'
  BY <1>0, <1>3 DEF bread, Goto
<1>4. ASSUME NEW c \in Client, bpin(c) PROVE OneBuffer'
  BY SMTT(30), <1>0, <1>4 DEF bpin, Goto, PinRef
<1>5. ASSUME NEW c \in Client, bunpin(c) PROVE OneBuffer'
  BY SMTT(30), <1>0, <1>5 DEF bunpin, Goto, UnpinRef
<1>6. ASSUME NEW c \in Client, releasesleep(c) PROVE OneBuffer'
  BY SMTT(30), <1>0, <1>6 DEF releasesleep, ReleaseWakes
<1>7. ASSUME NEW c \in Client, brelse(c) PROVE OneBuffer'
  BY SMTT(30), <1>0, <1>7 DEF brelse, Goto
<1>8. ASSUME NEW c \in Client, bwrite(c) PROVE OneBuffer'
  BY SMTT(30), <1>0, <1>8 DEF bwrite, Goto
<1>9. ASSUME NEW c \in Client, NEW k \in Block, bget_hit(c, k) PROVE OneBuffer'
  <2>1. PICK i \in Buf :
          /\ blockno[i] = k
          /\ refcnt' = [refcnt EXCEPT ![i] = @ + 1]
          /\ b' = [b EXCEPT ![c] = i]
    BY <1>9, HitFacts
  <2> QED
    BY SMTT(30), <1>0, <1>9, <2>1 DEF bget_hit, Goto
<1>10. ASSUME NEW c \in Client, NEW k \in Block, bget_miss(c, k)
      PROVE  OneBuffer'
  <2>1. PICK i \in Buf :
          /\ refcnt[i] = 0 /\ i \notin pinned
          /\ \A d \in Client : b[d] # i
          /\ \A j \in Buf : blockno[j] # k
          /\ blockno' = [blockno EXCEPT ![i] = k]
          /\ valid' = [valid EXCEPT ![i] = FALSE]
          /\ refcnt' = [refcnt EXCEPT ![i] = 1]
          /\ b' = [b EXCEPT ![c] = i]
    BY <1>10, MissFacts
  <2> QED
    BY SMTT(30), <1>0, <1>10, <2>1 DEF bget_miss, Goto
<1>11. ASSUME NEW c \in Client, NEW v \in Val, modify(c, v) PROVE OneBuffer'
  BY SMTT(30), <1>0, <1>11 DEF modify, Goto
<1>12. CASE UNCHANGED vars
  BY <1>0, <1>12 DEF vars
<1>13. ASSUME NEW c \in Client, NEW k \in Block, bget_panic(c, k)
      PROVE  OneBuffer'
  BY <1>0, <1>13 DEF bget_panic, Goto
<1> QED
  BY <1>1, <1>2, <1>3, <1>4, <1>5, <1>6, <1>7, <1>8, <1>9, <1>10, <1>11,
     <1>12, <1>13,
     Zenon
  DEF Next, Kernel, halted

LEMMA UsersFinite ==
    \A i : IsFiniteSet(Users(i)) /\ Cardinality(Users(i)) \in Nat
BY BcacheAssumption, FS_Subset, FS_CardinalityType DEF Users

\* Every use and every pin is counted, and given back once.
LEMMA RefcntStep == Inv /\ [Next]_vars => RefcntExact'
<1> SUFFICES ASSUME Inv, [Next]_vars PROVE RefcntExact'
    OBVIOUS
<1>0. TypeOK /\ HoldInv /\ RefcntExact /\ CleanInv
  BY DEF Inv
<1>1. \A i \in Buf : refcnt[i] =
         Cardinality(Users(i)) + (IF i \in pinned THEN 1 ELSE 0)
  BY <1>0 DEF RefcntExact
<1>2. refcnt \in [Buf -> Nat]
  BY <1>0 DEF TypeOK
<1>a. ASSUME UNCHANGED <<refcnt, b, pinned>> PROVE RefcntExact'
  BY <1>0, <1>a DEF RefcntExact, Users
<1>3. ASSUME NEW c \in Client, acquiresleep(c) PROVE RefcntExact'
  BY <1>a, <1>3 DEF acquiresleep
<1>4. ASSUME NEW c \in Client, acquiresleep_sleep(c) PROVE RefcntExact'
  BY <1>a, <1>4 DEF acquiresleep_sleep
<1>5. ASSUME NEW c \in Client, bread(c) PROVE RefcntExact'
  BY <1>a, <1>5 DEF bread
<1>6. ASSUME NEW c \in Client, bpin(c) PROVE RefcntExact'
  <2>1. b[c] \in Buf
    BY Zenon, <1>0, <1>6, HasBuffer DEF bpin
  <2>2. \A i \in Buf : Users(i)' = Users(i)
    BY SMTT(30), <1>6 DEF bpin, Users
  <2>3. ASSUME NEW i \in Buf
        PROVE  refcnt'[i] = Cardinality(Users(i)) +
                            (IF i \in pinned' THEN 1 ELSE 0)
    BY SMTT(30), <1>1, <1>2, <1>6, <2>1, <2>3, UsersFinite DEF bpin, PinRef
  <2> QED
    BY SMTT(30), <2>2, <2>3 DEF RefcntExact
<1>7. ASSUME NEW c \in Client, bunpin(c) PROVE RefcntExact'
  <2>1. b[c] \in Buf /\ b[c] \in pinned
    BY SMTT(30), <1>0, <1>7 DEF bunpin, TypeOK, HoldInv, CleanInv, ClientClean
  <2>2. \A i \in Buf : Users(i)' = Users(i)
    BY <1>7 DEF bunpin, Users
  <2>3. ASSUME NEW i \in Buf
        PROVE  refcnt'[i] = Cardinality(Users(i)) +
                            (IF i \in pinned' THEN 1 ELSE 0)
    BY SMTT(30), <1>1, <1>2, <1>7, <2>1, <2>3, UsersFinite DEF bunpin, UnpinRef
  <2> QED
    BY <2>2, <2>3 DEF RefcntExact
<1>8. ASSUME NEW c \in Client, releasesleep(c) PROVE RefcntExact'
  BY <1>a, <1>8 DEF releasesleep
<1>9. ASSUME NEW c \in Client, brelse(c) PROVE RefcntExact'
  <2>0. b[c] \in Buf
    BY Zenon, <1>0, <1>9, HasBuffer DEF brelse
  <2>1. PICK i \in Buf : i = b[c] /\ c \in Users(i)
    BY <2>0 DEF Users
  <2>2. /\ Users(i)' = Users(i) \ {c}
        /\ \A j \in Buf : j # i => Users(j)' = Users(j)
    <3>1. b' = [b EXCEPT ![c] = 0] /\ 0 \notin Buf
      BY <1>9 DEF brelse, Buf
    <3> QED
      BY <1>0, <2>1, <3>1 DEF Users, TypeOK
  <2>3. Cardinality(Users(i)') = Cardinality(Users(i)) - 1
    BY ZenonT(30), <2>1, <2>2, UsersFinite, FS_RemoveElement
  <2>4. pinned' = pinned /\ refcnt' = [refcnt EXCEPT ![i] = @ - 1]
    BY <1>9, <2>1 DEF brelse
  <2>5. ASSUME NEW j \in Buf
        PROVE  refcnt'[j] = Cardinality(Users(j)') +
                            (IF j \in pinned' THEN 1 ELSE 0)
    <3>1. CASE j = i
      BY <1>1, <1>2, <2>1, <2>3, <2>4, <3>1, UsersFinite
    <3>2. CASE j # i
      BY <1>1, <1>2, <2>1, <2>2, <2>4, <3>2
    <3> QED
      BY <3>1, <3>2
  <2> QED
    BY <2>5 DEF RefcntExact
<1>10. ASSUME NEW c \in Client, bwrite(c) PROVE RefcntExact'
  BY ZenonT(30), <1>a, <1>10 DEF bwrite
<1>11. ASSUME NEW c \in Client, NEW k \in Block, bget_hit(c, k)
      PROVE  RefcntExact'
  <2>1. PICK i \in Buf :
          /\ blockno[i] = k
          /\ refcnt' = [refcnt EXCEPT ![i] = @ + 1]
          /\ b' = [b EXCEPT ![c] = i]
    BY <1>11, HitFacts
  <2>2. /\ Users(i)' = Users(i) \cup {c} /\ c \notin Users(i)
        /\ \A j \in Buf : j # i => Users(j)' = Users(j)
    <3>1. b[c] = 0
      BY SMTT(30), <1>0, <1>11 DEF bget_hit, HoldInv
    <3>2. b \in [Client -> Buf \cup {0}]
      BY <1>0 DEF TypeOK
    <3>3. \A j \in Buf : j # 0
      BY SMTT(30), BcacheAssumption DEF Buf
    <3> HIDE DEF Buf
    <3>4. \A d \in Client : b'[d] = IF d = c THEN i ELSE b[d]
      BY <2>1, <3>2
    <3> QED
      BY ZenonT(30), <3>1, <3>3, <3>4 DEF Users
  <2>3. Cardinality(Users(i)') = Cardinality(Users(i)) + 1
    BY ZenonT(30), <2>2, UsersFinite, FS_AddElement
  <2>4. pinned' = pinned
    BY <1>11 DEF bget_hit
  <2>5. ASSUME NEW j \in Buf
        PROVE  refcnt'[j] = Cardinality(Users(j)') +
                            (IF j \in pinned' THEN 1 ELSE 0)
    <3>1. CASE j = i
      BY SMTT(30), <1>1, <1>2, <2>1, <2>3, <2>4, <3>1, UsersFinite
    <3>2. CASE j # i
      BY ZenonT(30), <1>1, <1>2, <2>1, <2>2, <2>4, <3>2
    <3> QED
      BY <3>1, <3>2
  <2> QED
    BY SMTT(30), <2>5 DEF RefcntExact
<1>12. ASSUME NEW c \in Client, NEW k \in Block, bget_miss(c, k)
      PROVE  RefcntExact'
  <2>1. PICK i \in Buf :
          /\ refcnt[i] = 0 /\ i \notin pinned
          /\ \A d \in Client : b[d] # i
          /\ \A j \in Buf : blockno[j] # k
          /\ blockno' = [blockno EXCEPT ![i] = k]
          /\ valid' = [valid EXCEPT ![i] = FALSE]
          /\ refcnt' = [refcnt EXCEPT ![i] = 1]
          /\ b' = [b EXCEPT ![c] = i]
    BY <1>12, MissFacts
  <2>2. /\ Users(i)' = Users(i) \cup {c} /\ c \notin Users(i)
        /\ \A j \in Buf : j # i => Users(j)' = Users(j)
    <3>1. b[c] = 0
      BY SMTT(30), <1>0, <1>12 DEF bget_miss, HoldInv
    <3>2. b \in [Client -> Buf \cup {0}]
      BY <1>0 DEF TypeOK
    <3>3. \A j \in Buf : j # 0
      BY BcacheAssumption DEF Buf
    <3> HIDE DEF Buf
    <3>4. \A d \in Client : b'[d] = IF d = c THEN i ELSE b[d]
      BY <2>1, <3>2
    <3> QED
      BY <3>1, <3>3, <3>4 DEF Users
  <2>3. Cardinality(Users(i)') = Cardinality(Users(i)) + 1
    BY Zenon, <2>2, UsersFinite, FS_AddElement
  <2>4. pinned' = pinned
    BY <1>12 DEF bget_miss
  <2>5. ASSUME NEW j \in Buf
        PROVE  refcnt'[j] = Cardinality(Users(j)') +
                            (IF j \in pinned' THEN 1 ELSE 0)
    <3>1. CASE j = i
      BY SMTT(30), <1>1, <1>2, <2>1, <2>3, <2>4, <3>1, UsersFinite
    <3>2. CASE j # i
      BY SMTT(30), <1>1, <1>2, <2>1, <2>2, <2>4, <3>2
    <3> QED
      BY <3>1, <3>2
  <2> QED
    BY <2>5 DEF RefcntExact
<1>13. ASSUME NEW c \in Client, NEW v \in Val, modify(c, v) PROVE RefcntExact'
  BY <1>a, <1>13 DEF modify
<1>14. CASE UNCHANGED vars
  BY <1>a, <1>14 DEF vars
<1>15. ASSUME NEW c \in Client, NEW k \in Block, bget_panic(c, k)
      PROVE  RefcntExact'
  BY <1>a, <1>15 DEF bget_panic
<1> QED
  BY <1>3, <1>4, <1>5, <1>6, <1>7, <1>8, <1>9, <1>10, <1>11, <1>12, <1>13,
     <1>14, <1>15, Zenon
  DEF Next, Kernel, halted

\* A buffer differs from the disk only while it cannot be recycled.
LEMMA CleanStep == Inv /\ [Next]_vars => CleanInv'
<1> SUFFICES ASSUME Inv, [Next]_vars PROVE CleanInv'
    OBVIOUS
<1>0. /\ TypeOK /\ HoldInv /\ RightBuffer /\ OneBuffer /\ CleanInv
      /\ NoBlock \notin Block
  BY BcacheAssumption DEF Inv
<1>b. /\ \A i \in Buf : BufferClean(i)
      /\ \A c \in Client : ClientClean(c)
  BY SMTT(30), <1>0 DEF CleanInv
<1> USE DEF TypeOK, HoldInv, Locked, RightBuffer, OneBuffer, CleanInv,
            BufferClean, ClientClean, Changing
<1>1. ASSUME NEW c \in Client, acquiresleep(c) PROVE CleanInv'
  BY SMTT(30), <1>0, <1>1 DEF acquiresleep, Goto
<1>2. ASSUME NEW c \in Client, acquiresleep_sleep(c) PROVE CleanInv'
  BY SMTT(30), <1>0, <1>2 DEF acquiresleep_sleep, Goto
<1>3. ASSUME NEW c \in Client, bread(c) PROVE CleanInv'
  <2>1. /\ pc[c] = "read" /\ b[c] \in Buf /\ blockno[b[c]] \in Block
        /\ b[c] \notin pinned
    BY Zenon, <1>0, <1>b, <1>3, HasBuffer DEF bread
  <2>2. /\ data' = [data EXCEPT ![b[c]] = disk[blockno[b[c]]]]
        /\ valid' = [valid EXCEPT ![b[c]] = TRUE]
        /\ pc' = [pc EXCEPT ![c] = "held"]
        /\ UNCHANGED <<blockno, pinned, b, disk>>
    BY Zenon, <1>3 DEF bread, Goto
  <2>3. \A i \in Buf : BufferClean(i)'
    BY <1>0, <1>b, <2>1, <2>2
  <2>4. \A d \in Client : ClientClean(d)'
    BY <1>0, <1>b, <2>1, <2>2
  <2> QED
    BY Zenon, <2>3, <2>4
<1>4. ASSUME NEW c \in Client, bpin(c) PROVE CleanInv'
  BY SMTT(30), <1>0, <1>4 DEF bpin, Goto, PinRef
<1>5. ASSUME NEW c \in Client, bunpin(c) PROVE CleanInv'
  BY SMTT(30), <1>0, <1>5 DEF bunpin, Goto, UnpinRef
<1>6. ASSUME NEW c \in Client, releasesleep(c) PROVE CleanInv'
  BY ZenonT(30), <1>0, <1>6 DEF releasesleep, ReleaseWakes
<1>7. ASSUME NEW c \in Client, brelse(c) PROVE CleanInv'
  <2>1. b' = [b EXCEPT ![c] = 0] /\ pc[c] = "released"
    BY SMTT(30), <1>7 DEF brelse
  <2>2. /\ pc[c] # "modified" /\ pc'[c] = "idle"
        /\ \A d \in Client : d # c => b'[d] = b[d] /\ pc'[d] = pc[d]
    BY SMTT(30), <1>0, <1>7, <2>1 DEF brelse, Goto
  <2>3. \A j : Changing(j) => Changing(j)'
    BY <2>2
  <2>4. UNCHANGED <<blockno, valid, data, pinned, disk>>
    BY <1>7 DEF brelse
  <2>5. \A j \in Buf : BufferClean(j)'
    BY SMTT(30), <1>b, <2>3, <2>4
  <2>6. \A d \in Client : ClientClean(d)'
    BY SMTT(30), <1>b, <2>2, <2>4
  <2> QED
    BY <2>5, <2>6
<1>8. ASSUME NEW c \in Client, bwrite(c) PROVE CleanInv'
  <2>1. /\ pc[c] \in {"held", "modified"} /\ b[c] \in Buf
        /\ blockno[b[c]] \in Block
    BY Zenon, <1>0, <1>8, HasBuffer DEF bwrite
  <2>2. /\ disk' = [disk EXCEPT ![blockno[b[c]]] = data[b[c]]]
        /\ pc' = [pc EXCEPT ![c] =
                    IF b[c] \in pinned THEN "written" ELSE "held"]
        /\ UNCHANGED <<blockno, valid, data, pinned, b>>
    BY Zenon, <1>8 DEF bwrite, Goto
  <2> HIDE DEF TypeOK, HoldInv, RightBuffer, OneBuffer, CleanInv
  <2>a. disk'[blockno[b[c]]] = data[b[c]]
    BY Zenon, <1>0, <2>1, <2>2 DEF TypeOK
  <2>b. \A k \in Block : k # blockno[b[c]] => disk'[k] = disk[k]
    BY <1>0, <2>2 DEF TypeOK
  <2>c. /\ pc'[c] = IF b[c] \in pinned THEN "written" ELSE "held"
        /\ \A d \in Client : d # c => pc'[d] = pc[d]
    BY <1>0, <2>2 DEF TypeOK
  <2>d. \A i \in Buf : blockno[i] = blockno[b[c]] => i = b[c]
    BY <1>0, <2>1 DEF OneBuffer
  <2>3. ASSUME NEW i \in Buf PROVE BufferClean(i)'
    <3>1. CASE i = b[c]
      BY <1>b, <2>a, <2>2, <3>1
    <3>2. CASE i # b[c]
      <4>1. Changing(i)' <=> Changing(i)
        BY Zenon, <2>c, <2>2, <3>2
      <4> HIDE DEF Changing
      <4> QED
        BY <1>b, <2>b, <2>d, <2>2, <3>2, <4>1
    <3> QED
      BY <3>1, <3>2
  <2>4. ASSUME NEW d \in Client PROVE ClientClean(d)'
    <3>1. CASE pc[d] = "written" /\ d # c
      <4>1. /\ b[d] \in Buf /\ blockno[b[d]] \in Block
            /\ b[d] \in pinned /\ data[b[d]] = disk[blockno[b[d]]]
            /\ valid[b[d]] /\ pc'[d] = "written"
        BY Zenon, <1>0, <1>b, <2>c, <3>1, HasBuffer
      <4>2. disk'[blockno[b[d]]] = data[b[d]]
        BY Zenon, <2>a, <2>b, <2>d, <4>1
      <4> QED
        BY Zenon, <2>2, <4>1, <4>2
    <3>2. CASE pc[d] # "written" /\ d # c
      BY Zenon, <1>b, <2>2, <2>c, <3>2
    <3>3. CASE d = c
      <4>1. valid[b[c]] /\ pc'[c] # "read"
        BY <1>b, <2>1, <2>c
      <4> QED
        BY <2>2, <2>a, <2>c, <3>3, <4>1
    <3> QED
      BY Zenon, <3>1, <3>2, <3>3
  <2> QED
    BY Zenon, <2>3, <2>4 DEF CleanInv
<1>9. ASSUME NEW c \in Client, NEW k \in Block, bget_hit(c, k) PROVE CleanInv'
  <2>1. PICK i \in Buf :
          /\ blockno[i] = k
          /\ refcnt' = [refcnt EXCEPT ![i] = @ + 1]
          /\ b' = [b EXCEPT ![c] = i]
    BY <1>9, HitFacts
  <2>2. /\ pc[c] # "modified" /\ pc'[c] = "acquire"
        /\ \A d \in Client : d # c => b'[d] = b[d] /\ pc'[d] = pc[d]
    BY <1>0, <1>9, <2>1 DEF bget_hit, Goto
  <2>3. \A j : Changing(j) => Changing(j)'
    BY <2>2
  <2>4. UNCHANGED <<blockno, valid, data, pinned, disk>>
    BY ZenonT(30), <1>9 DEF bget_hit
  <2>5. \A j \in Buf : BufferClean(j)'
    BY ZenonT(30), <1>b, <2>3, <2>4
  <2>6. \A d \in Client : ClientClean(d)'
    <3> SUFFICES ASSUME NEW d \in Client PROVE ClientClean(d)'
      OBVIOUS
    <3>1. CASE d = c
      BY <2>2, <3>1
    <3>2. CASE d # c
      <4>1. ClientClean(d) /\ b'[d] = b[d] /\ pc'[d] = pc[d]
        BY Zenon, <1>b, <2>2, <3>2
      <4> QED
        BY Zenon, <2>4, <4>1
    <3> QED
      BY Zenon, <3>1, <3>2
  <2> QED
    BY ZenonT(30), <2>5, <2>6
<1>10. ASSUME NEW c \in Client, NEW k \in Block, bget_miss(c, k)
      PROVE  CleanInv'
  <2>1. PICK i \in Buf :
          /\ refcnt[i] = 0 /\ i \notin pinned
          /\ \A d \in Client : b[d] # i
          /\ \A j \in Buf : blockno[j] # k
          /\ blockno' = [blockno EXCEPT ![i] = k]
          /\ valid' = [valid EXCEPT ![i] = FALSE]
          /\ refcnt' = [refcnt EXCEPT ![i] = 1]
          /\ b' = [b EXCEPT ![c] = i]
    BY <1>10, MissFacts
  <2>2. /\ pc[c] # "modified" /\ pc'[c] = "acquire"
        /\ \A d \in Client : d # c => b'[d] = b[d] /\ pc'[d] = pc[d]
    BY SMTT(30), <1>0, <1>10, <2>1 DEF bget_miss, Goto
  <2>3. \A j : Changing(j) => Changing(j)'
    BY <2>2
  <2>4. UNCHANGED <<data, pinned, disk>>
    BY SMTT(30), <1>10 DEF bget_miss
  <2>5. /\ ~valid'[i]
        /\ \A j \in Buf : j # i => /\ blockno'[j] = blockno[j]
                                   /\ valid'[j] = valid[j]
    <3> HIDE DEF HoldInv, RightBuffer, OneBuffer, CleanInv
    <3> QED
      BY <1>0, <2>1
  <2>6. ASSUME NEW j \in Buf PROVE BufferClean(j)'
    <3>1. CASE j = i
      BY Zenon, <2>1, <2>4, <2>5, <3>1
    <3>2. CASE j # i
      <4>1. blockno'[j] = blockno[j] /\ valid'[j] = valid[j]
        BY Zenon, <2>5, <3>2
      <4>2. BufferClean(j) /\ (Changing(j) => Changing(j)')
        BY Zenon, <1>b, <2>3
      <4> HIDE DEF Changing
      <4> QED
        BY Zenon, <2>4, <4>1, <4>2
    <3> QED
      BY Zenon, <3>1, <3>2
  <2>7. ASSUME NEW d \in Client PROVE ClientClean(d)'
    <3>1. CASE d = c
      <4>1. pc'[d] = "acquire"
        BY Zenon, <2>2, <3>1
      <4> QED
        BY Zenon, <4>1
    <3>2. CASE d # c
      <4>1. b'[d] = b[d] /\ pc'[d] = pc[d] /\ b[d] # i
        BY Zenon, <2>1, <2>2, <3>2
      <4>2. CASE pc[d] \in {"held", "modified", "written", "read"}
        <5>1. b[d] \in Buf
          BY Zenon, <1>0, <4>2, HasBuffer
        <5>2. valid'[b[d]] = valid[b[d]] /\ blockno'[b[d]] = blockno[b[d]]
          BY Zenon, <2>5, <4>1, <5>1
        <5> HIDE DEF TypeOK, HoldInv, RightBuffer, OneBuffer
        <5> QED
          BY <1>b, <2>4, <4>1, <5>2
      <4>3. CASE pc[d] \notin {"held", "modified", "written", "read"}
        BY Zenon, <4>1, <4>3
      <4> QED
        BY Zenon, <4>2, <4>3
    <3> QED
      BY Zenon, <3>1, <3>2
  <2> QED
    BY Zenon, <2>6, <2>7
<1>11. ASSUME NEW c \in Client, NEW v \in Val, modify(c, v) PROVE CleanInv'
  BY SMTT(30), <1>0, <1>11 DEF modify, Goto
<1>12. CASE UNCHANGED vars
  BY ZenonT(30), <1>0, <1>12 DEF vars
<1>13. ASSUME NEW c \in Client, NEW k \in Block, bget_panic(c, k)
      PROVE  CleanInv'
  BY <1>0, <1>13 DEF bget_panic, Goto
<1> QED
  BY <1>1, <1>2, <1>3, <1>4, <1>5, <1>6, <1>7, <1>8, <1>9, <1>10, <1>11,
     <1>12, <1>13,
     Zenon
  DEF Next, Kernel, halted

LEMMA PinsStep == Inv /\ [Next]_vars => (Cardinality(pinned) <= PINS)'
<1> SUFFICES ASSUME Inv, [Next]_vars PROVE Cardinality(pinned') <= PINS
    OBVIOUS
<1>1. IsFiniteSet(pinned) /\ Cardinality(pinned) \in Nat
      /\ Cardinality(pinned) <= PINS
  <2>1. IsFiniteSet(Buf)
    BY BcacheAssumption, FS_Interval DEF Buf
  <2> QED
    BY <2>1, FS_Subset, FS_CardinalityType DEF Inv, TypeOK
<1>2. ASSUME NEW c \in Client, bpin(c) PROVE Cardinality(pinned') <= PINS
  BY <1>2 DEF bpin
<1>3. ASSUME NEW c \in Client, bunpin(c) PROVE Cardinality(pinned') <= PINS
  <2>1. pinned' = pinned \ {b[c]}
    BY <1>3 DEF bunpin
  <2>2. Cardinality(pinned') \in {Cardinality(pinned), Cardinality(pinned) - 1}
    BY <1>1, <2>1, FS_RemoveElement
  <2> QED
    BY <1>1, <2>2, BcacheAssumption
<1>4. CASE pinned' = pinned
  BY <1>1, <1>4
<1> QED
  BY SMTT(30), <1>2, <1>3, <1>4
  DEF Next, Kernel, vars, acquiresleep, acquiresleep_sleep, bread,
      releasesleep, brelse, bwrite, bget_hit, bget_miss, bget_panic, modify,
      halted

\* The clients that work on a buffer.
Busy == {c \in Client : b[c] # 0}

LEMMA PinnedFinite ==
    ASSUME TypeOK
    PROVE  IsFiniteSet(pinned) /\ Cardinality(pinned) \in Nat
<1>1. IsFiniteSet(Buf)
  BY BcacheAssumption, FS_Interval DEF Buf
<1> QED
  BY <1>1, FS_Subset, FS_CardinalityType DEF TypeOK

\* With no buffer to recycle, clients and pins have all of them.
LEMMA AllTaken ==
    ASSUME TypeOK, RefcntExact, Unused = {}
    PROVE  Cardinality(Busy) + Cardinality(pinned) >= NBUF
<1> DEFINE Held == {b[d] : d \in Busy}
           f == [d \in Busy |-> b[d]]
<1>1. IsFiniteSet(Busy) /\ Cardinality(Busy) \in Nat
  BY BcacheAssumption, FS_Subset, FS_CardinalityType DEF Busy
<1>2. f \in Surjection(Busy, Held)
  BY ZenonT(30) DEF Surjection
<1>3. /\ IsFiniteSet(Held) /\ Cardinality(Held) \in Nat
      /\ Cardinality(Held) <= Cardinality(Busy)
  BY <1>1, <1>2, FS_Surjection, FS_CardinalityType
<1>4. IsFiniteSet(Buf) /\ Cardinality(Buf) = NBUF
  BY SMTT(30), FS_Interval, BcacheAssumption DEF Buf
<1>5. IsFiniteSet(pinned) /\ Cardinality(pinned) \in Nat
  BY PinnedFinite
<1>6. ASSUME NEW i \in Buf PROVE i \in pinned \cup Held
  <2>1. refcnt[i] # 0
    BY DEF Unused
  <2>2. CASE i \notin pinned
    <3>1. Users(i) # {}
      BY <2>1, <2>2, FS_EmptySet DEF RefcntExact
    <3> QED
      BY <3>1 DEF Users, Buf, Busy
  <2> QED
    BY <2>2
<1> HIDE DEF Held
<1>7. /\ IsFiniteSet(pinned \cup Held)
      /\ Cardinality(pinned \cup Held) \in Nat
      /\ Cardinality(pinned \cup Held) <=
            Cardinality(pinned) + Cardinality(Held)
  <2>1. IsFiniteSet(pinned \cap Held)
    BY <1>5, FS_Subset
  <2>2. Cardinality(pinned \cap Held) \in Nat
    BY <2>1, FS_CardinalityType
  <2>3. /\ IsFiniteSet(pinned \cup Held)
        /\ Cardinality(pinned \cup Held) =
              Cardinality(pinned) + Cardinality(Held)
              - Cardinality(pinned \cap Held)
    BY <1>3, <1>5, FS_Union
  <2>4. Cardinality(pinned \cup Held) \in Nat
    BY <2>3, FS_CardinalityType
  <2> QED
    BY <1>3, <1>5, <2>2, <2>3, <2>4
<1>8. NBUF <= Cardinality(pinned \cup Held)
  BY <1>4, <1>6, <1>7, FS_Subset
<1> QED
  BY <1>1, <1>3, <1>5, <1>7, <1>8, BcacheAssumption

\* After a panic nobody gets or gives up a buffer or a pin, since that takes
\* bcache.lock.
LEMMA FullStep == Inv /\ [Next]_vars => PanicOnlyWhenFull'
<1> SUFFICES ASSUME Inv, [Next]_vars, ~LockFree'
             PROVE  (Cardinality(Busy) + Cardinality(pinned) >= NBUF)'
  BY DEF PanicOnlyWhenFull, Busy
<1>1. ASSUME b' = b, pinned' = pinned,
             Cardinality(Busy) + Cardinality(pinned) >= NBUF
      PROVE  (Cardinality(Busy) + Cardinality(pinned) >= NBUF)'
  BY <1>1 DEF Busy
<1>2. CASE ~LockFree
  <2>1. b' = b /\ pinned' = pinned
    BY ZenonT(30), <1>2
    DEF Next, Kernel, vars, acquiresleep, acquiresleep_sleep, bread, bpin,
        bunpin, releasesleep, brelse, bwrite, bget_hit, bget_miss, bget_panic,
        modify, halted
  <2>2. Cardinality(Busy) + Cardinality(pinned) >= NBUF
    BY <1>2 DEF Inv, PanicOnlyWhenFull, Busy
  <2> QED
    BY ZenonT(30), <1>1, <2>1, <2>2
<1>3. CASE LockFree
  <2>1. PICK d \in Client : pc[d] # "panic" /\ pc'[d] = "panic"
    BY <1>3 DEF LockFree
  <2>2. \E c \in Client, k \in Block : bget_panic(c, k)
    <3>1. TypeOK
      BY DEF Inv
    <3>2. ASSUME NEW c \in Client, NEW l, l # "panic", Goto(c, l)
          PROVE  pc'[d] # "panic"
      BY <2>1, <3>1, <3>2 DEF Goto, TypeOK
    <3>4. ASSUME NEW c \in Client, Kernel(c) \/ bwrite(c)
          PROVE  pc'[d] # "panic"
      <4>1. CASE releasesleep(c)
        BY ZenonT(30), <2>1, <3>1, <4>1 DEF releasesleep, ReleaseWakes, TypeOK
      <4>2. CASE brelse(c)
        BY <3>2, <4>2 DEF brelse
      <4>3. CASE bwrite(c)
        BY <3>2, <4>3 DEF bwrite
      <4>4. CASE acquiresleep(c)
        BY <3>2, <4>4 DEF acquiresleep
      <4>5. CASE acquiresleep_sleep(c) \/ bread(c) \/ bpin(c) \/ bunpin(c)
        BY ZenonT(30), <3>2, <4>5 DEF acquiresleep_sleep, bread, bpin, bunpin
      <4> QED
        BY Zenon, <3>4, <4>1, <4>2, <4>3, <4>4, <4>5 DEF Kernel
    <3>5. ASSUME NEW c \in Client, NEW k \in Block,
                 bget_hit(c, k) \/ bget_miss(c, k)
          PROVE  pc'[d] # "panic"
      BY <3>2, <3>5 DEF bget_hit, bget_miss
    <3>6. ASSUME NEW c \in Client, NEW v \in Val, modify(c, v)
          PROVE  pc'[d] # "panic"
      BY <3>2, <3>6 DEF modify
    <3>3. pc' # pc
      BY <2>1
    <3> QED
      BY Zenon, <2>1, <3>3, <3>4, <3>5, <3>6 DEF Next, vars, halted
  <2>3. PICK c \in Client, k \in Block : bget_panic(c, k)
    BY <2>2
  <2>4. Unused = {} /\ b' = b /\ pinned' = pinned
    BY <2>3 DEF bget_panic
  <2> QED
    BY <1>1, <2>4, AllTaken DEF Inv
<1> QED
  BY <1>2, <1>3

LEMMA InvInit == Init => Inv
<1> SUFFICES ASSUME Init PROVE Inv
    OBVIOUS
<1>0. 0 \notin Buf
  BY DEF Buf
<1>1. TypeOK
  <2>1. lru \in [1..NBUF -> Buf] /\ lru = [i \in Buf |-> NBUF + 1 - i]
    BY BcacheAssumption DEF Init, Buf
  <2>2. \A i \in Buf : NBUF + 1 - i \in 1..NBUF /\ lru[NBUF + 1 - i] = i
    BY <2>1, BcacheAssumption DEF Buf
  <2>3. \A i \in Buf : \E j \in 1..NBUF : lru[j] = i
    BY <2>2
  <2> QED
    BY <2>1, <2>3 DEF Init, TypeOK
<1>2. RefcntExact
  <2>1. \A i \in Buf : Users(i) = {}
    BY <1>0 DEF Init, Users
  <2>2. \A i \in Buf : refcnt[i] = 0 /\ i \notin pinned
    BY DEF Init
  <2>3. \A i \in Buf : Cardinality(Users(i)) = 0
    BY <2>1, FS_EmptySet
  <2> QED
    BY <2>2, <2>3 DEF RefcntExact
<1>3. HoldInv /\ RightBuffer /\ OneBuffer /\ SleepersMustWait
  BY <1>0 DEF Init, HoldInv, Locked, RightBuffer, OneBuffer, SleepersMustWait
<1>4. CleanInv
  BY DEF Init, CleanInv, BufferClean, ClientClean
<1>5. Cardinality(pinned) <= PINS
  BY FS_EmptySet, BcacheAssumption DEF Init
<1>6. PanicOnlyWhenFull
  BY DEF Init, PanicOnlyWhenFull, LockFree
<1> QED
  BY <1>1, <1>2, <1>3, <1>4, <1>5, <1>6 DEF Inv

\* The inductive invariant of bio.c.
THEOREM Invariance == Spec => []Inv
<1>1. Inv /\ [Next]_vars => Inv'
  BY TypeStep, HoldStep, RefcntStep, RightStep, OneStep, CleanStep, SleepStep,
     PinsStep, FullStep
  DEF Inv
<1> QED
  BY InvInit, <1>1, PTL DEF Spec

\* b->refcnt counts every user and the log's pin, so that bget() recycles no
\* buffer in use.
THEOREM RefcntCorrect == Spec => []RefcntExact
BY Invariance, PTL DEF Inv

\* bget() returns the block it was asked for, however long it waited for the
\* lock of the buffer.
THEOREM BufferRight == Spec => []RightBuffer
BY Invariance, PTL DEF Inv

\* releasesleep() leaves nobody asleep on a free lock.
THEOREM NobodyLeftAsleep == Spec => []SleepersMustWait
BY Invariance, PTL DEF Inv

\* "bget: no buffers" means what it says: every buffer has a user of its own or
\* a pin of the log, whatever NBUF, the number of clients and the log's size.
THEOREM PanicMeansFull == Spec => []PanicOnlyWhenFull
BY Invariance, PTL DEF Inv

\* Hence bget() does not panic where there is a buffer for every use at a time
\* beside those the log may pin.  The sizes of param.h do not give that: NBUF is
\* LOGSIZE, and reads need no reservation.
THEOREM BuffersSuffice ==
    ASSUME PINS + Cardinality(Client) <= NBUF
    PROVE  Spec => []LockFree
<1>1. Inv => LockFree
  <2> SUFFICES ASSUME Inv, ~LockFree PROVE FALSE
      OBVIOUS
  <2>1. PICK c \in Client : pc[c] = "panic"
    BY DEF LockFree
  <2>2. /\ HoldInv /\ Cardinality(pinned) <= PINS /\ Cardinality(pinned) \in Nat
        /\ Cardinality(Busy) + Cardinality(pinned) >= NBUF
    BY PinnedFinite DEF Inv, PanicOnlyWhenFull, Busy
  <2>3. Busy \subseteq Client \ {c}
    BY <2>1, <2>2 DEF HoldInv, Busy
  <2>4. /\ IsFiniteSet(Client \ {c}) /\ Cardinality(Client) \in Nat
        /\ Cardinality(Client \ {c}) = Cardinality(Client) - 1
    BY BcacheAssumption, FS_RemoveElement, FS_CardinalityType
  <2>5. Cardinality(Busy) \in Nat /\ Cardinality(Busy) <= Cardinality(Client) - 1
    BY <2>3, <2>4, FS_Subset, FS_CardinalityType
  <2> QED
    BY <2>2, <2>4, <2>5, BcacheAssumption
<1> QED
  BY Invariance, <1>1, PTL
-----------------------------------------------------------------------------
\* The content of a block, without the CHOOSE.
ContentIs ==
    \A k \in Block :
        /\ \A i \in Buf : blockno[i] = k /\ valid[i] => Content[k] = data[i]
        /\ (\A i \in Buf : blockno[i] = k => ~valid[i]) => Content[k] = disk[k]

LEMMA ContentValue == OneBuffer => ContentIs
<1> SUFFICES ASSUME OneBuffer, NEW k \in Block
             PROVE  /\ \A i \in Buf : blockno[i] = k /\ valid[i]
                          => Content[k] = data[i]
                    /\ (\A i \in Buf : blockno[i] = k => ~valid[i])
                          => Content[k] = disk[k]
  BY DEF ContentIs
<1>1. k # NoBlock
  BY BcacheAssumption
<1>2. ASSUME NEW i \in Buf, blockno[i] = k, valid[i]
      PROVE  Content[k] = data[i]
  <2>1. Cached(k) = {i}
    BY <1>1, <1>2 DEF Cached, OneBuffer
  <2>2. (CHOOSE j \in Cached(k) : valid[j]) = i
    BY <1>2, <2>1
  <2> QED
    BY <1>2, <2>1, <2>2 DEF Content
<1>3. ASSUME \A i \in Buf : blockno[i] = k => ~valid[i]
      PROVE  Content[k] = disk[k]
  BY <1>3 DEF Content, Cached
<1> QED
  BY SMTT(30), <1>2, <1>3

LEMMA ContentNext == OneBuffer' => ContentIs'
BY ContentValue, PTL

\* Content changes only where a buffer or the disk does.
LEMMA ContentEqual ==
    ASSUME ContentIs, ContentIs', \A k \in Block : Content'[k] = Content[k]
    PROVE  Content' = Content
BY DEF Content

LEMMA ContentSame ==
    ASSUME ContentIs, ContentIs', NEW k \in Block, UNCHANGED <<blockno, disk>>,
           \A i \in Buf : blockno[i] = k =>
                             valid'[i] = valid[i] /\ data'[i] = data[i]
    PROVE  Content'[k] = Content[k]
<1>1. CASE \E i \in Buf : blockno[i] = k /\ valid[i]
  <2>1. PICK i \in Buf : blockno[i] = k /\ valid[i]
    BY ZenonT(30), <1>1
  <2>2. Content[k] = data[i]
    BY SMTT(30), <2>1 DEF ContentIs
  <2>3. Content'[k] = data'[i]
    BY SMTT(30), <2>1 DEF ContentIs
  <2> QED
    BY SMTT(30), <2>1, <2>2, <2>3
<1>2. CASE \A i \in Buf : blockno[i] = k => ~valid[i]
  BY <1>2 DEF ContentIs
<1> QED
  BY <1>1, <1>2

\* The clients that have a block locked are those that have its buffer locked.
LEMMA HolderOf ==
    ASSUME Inv, NEW c \in Client, b[c] \in Buf
    PROVE  /\ want[c] \in Block /\ blockno[b[c]] = want[c]
           /\ Holders[want[c]] = holder[b[c]]
<1>1. /\ TypeOK /\ HoldInv /\ RightBuffer /\ OneBuffer
      /\ NoBlock \notin Block /\ 0 \notin Buf
  BY BcacheAssumption DEF Inv, Buf
<1>2. want[c] \in Block /\ blockno[b[c]] = want[c]
  BY <1>1 DEF HoldInv, RightBuffer
<1>3. \A d \in Client : want[d] = want[c] /\ pc[d] \in Locked <=>
                        d \in holder[b[c]]
  <2> TAKE d \in Client
  <2>1. ASSUME d \in holder[b[c]]
        PROVE  want[d] = want[c] /\ pc[d] \in Locked
    BY <1>1, <1>2, <2>1 DEF HoldInv, RightBuffer
  <2>2. ASSUME want[d] = want[c], pc[d] \in Locked
        PROVE  d \in holder[b[c]]
    <3>1. b[d] \in Buf
      BY Zenon, <1>1, <2>2, HasBuffer DEF Locked
    <3>2. blockno[b[d]] = blockno[b[c]]
      BY <1>1, <1>2, <2>2, <3>1 DEF RightBuffer
    <3>3. b[d] = b[c]
      BY <1>1, <1>2, <3>1, <3>2 DEF OneBuffer
    <3> QED
      BY <1>1, <2>2, <3>3 DEF HoldInv
  <2> QED
    BY <2>1, <2>2
<1>4. holder[b[c]] \subseteq Client
  BY <1>1 DEF TypeOK
<1> QED
  BY Zenon, <1>2, <1>3, <1>4 DEF Holders, Locked

abstract == <<Content, Holders>>

\* One step of bio.c is one step of the cache of blocks, or none.
LEMMA CacheStep == Inv /\ [Next]_vars => [Abstract!Next]_abstract
<1> SUFFICES ASSUME Inv, [Next]_vars PROVE [Abstract!Next]_abstract
    OBVIOUS
<1>0. /\ TypeOK /\ HoldInv /\ RightBuffer /\ OneBuffer /\ CleanInv
      /\ NoBlock \notin Block /\ 0 \notin Buf
  BY BcacheAssumption DEF Inv, Buf
<1>1. ContentIs /\ ContentIs'
  BY <1>0, OneStep, ContentValue, ContentNext
<1>s. ASSUME Content' = Content, Holders' = Holders
      PROVE  [Abstract!Next]_abstract
  BY <1>s DEF abstract
<1>c. ASSUME UNCHANGED <<blockno, valid, data, disk>> PROVE Content' = Content
  BY <1>c DEF Content, Cached
\* Holders are the same if the same clients are locked, on the same blocks.
<1>h. ASSUME \A d \in Client : /\ pc'[d] \in Locked <=> pc[d] \in Locked
                               /\ pc[d] \in Locked => want'[d] = want[d]
      PROVE  Holders' = Holders
  BY <1>h DEF Holders, Locked
<1>2. ASSUME NEW c \in Client, acquiresleep(c) PROVE [Abstract!Next]_abstract
  <2>1. b[c] \in Buf /\ pc[c] = "acquire" /\ holder[b[c]] = {}
    BY <1>0, <1>2 DEF acquiresleep, TypeOK, HoldInv
  <2>2. want[c] \in Block /\ Holders[want[c]] = {}
    BY <2>1, HolderOf
  <2>3. /\ pc'[c] \in Locked /\ want' = want
        /\ \A d \in Client : d # c => pc'[d] = pc[d]
    BY <1>0, <1>2 DEF acquiresleep, Goto, Locked, TypeOK
  <2>4. Holders' = [Holders EXCEPT ![want[c]] = {c}]
    <3>1. Holders'[want[c]] = {c}
      BY ZenonT(40), <2>2, <2>3 DEF Holders, Locked
    <3>2. \A k \in Block : k # want[c] => Holders'[k] = Holders[k]
      BY ZenonT(30), <2>1, <2>3 DEF Holders, Locked
    <3> QED
      BY Zenon, <2>2, <3>1, <3>2 DEF Holders
  <2>5. Content' = Content
    BY ZenonT(30), <1>c, <1>2 DEF acquiresleep
  <2> QED
    BY Zenon, <2>2, <2>4, <2>5 DEF Abstract!Next, Abstract!Lock
<1>3. ASSUME NEW c \in Client, acquiresleep_sleep(c)
      PROVE  [Abstract!Next]_abstract
  <2>1. UNCHANGED <<blockno, valid, data, disk>>
    BY <1>3 DEF acquiresleep_sleep
  <2>2. \A d \in Client : /\ pc'[d] \in Locked <=> pc[d] \in Locked
                          /\ pc[d] \in Locked => want'[d] = want[d]
    BY <1>0, <1>3 DEF acquiresleep_sleep, Goto, Locked, TypeOK
  <2> QED
    BY ZenonT(30), <1>s, <1>c, <1>h, <2>1, <2>2
<1>4. ASSUME NEW c \in Client, bread(c) PROVE [Abstract!Next]_abstract
  <2>h. Holders' = Holders
    <3>1. \A d \in Client : /\ pc'[d] \in Locked <=> pc[d] \in Locked
                            /\ pc[d] \in Locked => want'[d] = want[d]
      BY <1>0, <1>4 DEF bread, Goto, Locked, TypeOK
    <3> QED
      BY <1>h, <3>1
  <2>1. b[c] \in Buf /\ ~valid[b[c]] /\ blockno[b[c]] \in Block
    BY ZenonT(30), <1>0, <1>4
    DEF bread, TypeOK, HoldInv, RightBuffer, CleanInv, ClientClean
  <2>2. /\ blockno' = blockno /\ disk' = disk
        /\ data' = [data EXCEPT ![b[c]] = disk[blockno[b[c]]]]
        /\ valid' = [valid EXCEPT ![b[c]] = TRUE]
    BY Zenon, <1>4 DEF bread
  <2>3. ASSUME NEW k \in Block PROVE Content'[k] = Content[k]
    <3>1. CASE blockno[b[c]] = k
      <4>1. \A i \in Buf : blockno[i] = k => ~valid[i]
        BY <1>0, <2>1, <3>1 DEF OneBuffer
      <4>2. Content[k] = disk[k]
        BY Zenon, <1>1, <4>1 DEF ContentIs
      <4>3. valid'[b[c]] /\ data'[b[c]] = disk[k] /\ blockno'[b[c]] = k
        BY <1>0, <2>1, <2>2, <3>1 DEF TypeOK
      <4>4. Content'[k] = disk[k]
        BY ZenonT(30), <1>1, <2>1, <4>3 DEF ContentIs
      <4> QED
        BY <4>2, <4>4
    <3>2. CASE blockno[b[c]] # k
      <4>1. \A i \in Buf : blockno[i] = k =>
               valid'[i] = valid[i] /\ data'[i] = data[i]
        BY Zenon, <1>0, <2>2, <3>2 DEF TypeOK
      <4> QED
        BY Zenon, <1>1, <2>2, <4>1, ContentSame
    <3> QED
      BY <3>1, <3>2
  <2> QED
    BY <1>s, <1>1, <2>h, <2>3, ContentEqual
<1>5. ASSUME NEW c \in Client, bpin(c) PROVE [Abstract!Next]_abstract
  <2>1. UNCHANGED <<blockno, valid, data, disk>>
    BY <1>5 DEF bpin
  <2>2. \A d \in Client : /\ pc'[d] \in Locked <=> pc[d] \in Locked
                          /\ pc[d] \in Locked => want'[d] = want[d]
    BY ZenonT(30), <1>0, <1>5 DEF bpin, Goto, Locked, TypeOK
  <2> QED
    BY <1>s, <1>c, <1>h, <2>1, <2>2
<1>6. ASSUME NEW c \in Client, bunpin(c) PROVE [Abstract!Next]_abstract
  <2>1. UNCHANGED <<blockno, valid, data, disk>>
    BY <1>6 DEF bunpin
  <2>2. \A d \in Client : /\ pc'[d] \in Locked <=> pc[d] \in Locked
                          /\ pc[d] \in Locked => want'[d] = want[d]
    BY <1>0, <1>6 DEF bunpin, Goto, Locked, TypeOK
  <2> QED
    BY <1>s, <1>c, <1>h, <2>1, <2>2
<1>7. ASSUME NEW c \in Client, releasesleep(c) PROVE [Abstract!Next]_abstract
  <2>1. b[c] \in Buf /\ pc[c] = "held" /\ c \in holder[b[c]]
    BY ZenonT(30), <1>0, <1>7 DEF releasesleep, TypeOK, HoldInv, Locked
  <2>2. holder[b[c]] = {c}
    BY <1>0, <2>1 DEF TypeOK, HoldInv
  <2>3. want[c] \in Block /\ Holders[want[c]] = {c}
    BY <2>1, <2>2, HolderOf
  <2>4. /\ pc'[c] \notin Locked /\ want' = want
        /\ \A d \in Client : d # c => (pc'[d] \in Locked <=> pc[d] \in Locked)
    BY <1>0, <1>7 DEF releasesleep, ReleaseWakes, Locked, TypeOK
  <2>5. Holders' = [Holders EXCEPT ![want[c]] = {}]
    <3>1. Holders'[want[c]] = {}
      BY Zenon, <2>3, <2>4 DEF Holders, Locked
    <3>2. \A k \in Block : k # want[c] => Holders'[k] = Holders[k]
      BY <2>1, <2>4 DEF Holders, Locked
    <3> QED
      BY Zenon, <2>3, <3>1, <3>2 DEF Holders
  <2>6. Content' = Content
    BY <1>c, <1>7 DEF releasesleep
  <2> QED
    BY Zenon, <2>3, <2>5, <2>6 DEF Abstract!Next, Abstract!Unlock
<1>8. ASSUME NEW c \in Client, brelse(c) PROVE [Abstract!Next]_abstract
  <2>1. UNCHANGED <<blockno, valid, data, disk>>
    BY <1>8 DEF brelse
  <2>2. \A d \in Client : /\ pc'[d] \in Locked <=> pc[d] \in Locked
                          /\ pc[d] \in Locked => want'[d] = want[d]
    BY ZenonT(30), <1>0, <1>8 DEF brelse, Goto, Locked, TypeOK
  <2> QED
    BY <1>s, <1>c, <1>h, <2>1, <2>2
<1>9. ASSUME NEW c \in Client, bwrite(c) PROVE [Abstract!Next]_abstract
  <2>h. Holders' = Holders
    <3>1. \A d \in Client : /\ pc'[d] \in Locked <=> pc[d] \in Locked
                            /\ pc[d] \in Locked => want'[d] = want[d]
      BY SMTT(30), <1>0, <1>9 DEF bwrite, Goto, Locked, TypeOK
    <3> QED
      BY <1>h, <3>1
  <2>1. b[c] \in Buf /\ valid[b[c]] /\ blockno[b[c]] \in Block
    <3>1. pc[c] \in {"held", "modified"}
      BY <1>9 DEF bwrite
    <3> QED
      BY ZenonT(30), <1>0, <3>1
      DEF TypeOK, HoldInv, RightBuffer, CleanInv, ClientClean
  <2>2. /\ UNCHANGED <<blockno, data, valid>>
        /\ disk' = [disk EXCEPT ![blockno[b[c]]] = data[b[c]]]
    BY SMTT(30), <1>9 DEF bwrite
  <2>3. ASSUME NEW k \in Block PROVE Content'[k] = Content[k]
    <3>1. CASE blockno[b[c]] = k
      BY <1>1, <2>1, <2>2, <3>1 DEF ContentIs
    <3>2. CASE blockno[b[c]] # k
      <4>1. disk'[k] = disk[k]
        BY ZenonT(30), <1>0, <2>2, <3>2 DEF TypeOK
      <4> QED
        BY <1>1, <2>2, <4>1 DEF ContentIs
    <3> QED
      BY <3>1, <3>2
  <2> QED
    BY <1>s, <1>1, <2>h, <2>3, ContentEqual
<1>10. ASSUME NEW c \in Client, NEW k \in Block, bget_hit(c, k)
      PROVE  [Abstract!Next]_abstract
  <2>1. UNCHANGED <<blockno, valid, data, disk>>
    BY <1>10 DEF bget_hit
  <2>2. \A d \in Client : /\ pc'[d] \in Locked <=> pc[d] \in Locked
                          /\ pc[d] \in Locked => want'[d] = want[d]
    BY <1>0, <1>10 DEF bget_hit, Goto, Locked, TypeOK
  <2> QED
    BY <1>s, <1>c, <1>h, <2>1, <2>2
<1>11. ASSUME NEW c \in Client, NEW k \in Block, bget_miss(c, k)
      PROVE  [Abstract!Next]_abstract
  <2>h. Holders' = Holders
    <3>1. \A d \in Client : /\ pc'[d] \in Locked <=> pc[d] \in Locked
                            /\ pc[d] \in Locked => want'[d] = want[d]
      BY <1>0, <1>11 DEF bget_miss, Goto, Locked, TypeOK
    <3> QED
      BY SMTT(30), <1>h, <3>1
  <2>1. PICK i \in Buf :
          /\ refcnt[i] = 0 /\ i \notin pinned
          /\ \A d \in Client : b[d] # i
          /\ \A j \in Buf : blockno[j] # k
          /\ blockno' = [blockno EXCEPT ![i] = k]
          /\ valid' = [valid EXCEPT ![i] = FALSE]
          /\ refcnt' = [refcnt EXCEPT ![i] = 1]
          /\ b' = [b EXCEPT ![c] = i]
    BY <1>11, MissFacts
  <2>2. UNCHANGED <<data, disk>>
    BY <1>11 DEF bget_miss
  <2>3. /\ ~valid'[i] /\ blockno'[i] = k
        /\ \A j \in Buf : j # i => /\ blockno'[j] = blockno[j]
                                   /\ valid'[j] = valid[j]
    BY <1>0, <2>1 DEF TypeOK
  <2>4. valid[i] => data[i] = disk[blockno[i]]
    BY <1>0, <2>1 DEF CleanInv, BufferClean, Changing
  <2>5. ASSUME NEW l \in Block PROVE Content'[l] = Content[l]
    <3>1. CASE l = blockno[i] /\ valid[i]
      <4>1. \A j \in Buf : blockno'[j] = l => ~valid'[j]
        BY <1>0, <2>3, <3>1 DEF OneBuffer
      <4>2. Content'[l] = disk[l]
        BY <1>1, <2>2, <4>1 DEF ContentIs
      <4>3. Content[l] = data[i]
        BY <1>1, <3>1 DEF ContentIs
      <4> QED
        BY <2>4, <3>1, <4>2, <4>3
    <3>2. CASE ~(l = blockno[i] /\ valid[i])
      <4>1. \A j \in Buf : blockno'[j] = l /\ valid'[j] <=>
                           blockno[j] = l /\ valid[j]
        BY <2>3, <3>2
      <4> QED
        BY <1>1, <2>2, <4>1 DEF ContentIs
    <3> QED
      BY <3>1, <3>2
  <2> QED
    BY ZenonT(30), <1>s, <1>1, <2>h, <2>5, ContentEqual
<1>12. ASSUME NEW c \in Client, NEW v \in Val, modify(c, v)
      PROVE  [Abstract!Next]_abstract
  <2>h. Holders' = Holders
    <3>1. \A d \in Client : /\ pc'[d] \in Locked <=> pc[d] \in Locked
                            /\ pc[d] \in Locked => want'[d] = want[d]
      BY <1>0, <1>12 DEF modify, Goto, Locked, TypeOK
    <3> QED
      BY <1>h, <3>1
  <2>1. b[c] \in Buf /\ valid[b[c]] /\ c \in holder[b[c]]
    BY ZenonT(30), <1>0, <1>12 DEF modify, TypeOK, HoldInv, Locked, CleanInv, ClientClean
  <2>2. holder[b[c]] = {c}
    <3>1. \A d \in holder[b[c]] : d = c
      <4>1. \A i \in Buf : \A a, d \in holder[i] : a = d
        BY Zenon, <1>0 DEF HoldInv
      <4> QED
        BY <2>1, <4>1
    <3> QED
      BY Zenon, <2>1, <3>1
  <2>3. /\ want[c] \in Block /\ blockno[b[c]] = want[c]
        /\ Holders[want[c]] = {c}
    BY ZenonT(30), <2>1, <2>2, HolderOf
  <2>4. /\ UNCHANGED <<blockno, valid, disk>>
        /\ data' = [data EXCEPT ![b[c]] = v]
    BY ZenonT(30), <1>12 DEF modify
  <2>5. Content'[want[c]] = v
    BY SMTT(30), <1>0, <1>1, <2>1, <2>3, <2>4 DEF ContentIs, TypeOK
  <2>6. \A k \in Block : k # want[c] => Content'[k] = Content[k]
    <3> TAKE k \in Block
    <3> HAVE k # want[c]
    <3>1. \A i \in Buf : blockno[i] = k => data'[i] = data[i]
      BY <1>0, <2>3, <2>4 DEF TypeOK
    <3>2. ASSUME NEW i \in Buf, blockno[i] = k, valid[i]
          PROVE  Content'[k] = Content[k]
      <4>1. Content[k] = data[i] /\ Content'[k] = data'[i]
        BY SMTT(30), <1>1, <2>4, <3>2 DEF ContentIs
      <4> QED
        BY <3>1, <3>2, <4>1
    <3>3. CASE \A i \in Buf : blockno[i] = k => ~valid[i]
      BY <1>1, <2>4, <3>3 DEF ContentIs
    <3> QED
      BY <3>2, <3>3
  <2>7. Content' = [Content EXCEPT ![want[c]] = v]
    <3>1. Content = [k \in Block |-> Content[k]] /\
          Content' = [k \in Block |-> Content'[k]]
      BY DEF Content
    <3> QED
      BY ZenonT(30), <2>3, <2>5, <2>6, <3>1
  <2> QED
    BY Zenon, <2>3, <2>7, <2>h DEF Abstract!Next, Abstract!Modify
<1>13. CASE UNCHANGED vars
  <2>1. /\ UNCHANGED <<blockno, valid, data, disk>>
        /\ UNCHANGED <<pc, want>>
    BY <1>13 DEF vars
  <2> QED
    BY <1>s, <1>c, <1>h, <2>1
<1>14. ASSUME NEW c \in Client, NEW k \in Block, bget_panic(c, k)
      PROVE  [Abstract!Next]_abstract
  <2>1. UNCHANGED <<blockno, valid, data, disk>>
    BY <1>14 DEF bget_panic
  <2>2. \A d \in Client : /\ pc'[d] \in Locked <=> pc[d] \in Locked
                          /\ pc[d] \in Locked => want'[d] = want[d]
    BY <1>0, <1>14 DEF bget_panic, Goto, Locked, TypeOK
  <2> QED
    BY <1>s, <1>c, <1>h, <2>1, <2>2
<1> QED
  BY <1>2, <1>3, <1>4, <1>5, <1>6, <1>7, <1>8, <1>9, <1>10, <1>11, <1>12,
     <1>13, <1>14, Zenon
  DEF Next, Kernel, halted

\* Clients see one copy of each block, one at a time, and recycling a buffer
\* loses no change, for every number of clients, blocks and buffers.
THEOREM CacheIsCoherent == Spec => CacheCoherent
<1>1. Init => Abstract!Init
  <2> SUFFICES ASSUME Init PROVE Abstract!Init
    OBVIOUS
  <2>1. Content = disk /\ disk \in [Block -> Val]
    BY DEF Init, Content, Cached
  <2>2. Holders = [k \in Block |-> {}]
    BY DEF Init, Holders
  <2> QED
    BY <2>1, <2>2 DEF Abstract!Init
<1>2. Inv /\ [Next]_vars => [Abstract!Next]_(Abstract!bvars)
  BY CacheStep DEF abstract, Abstract!bvars
<1> QED
  BY <1>1, <1>2, Invariance, PTL DEF Spec, CacheCoherent, Abstract!Spec
=============================================================================
