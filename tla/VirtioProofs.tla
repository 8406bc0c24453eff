---------------------------- MODULE VirtioProofs ----------------------------
(***************************************************************************)
(* The disk driver for every number of processes and descriptors, and with *)
(* ring indices that wrap: no descriptor is leaked or shared, the handler  *)
(* finds only finished requests, virtio_disk_rw() does not return before   *)
(* its transfer, no completion waits without an interrupt and nobody waits *)
(* for descriptors that are free.                                          *)
(***************************************************************************)
EXTENDS VirtioDisk, Integers, FiniteSetTheorems, WellFoundedInduction, TLAPS

\* How many entries a ring has between the indices a and b.
Entries(a, b) == IF a <= b THEN b - a ELSE b + UINT16 - a

\* How far slot s of a ring is behind the one of index a.
Offset(s, a) == IF a % NUM <= s THEN s - (a % NUM) ELSE s + NUM - (a % NUM)

\* The slots between the indices a and b, if they are at most NUM apart.
Window(a, b) == {s \in Desc : Offset(s, a) < Entries(a, b)}

\* Never more than NUM entries, so that no entry is overwritten.
RingInv(a, b) ==
    /\ Entries(a, b) <= NUM
    /\ Offset(b % NUM, a) = IF Entries(a, b) = NUM THEN 0 ELSE Entries(a, b)

Rings == RingInv(seen, availidx) /\ RingInv(used_idx, usedidx)

\* The descriptors of each request: three, and nobody else's.
ChainInv ==
    \A p \in Proc :
        /\ Waiting(p) =>
              /\ head[p] \in Desc /\ infob[head[p]] = p
              /\ next[head[p]] \in Desc /\ next[next[head[p]]] \in Desc
              /\ next[head[p]] # head[p]
              /\ next[next[head[p]]] \notin {head[p], next[head[p]]}
              /\ Chain(head[p]) \cap free = {}
              /\ ~busy[p] => p \in served
        /\ busy[p] => Waiting(p)

OwnerInv ==
    /\ \A p, q \in Proc : Waiting(p) /\ Waiting(q) /\ p # q =>
          Chain(head[p]) \cap Chain(head[q]) = {}
    /\ \A i \in Desc \ free : \E p \in Proc : Waiting(p) /\ i \in Chain(head[p])

\* i is the head of a request that is not done.
Pending(i) == i \in Desc /\ infob[i] \in Proc /\ busy[infob[i]]
              /\ head[infob[i]] = i

\* A request is in one of the rings or with the device, and there once.
QueueHeads ==
    LET A == Window(seen, availidx)
        U == Window(used_idx, usedidx)
    IN  /\ \A s \in A : Pending(avail[s]) /\ avail[s] \notin inflight
        /\ \A s \in U : /\ Pending(used[s]) /\ used[s] \notin inflight
                        /\ ~status[used[s]] /\ infob[used[s]] \in served
        /\ \A i \in inflight : Pending(i)

QueueOnce ==
    LET A == Window(seen, availidx)
        U == Window(used_idx, usedidx)
    IN  /\ \A r, s \in A : avail[r] = avail[s] => r = s
        /\ \A r, s \in U : used[r] = used[s] => r = s
        /\ \A r \in A, s \in U : avail[r] # used[s]

QueueInv == QueueHeads /\ QueueOnce

Requests == Rings /\ ChainInv /\ OwnerInv /\ QueueInv

Inv == TypeOK /\ Requests /\ NoLostInterrupt
-----------------------------------------------------------------------------
Idx == 0..(UINT16 - 1)

\* A multiple of m between -m and m - 2 is -m or 0.
LEMMA Multiples ==
    ASSUME NEW m \in Nat, NEW z \in Int, -m <= m * z, m * z < m
    PROVE  m * z = 0 \/ m * z = -m
<1>1. CASE z >= 1
  BY <1>1
<1>2. CASE z <= -2
  <2>1. m = 0 \/ m > 0
    OBVIOUS
  <2> QED
    BY <1>2, <2>1
<1>3. CASE z = 0 \/ z = -1
  BY <1>3
<1> QED
  BY <1>1, <1>2, <1>3

LEMMA Distribute ==
    \A m, a, b \in Int : m * (a - b) = m * a - m * b
OBVIOUS

LEMMA Division ==
    ASSUME NEW x \in Int, NEW m \in Int, m > 0
    PROVE  \E z \in Int : x = m * z + (x % m)
<1>1. x \div m \in Int
  OBVIOUS
<1>2. x = m * (x \div m) + (x % m)
  BY SMTT(60)
<1> QED
  BY Zenon, <1>1, <1>2

LEMMA ModStep ==
    ASSUME NEW x \in Nat, NEW m \in Nat, m > 0
    PROVE  (x + 1) % m = IF (x % m) + 1 = m THEN 0 ELSE (x % m) + 1
<1> DEFINE r == x % m
           s == (x + 1) % m
<1>1. r \in 0..(m - 1) /\ s \in 0..(m - 1)
  OBVIOUS
<1>2. PICK a \in Int : x = m * a + r
  BY Division
<1>3. PICK b \in Int : x + 1 = m * b + s
  <2>1. x + 1 \in Int /\ m \in Int
    OBVIOUS
  <2> QED
    BY Zenon, <2>1, Division
<1> HIDE DEF r, s
<1>4. s - r - 1 = m * (a - b)
  <2>1. ASSUME NEW A \in Int, NEW B \in Int, x = A + r, x + 1 = B + s
        PROVE  s - r - 1 = A - B
    BY <1>1, <2>1
  <2>2. m * a \in Int /\ m * b \in Int
    OBVIOUS
  <2>3. s - r - 1 = m * a - m * b
    BY <1>2, <1>3, <2>1, <2>2
  <2> QED
    BY <2>3, Distribute
<1>5. s - r - 1 = 0 \/ s - r - 1 = -m
  <2>1. -m <= s - r - 1 /\ s - r - 1 < m
    BY <1>1
  <2>2. a - b \in Int
    OBVIOUS
  <2> QED
    BY Zenon, <1>4, <2>1, <2>2, Multiples
<1>6. s = IF r + 1 = m THEN 0 ELSE r + 1
  BY <1>1, <1>5
<1> QED
  BY <1>6 DEF r, s

\* The index after a, and its slot: UINT16 is a multiple of NUM.
LEMMA NextIndex ==
    ASSUME NEW a \in Idx
    PROVE  /\ (a + 1) % UINT16 = IF a + 1 = UINT16 THEN 0 ELSE a + 1
           /\ (a + 1) % UINT16 \in Idx
           /\ a % NUM \in Desc
           /\ ((a + 1) % UINT16) % NUM =
                 IF (a % NUM) + 1 = NUM THEN 0 ELSE (a % NUM) + 1
<1>0. a \in Nat /\ a + 1 <= UINT16 /\ UINT16 \in Nat /\ NUM \in Nat /\ NUM > 0
      /\ UINT16 % NUM = 0
  BY VirtioAssumption DEF Idx
<1>1. (a + 1) % UINT16 = IF a + 1 = UINT16 THEN 0 ELSE a + 1
  BY <1>0, VirtioAssumption
<1>2. (a + 1) % NUM = IF (a % NUM) + 1 = NUM THEN 0 ELSE (a % NUM) + 1
  BY Zenon, <1>0, ModStep
<1>3. a % NUM \in Desc
  BY <1>0 DEF Desc
<1>4. 0 % NUM = 0
  BY <1>0
<1>5. (a + 1) % UINT16 \in Idx
  BY <1>0, <1>1 DEF Idx
<1>6. CASE a + 1 = UINT16
  BY <1>0, <1>1, <1>2, <1>3, <1>4, <1>5, <1>6
<1>7. CASE a + 1 # UINT16
  BY <1>1, <1>2, <1>3, <1>5, <1>7
<1> QED
  BY <1>6, <1>7

\* An entry more in a ring that is not full, and one less.
LEMMA RingPush ==
    ASSUME NEW a \in Idx, NEW b \in Idx, RingInv(a, b), Entries(a, b) < NUM
    PROVE  LET c == (b + 1) % UINT16
           IN  /\ RingInv(a, c)
               /\ Window(a, c) = Window(a, b) \cup {b % NUM}
               /\ b % NUM \in Desc \ Window(a, b)
<1> DEFINE c == (b + 1) % UINT16
           x == a % NUM
           y == b % NUM
           z == c % NUM
<1>0. /\ UINT16 \in Nat /\ NUM \in Nat /\ NUM > 0 /\ NUM < UINT16
      /\ a \in 0..(UINT16 - 1) /\ b \in 0..(UINT16 - 1)
  BY VirtioAssumption DEF Idx
<1>1. x \in 0..(NUM - 1) /\ y \in 0..(NUM - 1)
  BY NextIndex DEF Desc
<1>2. /\ c = IF b + 1 = UINT16 THEN 0 ELSE b + 1
      /\ z = IF y + 1 = NUM THEN 0 ELSE y + 1
  BY NextIndex
<1>3. Entries(a, b) = (IF x <= y THEN y - x ELSE y + NUM - x)
  <2>1. Entries(a, b) # NUM
    BY <1>0 DEF Entries
  <2> QED
    BY <2>1 DEF RingInv, Offset
<1> HIDE DEF c, x, y, z
<1>4. Entries(a, c) = Entries(a, b) + 1
  BY <1>0, <1>2 DEF Entries
<1>5. (IF x <= z THEN z - x ELSE z + NUM - x) =
         IF Entries(a, c) = NUM THEN 0 ELSE Entries(a, c)
  BY SMTT(30), <1>0, <1>1, <1>2, <1>3, <1>4
<1>6. RingInv(a, c)
  <2>1. Entries(a, b) \in Nat
    BY <1>0 DEF Entries
  <2>2. Entries(a, c) <= NUM
    BY <1>0, <1>4, <2>1
  <2> QED
    BY <1>5, <2>2 DEF RingInv, Offset, x, z
<1>7. \A s \in Desc : /\ Offset(s, a) < Entries(a, b) + 1 <=>
                            Offset(s, a) < Entries(a, b) \/ s = y
                      /\ s = y => ~(Offset(s, a) < Entries(a, b))
  <2>1. \A s \in Desc : Offset(s, a) = IF x <= s THEN s - x ELSE s + NUM - x
    BY DEF Offset, x
  <2> QED
    BY <1>0, <1>1, <1>3, <2>1 DEF Desc
<1>8. y \in Desc
  BY <1>1 DEF Desc
<1> QED
  BY <1>4, <1>6, <1>7, <1>8 DEF Window, c, y

LEMMA RingPop ==
    ASSUME NEW a \in Idx, NEW b \in Idx, RingInv(a, b), a # b
    PROVE  LET c == (a + 1) % UINT16
           IN  /\ RingInv(c, b)
               /\ Window(a, b) = Window(c, b) \cup {a % NUM}
               /\ a % NUM \in Desc \ Window(c, b)
<1> DEFINE c == (a + 1) % UINT16
           x == a % NUM
           y == b % NUM
           z == c % NUM
<1>0. /\ UINT16 \in Nat /\ NUM \in Nat /\ NUM > 0 /\ NUM < UINT16
      /\ a \in 0..(UINT16 - 1) /\ b \in 0..(UINT16 - 1)
  BY VirtioAssumption DEF Idx
<1>1. x \in 0..(NUM - 1) /\ y \in 0..(NUM - 1)
  BY NextIndex DEF Desc
<1>2. /\ c = IF a + 1 = UINT16 THEN 0 ELSE a + 1
      /\ z = IF x + 1 = NUM THEN 0 ELSE x + 1
  BY NextIndex
<1>3. /\ (IF x <= y THEN y - x ELSE y + NUM - x) =
            IF Entries(a, b) = NUM THEN 0 ELSE Entries(a, b)
      /\ Entries(a, b) <= NUM
  BY DEF RingInv, Offset
<1> HIDE DEF c, x, y, z
<1>4. Entries(c, b) = Entries(a, b) - 1 /\ Entries(a, b) \in Nat \ {0}
  BY <1>0, <1>2 DEF Entries
<1>5. (IF z <= y THEN y - z ELSE y + NUM - z) = Entries(c, b)
  BY SMTT(30), <1>0, <1>1, <1>2, <1>3, <1>4
<1>6. RingInv(c, b)
  <2>1. Entries(c, b) <= NUM /\ Entries(c, b) # NUM
    BY <1>0, <1>3, <1>4
  <2> QED
    BY <1>5, <2>1 DEF RingInv, Offset, y, z
<1>7. \A s \in Desc : /\ Offset(s, a) < Entries(a, b) <=>
                            Offset(s, c) < Entries(a, b) - 1 \/ s = x
                      /\ s = x => ~(Offset(s, c) < Entries(a, b) - 1)
  <2>1. \A s \in Desc : /\ Offset(s, a) = IF x <= s THEN s - x ELSE s + NUM - x
                        /\ Offset(s, c) = IF z <= s THEN s - z ELSE s + NUM - z
    BY DEF Offset, x, z
  <2> QED
    BY <1>0, <1>1, <1>2, <1>3, <1>4, <2>1 DEF Desc
<1>8. x \in Desc
  BY <1>1 DEF Desc
<1> QED
  BY <1>4, <1>6, <1>7, <1>8 DEF Window, c, x

LEMMA RingFull ==
    ASSUME NEW a \in Idx, NEW b \in Idx, RingInv(a, b), Entries(a, b) >= NUM
    PROVE  Window(a, b) = Desc
<1>1. a % NUM \in 0..(NUM - 1)
  BY NextIndex DEF Desc
<1>2. NUM \in Nat /\ Entries(a, b) = NUM
  BY VirtioAssumption DEF RingInv, Idx, Entries
<1>3. \A s \in Desc : Offset(s, a) < NUM
  BY <1>1, <1>2 DEF Offset, Desc
<1> QED
  BY <1>2, <1>3 DEF Window
-----------------------------------------------------------------------------
LEMMA Descs ==
    /\ NUM \notin Desc /\ Desc \subseteq 0..NUM /\ NUM \in 0..NUM
    /\ Desc \subseteq Nat /\ NoProc \notin Proc
    /\ IsFiniteSet(Desc) /\ Cardinality(Desc) = NUM /\ NUM \in Nat
<1>1. NUM \in Nat /\ NUM > 0
  BY VirtioAssumption
<1>2. IsFiniteSet(Desc) /\ Cardinality(Desc) = NUM
  BY <1>1, FS_Interval DEF Desc
<1> QED
  BY <1>1, <1>2, VirtioAssumption DEF Desc

\* A ring whose entries differ and leave out a descriptor is not full.
LEMMA Room ==
    ASSUME NEW f \in [Desc -> Desc], NEW x \in Desc,
           \A s \in Desc : f[s] # x,
           \A r, s \in Desc : f[r] = f[s] => r = s
    PROVE  FALSE
<1>1. /\ IsFiniteSet(Desc \ {x})
      /\ Cardinality(Desc \ {x}) = Cardinality(Desc) - 1
  BY Descs, FS_RemoveElement
<1>2. f \in [Desc -> Desc \ {x}]
  OBVIOUS
<1>3. Cardinality(Desc \ {x}) < Cardinality(Desc)
  BY <1>1, Descs
<1>4. \E r, s \in Desc : r # s /\ f[r] = f[s]
  BY ZenonT(30), <1>1, <1>2, <1>3, Descs, FS_PigeonHole
<1> QED
  BY <1>4

LEMMA Smallest ==
    ASSUME NEW S, S \subseteq Nat, S # {}
    PROVE  alloc_desc(S) \in S
<1> DEFINE R == OpToRel(<, Nat)
<1>1. IsWellFoundedOn(R, Nat)
  BY Zenon, NatLessThanWellFounded
<1>2. \A x, y \in Nat : <<y, x>> \in R <=> y < x
  BY DEF OpToRel
<1> HIDE DEF R
<1>3. PICK x \in S : \A y \in S : ~(<<y, x>> \in R)
  BY Zenon, <1>1, WFMin
<1>4. \A y \in S : x <= y
  <2>1. \A y \in S : ~(y < x)
    BY Zenon, <1>2, <1>3
  <2> QED
    BY <2>1
<1> QED
  BY Zenon, <1>4 DEF alloc_desc

\* alloc3_desc() takes three different descriptors.
LEMMA Alloc3 ==
    ASSUME TypeOK, Cardinality(free) >= 3
    PROVE  /\ First \in free /\ Second \in free /\ Third \in free
           /\ First # Second /\ First # Third /\ Second # Third
<1>1. IsFiniteSet(free) /\ free \subseteq Nat /\ Cardinality(free) \in Nat
  BY Zenon, Descs, FS_Subset, FS_CardinalityType DEF TypeOK
<1>2. ASSUME NEW S, S \subseteq free, IsFiniteSet(S), Cardinality(S) >= 1
      PROVE  alloc_desc(S) \in S
  <2>1. S # {}
    BY <1>2, FS_EmptySet
  <2> QED
    BY Zenon, <1>1, <1>2, <2>1, Smallest
<1>3. First \in free
  BY <1>1, <1>2 DEF First
<1>4. /\ IsFiniteSet(free \ {First})
      /\ Cardinality(free \ {First}) = Cardinality(free) - 1
  BY <1>1, <1>3, FS_RemoveElement
<1>5. Second \in free \ {First}
  <2>1. Cardinality(free \ {First}) >= 1
    BY <1>1, <1>4
  <2> QED
    BY <1>2, <1>4, <2>1 DEF Second
<1>6. /\ IsFiniteSet((free \ {First}) \ {Second})
      /\ Cardinality((free \ {First}) \ {Second}) = Cardinality(free) - 2
  <2>1. /\ IsFiniteSet((free \ {First}) \ {Second})
        /\ Cardinality((free \ {First}) \ {Second}) =
              Cardinality(free \ {First}) - 1
    BY <1>4, <1>5, FS_RemoveElement
  <2> QED
    BY <1>1, <1>4, <2>1
<1>7. (free \ {First}) \ {Second} = free \ {First, Second}
  OBVIOUS
<1>8. Third \in free \ {First, Second}
  <2>1. /\ IsFiniteSet(free \ {First, Second})
        /\ Cardinality(free \ {First, Second}) = Cardinality(free) - 2
    BY Zenon, <1>6, <1>7
  <2>2. Cardinality(free \ {First, Second}) >= 1
    BY SMTT(30), <1>1, <2>1
  <2> QED
    BY <1>2, <2>1, <2>2 DEF Third
<1> QED
  BY <1>3, <1>5, <1>8

\* The chain of a request is its three descriptors.
LEMMA ChainIs ==
    ASSUME ChainInv
    PROVE  \A p \in Proc : Waiting(p) =>
              Chain(head[p]) =
                 {head[p], next[head[p]], next[next[head[p]]]}
BY Descs DEF ChainInv, Chain

\* A request that is not done belongs to a process that waits for it.
LEMMA PendingIs ==
    ASSUME TypeOK, ChainInv, NEW i, Pending(i)
    PROVE  /\ infob[i] \in Proc /\ Waiting(infob[i]) /\ i \in Desc
           /\ i = head[infob[i]] /\ i \notin free
<1>1. Waiting(infob[i]) /\ infob[i] \in Proc /\ head[infob[i]] = i /\ i \in Desc
  BY DEF Pending, ChainInv
<1>2. i \in Chain(head[infob[i]])
  BY <1>1, ChainIs
<1> QED
  BY <1>1, <1>2 DEF ChainInv

LEMMA AvailRoom ==
    ASSUME Inv, free # {}
    PROVE  Entries(seen, availidx) < NUM
<1> SUFFICES ASSUME Entries(seen, availidx) >= NUM PROVE FALSE
  BY VirtioAssumption DEF Inv, TypeOK, Entries
<1>1. Window(seen, availidx) = Desc
  BY SMTT(30), RingFull DEF Inv, Requests, Rings, TypeOK, Idx
<1>2. PICK x \in free : x \in Desc
  BY SMTT(30) DEF Inv, TypeOK
<1>3. \A s \in Desc : avail[s] # x
  BY SMTT(30), <1>1, PendingIs DEF Inv, Requests, QueueInv, QueueHeads, QueueOnce
<1>4. \A r, s \in Desc : avail[r] = avail[s] => r = s
  BY <1>1 DEF Inv, Requests, QueueInv, QueueHeads, QueueOnce
<1>5. avail \in [Desc -> Desc]
  BY DEF Inv, TypeOK
<1> QED
  BY SMTT(30), <1>2, <1>3, <1>4, <1>5, Room

LEMMA UsedRoom ==
    ASSUME Inv, NEW i \in inflight
    PROVE  Entries(used_idx, usedidx) < NUM
<1> SUFFICES ASSUME Entries(used_idx, usedidx) >= NUM PROVE FALSE
  BY VirtioAssumption DEF Inv, TypeOK, Entries
<1>1. Window(used_idx, usedidx) = Desc
  BY RingFull DEF Inv, Requests, Rings, TypeOK, Idx
<1>2. i \in Desc /\ used \in [Desc -> Desc]
  BY DEF Inv, TypeOK
<1>3. \A s \in Desc : used[s] # i
  BY <1>1 DEF Inv, Requests, QueueInv, QueueHeads, QueueOnce
<1>4. \A r, s \in Desc : used[r] = used[s] => r = s
  BY <1>1 DEF Inv, Requests, QueueInv, QueueHeads, QueueOnce
<1> QED
  BY SMTT(30), <1>2, <1>3, <1>4, Room
-----------------------------------------------------------------------------
LEMMA TypeStep == Inv /\ [Next]_vars => TypeOK'
<1> SUFFICES ASSUME Inv, [Next]_vars PROVE TypeOK'
  OBVIOUS
<1>0. TypeOK
  BY SMTT(30) DEF Inv
<1> USE Descs DEF TypeOK, driver, device
<1>1. ASSUME NEW p \in Proc, rw_call(p) PROVE TypeOK'
  BY SMTT(30), <1>0, <1>1 DEF rw_call, Goto
<1>2. ASSUME NEW p \in Proc, rw_submit(p) PROVE TypeOK'
  <2>1. First \in Desc /\ Second \in Desc /\ Third \in Desc
    BY ZenonT(30), <1>0, <1>2, Alloc3 DEF rw_submit
  <2>2. availidx' \in 0..(UINT16 - 1) /\ RingSlot \in Desc
    BY SMTT(30), <1>0, <1>2, NextIndex DEF rw_submit, RingSlot, Idx
  <2> QED
    BY SMTT(30), <1>0, <1>2, <2>1, <2>2 DEF rw_submit, Goto
<1>3. ASSUME NEW p \in Proc, rw_nodesc(p) PROVE TypeOK'
  BY SMTT(30), <1>0, <1>3 DEF rw_nodesc, Goto, WakeAllocators
<1>4. ASSUME NEW p \in Proc, kill(p) PROVE TypeOK'
  BY SMTT(30), <1>0, <1>4 DEF kill, Goto
<1>5. ASSUME NEW p \in Proc, rw_again(p) PROVE TypeOK'
  BY SMTT(30), <1>0, <1>5 DEF rw_again, Goto
<1>6. ASSUME NEW p \in Proc, rw_finish(p) PROVE TypeOK'
  <2>1. Waiting(p)
    BY SMTT(30), <1>6 DEF rw_finish, Waiting
  <2>2. head[p] \in Desc /\ Chain(head[p]) \subseteq Desc
    BY <2>1, ChainIs DEF Inv, Requests, ChainInv
  <2> HIDE DEF TypeOK
  <2>3. /\ free' \subseteq Desc /\ next' \in [Desc -> 0..NUM]
        /\ infob' \in [Desc -> Proc \cup {NoProc}]
        /\ head' \in [Proc -> 0..NUM] /\ served' \subseteq Proc
    BY ZenonT(30), <1>0, <1>6, <2>2 DEF rw_finish, TypeOK
  <2>4. pc' \in [Proc -> {"idle", "alloc", "alloc_asleep", "asleep", "woken"}]
    BY <1>0, <1>6 DEF rw_finish, ChainWakes, WakeAllocators, TypeOK
  <2> QED
    BY SMTT(30), <1>0, <1>6, <2>3, <2>4 DEF rw_finish, TypeOK
<1>7. CASE device_fetch
  <2>1. seen' \in 0..(UINT16 - 1) /\ seen % NUM \in Desc
    BY SMTT(30), <1>0, <1>7, NextIndex DEF device_fetch, Idx
  <2> QED
    BY ZenonT(30), <1>0, <1>7, <2>1 DEF device_fetch
<1>8. ASSUME NEW i \in Desc, device_complete(i) PROVE TypeOK'
  <2>1. usedidx' \in 0..(UINT16 - 1) /\ usedidx % NUM \in Desc
    BY ZenonT(30), <1>0, <1>8, NextIndex DEF device_complete, Idx
  <2>2. infob[i] \in Proc
    BY <1>8 DEF Inv, Requests, QueueInv, QueueHeads, Pending, device_complete
  <2> QED
    BY SMTT(30), <1>0, <1>8, <2>1, <2>2 DEF device_complete
<1>9. CASE intr
  BY Zenon, <1>0, <1>9 DEF intr
<1>10. CASE intr_entry
  <2>1. used_idx' \in 0..(UINT16 - 1)
    BY <1>0, <1>10, NextIndex DEF intr_entry, Idx
  <2> QED
    BY ZenonT(30), <1>0, <1>10, <2>1 DEF intr_entry
<1>11. CASE intr_done
  BY ZenonT(30), <1>0, <1>11 DEF intr_done
<1>12. CASE UNCHANGED vars
  BY <1>0, <1>12 DEF vars
<1> QED
  BY ZenonT(30), <1>1, <1>2, <1>3, <1>4, <1>5, <1>6, <1>7, <1>8, <1>9, <1>10,
     <1>11, <1>12
  DEF Next, Kernel, Device, Handler
-----------------------------------------------------------------------------
\* Steps that change no request.
Calm ==
    /\ UNCHANGED <<free, next, infob, status, avail, availidx, used, usedidx,
                   used_idx, busy, head, seen, inflight, served>>
    /\ \A p \in Proc : Waiting(p)' <=> Waiting(p)

LEMMA CalmStep == Inv /\ Calm => Requests'
<1> SUFFICES ASSUME Inv, Calm PROVE Requests'
  BY SMTT(30)
<1>1. Rings'
  BY SMTT(30) DEF Inv, Requests, Calm, Rings, RingInv, Offset, Entries
<1>2. \A i : Chain(i)' = Chain(i)
  BY SMTT(30) DEF Calm, Chain
<1>3. ChainInv'
  BY <1>2 DEF Inv, Requests, Calm, ChainInv
<1>4. OwnerInv'
  BY <1>2 DEF Inv, Requests, Calm, OwnerInv
<1>5. /\ Window(seen, availidx)' = Window(seen, availidx)
      /\ Window(used_idx, usedidx)' = Window(used_idx, usedidx)
  BY DEF Calm, Window, Offset, Entries
<1>6. \A i : Pending(i)' <=> Pending(i)
  BY SMTT(30) DEF Calm, Pending
<1>7. QueueInv'
  BY <1>5, <1>6 DEF Inv, Requests, Calm, QueueInv, QueueHeads, QueueOnce
<1> QED
  BY <1>1, <1>3, <1>4, <1>7 DEF Requests

LEMMA CalmActions ==
    ASSUME Inv,
           \/ \E p \in Proc : rw_call(p) \/ rw_nodesc(p) \/ kill(p) \/ rw_again(p)
           \/ intr \/ intr_done \/ UNCHANGED vars
    PROVE  Calm
<1>0. pc \in [Proc -> {"idle", "alloc", "alloc_asleep", "asleep", "woken"}]
  BY DEF Inv, TypeOK
<1>1. ASSUME NEW p \in Proc, rw_call(p) PROVE Calm
  BY <1>0, <1>1 DEF rw_call, Goto, Calm, Waiting, driver, device
<1>2. ASSUME NEW p \in Proc, rw_nodesc(p) PROVE Calm
  BY <1>0, <1>2
  DEF rw_nodesc, Goto, WakeAllocators, Calm, Waiting, driver, device
<1>3. ASSUME NEW p \in Proc, kill(p) PROVE Calm
  BY <1>0, <1>3 DEF kill, Goto, Calm, Waiting, driver, device
<1>4. ASSUME NEW p \in Proc, rw_again(p) PROVE Calm
  BY SMTT(30), <1>0, <1>4 DEF rw_again, Goto, Calm, Waiting, driver, device
<1>5. CASE intr \/ intr_done
  BY <1>5 DEF intr, intr_done, Calm, Waiting, driver, device
<1>6. CASE UNCHANGED vars
  BY <1>6 DEF vars, Calm, Waiting
<1> QED
  BY SMTT(30), <1>1, <1>2, <1>3, <1>4, <1>5, <1>6

\* virtio_disk_rw() publishes a request of three free descriptors.
LEMMA SubmitStep ==
    ASSUME Inv, NEW p \in Proc, rw_submit(p)
    PROVE  Requests'
<1> DEFINE A == Window(seen, availidx)
           U == Window(used_idx, usedidx)
<1>f. PICK f : f = First
  OBVIOUS
<1>g. PICK g : g = Second
  OBVIOUS
<1>h. PICK h : h = Third
  OBVIOUS
<1>0. TypeOK /\ Rings /\ ChainInv /\ OwnerInv /\ QueueInv
  BY DEF Inv, Requests
<1>1. /\ f \in free /\ g \in free /\ h \in free
      /\ f # g /\ f # h /\ g # h
      /\ f \in Desc /\ g \in Desc /\ h \in Desc
  BY Zenon, <1>0, <1>f, <1>g, <1>h, Alloc3 DEF rw_submit, TypeOK
<1>2. /\ free' = free \ {f, g, h}
      /\ next' = [next EXCEPT ![f] = g, ![g] = h, ![h] = NUM]
      /\ status' = [status EXCEPT ![f] = TRUE]
      /\ busy' = [busy EXCEPT ![p] = TRUE]
      /\ infob' = [infob EXCEPT ![f] = p]
      /\ avail' = [avail EXCEPT ![availidx % NUM] = f]
      /\ availidx' = (availidx + 1) % UINT16
      /\ head' = [head EXCEPT ![p] = f]
      /\ pc' = [pc EXCEPT ![p] = "asleep"]
      /\ UNCHANGED <<seen, inflight, served, used, usedidx, used_idx>>
  BY Zenon, <1>f, <1>g, <1>h DEF rw_submit, Goto, RingSlot, device
<1>3. /\ RingInv(seen, availidx)'
      /\ Window(seen, availidx)' = A \cup {availidx % NUM}
      /\ availidx % NUM \in Desc \ A
  <2>1. Entries(seen, availidx) < NUM
    BY <1>1, AvailRoom
  <2>2. seen \in Idx /\ availidx \in Idx /\ RingInv(seen, availidx)
    BY <1>0 DEF TypeOK, Rings, Idx
  <2>3. /\ RingInv(seen, (availidx + 1) % UINT16)
        /\ Window(seen, (availidx + 1) % UINT16) = A \cup {availidx % NUM}
        /\ availidx % NUM \in Desc \ A
    BY Zenon, <2>1, <2>2, RingPush
  <2> QED
    BY ZenonT(30), <1>2, <2>3 DEF RingInv, Window, Entries, Offset
<1>4. /\ Window(used_idx, usedidx)' = U
      /\ RingInv(used_idx, usedidx)'
  BY Zenon, <1>0, <1>2 DEF Window, Entries, Offset, RingInv, Rings
<1>5. /\ ~Waiting(p) /\ ~busy[p] /\ Waiting(p)'
      /\ \A q \in Proc : q # p => (Waiting(q)' <=> Waiting(q))
  <2>1. ~Waiting(p)
    BY Zenon DEF rw_submit, Waiting
  <2>2. ~busy[p]
    BY Zenon, <1>0, <2>1 DEF ChainInv
  <2>3. Waiting(p)'
    BY Zenon, <1>0, <1>2 DEF Waiting, TypeOK
  <2>4. \A q \in Proc : q # p => pc'[q] = pc[q]
    BY Zenon, <1>0, <1>2 DEF TypeOK
  <2> QED
    BY Zenon, <2>1, <2>2, <2>3, <2>4 DEF Waiting
<1>6. next'[f] = g /\ next'[g] = h /\ head'[p] = f /\ infob'[f] = p /\ busy'[p]
  BY Zenon, <1>0, <1>1, <1>2 DEF TypeOK
<1>7. Chain(f)' = {f, g, h}
  BY ZenonT(30), <1>1, <1>6, Descs DEF Chain
<1>8. ASSUME NEW q \in Proc, Waiting(q), q # p
      PROVE  /\ head'[q] = head[q] /\ infob'[head[q]] = infob[head[q]]
             /\ busy'[q] = busy[q]
             /\ next'[head[q]] = next[head[q]]
             /\ next'[next[head[q]]] = next[next[head[q]]]
             /\ Chain(head[q])' = Chain(head[q])
             /\ head[q] # f
  <2>1. Chain(head[q]) = {head[q], next[head[q]], next[next[head[q]]]}
    BY ZenonT(30), <1>0, <1>8, ChainIs
  <2>2. {head[q], next[head[q]], next[next[head[q]]]} \cap {f, g, h} = {}
    BY <1>0, <1>1, <1>8, <2>1 DEF ChainInv
  <2>3. /\ head[q] \in Desc /\ next[head[q]] \in Desc
        /\ next[next[head[q]]] \in Desc
    BY Zenon, <1>0, <1>8 DEF ChainInv
  <2>4. /\ head'[q] = head[q] /\ infob'[head[q]] = infob[head[q]]
        /\ busy'[q] = busy[q]
    BY ZenonT(30), <1>0, <1>1, <1>2, <1>8, <2>2, <2>3 DEF TypeOK
  <2>5. /\ next'[head[q]] = next[head[q]]
        /\ next'[next[head[q]]] = next[next[head[q]]]
    BY ZenonT(30), <1>0, <1>1, <1>2, <2>2, <2>3 DEF TypeOK
  <2> QED
    BY Zenon, <2>2, <2>3, <2>4, <2>5 DEF Chain
<1>9. ChainInv'
  <2> SUFFICES ASSUME NEW q \in Proc PROVE ChainInv!(q)'
    BY Zenon DEF ChainInv
  <2>1. CASE q = p
    BY ZenonT(30), <1>1, <1>2, <1>5, <1>6, <1>7, <2>1
  <2>2. CASE q # p /\ Waiting(q)
    <3>1. ChainInv!(q)
      BY ZenonT(30), <1>0 DEF ChainInv
    <3>2. Chain(head[q])' \cap free' = {}
      BY ZenonT(30), <1>2, <1>8, <2>2, <3>1
    <3>3. /\ served' = served
          /\ Waiting(q)' <=> Waiting(q)
      BY ZenonT(30), <1>2, <1>5, <2>2
    <3>4. /\ head[q] \in Desc /\ infob[head[q]] = q
          /\ next[head[q]] \in Desc /\ next[next[head[q]]] \in Desc
          /\ next[head[q]] # head[q]
          /\ next[next[head[q]]] \notin {head[q], next[head[q]]}
          /\ ~busy[q] => q \in served
      BY Zenon, <2>2, <3>1
    <3>5. /\ head'[q] = head[q] /\ infob'[head[q]] = infob[head[q]]
          /\ busy'[q] = busy[q]
          /\ next'[head[q]] = next[head[q]]
          /\ next'[next[head[q]]] = next[next[head[q]]]
      BY Zenon, <1>8, <2>2
    <3> QED
      BY ZenonT(30), <2>2, <3>2, <3>3, <3>4, <3>5
  <2>3. CASE q # p /\ ~Waiting(q)
    BY ZenonT(30), <1>0, <1>2, <1>5, <2>3 DEF ChainInv, TypeOK
  <2> QED
    BY ZenonT(30), <2>1, <2>2, <2>3
<1>10. OwnerInv'
  <2>1. ASSUME NEW q \in Proc, Waiting(q), q # p
        PROVE  Chain(head[q])' \cap {f, g, h} = {}
    <3>1. Chain(head[q]) \cap free = {}
      BY ZenonT(30), <1>0, <2>1 DEF ChainInv
    <3>2. Chain(head[q])' = Chain(head[q])
      BY <1>8, <2>1
    <3> QED
      BY Zenon, <1>1, <3>1, <3>2
  <2>2. Chain(head[p])' = {f, g, h}
    BY ZenonT(30), <1>6, <1>7 DEF Chain
  <2>3. \A q, r \in Proc : Waiting(q)' /\ Waiting(r)' /\ q # r =>
           Chain(head[q])' \cap Chain(head[r])' = {}
    <3> SUFFICES ASSUME NEW q \in Proc, NEW r \in Proc,
                        Waiting(q)', Waiting(r)', q # r
                 PROVE  Chain(head[q])' \cap Chain(head[r])' = {}
      OBVIOUS
    <3>1. (q = p \/ Waiting(q)) /\ (r = p \/ Waiting(r))
      BY Zenon, <1>5
    <3>2. CASE q = p
      <4>1. Chain(head[r])' \cap {f, g, h} = {}
        BY Zenon, <2>1, <3>1, <3>2
      <4> QED
        BY Zenon, <2>2, <3>2, <4>1
    <3>3. CASE r = p
      <4>1. Chain(head[q])' \cap {f, g, h} = {}
        BY Zenon, <2>1, <3>1, <3>3
      <4> QED
        BY Zenon, <2>2, <3>3, <4>1
    <3>4. CASE q # p /\ r # p
      <4>1. Chain(head[q]) \cap Chain(head[r]) = {}
        BY Zenon, <1>0, <3>1, <3>4 DEF OwnerInv
      <4>2. /\ Chain(head[q])' = Chain(head[q])
            /\ Chain(head[r])' = Chain(head[r])
        BY Zenon, <1>8, <3>1, <3>4
      <4> QED
        BY Zenon, <4>1, <4>2
    <3> QED
      BY <3>2, <3>3, <3>4
  <2>4. \A i \in Desc \ free' :
           \E q \in Proc : Waiting(q)' /\ i \in Chain(head[q])'
    <3> TAKE i \in Desc \ free'
    <3>1. CASE i \in {f, g, h}
      BY Zenon, <1>5, <2>2, <3>1
    <3>2. CASE i \notin {f, g, h}
      <4>1. PICK q \in Proc : Waiting(q) /\ i \in Chain(head[q])
        BY Zenon, <1>0, <1>2, <3>2 DEF OwnerInv
      <4> QED
        BY Zenon, <1>5, <1>8, <4>1
    <3> QED
      BY <3>1, <3>2
  <2> QED
    BY Zenon, <2>3, <2>4 DEF OwnerInv
<1>11. \A i : Pending(i) => Pending(i)' /\ i # f /\ infob'[i] = infob[i]
  <2> SUFFICES ASSUME NEW i, Pending(i)
               PROVE  Pending(i)' /\ i # f /\ infob'[i] = infob[i]
    OBVIOUS
  <2>1. /\ infob[i] \in Proc /\ Waiting(infob[i]) /\ i = head[infob[i]]
        /\ infob[i] # p /\ busy[infob[i]] /\ i \in Desc
    BY ZenonT(30), <1>0, <1>5, PendingIs DEF Pending
  <2>2. /\ head'[infob[i]] = i /\ infob'[i] = infob[i] /\ busy'[infob[i]] /\ i # f
    BY <1>8, <2>1
  <2> QED
    BY Zenon, <2>1, <2>2 DEF Pending
<1>12. Pending(f)'
  BY Zenon, <1>1, <1>6 DEF Pending
<1>13. QueueInv'
  <2>1. \A s \in A : Pending(avail[s]) /\ avail'[s] = avail[s] /\ avail[s] # f
    BY ZenonT(30), <1>0, <1>2, <1>3, <1>11 DEF QueueInv, QueueHeads, Window, TypeOK
  <2>2. avail'[availidx % NUM] = f
    BY <1>0, <1>2, <1>3 DEF TypeOK
  <2>3. \A s \in U : used[s] # f /\ status'[used[s]] = status[used[s]]
    BY ZenonT(30), <1>0, <1>2, <1>11 DEF QueueInv, QueueHeads, Window, TypeOK
  <2>4. f \notin inflight
    BY Zenon, <1>0, <1>11 DEF QueueInv, QueueHeads
  <2> QED
    <3>1. QueueHeads'
      <4>1. /\ \A s \in A : avail[s] \notin inflight
            /\ \A s \in U : /\ Pending(used[s]) /\ used[s] \notin inflight
                            /\ ~status[used[s]] /\ infob[used[s]] \in served
            /\ \A i \in inflight : Pending(i)
        BY ZenonT(30), <1>0 DEF QueueInv, QueueHeads
      <4>2. inflight' = inflight /\ served' = served /\ used' = used
        BY Zenon, <1>2
      <4>3. \A s \in A \cup {availidx % NUM} :
               Pending(avail[s])' /\ avail'[s] \notin inflight'
        <5> SUFFICES ASSUME NEW s \in A \cup {availidx % NUM}
                     PROVE  Pending(avail[s])' /\ avail'[s] \notin inflight'
          BY Zenon
        <5>1. PICK i : i = avail'[s]
          OBVIOUS
        <5>2. Pending(i)' /\ i \notin inflight'
          <6>1. CASE s \in A
            BY Zenon, <1>11, <2>1, <4>1, <4>2, <5>1, <6>1
          <6>2. CASE s = availidx % NUM
            BY ZenonT(30), <1>12, <2>2, <2>4, <4>2, <5>1, <6>2
          <6> QED
            BY Zenon, <6>1, <6>2
        <5> QED
          BY Zenon, <5>1, <5>2 DEF Pending
      <4>4. \A s \in U :
               /\ Pending(used[s])' /\ used'[s] \notin inflight'
               /\ ~status'[used'[s]] /\ infob'[used'[s]] \in served'
        BY ZenonT(30), <1>11, <2>3, <4>1, <4>2 DEF Pending
      <4>5. \A i \in inflight' : Pending(i)'
        BY Zenon, <1>11, <4>1, <4>2
      <4> QED
        BY ZenonT(30), <1>3, <1>4, <4>3, <4>4, <4>5 DEF QueueHeads
    <3>2. QueueOnce'
      <4>1. /\ Window(seen, availidx)' = A \cup {availidx % NUM}
            /\ Window(used_idx, usedidx)' = U /\ used' = used
        BY Zenon, <1>2, <1>3, <1>4
      <4>2. /\ \A r, s \in A : avail[r] = avail[s] => r = s
            /\ \A r, s \in U : used[r] = used[s] => r = s
            /\ \A r \in A, s \in U : avail[r] # used[s]
        BY Zenon, <1>0 DEF QueueInv, QueueOnce
      <4>3. \A r, s \in A \cup {availidx % NUM} : avail'[r] = avail'[s] => r = s
        BY Zenon, <2>1, <2>2, <4>2
      <4>4. \A r \in A \cup {availidx % NUM}, s \in U : avail'[r] # used[s]
        <5> SUFFICES ASSUME NEW r \in A \cup {availidx % NUM}, NEW s \in U
                     PROVE  avail'[r] # used[s]
          BY Zenon
        <5>1. CASE r \in A
          BY Zenon, <2>1, <4>2, <5>1
        <5>2. CASE r = availidx % NUM
          BY Zenon, <2>2, <2>3, <5>2
        <5> QED
          BY Zenon, <5>1, <5>2
      <4> QED
        BY Zenon, <4>1, <4>2, <4>3, <4>4 DEF QueueOnce
    <3> QED
      BY Zenon, <3>1, <3>2 DEF QueueInv
<1> QED
  BY SMTT(30), <1>3, <1>4, <1>9, <1>10, <1>13 DEF Requests, Rings

\* virtio_disk_rw() frees its chain and returns.
LEMMA FinishStep ==
    ASSUME Inv, NEW p \in Proc, rw_finish(p)
    PROVE  Requests'
<1>0. TypeOK /\ Rings /\ ChainInv /\ OwnerInv /\ QueueInv
  BY DEF Inv, Requests
<1>c. PICK C : C = Chain(head[p])
  OBVIOUS
<1>1. /\ free' = free \cup C
      /\ next' = [i \in Desc |-> IF i \in C THEN NUM ELSE next[i]]
      /\ infob' = [infob EXCEPT ![head[p]] = NoProc]
      /\ head' = [head EXCEPT ![p] = NUM]
      /\ served' = served \ {p}
      /\ Waiting(p) /\ ~busy[p] /\ ~Waiting(p)'
      /\ UNCHANGED <<status, avail, availidx, used, usedidx, used_idx, busy,
                     seen, inflight>>
  BY Zenon, <1>0, <1>c
  DEF rw_finish, DiskDone, ChainWakes, WakeAllocators, Waiting, TypeOK
<1>2. \A q \in Proc : q # p => (Waiting(q)' <=> Waiting(q))
  BY ZenonT(30), <1>0 DEF rw_finish, ChainWakes, WakeAllocators, Waiting, TypeOK
<1>3. Rings'
  BY ZenonT(30), <1>0, <1>1 DEF Rings, RingInv, Entries, Offset
<1>4. /\ Window(seen, availidx)' = Window(seen, availidx)
      /\ Window(used_idx, usedidx)' = Window(used_idx, usedidx)
  BY Zenon, <1>1 DEF Window, Entries, Offset
<1>5. ASSUME NEW q \in Proc, Waiting(q), q # p
      PROVE  /\ head'[q] = head[q] /\ infob'[head[q]] = infob[head[q]]
             /\ next'[head[q]] = next[head[q]]
             /\ next'[next[head[q]]] = next[next[head[q]]]
             /\ Chain(head[q])' = Chain(head[q])
             /\ Chain(head[q]) \cap C = {}
  <2>1. Chain(head[q]) \cap C = {}
    BY <1>0, <1>1, <1>5, <1>c DEF OwnerInv
  <2>2. Chain(head[q]) = {head[q], next[head[q]], next[next[head[q]]]}
    BY ZenonT(30), <1>0, <1>5, ChainIs
  <2>3. /\ head[q] \in Desc /\ next[head[q]] \in Desc
        /\ next[next[head[q]]] \in Desc
    BY ZenonT(30), <1>0, <1>5 DEF ChainInv
  <2>4. head[p] \in C
    BY <1>c DEF Chain
  <2>5. head'[q] = head[q] /\ infob'[head[q]] = infob[head[q]]
    BY ZenonT(30), <1>0, <1>1, <1>5, <2>1, <2>2, <2>3, <2>4 DEF TypeOK
  <2>6. /\ next'[head[q]] = next[head[q]]
        /\ next'[next[head[q]]] = next[next[head[q]]]
    BY ZenonT(30), <1>1, <2>1, <2>2, <2>3
  <2> QED
    BY ZenonT(30), <2>1, <2>3, <2>5, <2>6 DEF Chain
<1>6. ChainInv'
  <2> SUFFICES ASSUME NEW q \in Proc PROVE ChainInv!(q)'
    BY ZenonT(30) DEF ChainInv
  <2>1. CASE q = p
    BY <1>1, <2>1
  <2>2. CASE q # p /\ Waiting(q)
    <3>1. ChainInv!(q)
      BY Zenon, <1>0 DEF ChainInv
    <3>2. Chain(head[q])' \cap free' = {}
      BY ZenonT(30), <1>1, <1>5, <2>2, <3>1
    <3> QED
      BY ZenonT(30), <1>1, <1>2, <1>5, <2>2, <3>1, <3>2
  <2>3. CASE q # p /\ ~Waiting(q)
    BY ZenonT(30), <1>0, <1>1, <1>2, <2>3 DEF ChainInv
  <2> QED
    BY ZenonT(30), <2>1, <2>2, <2>3
<1>7. OwnerInv'
  <2>1. \A q, r \in Proc : Waiting(q)' /\ Waiting(r)' /\ q # r =>
           Chain(head[q])' \cap Chain(head[r])' = {}
    BY <1>0, <1>1, <1>2, <1>5 DEF OwnerInv
  <2>2. \A i \in Desc \ free' :
           \E q \in Proc : Waiting(q)' /\ i \in Chain(head[q])'
    <3> TAKE i \in Desc \ free'
    <3>1. PICK q \in Proc : Waiting(q) /\ i \in Chain(head[q])
      BY <1>0, <1>1 DEF OwnerInv
    <3>2. q # p
      BY ZenonT(30), <1>1, <1>c, <3>1
    <3> QED
      BY ZenonT(30), <1>2, <1>5, <3>1, <3>2
  <2> QED
    BY ZenonT(30), <2>1, <2>2 DEF OwnerInv
<1>8. \A i : Pending(i) => Pending(i)' /\ infob'[i] = infob[i] /\ infob[i] # p
  <2> SUFFICES ASSUME NEW i, Pending(i)
               PROVE  Pending(i)' /\ infob'[i] = infob[i] /\ infob[i] # p
    OBVIOUS
  <2>1. /\ infob[i] \in Proc /\ Waiting(infob[i]) /\ i = head[infob[i]]
        /\ infob[i] # p /\ busy[infob[i]] /\ i \in Desc
    BY ZenonT(30), <1>0, <1>1, PendingIs DEF Pending
  <2>2. head'[infob[i]] = i /\ infob'[i] = infob[i]
    BY <1>5, <2>1
  <2> QED
    BY <1>1, <2>1, <2>2 DEF Pending
<1>9. QueueInv'
  <2>1. QueueHeads'
    <3>1. /\ \A s \in Window(seen, availidx) :
                Pending(avail[s]) /\ avail[s] \notin inflight
          /\ \A s \in Window(used_idx, usedidx) :
                /\ Pending(used[s]) /\ used[s] \notin inflight
                /\ ~status[used[s]] /\ infob[used[s]] \in served
          /\ \A i \in inflight : Pending(i)
      BY ZenonT(30), <1>0 DEF QueueInv, QueueHeads
    <3>2. \A s \in Window(seen, availidx) :
             Pending(avail[s])' /\ avail'[s] \notin inflight'
      BY ZenonT(30), <1>1, <1>8, <3>1
    <3>3. \A s \in Window(used_idx, usedidx) :
             /\ Pending(used[s])' /\ used'[s] \notin inflight'
             /\ ~status'[used'[s]] /\ infob'[used'[s]] \in served'
      <4> SUFFICES ASSUME NEW s \in Window(used_idx, usedidx)
                   PROVE  /\ Pending(used[s])' /\ used'[s] \notin inflight'
                          /\ ~status'[used'[s]] /\ infob'[used'[s]] \in served'
        BY Zenon
      <4>1. /\ used' = used /\ inflight' = inflight /\ status' = status
            /\ served' = served \ {p}
        BY Zenon, <1>1
      <4>2. Pending(used[s])' /\ infob'[used[s]] = infob[used[s]]
            /\ infob[used[s]] # p
        BY Zenon, <1>8, <3>1, <4>1 DEF Pending
      <4>3. infob'[used[s]] \in served'
        BY Zenon, <3>1, <4>1, <4>2
      <4> QED
        BY Zenon, <3>1, <4>1, <4>2, <4>3
    <3>4. \A i \in inflight' : Pending(i)'
      BY ZenonT(30), <1>1, <1>8, <3>1
    <3> QED
      BY Zenon, <1>4, <3>2, <3>3, <3>4 DEF QueueHeads
  <2>2. QueueOnce'
    BY ZenonT(30), <1>0, <1>1, <1>4 DEF QueueInv, QueueOnce
  <2> QED
    BY <2>1, <2>2 DEF QueueInv
<1> QED
  BY <1>3, <1>6, <1>7, <1>9 DEF Requests

\* The device and the handler leave the chains alone.
LEMMA SameChains ==
    ASSUME Inv, UNCHANGED <<free, next, infob, head>>,
           \A p \in Proc : /\ Waiting(p)' <=> Waiting(p)
                           /\ busy'[p] => busy[p]
                           /\ p \in served => p \in served'
                           /\ busy[p] /\ ~busy'[p] => p \in served
    PROVE  ChainInv' /\ OwnerInv'
<1>1. ChainInv /\ OwnerInv
  BY DEF Inv, Requests
<1>2. \A i : Chain(i)' = Chain(i)
  BY Zenon DEF Chain
<1>3. ChainInv'
  <2>1. ASSUME NEW p \in Proc PROVE ChainInv!(p)'
    <3>1. ChainInv!(p)
      BY Zenon, <1>1 DEF ChainInv
    <3>2. /\ Waiting(p)' <=> Waiting(p)
          /\ Chain(head[p])' = Chain(head[p])
      BY Zenon, <1>2
    <3> QED
      BY <3>1, <3>2
  <2> QED
    BY ZenonT(30), <2>1 DEF ChainInv
<1>4. OwnerInv'
  BY <1>1, <1>2 DEF OwnerInv
<1> QED
  BY Zenon, <1>3, <1>4

LEMMA FetchStep ==
    ASSUME Inv, device_fetch
    PROVE  Requests'
<1> DEFINE A == Window(seen, availidx)
<1>0. TypeOK /\ Rings /\ QueueInv
  BY DEF Inv, Requests
<1>s. PICK s : s = seen % NUM
  OBVIOUS
<1>1. /\ inflight' = inflight \cup {avail[s]} /\ seen' = (seen + 1) % UINT16
      /\ seen # availidx
      /\ UNCHANGED <<free, next, infob, head, avail, availidx, status, used,
                     usedidx, used_idx, busy, pc, served>>
  BY <1>s DEF device_fetch, driver
<1>2. ChainInv' /\ OwnerInv'
  BY ZenonT(30), <1>1, SameChains DEF Waiting
<1>3. /\ RingInv(seen, availidx)'
      /\ A = A' \cup {s}
      /\ s \in Desc \ A'
  <2>1. seen \in Idx /\ availidx \in Idx /\ RingInv(seen, availidx)
    BY <1>0 DEF TypeOK, Rings, Idx
  <2>2. /\ RingInv((seen + 1) % UINT16, availidx)
        /\ A = Window((seen + 1) % UINT16, availidx) \cup {s}
        /\ s \in Desc \ Window((seen + 1) % UINT16, availidx)
    BY Zenon, <1>1, <1>s, <2>1, RingPop
  <2> QED
    BY <1>1, <2>2 DEF RingInv, Window, Entries, Offset
<1>4. /\ Window(used_idx, usedidx)' = Window(used_idx, usedidx)
      /\ RingInv(used_idx, usedidx)'
  BY <1>0, <1>1 DEF Window, Entries, Offset, RingInv, Rings
<1>5. \A i : Pending(i)' <=> Pending(i)
  BY ZenonT(30), <1>1 DEF Pending
<1>6. QueueInv'
  BY <1>0, <1>1, <1>3, <1>4, <1>5 DEF QueueInv, QueueHeads, QueueOnce
<1> QED
  BY <1>2, <1>3, <1>4, <1>6 DEF Requests, Rings

LEMMA CompleteStep ==
    ASSUME Inv, NEW i \in Desc, device_complete(i)
    PROVE  Requests'
<1> DEFINE A == Window(seen, availidx)
           U == Window(used_idx, usedidx)
<1>0. TypeOK /\ Rings /\ QueueInv
  BY DEF Inv, Requests
<1>s. PICK s : s = usedidx % NUM
  OBVIOUS
<1>1. /\ i \in inflight /\ inflight' = inflight \ {i}
      /\ served' = served \cup {infob[i]}
      /\ status' = [status EXCEPT ![i] = FALSE]
      /\ used' = [used EXCEPT ![s] = i]
      /\ usedidx' = (usedidx + 1) % UINT16
      /\ UNCHANGED <<free, next, infob, head, avail, availidx, used_idx, busy,
                     pc, seen>>
  BY <1>s DEF device_complete, driver
<1>2. ChainInv' /\ OwnerInv'
  BY Zenon, <1>1, SameChains DEF Waiting
<1>3. /\ RingInv(used_idx, usedidx)'
      /\ U' = U \cup {s}
      /\ s \in Desc \ U
  <2>1. used_idx \in Idx /\ usedidx \in Idx /\ RingInv(used_idx, usedidx)
    BY <1>0 DEF TypeOK, Rings, Idx
  <2>2. Entries(used_idx, usedidx) < NUM
    BY <1>1, UsedRoom
  <2>3. /\ RingInv(used_idx, (usedidx + 1) % UINT16)
        /\ Window(used_idx, (usedidx + 1) % UINT16) = U \cup {s}
        /\ s \in Desc \ U
    BY Zenon, <1>s, <2>1, <2>2, RingPush
  <2> QED
    BY <1>1, <2>3 DEF RingInv, Window, Entries, Offset
<1>4. A' = A /\ RingInv(seen, availidx)'
  BY SMTT(30), <1>0, <1>1 DEF Window, Entries, Offset, RingInv, Rings
<1>5. \A j : Pending(j)' <=> Pending(j)
  BY <1>1 DEF Pending
<1>6. QueueInv'
  <2>1. used'[s] = i /\ ~status'[i] /\ infob'[i] \in served' /\ Pending(i)
    BY <1>0, <1>1, <1>3 DEF TypeOK, QueueInv, QueueHeads, QueueOnce
  <2>2. \A r \in U : /\ used'[r] = used[r] /\ used[r] # i /\ r # s
                     /\ status'[used[r]] = status[used[r]]
                     /\ used[r] \in Desc
    BY ZenonT(30), <1>0, <1>1, <1>3
    DEF TypeOK, QueueInv, QueueHeads, QueueOnce, Window
  <2>3. \A r \in A : avail'[r] = avail[r] /\ avail[r] # i
    BY Zenon, <1>0, <1>1 DEF QueueInv, QueueHeads, QueueOnce
  <2> HIDE DEF A, U
  <2>4. \A r \in A' : Pending(avail[r])' /\ avail'[r] \notin inflight'
    BY ZenonT(30), <1>0, <1>1, <1>4, <1>5, <2>3
    DEF QueueInv, QueueHeads, QueueOnce, A
  <2>5. \A r \in U' : /\ Pending(used[r])' /\ used'[r] \notin inflight'
                      /\ ~status'[used'[r]] /\ infob'[used'[r]] \in served'
    <3>1. \A r \in U : /\ Pending(used[r]) /\ used[r] \notin inflight
                       /\ ~status[used[r]] /\ infob[used[r]] \in served
      BY Zenon, <1>0 DEF QueueInv, QueueHeads, U
    <3>2. \A r \in U : /\ Pending(used[r])' /\ used'[r] \notin inflight'
                       /\ ~status'[used'[r]] /\ infob'[used'[r]] \in served'
      <4> SUFFICES ASSUME NEW r \in U
                   PROVE  /\ Pending(used[r])' /\ used'[r] \notin inflight'
                          /\ ~status'[used'[r]] /\ infob'[used'[r]] \in served'
        BY Zenon
      <4>1. /\ used'[r] = used[r] /\ status'[used[r]] = status[used[r]]
            /\ Pending(used[r]) /\ used[r] \notin inflight
            /\ ~status[used[r]] /\ infob[used[r]] \in served
        BY Zenon, <2>2, <3>1
      <4>2. inflight' = inflight \ {i} /\ served \subseteq served' /\ infob' = infob
        BY Zenon, <1>1
      <4>3. PICK j : j = used[r]
        OBVIOUS
      <4>4. Pending(j)' /\ used'[r] = j
        BY Zenon, <1>5, <4>1, <4>3
      <4> QED
        BY Zenon, <4>1, <4>2, <4>3, <4>4 DEF Pending
    <3>3. Pending(i)' /\ i \notin inflight'
      BY Zenon, <1>1, <1>5, <2>1
    <3>4. U' = U \cup {s}
      BY Zenon, <1>3 DEF U
    <3> SUFFICES ASSUME NEW r \in U \cup {s}
                 PROVE  /\ Pending(used[r])' /\ used'[r] \notin inflight'
                        /\ ~status'[used'[r]] /\ infob'[used'[r]] \in served'
      BY Zenon, <3>4
    <3>5. CASE r \in U
      BY Zenon, <3>2, <3>5
    <3>6. CASE r = s
      BY Zenon, <2>1, <3>3, <3>6 DEF Pending
    <3> QED
      BY Zenon, <3>5, <3>6
  <2>6. \A q, r \in U' : used'[q] = used'[r] => q = r
    BY Zenon, <1>0, <1>3, <2>1, <2>2 DEF QueueInv, QueueHeads, QueueOnce, U
  <2>7. \A q \in A', r \in U' : avail'[q] # used'[r]
    <3>1. \A q \in A, r \in U : avail[q] # used[r]
      BY <1>0 DEF QueueInv, QueueOnce, A, U
    <3>2. ASSUME NEW q \in A, NEW r \in U PROVE avail'[q] # used'[r]
      <4>1. avail'[q] = avail[q] /\ used'[r] = used[r]
        BY Zenon, <2>2, <2>3, <3>2
      <4>2. avail[q] # used[r]
        BY Zenon, <3>1, <3>2
      <4> QED
        BY Zenon, <4>1, <4>2
    <3>3. ASSUME NEW q \in A PROVE avail'[q] # used'[s]
      BY Zenon, <2>1, <2>3
    <3> QED
      BY ZenonT(30), <1>3, <1>4, <3>2, <3>3
  <2> QED
    BY ZenonT(30), <1>0, <1>1, <1>4, <1>5, <2>4, <2>5, <2>6, <2>7
    DEF QueueInv, QueueHeads, QueueOnce, A, U
<1> QED
  BY <1>2, <1>3, <1>4, <1>6 DEF Requests, Rings

\* One round of the handler's loop.
LEMMA EntryStep ==
    ASSUME Inv, intr_entry
    PROVE  Requests'
<1> DEFINE A == Window(seen, availidx)
           U == Window(used_idx, usedidx)
<1>0. TypeOK /\ Rings /\ QueueInv /\ ChainInv
  BY DEF Inv, Requests
<1>s. PICK s : s = used_idx % NUM
  OBVIOUS
<1>b. PICK b : b = infob[used[s]]
  OBVIOUS
<1>1. /\ busy' = [busy EXCEPT ![b] = FALSE]
      /\ pc' = IF pc[b] = "asleep" THEN [pc EXCEPT ![b] = "woken"] ELSE pc
      /\ used_idx' = (used_idx + 1) % UINT16
      /\ used_idx # usedidx
      /\ UNCHANGED <<free, next, infob, head, avail, availidx, seen, inflight,
                     served, status, used, usedidx>>
  BY ZenonT(30), <1>s, <1>b DEF intr_entry, Finished, Completed, driver, device
<1>2. /\ RingInv(used_idx, usedidx)'
      /\ U = U' \cup {s}
      /\ s \in Desc \ U'
  <2>1. used_idx \in Idx /\ usedidx \in Idx /\ RingInv(used_idx, usedidx)
    BY <1>0 DEF TypeOK, Rings, Idx
  <2>2. /\ RingInv((used_idx + 1) % UINT16, usedidx)
        /\ U = Window((used_idx + 1) % UINT16, usedidx) \cup {s}
        /\ s \in Desc \ Window((used_idx + 1) % UINT16, usedidx)
    BY Zenon, <1>1, <1>s, <2>1, RingPop
  <2> QED
    BY Zenon, <1>1, <2>2 DEF RingInv, Window, Entries, Offset
<1>3. A' = A /\ RingInv(seen, availidx)'
  BY <1>0, <1>1 DEF Window, Entries, Offset, RingInv, Rings
<1>4. Pending(used[s]) /\ b \in served /\ b \in Proc
  BY Zenon, <1>0, <1>2, <1>b DEF QueueInv, QueueHeads, Pending
<1>5. \A p \in Proc : Waiting(p)' <=> Waiting(p)
  BY <1>0, <1>1, <1>4 DEF Waiting, TypeOK
<1>6. \A p \in Proc : busy'[p] = (busy[p] /\ p # b)
  BY ZenonT(30), <1>0, <1>1, <1>4 DEF TypeOK
<1>7. ChainInv' /\ OwnerInv'
  BY Zenon, <1>1, <1>4, <1>5, <1>6, SameChains
<1>8. \A i : Pending(i) /\ i # used[s] => Pending(i)'
  BY Zenon, <1>1, <1>4, <1>6, <1>b DEF Pending
<1>9. QueueInv'
  <2> HIDE DEF A, U
  <2>1. \A r \in A' : Pending(avail[r])' /\ avail'[r] \notin inflight'
    BY Zenon, <1>0, <1>1, <1>2, <1>3, <1>8
    DEF QueueInv, QueueHeads, QueueOnce, A, U
  <2>2. \A r \in U' : /\ Pending(used[r])' /\ used'[r] \notin inflight'
                      /\ ~status'[used'[r]] /\ infob'[used'[r]] \in served'
    BY ZenonT(30), <1>0, <1>1, <1>2, <1>8 DEF QueueInv, QueueHeads, QueueOnce, U
  <2>3. \A i \in inflight' : Pending(i)'
    BY SMTT(30), <1>0, <1>1, <1>2, <1>8 DEF QueueInv, QueueHeads, QueueOnce, U
  <2>4. /\ \A q, r \in A' : avail'[q] = avail'[r] => q = r
        /\ \A q, r \in U' : used'[q] = used'[r] => q = r
        /\ \A q \in A', r \in U' : avail'[q] # used'[r]
    BY <1>0, <1>1, <1>2, <1>3 DEF QueueInv, QueueHeads, QueueOnce, A, U
  <2> QED
    BY Zenon, <2>1, <2>2, <2>3, <2>4 DEF QueueInv, QueueHeads, QueueOnce, A, U
<1> QED
  BY <1>2, <1>3, <1>7, <1>9 DEF Requests, Rings
-----------------------------------------------------------------------------
LEMMA InitInv == Init => Inv
<1> SUFFICES ASSUME Init PROVE Inv
  OBVIOUS
<1>1. UINT16 \in Nat /\ UINT16 > 0 /\ NUM \in Nat /\ NUM > 0 /\ 0 % NUM = 0
  BY VirtioAssumption
<1>2. TypeOK
  <2>1. 0 \in Desc /\ 0 \in 0..(UINT16 - 1) /\ NUM \in 0..NUM
    BY <1>1 DEF Desc
  <2> QED
    BY ZenonT(30), <2>1 DEF Init, TypeOK
<1>3. Entries(0, 0) = 0 /\ Offset(0, 0) = 0
  BY <1>1 DEF Entries, Offset
<1>4. Rings
  BY <1>1, <1>3 DEF Init, Rings, RingInv
<1>5. Window(0, 0) = {}
  BY <1>1, <1>3 DEF Window, Offset, Desc
<1>6. \A p \in Proc : ~Waiting(p) /\ ~busy[p]
  BY DEF Init, Waiting
<1>7. ChainInv /\ OwnerInv
  BY <1>6 DEF Init, ChainInv, OwnerInv
<1>8. QueueInv
  BY <1>5 DEF Init, QueueInv, QueueHeads, QueueOnce
<1>9. NoLostInterrupt
  BY DEF Init, NoLostInterrupt
<1> QED
  BY <1>2, <1>4, <1>7, <1>8, <1>9 DEF Inv, Requests

LEMMA StepInv == Inv /\ [Next]_vars => Inv'
<1> SUFFICES ASSUME Inv, [Next]_vars PROVE Inv'
  OBVIOUS
<1>1. TypeOK'
  BY TypeStep
<1>2. Requests'
  <2>1. CASE \/ \E p \in Proc : rw_call(p) \/ rw_nodesc(p) \/ kill(p)
                                \/ rw_again(p)
             \/ intr \/ intr_done \/ UNCHANGED vars
    BY <2>1, CalmActions, CalmStep
  <2>2. ASSUME NEW p \in Proc, rw_submit(p) PROVE Requests'
    BY <2>2, SubmitStep
  <2>3. ASSUME NEW p \in Proc, rw_finish(p) PROVE Requests'
    BY <2>3, FinishStep
  <2>4. CASE device_fetch
    BY <2>4, FetchStep
  <2>5. ASSUME NEW i \in Desc, device_complete(i) PROVE Requests'
    BY <2>5, CompleteStep
  <2>6. CASE intr_entry
    BY <2>6, EntryStep
  <2> QED
    BY <2>1, <2>2, <2>3, <2>4, <2>5, <2>6 DEF Next, Kernel, Device, Handler
<1>3. NoLostInterrupt'
  <2>0. NoLostInterrupt
    BY ZenonT(30) DEF Inv
  <2> USE DEF NoLostInterrupt
  <2>1. ASSUME NEW p \in Proc, rw_call(p) \/ Kernel(p) \/ kill(p)
        PROVE  NoLostInterrupt'
    BY <2>0, <2>1
    DEF rw_call, Kernel, kill, rw_submit, rw_nodesc, rw_again, rw_finish
  <2>2. CASE Device
    BY ZenonT(30), <2>0, <2>2 DEF Device, device_fetch, device_complete
  <2>3. CASE Handler
    BY ZenonT(30), <2>0, <2>3 DEF Handler, intr, intr_entry, intr_done, UsedSeen
  <2>4. CASE UNCHANGED vars
    BY <2>0, <2>4 DEF vars
  <2> QED
    BY <2>1, <2>2, <2>3, <2>4 DEF Next
<1> QED
  BY <1>1, <1>2, <1>3 DEF Inv

\* The driver and the device together keep Inv.
THEOREM Invariance == Spec => []Inv
BY InitInv, StepInv, PTL DEF Spec

LEMMA InvDescOwned == Inv => DescOwned
<1> SUFFICES ASSUME Inv, NEW i \in Desc PROVE DescOwned!(i)
  BY DEF DescOwned
<1> DEFINE owners == {p \in Proc : Waiting(p) /\ i \in Chain(head[p])}
<1>1. ChainInv /\ OwnerInv
  BY ZenonT(30) DEF Inv, Requests
<1>2. CASE i \in free
  BY <1>1, <1>2 DEF ChainInv
<1>3. CASE i \notin free
  <2>1. PICK p \in Proc : Waiting(p) /\ i \in Chain(head[p])
    BY <1>1, <1>3 DEF OwnerInv
  <2>2. owners = {p}
    BY <1>1, <2>1 DEF OwnerInv
  <2> QED
    BY <1>3, <2>2, FS_Singleton
<1> QED
  BY <1>2, <1>3

\* A descriptor is free or belongs to exactly one request: alloc_desc() never
\* hands out one in use and free_desc() never panics with "free_desc 2".
THEOREM DescriptorsOwned == Spec => []DescOwned
BY Invariance, InvDescOwned, PTL

LEMMA InvHandlerSafe == Inv => HandlerSafe
<1> SUFFICES ASSUME Inv, used_idx # usedidx
             PROVE  ~status[Completed] /\ infob[Completed] \in Proc
  BY DEF HandlerSafe
<1>1. used_idx \in Idx /\ usedidx \in Idx /\ RingInv(used_idx, usedidx)
  BY DEF Inv, Requests, TypeOK, Rings, Idx
<1>2. used_idx % NUM \in Window(used_idx, usedidx)
  BY <1>1, RingPop
<1> QED
  BY <1>2 DEF Inv, Requests, QueueInv, QueueHeads, Pending, Completed

\* virtio_disk_intr() finds at used->ring[used_idx] a request that the device
\* has finished, with status 0 and a buffer to hand back: it never panics.
THEOREM HandlerIsSafe == Spec => []HandlerSafe
BY Invariance, InvHandlerSafe, PTL

\* When virtio_disk_intr() has returned, an entry of the used ring it has not
\* seen has an interrupt to come.
THEOREM InterruptNotLost == Spec => []NoLostInterrupt
<1>1. Inv => NoLostInterrupt
  BY Zenon DEF Inv
<1> QED
  BY <1>1, Invariance, PTL

\* Who sleeps for descriptors went to sleep with fewer than three free, and the
\* only call that frees any wakes all of them.
LEMMA AllocStep ==
    Inv /\ AllocatorsMustWait /\ [Next]_vars => AllocatorsMustWait'
<1> SUFFICES ASSUME Inv, AllocatorsMustWait, [Next]_vars,
                    NEW q \in Proc, pc'[q] = "alloc_asleep"
             PROVE  Cardinality(free') < 3
  BY DEF AllocatorsMustWait
<1>0. TypeOK /\ (pc[q] = "alloc_asleep" => Cardinality(free) < 3)
  BY DEF Inv, AllocatorsMustWait
<1>1. ASSUME free' = free, pc[q] = "alloc_asleep" PROVE Cardinality(free') < 3
  BY <1>0, <1>1
<1>2. ASSUME NEW p \in Proc, rw_call(p) PROVE Cardinality(free') < 3
  BY <1>0, <1>1, <1>2 DEF rw_call, Goto, driver, TypeOK
<1>3. ASSUME NEW p \in Proc, rw_submit(p) PROVE Cardinality(free') < 3
  <2>1. pc[q] = "alloc_asleep" /\ free' \subseteq free
    BY <1>0, <1>3 DEF rw_submit, Goto, TypeOK
  <2>2. IsFiniteSet(free)
    BY <1>0, Descs, FS_Subset DEF TypeOK
  <2> QED
    BY <1>0, <2>1, <2>2, FS_Subset, FS_CardinalityType
<1>4. ASSUME NEW p \in Proc, rw_nodesc(p) PROVE Cardinality(free') < 3
  BY <1>4 DEF rw_nodesc, driver
<1>5. ASSUME NEW p \in Proc, kill(p) PROVE Cardinality(free') < 3
  BY <1>0, <1>1, <1>5 DEF kill, Goto, driver, TypeOK
<1>6. ASSUME NEW p \in Proc, rw_again(p) PROVE Cardinality(free') < 3
  BY <1>0, <1>1, <1>6 DEF rw_again, Goto, driver, TypeOK
<1>7. ASSUME NEW p \in Proc, rw_finish(p) PROVE Cardinality(free') < 3
  BY <1>7 DEF rw_finish, ChainWakes, WakeAllocators
<1>8. CASE Device \/ intr \/ intr_done \/ UNCHANGED vars
  BY <1>1, <1>8
  DEF Device, device_fetch, device_complete, intr, intr_done, driver, vars
<1>9. CASE intr_entry
  <2>1. pc[q] = "alloc_asleep"
    BY <1>0, <1>9 DEF intr_entry, TypeOK
  <2> QED
    BY <1>1, <1>9, <2>1 DEF intr_entry, driver
<1> QED
  BY Zenon, <1>2, <1>3, <1>4, <1>5, <1>6, <1>7, <1>8, <1>9
  DEF Next, Kernel, Handler

\* alloc3_desc() needs no queue to be correct: whoever sleeps in it waits for a
\* request to finish, since free_desc() wakes every sleeper.
THEOREM AllocatorsWoken == Spec => []AllocatorsMustWait
<1>1. Init => AllocatorsMustWait
  BY DEF Init, AllocatorsMustWait
<1> QED
  BY <1>1, AllocStep, Invariance, PTL DEF Spec

LEMMA StepReturn ==
    ASSUME Inv, [Next]_vars
    PROVE  [\A p \in Proc : Waiting(p) /\ pc'[p] = "idle" => p \in served]_vars
<1> SUFFICES ASSUME Next, NEW p \in Proc, Waiting(p), pc'[p] = "idle"
             PROVE  p \in served
  OBVIOUS
<1>0. pc[p] # "idle" /\ TypeOK /\ ChainInv
  BY DEF Waiting, Inv, Requests
<1>1. rw_finish(p)
  <2>1. ASSUME NEW q \in Proc, rw_call(q) \/ rw_submit(q) \/ rw_nodesc(q)
                               \/ rw_again(q) \/ kill(q)
        PROVE  FALSE
    BY ZenonT(30), <1>0, <2>1
    DEF rw_call, rw_submit, rw_nodesc, rw_again, kill, Goto, WakeAllocators,
        TypeOK
  <2>2. ASSUME NEW q \in Proc, rw_finish(q), q # p PROVE FALSE
    BY Zenon, <1>0, <2>2 DEF rw_finish, ChainWakes, WakeAllocators, TypeOK
  <2>3. ~Device
    BY Zenon, <1>0 DEF Device, device_fetch, device_complete
  <2>4. ~Handler
    BY <1>0 DEF Handler, intr, intr_entry, intr_done, TypeOK
  <2> QED
    BY <2>1, <2>2, <2>3, <2>4 DEF Next, Kernel
<1> QED
  BY ZenonT(30), <1>0, <1>1 DEF rw_finish, DiskDone, ChainInv

\* virtio_disk_rw() returns only after the device has done its transfer, even
\* if kill() wakes it before and the completions come in another order.
THEOREM ReturnsServed == Spec => NoEarlyReturn
BY Invariance, StepReturn, PTL DEF Spec, NoEarlyReturn
=============================================================================
