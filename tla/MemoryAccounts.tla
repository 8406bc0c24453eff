--------------------------- MODULE MemoryAccounts ---------------------------
(***************************************************************************)
(* The inductive invariant of Memory and the accounts it is kept by: what  *)
(* the operators of vm.c take from the free list and put into a table, and *)
(* how a step that changes one slot changes the pages in use.              *)
(***************************************************************************)
EXTENDS Memory, FiniteSetTheorems, TLAPS

\* The number of pages that n bytes need.
Pages(n) == PGROUNDUP(n) \div PGSIZE

Aligned(n) == n = (n \div PGSIZE) * PGSIZE

Table ==
    {tb \in [node : SUBSET (Nat \X Nat), leaf : SUBSET Nat] :
        IsFiniteSet(tb.node) /\ IsFiniteSet(tb.leaf)}

Call == [pc : {"user", "grow", "copy", "argv", "load", "seg", "stack", "push"},
         new : Table, nsz : Nat, np : Proc, base : Nat, a : Nat, end : Nat,
         segs : Nat, argv : Nat]

Types ==
    /\ free \in Nat
    /\ tab \in [Proc -> Table]
    /\ sz \in [Proc -> Nat]
    /\ tf \in [Proc -> 0..1]
    /\ state \in [Proc -> {"unused", "used", "run", "zombie"}]
    /\ job \in [Proc -> Call]

\* uvmalloc() works on whole pages above the old size.
Growing(j, size) ==
    /\ j.base = PGROUNDUP(size) /\ j.base <= j.a
    /\ Aligned(j.a) /\ j.a <= PGROUNDUP(j.end)

\* The child of a fork() that is still copying belongs to that fork() alone.
Child(p) ==
    /\ state[job[p].np] = "used" /\ sz[job[p].np] = 0
    /\ Aligned(job[p].a) /\ job[p].a <= PGROUNDUP(sz[p])
    /\ \A r \in Proc : r # p /\ job[r].pc = "copy" => job[r].np # job[p].np

\* What a process owns on its way through each call.
CallInv(p) ==
    /\ state[p] # "run" \/ job[p].pc = "user" => job[p] = Idle
    /\ job[p].pc \in {"user", "grow", "copy", "argv"} =>
         job[p].new = NoTable /\ job[p].nsz = 0
    /\ job[p].pc \in {"user", "grow", "copy"} => job[p].argv = 0
    /\ job[p].pc = "grow" => Growing(job[p], sz[p])
    /\ job[p].pc \in {"seg", "stack"} => Growing(job[p], job[p].nsz)
    /\ job[p].pc = "copy" => Child(p)

Calls == \A p \in Proc : CallInv(p)

Inv == Types /\ Calls /\ PagesConserved /\ SpaceExact /\ NoVmPanic
-----------------------------------------------------------------------------
\* Arithmetic on sizes.

LEMMA Constants ==
    /\ PGSIZE \in Nat /\ PGSIZE > 0 /\ NPAGE \in Nat /\ MAXVA \in Int
    /\ TRAPFRAME \in Nat /\ TRAMPOLINE = TRAPFRAME + 1 /\ NPAGE < TRAPFRAME
    /\ USERSTACK \in Nat /\ MaxSz \in Nat /\ MaxArg \in Nat
    /\ Initproc \in Proc /\ IsFiniteSet(Proc)
<1>1. FANOUT * FANOUT * FANOUT \in Int
  BY MemoryAssumption
<1>2. MAXVA \in Int
  BY <1>1 DEF MAXVA
<1> QED
  BY <1>2, MemoryAssumption DEF TRAPFRAME, TRAMPOLINE

LEMMA Times ==
    ASSUME NEW a \in Nat, NEW b \in Nat, NEW m \in Nat, m > 0
    PROVE  /\ a * m \in Nat
           /\ a <= b => a * m <= b * m
           /\ a * m < b * m => a < b
           /\ (a + 1) * m = a * m + m
<1>1. ASSUME NEW c \in Nat, NEW d \in Nat, c <= d PROVE c * m <= d * m
  <2>1. PICK e \in Nat : d = c + e
    BY <1>1
  <2>2. d * m = c * m + e * m /\ c * m \in Nat /\ e * m \in Nat
    BY <2>1
  <2> QED
    BY <2>2
<1> QED
  BY <1>1

LEMMA DivTimes ==
    ASSUME NEW k \in Nat, NEW m \in Nat, m > 0
    PROVE  (k * m) \div m = k
<1>1. PICK x \in Nat : x = k * m
  BY Times
<1>2. PICK z \in Int : z = x \div m
  OBVIOUS
<1>3. PICK r \in 0..(m - 1) : x = m * z + r
  BY SMTT(60), <1>2
<1>4. m * (k - z) = r
  BY <1>1, <1>3
<1>5. k - z = 0
  <2>1. CASE k - z >= 1
    BY <1>4, <2>1
  <2>2. CASE k - z <= -1
    BY <1>4, <2>2
  <2> QED
    BY <2>1, <2>2
<1> QED
  BY <1>1, <1>2, <1>5

LEMMA RoundUp ==
    ASSUME NEW n \in Nat
    PROVE  /\ Pages(n) \in Nat /\ PGROUNDUP(n) = Pages(n) * PGSIZE
           /\ PGROUNDUP(n) \in Nat /\ n <= PGROUNDUP(n)
           /\ PGROUNDUP(n) < n + PGSIZE
<1>1. PICK x \in Nat : x = n + PGSIZE - 1
  BY Constants
<1>2. PICK q \in Nat : q = x \div PGSIZE
  BY SMTT(60), Constants
<1>3. PICK r \in 0..(PGSIZE - 1) : x = PGSIZE * q + r
  BY SMTT(60), <1>2, Constants
<1>4. PGROUNDUP(n) = q * PGSIZE
  BY <1>1, <1>2 DEF PGROUNDUP
<1>5. Pages(n) = q
  BY <1>4, DivTimes, Constants DEF Pages
<1>6. q * PGSIZE = PGSIZE * q /\ q * PGSIZE \in Nat
  BY Constants
<1> QED
  BY <1>1, <1>3, <1>4, <1>5, <1>6, Constants

LEMMA Between ==
    ASSUME NEW k \in Nat, NEW n \in Nat,
           k * PGSIZE <= n * PGSIZE, n * PGSIZE < k * PGSIZE + PGSIZE
    PROVE  n = k
<1>1. n < k + 1
  <2>1. n * PGSIZE < (k + 1) * PGSIZE /\ k + 1 \in Nat
    BY Times, Constants
  <2> QED
    BY <2>1, Times, Constants
<1>2. ~(n < k)
  <2> SUFFICES ASSUME n < k PROVE FALSE
    OBVIOUS
  <2>1. (n + 1) * PGSIZE <= k * PGSIZE /\ (n + 1) * PGSIZE = n * PGSIZE + PGSIZE
    BY Times, Constants
  <2>2. n * PGSIZE \in Nat /\ k * PGSIZE \in Nat
    BY Times, Constants
  <2> QED
    BY <2>1, <2>2, Constants
<1> QED
  BY <1>1, <1>2

LEMMA RoundAligned ==
    ASSUME NEW n \in Nat, Aligned(n)
    PROVE  /\ n \div PGSIZE \in Nat /\ Pages(n) = n \div PGSIZE
           /\ PGROUNDUP(n) = n
<1>1. PICK k \in Nat : k = n \div PGSIZE
  BY SMTT(60), Constants
<1>2. n = k * PGSIZE
  BY <1>1 DEF Aligned
<1>3. Pages(n) \in Nat /\ Pages(n) = k
  BY <1>2, RoundUp, Between
<1> QED
  BY <1>1, <1>2, <1>3, RoundUp

LEMMA PagesMonotone ==
    ASSUME NEW m \in Nat, NEW n \in Nat, m <= n
    PROVE  Pages(m) <= Pages(n)
<1>1. /\ Pages(m) \in Nat /\ Pages(n) \in Nat /\ Pages(n) + 1 \in Nat
      /\ Pages(m) * PGSIZE < m + PGSIZE /\ n <= Pages(n) * PGSIZE
      /\ Pages(n) * PGSIZE \in Nat /\ Pages(m) * PGSIZE \in Nat
  BY RoundUp
<1>2. (Pages(n) + 1) * PGSIZE = Pages(n) * PGSIZE + PGSIZE
  BY <1>1, Times, Constants
<1>3. Pages(m) * PGSIZE < (Pages(n) + 1) * PGSIZE
  BY <1>1, <1>2, Constants
<1>4. Pages(m) < Pages(n) + 1
  BY <1>1, <1>3, Times, Constants
<1> QED
  BY <1>1, <1>4

LEMMA AlignedRound ==
    ASSUME NEW n \in Nat
    PROVE  /\ Aligned(PGROUNDUP(n)) /\ Pages(PGROUNDUP(n)) = Pages(n)
           /\ PGROUNDUP(PGROUNDUP(n)) = PGROUNDUP(n)
<1>1. Aligned(PGROUNDUP(n)) /\ PGROUNDUP(n) \in Nat
  BY RoundUp DEF Aligned, Pages
<1> QED
  BY <1>1, RoundAligned DEF Pages

LEMMA NextPage ==
    ASSUME NEW n \in Nat, Aligned(n)
    PROVE  /\ Aligned(n + PGSIZE) /\ n + PGSIZE \in Nat
           /\ Pages(n + PGSIZE) = Pages(n) + 1
<1>1. PICK k \in Nat : k = n \div PGSIZE
  BY RoundAligned
<1>2. n + PGSIZE = (k + 1) * PGSIZE /\ k + 1 \in Nat /\ n + PGSIZE \in Nat
  BY <1>1, Times, Constants DEF Aligned
<1>3. (n + PGSIZE) \div PGSIZE = k + 1
  BY <1>2, DivTimes, Constants
<1>4. Aligned(n + PGSIZE)
  BY <1>2, <1>3 DEF Aligned
<1> QED
  BY <1>1, <1>2, <1>3, <1>4, RoundAligned

\* An address below the end is in a page below the end's, and the next page
\* starts below the end rounded up.
LEMMA PageBelow ==
    ASSUME NEW a \in Nat, Aligned(a), NEW end \in Nat, a < end
    PROVE  Pages(a) < Pages(end) /\ a + PGSIZE <= PGROUNDUP(end)
<1>1. /\ Pages(a) \in Nat /\ Pages(end) \in Nat
      /\ a = Pages(a) * PGSIZE /\ PGROUNDUP(end) = Pages(end) * PGSIZE
      /\ PGROUNDUP(end) \in Nat /\ end <= PGROUNDUP(end)
  BY RoundUp, RoundAligned
<1>2. Pages(a) < Pages(end)
  <2>1. Pages(a) * PGSIZE < Pages(end) * PGSIZE
    BY <1>1
  <2> QED
    BY <1>1, <2>1, Times, Constants
<1>3. (Pages(a) + 1) * PGSIZE <= Pages(end) * PGSIZE
  BY <1>1, <1>2, Times, Constants
<1>4. (Pages(a) + 1) * PGSIZE = a + PGSIZE
  BY <1>1, Times, Constants
<1> QED
  BY <1>1, <1>2, <1>3, <1>4

LEMMA PageReached ==
    ASSUME NEW a \in Nat, Aligned(a), NEW end \in Nat,
           end <= a, a <= PGROUNDUP(end)
    PROVE  Pages(a) = Pages(end)
<1>1. Pages(end) <= Pages(a)
  BY PagesMonotone
<1>2. Pages(a) <= Pages(PGROUNDUP(end)) /\ Pages(PGROUNDUP(end)) = Pages(end)
  BY PagesMonotone, RoundUp, AlignedRound
<1> QED
  BY <1>1, <1>2, RoundUp

LEMMA NoPages ==
    Pages(0) = 0 /\ PGROUNDUP(0) = 0 /\ Aligned(0)
<1>1. 0 \div PGSIZE = 0
  BY DivTimes, Constants
<1> QED
  BY <1>1, RoundAligned, Constants DEF Aligned

LEMMA OnePage == Pages(PGSIZE) = 1
BY NoPages, NextPage, Constants

LEMMA SameSum ==
    \A f, g, k, a, b, c, x, y, z \in Nat :
        g + a + b + c = f + x + y + z =>
          g + (k + a + b + c) = f + (k + x + y + z)
OBVIOUS
-----------------------------------------------------------------------------
\* Counting pages.

\* The pages of a table and of a process, as numbers.
Size(tb) == Cardinality(tb.node) + Cardinality(UserPages(tb))

Count(p) == tf[p] + Size(tab[p]) + Size(job[p].new) + job[p].argv

LEMMA Disjoint ==
    ASSUME NEW S, IsFiniteSet(S), NEW T, IsFiniteSet(T), S \cap T = {}
    PROVE  /\ IsFiniteSet(S \cup T)
           /\ Cardinality(S \cup T) = Cardinality(S) + Cardinality(T)
<1>1. Cardinality(S) \in Nat /\ Cardinality(T) \in Nat
  BY FS_CardinalityType
<1> QED
  BY <1>1, FS_Union, FS_EmptySet

LEMMA Tagged ==
    ASSUME NEW x, NEW S, IsFiniteSet(S)
    PROVE  /\ IsFiniteSet({x} \X S)
           /\ Cardinality({x} \X S) = Cardinality(S)
<1>1. IsFiniteSet({x}) /\ Cardinality({x}) = 1 /\ Cardinality(S) \in Nat
  BY Zenon, FS_Singleton, FS_CardinalityType
<1>2. /\ IsFiniteSet({x} \X S)
      /\ Cardinality({x} \X S) = Cardinality({x}) * Cardinality(S)
  BY <1>1, FS_Product
<1> QED
  BY <1>1, <1>2

LEMMA TagsDiffer ==
    ASSUME NEW x, NEW y, x # y, NEW S, NEW T
    PROVE  ({x} \X S) \cap ({y} \X T) = {}
OBVIOUS

LEMMA Sizes ==
    ASSUME NEW tb \in Table
    PROVE  /\ IsFiniteSet(tb.node) /\ IsFiniteSet(UserPages(tb))
           /\ Cardinality(tb.node) \in Nat /\ Cardinality(UserPages(tb)) \in Nat
           /\ Size(tb) \in Nat
           /\ IsFiniteSet(TablePages(tb)) /\ Cardinality(TablePages(tb)) = Size(tb)
<1>1. IsFiniteSet(tb.node) /\ IsFiniteSet(tb.leaf)
  BY DEF Table
<1>2. IsFiniteSet(UserPages(tb))
  BY Zenon, <1>1, FS_Difference DEF UserPages
<1>3. Cardinality(tb.node) \in Nat /\ Cardinality(UserPages(tb)) \in Nat
  BY <1>1, <1>2, FS_CardinalityType
<1>4. /\ IsFiniteSet(TablePages(tb))
      /\ Cardinality(TablePages(tb)) =
            Cardinality({"node"} \X tb.node) + Cardinality({"page"} \X UserPages(tb))
  <2> DEFINE A == {"node"} \X tb.node
             B == {"page"} \X UserPages(tb)
  <2>1. IsFiniteSet(A) /\ IsFiniteSet(B) /\ A \cap B = {}
    BY Zenon, <1>1, <1>2, Tagged, TagsDiffer
  <2> QED
    BY <2>1, Disjoint DEF TablePages
<1>5. /\ Cardinality({"node"} \X tb.node) = Cardinality(tb.node)
      /\ Cardinality({"page"} \X UserPages(tb)) = Cardinality(UserPages(tb))
  BY Zenon, <1>1, <1>2, Tagged
<1> QED
  BY <1>1, <1>2, <1>3, <1>4, <1>5 DEF Size

HeldSet(t, tb, new, n) ==
    ({"trapframe"} \X (1..t)) \cup ({"pagetable"} \X TablePages(tb))
        \cup ({"image"} \X TablePages(new)) \cup ({"argv"} \X (1..n))

LEMMA HeldCount ==
    ASSUME NEW t \in Nat, NEW tb \in Table, NEW new \in Table, NEW n \in Nat
    PROVE  /\ IsFiniteSet(HeldSet(t, tb, new, n))
           /\ Cardinality(HeldSet(t, tb, new, n)) = t + Size(tb) + Size(new) + n
<1> DEFINE A == {"trapframe"} \X (1..t)
           B == {"pagetable"} \X TablePages(tb)
           C == {"image"} \X TablePages(new)
           D == {"argv"} \X (1..n)
<1>1. /\ IsFiniteSet(1..t) /\ Cardinality(1..t) = t
      /\ IsFiniteSet(1..n) /\ Cardinality(1..n) = n
  BY FS_Interval
<1>2. /\ IsFiniteSet(A) /\ Cardinality(A) = t
      /\ IsFiniteSet(D) /\ Cardinality(D) = n
  BY Zenon, <1>1, Tagged
<1>3. /\ IsFiniteSet(B) /\ Cardinality(B) = Size(tb) /\ Size(tb) \in Nat
      /\ IsFiniteSet(C) /\ Cardinality(C) = Size(new) /\ Size(new) \in Nat
  BY Zenon, Sizes, Tagged
<1>4. A \cap B = {} /\ (A \cup B) \cap C = {} /\ (A \cup B \cup C) \cap D = {}
  OBVIOUS
<1>5. HeldSet(t, tb, new, n) = A \cup B \cup C \cup D
  BY DEF HeldSet
<1> HIDE DEF A, B, C, D
<1>6. PICK E : E = A \cup B
  BY Zenon
<1>7. IsFiniteSet(E) /\ Cardinality(E) = t + Size(tb)
  BY Zenon, <1>2, <1>3, <1>4, <1>6, Disjoint
<1>8. PICK F : F = E \cup C
  BY Zenon
<1>9. IsFiniteSet(F) /\ Cardinality(F) = t + Size(tb) + Size(new)
  <2>1. E \cap C = {}
    BY Zenon, <1>4, <1>6
  <2> QED
    BY <1>3, <1>7, <1>8, <2>1, Disjoint
<1>10. F \cap D = {} /\ HeldSet(t, tb, new, n) = F \cup D
  BY Zenon, <1>4, <1>5, <1>6, <1>8
<1> QED
  BY <1>2, <1>9, <1>10, Disjoint

LEMMA AllFinite ==
    ASSUME NEW H, \A q \in Proc : IsFiniteSet(H[q])
    PROVE  IsFiniteSet(UNION {{q} \X H[q] : q \in Proc})
<1> DEFINE T == {{q} \X H[q] : q \in Proc}
           g == [q \in Proc |-> {q} \X H[q]]
<1>1. g \in Surjection(Proc, T)
  BY Zenon DEF Surjection
<1>2. IsFiniteSet(T)
  BY <1>1, FS_Surjection, Constants
<1>3. \A q \in Proc : IsFiniteSet({q} \X H[q])
  BY Zenon, Tagged
<1>4. \A S \in T : IsFiniteSet(S)
  BY Zenon, <1>3
<1> HIDE DEF T
<1> QED
  BY Zenon, <1>2, <1>4, FS_UNION DEF T

\* When the pages of one process change, the total changes as they do.
LEMMA OneChanges ==
    ASSUME NEW H, \A q \in Proc : IsFiniteSet(H[q]),
           NEW G, \A q \in Proc : IsFiniteSet(G[q]),
           NEW p \in Proc, \A q \in Proc \ {p} : G[q] = H[q]
    PROVE  Cardinality(UNION {{q} \X G[q] : q \in Proc}) + Cardinality(H[p]) =
           Cardinality(UNION {{q} \X H[q] : q \in Proc}) + Cardinality(G[p])
<1> DEFINE U == UNION {{q} \X H[q] : q \in Proc}
           V == UNION {{q} \X G[q] : q \in Proc}
           R == U \ ({p} \X H[p])
<1>0. IsFiniteSet(U)
  BY Zenon, AllFinite
<1>1. IsFiniteSet(R)
  BY Zenon, <1>0, FS_Difference
<1>2. U = R \cup ({p} \X H[p]) /\ R \cap ({p} \X H[p]) = {}
  OBVIOUS
<1>3. V = R \cup ({p} \X G[p]) /\ R \cap ({p} \X G[p]) = {}
  <2>1. R = UNION {{q} \X H[q] : q \in Proc \ {p}}
    OBVIOUS
  <2>2. R = UNION {{q} \X G[q] : q \in Proc \ {p}}
    BY <2>1
  <2> HIDE DEF R
  <2> QED
    BY <2>2
<1> HIDE DEF U, V, R
<1>4. Cardinality(U) = Cardinality(R) + Cardinality(H[p])
  <2>1. PICK S : S = {p} \X H[p]
    BY Zenon
  <2>2. IsFiniteSet(S) /\ Cardinality(S) = Cardinality(H[p])
    BY Zenon, <2>1, Tagged
  <2> QED
    BY <1>1, <1>2, <2>1, <2>2, Disjoint
<1>5. Cardinality(V) = Cardinality(R) + Cardinality(G[p])
  <2>1. PICK S : S = {p} \X G[p]
    BY Zenon
  <2>2. IsFiniteSet(S) /\ Cardinality(S) = Cardinality(G[p])
    BY Zenon, <2>1, Tagged
  <2> QED
    BY <1>1, <1>3, <2>1, <2>2, Disjoint
<1>6. /\ Cardinality(R) \in Nat /\ Cardinality(H[p]) \in Nat
      /\ Cardinality(G[p]) \in Nat
  BY <1>1, FS_CardinalityType
<1>7. Cardinality(V) + Cardinality(H[p]) = Cardinality(U) + Cardinality(G[p])
  BY <1>4, <1>5, <1>6
<1> QED
  BY <1>7 DEF U, V
-----------------------------------------------------------------------------
\* What the operators of vm.c do with the free list and a table.

Res == [free : Nat, tb : Table, ok : BOOLEAN, panic : BOOLEAN]

LEMMA TableIs ==
    ASSUME NEW tb
    PROVE  tb \in Table <=>
             /\ tb = [node |-> tb.node, leaf |-> tb.leaf]
             /\ tb.node \subseteq Nat \X Nat /\ tb.leaf \subseteq Nat
             /\ IsFiniteSet(tb.node) /\ IsFiniteSet(tb.leaf)
BY DEF Table

LEMMA NoTableFacts ==
    /\ NoTable \in Table /\ Size(NoTable) = 0 /\ UserPages(NoTable) = {}
    /\ NoTable.node = {} /\ NoTable.leaf = {}
BY FS_EmptySet DEF NoTable, Table, Size, UserPages

\* Counting the page-table pages that walk() makes.
Walked(r, f, tb) ==
    /\ r \in Res /\ r.tb.leaf = tb.leaf /\ ~r.panic
    /\ r.free + Cardinality(r.tb.node) = f + Cardinality(tb.node)

LEMMA WalkLevelFacts ==
    ASSUME NEW f, NEW tb, NEW r, Walked(r, f, tb), NEW k \in Nat \X Nat
    PROVE  Walked(WalkLevel(r, k), f, tb)
<1>1. /\ r \in Res /\ r.tb \in Table /\ r.free \in Nat
      /\ r.tb = [node |-> r.tb.node, leaf |-> r.tb.leaf]
      /\ r.tb.node \subseteq Nat \X Nat /\ r.tb.leaf \subseteq Nat
      /\ IsFiniteSet(r.tb.node) /\ IsFiniteSet(r.tb.leaf)
      /\ Cardinality(r.tb.node) \in Nat
  BY Sizes, TableIs DEF Walked, Res
<1>2. CASE ~r.ok \/ k \in r.tb.node
  BY <1>2 DEF WalkLevel
<1>3. CASE r.ok /\ k \notin r.tb.node /\ r.free = 0
  BY Zenon, <1>1, <1>3 DEF WalkLevel, Walked, Res
<1>4. CASE r.ok /\ k \notin r.tb.node /\ r.free # 0
  <2>1. WalkLevel(r, k) =
           [free |-> r.free - 1,
            tb |-> [node |-> r.tb.node \cup {k}, leaf |-> r.tb.leaf],
            ok |-> r.ok, panic |-> r.panic]
    BY Zenon, <1>1, <1>4 DEF WalkLevel, kalloc, Res
  <2>2. /\ IsFiniteSet(r.tb.node \cup {k})
        /\ Cardinality(r.tb.node \cup {k}) = Cardinality(r.tb.node) + 1
    BY ZenonT(30), <1>1, <1>4, FS_AddElement
  <2>3. [node |-> r.tb.node \cup {k}, leaf |-> r.tb.leaf] \in Table
    BY <1>1, <2>2 DEF Table
  <2>4. PICK s : s = WalkLevel(r, k)
    OBVIOUS
  <2>5. /\ s \in Res /\ s.free = r.free - 1 /\ s.tb.node = r.tb.node \cup {k}
        /\ s.tb.leaf = r.tb.leaf /\ s.panic = r.panic
    BY <1>1, <1>4, <2>1, <2>3, <2>4 DEF Res
  <2> QED
    BY <1>1, <2>2, <2>4, <2>5 DEF Walked
<1> QED
  BY <1>2, <1>3, <1>4

LEMMA WalkFacts ==
    ASSUME NEW f \in Nat, NEW tb \in Table, NEW v \in Nat
    PROVE  Walked(walk(f, tb, v), f, tb)
<1>1. v \div (FANOUT * FANOUT) \in Nat /\ v \div FANOUT \in Nat
  <2>1. FANOUT * FANOUT \in Nat /\ FANOUT * FANOUT > 0 /\ FANOUT \in Nat /\ FANOUT > 0
    BY MemoryAssumption
  <2>2. ASSUME NEW d \in Nat, d > 0 PROVE v \div d \in Nat
    BY SMTT(60), <2>2
  <2> QED
    BY <2>1, <2>2
<1>2. PX(v)[1] \in Nat \X Nat /\ PX(v)[2] \in Nat \X Nat
  BY <1>1 DEF PX
<1>3. Walked(Result(f, tb, TRUE, FALSE), f, tb)
  BY DEF Walked, Result, Res
<1>4. Walked(WalkLevel(Result(f, tb, TRUE, FALSE), PX(v)[1]), f, tb)
  BY Zenon, <1>2, <1>3, WalkLevelFacts
<1> QED
  BY Zenon, <1>2, <1>4, WalkLevelFacts DEF walk

LEMMA MapFacts ==
    ASSUME NEW f \in Nat, NEW tb \in Table, NEW v \in Nat, v \notin tb.leaf
    PROVE  LET r == mappages(f, tb, v)
           IN  /\ r \in Res /\ ~r.panic
               /\ r.free + Cardinality(r.tb.node) = f + Cardinality(tb.node)
               /\ r.tb.leaf = IF r.ok THEN tb.leaf \cup {v} ELSE tb.leaf
<1>1. PICK w : w = walk(f, tb, v)
  OBVIOUS
<1>2. Walked(w, f, tb)
  BY <1>1, WalkFacts
<1>3. /\ w \in Res /\ w.tb = [node |-> w.tb.node, leaf |-> tb.leaf]
      /\ w.tb \in Table
  BY <1>2, TableIs DEF Walked, Res
<1>4. CASE ~w.ok
  BY <1>1, <1>2, <1>4 DEF mappages, Walked
<1>5. CASE w.ok
  <2>0. (v \in tb.leaf) = FALSE
    OBVIOUS
  <2>1. PICK m : m = mappages(f, tb, v)
    OBVIOUS
  <2>4. m = [w EXCEPT !.tb.leaf = @ \cup {v}, !.panic = FALSE]
    BY Zenon, <1>1, <1>5, <2>0, <2>1 DEF mappages
  <2>5. /\ m = [free |-> m.free, tb |-> m.tb, ok |-> m.ok, panic |-> m.panic]
        /\ m.free = w.free /\ m.ok = w.ok /\ ~m.panic /\ m.panic \in BOOLEAN
        /\ m.tb = [w.tb EXCEPT !.leaf = @ \cup {v}]
    BY Zenon, <1>3, <2>4 DEF Res
  <2>2. IsFiniteSet(tb.leaf \cup {v}) /\ tb.leaf \cup {v} \subseteq Nat
    BY FS_AddElement DEF Table
  <2>3. [node |-> w.tb.node, leaf |-> tb.leaf \cup {v}] \in Table
    BY Zenon, <1>3, <2>2 DEF Table
  <2>6. m.tb = [node |-> w.tb.node, leaf |-> tb.leaf \cup {v}]
    BY <1>3, <2>5
  <2>7. m \in Res
    BY <1>3, <2>3, <2>5, <2>6 DEF Res
  <2> QED
    BY <1>2, <1>5, <2>1, <2>5, <2>6, <2>7 DEF Walked
<1> QED
  BY <1>4, <1>5

\* An iteration of uvmalloc() or uvmcopy() conserves pages and never remaps.
LEMMA MapNewFacts ==
    ASSUME NEW f \in Nat, NEW tb \in Table, NEW v \in Nat,
           v \notin tb.leaf, v \notin {TRAMPOLINE, TRAPFRAME}
    PROVE  LET r == MapNew(f, tb, v)
           IN  /\ r \in Res /\ ~r.panic
               /\ r.free + Size(r.tb) = f + Size(tb)
               /\ r.ok => f > 0
               /\ r.tb.leaf = IF r.ok THEN tb.leaf \cup {v} ELSE tb.leaf
<1>1. CASE f = 0
  BY <1>1, Sizes DEF MapNew, Result, Res
<1>2. CASE f # 0
  <2>1. PICK m : m = mappages(f - 1, tb, v)
    OBVIOUS
  <2>2. /\ m \in Res /\ ~m.panic /\ m.tb \in Table /\ m.free \in Nat
        /\ m.free + Cardinality(m.tb.node) = f - 1 + Cardinality(tb.node)
        /\ m.tb.leaf = IF m.ok THEN tb.leaf \cup {v} ELSE tb.leaf
    BY <1>2, <2>1, MapFacts DEF Res
  <2>3. /\ Cardinality(m.tb.node) \in Nat /\ Cardinality(tb.node) \in Nat
        /\ IsFiniteSet(UserPages(tb)) /\ Cardinality(UserPages(tb)) \in Nat
    BY <2>2, Sizes
  <2>4. CASE m.ok
    <3>1. UserPages(m.tb) = UserPages(tb) \cup {v} /\ v \notin UserPages(tb)
      BY <2>2, <2>4 DEF UserPages
    <3>2. Cardinality(UserPages(m.tb)) = Cardinality(UserPages(tb)) + 1
      BY Zenon, <2>3, <3>1, FS_AddElement
    <3>3. MapNew(f, tb, v) = m
      BY Zenon, <1>2, <2>1, <2>4 DEF MapNew, kalloc
    <3> QED
      BY <1>2, <2>2, <2>3, <2>4, <3>2, <3>3 DEF Size
  <2>5. CASE ~m.ok
    <3>1. MapNew(f, tb, v) =
             [free |-> m.free + 1, tb |-> m.tb, ok |-> m.ok, panic |-> m.panic]
      BY <1>2, <2>1, <2>2, <2>5 DEF MapNew, kalloc, kfree, Res
    <3>2. UserPages(m.tb) = UserPages(tb)
      BY <2>2, <2>5 DEF UserPages
    <3> QED
      BY <1>2, <2>2, <2>3, <2>5, <3>1, <3>2 DEF Size, Res
  <2> QED
    BY <2>4, <2>5
<1> QED
  BY <1>1, <1>2

\* uvmunmap() of pages that are mapped.
LEMMA UnmapIs ==
    ASSUME NEW f \in Nat, NEW tb \in Table, NEW V, V \subseteq tb.leaf
    PROVE  LET t == [node |-> tb.node, leaf |-> tb.leaf \ V]
           IN  /\ uvmunmap(f, tb, V, TRUE) =
                    Result(f + Cardinality(V), t, TRUE, FALSE)
               /\ uvmunmap(f, tb, V, FALSE) = Result(f, t, TRUE, FALSE)
<1>1. (~(V \subseteq tb.leaf)) = FALSE
  OBVIOUS
<1>2. [tb EXCEPT !.leaf = @ \ V] = [node |-> tb.node, leaf |-> tb.leaf \ V]
  BY TableIs
<1> QED
  BY Zenon, <1>1, <1>2 DEF uvmunmap, kfree

LEMMA SmallerTable ==
    ASSUME NEW tb \in Table, NEW V
    PROVE  [node |-> tb.node, leaf |-> tb.leaf \ V] \in Table
<1>1. IsFiniteSet(tb.leaf \ V) /\ tb.leaf \ V \subseteq Nat
  BY Zenon, FS_Difference DEF Table
<1> QED
  BY <1>1 DEF Table

Unmapped(f, tb, V) == uvmunmap(f, tb, V, TRUE)

\* Freeing user pages conserves pages.
LEMMA UnmapFacts ==
    ASSUME NEW f \in Nat, NEW tb \in Table, NEW V, V \subseteq UserPages(tb),
           NEW r, r = Unmapped(f, tb, V)
    PROVE  /\ r.free \in Nat /\ r.tb \in Table /\ ~r.panic
           /\ r.tb.leaf = tb.leaf \ V
           /\ r.free + Size(r.tb) = f + Size(tb)
<1>1. V \subseteq tb.leaf /\ V \subseteq UserPages(tb)
  BY DEF UserPages
<1>2. PICK t : t = [node |-> tb.node, leaf |-> tb.leaf \ V]
  BY Zenon
<1>3. t \in Table
  BY <1>2, SmallerTable
<1>4. r = Result(f + Cardinality(V), t, TRUE, FALSE)
  BY Zenon, <1>1, <1>2, UnmapIs DEF Unmapped
<1>5. /\ IsFiniteSet(UserPages(tb)) /\ IsFiniteSet(V) /\ Cardinality(V) \in Nat
      /\ Cardinality(UserPages(tb)) \in Nat /\ Cardinality(tb.node) \in Nat
  <2>1. /\ IsFiniteSet(UserPages(tb)) /\ Cardinality(UserPages(tb)) \in Nat
        /\ Cardinality(tb.node) \in Nat
    BY Zenon, Sizes
  <2> QED
    BY <2>1, FS_Subset, FS_CardinalityType
<1>6. Cardinality(UserPages(t)) = Cardinality(UserPages(tb)) - Cardinality(V)
  <2>1. UserPages(t) = UserPages(tb) \ V /\ UserPages(tb) \cap V = V
    BY <1>1, <1>2 DEF UserPages
  <2> QED
    BY Zenon, <1>5, <2>1, FS_Difference
<1>7. f + Cardinality(V) + Size(t) = f + Size(tb) /\ f + Cardinality(V) \in Nat
  BY <1>2, <1>5, <1>6 DEF Size
<1>9. ~r.panic /\ r.tb = t /\ r.free = f + Cardinality(V)
  BY <1>4 DEF Result
<1>10. t.leaf = tb.leaf \ V
  BY <1>2
<1> QED
  BY Zenon, <1>3, <1>7, <1>9, <1>10

\* uvmfree() gives back every page of a table that maps size bytes.
LEMMA UvmfreeFacts ==
    ASSUME NEW f \in Nat, NEW tb \in Table, NEW size, tb.leaf = VPages(0, size)
    PROVE  LET r == uvmfree(f, tb, size)
           IN  r.free = f + Cardinality(tb.leaf) + Cardinality(tb.node) /\ ~r.panic
<1>1. PICK u : u = uvmunmap(f, tb, VPages(0, size), TRUE)
  BY Zenon
<1>2. u = Result(f + Cardinality(tb.leaf),
                 [node |-> tb.node, leaf |-> tb.leaf \ tb.leaf], TRUE, FALSE)
  <2>1. u = uvmunmap(f, tb, tb.leaf, TRUE) /\ tb.leaf \subseteq tb.leaf
    BY Zenon, <1>1
  <2> QED
    BY ZenonT(30), <2>1, UnmapIs
<1>3. /\ u.free = f + Cardinality(tb.leaf) /\ u.tb.node = tb.node
      /\ u.tb.leaf = {} /\ ~u.panic
  BY <1>2 DEF Result
<1>4. PICK w : w = freewalk(u.free, u.tb)
  OBVIOUS
<1>5. /\ w = Result(u.free + Cardinality(u.tb.node), NoTable, TRUE, u.tb.leaf # {})
      /\ uvmfree(f, tb, size) = [w EXCEPT !.panic = @ \/ u.panic]
  BY Zenon, <1>1, <1>4 DEF freewalk, kfree, uvmfree
<1> QED
  BY Zenon, <1>3, <1>5 DEF Result

\* proc_freepagetable() gives back every page of a process's table.
LEMMA FreepagetableFacts ==
    ASSUME NEW f \in Nat, NEW tb \in Table, NEW size \in Nat, Maps(tb, size),
           Pages(size) <= TRAPFRAME
    PROVE  LET r == proc_freepagetable(f, tb, size)
           IN  r.free = f + Size(tb) /\ ~r.panic
<1> DEFINE S == {TRAMPOLINE, TRAPFRAME}
<1>1. S \subseteq tb.leaf /\ tb.leaf \ S = VPages(0, size)
  <2>1. VPages(0, size) = 0..(Pages(size) - 1)
    BY NoPages DEF VPages, Pages
  <2>2. Pages(size) \in Nat
    BY RoundUp
  <2>3. VPages(0, size) \cap S = {}
    BY <2>1, <2>2, Constants
  <2> QED
    BY <2>3 DEF Maps
<1>2. PICK t : t = [node |-> tb.node, leaf |-> tb.leaf \ S]
  BY Zenon
<1>5. PICK m : m = uvmunmap(f, tb, S, FALSE)
  BY Zenon
<1>3. m = Result(f, t, TRUE, FALSE)
  BY ZenonT(30), <1>1, <1>2, <1>5, UnmapIs
<1>4. /\ t \in Table /\ t.leaf = VPages(0, size)
      /\ t.leaf = UserPages(tb) /\ t.node = tb.node
  BY Zenon, <1>1, <1>2, SmallerTable DEF UserPages
<1>6. m.free = f /\ m.tb = t /\ ~m.panic
  BY <1>3 DEF Result
<1>7. PICK w : w = uvmfree(f, t, size)
  OBVIOUS
<1>8. w.free = f + Cardinality(t.leaf) + Cardinality(t.node) /\ ~w.panic
  BY <1>4, <1>7, UvmfreeFacts
<1>9. f + Cardinality(t.leaf) + Cardinality(t.node) = f + Size(tb)
  BY <1>4, Sizes DEF Size
<1>10. proc_freepagetable(f, tb, size) = [w EXCEPT !.panic = @ \/ m.panic]
  BY Zenon, <1>5, <1>6, <1>7 DEF proc_freepagetable
<1>11. DOMAIN w = {"free", "tb", "ok", "panic"}
  BY <1>7 DEF uvmfree, freewalk, Result
<1> QED
  BY Zenon, <1>6, <1>8, <1>9, <1>10, <1>11

LEMMA NoVPages == VPages(0, 0) = {}
<1>1. PGROUNDUP(0) \div PGSIZE = 0
  BY NoPages DEF Pages
<1> QED
  BY <1>1 DEF VPages

LEMMA FailedFacts ==
    ASSUME NEW f, NEW tb, NEW size
    PROVE  LET r == uvmfree(f, tb, size)
           IN  /\ Failed(r).free = r.free /\ Failed(r).panic = r.panic
               /\ ~Failed(r).ok
<1>1. DOMAIN uvmfree(f, tb, size) = {"free", "tb", "ok", "panic"}
  BY DEF uvmfree, freewalk, Result
<1> QED
  BY <1>1 DEF Failed

\* A new table holds the trampoline and the trapframe; one that cannot be
\* finished is given back.
LEMMA PagetableFacts ==
    ASSUME NEW f \in Nat
    PROVE  LET r == proc_pagetable(f)
           IN  /\ ~r.panic
               /\ r.ok => /\ r.free \in Nat /\ r.tb \in Table /\ Maps(r.tb, 0)
                          /\ r.free + Size(r.tb) = f
               /\ ~r.ok => r.free = f
<1>1. CASE f = 0
  BY <1>1 DEF proc_pagetable, Failed, Result
<1>2. CASE f # 0
  <2>1. PICK b : b = [NoTable EXCEPT !.node = {Root}]
    BY Zenon
  <2>2. b \in Table /\ b.leaf = {} /\ Cardinality(b.node) = 1 /\ f - 1 \in Nat
    <3>1. b = [node |-> {Root}, leaf |-> {}] /\ Root \in Nat \X Nat
      BY <2>1 DEF NoTable, Root
    <3>2. /\ IsFiniteSet({Root}) /\ Cardinality({Root}) = 1
          /\ IsFiniteSet({})
      BY Zenon, FS_Singleton, FS_EmptySet
    <3> QED
      BY <1>2, <3>1, <3>2 DEF Table
  <2>3. PICK t : t = mappages(f - 1, b, TRAMPOLINE)
    OBVIOUS
  <2>4. /\ ~t.panic /\ t.free \in Nat /\ t.tb \in Table
        /\ t.free + Cardinality(t.tb.node) = f
        /\ t.tb.leaf = IF t.ok THEN {TRAMPOLINE} ELSE {}
    <3>1. /\ t \in Res /\ ~t.panic
          /\ t.free + Cardinality(t.tb.node) = f - 1 + Cardinality(b.node)
          /\ t.tb.leaf = IF t.ok THEN b.leaf \cup {TRAMPOLINE} ELSE b.leaf
      <4>1. TRAMPOLINE \in Nat /\ TRAMPOLINE \notin b.leaf
        BY <2>2, Constants
      <4> QED
        BY ZenonT(30), <2>2, <2>3, <4>1, MapFacts
    <3> QED
      BY <2>2, <3>1, Sizes DEF Res
  <2>5. CASE ~t.ok
    <3>1. t.tb.leaf = VPages(0, 0) /\ t.tb.leaf = {}
      BY <2>4, <2>5, NoVPages
    <3>2. PICK w : w = uvmfree(t.free, t.tb, 0)
      OBVIOUS
    <3>3. w.free = t.free + Cardinality(t.tb.leaf) + Cardinality(t.tb.node) /\ ~w.panic
      BY Zenon, <2>4, <3>1, <3>2, UvmfreeFacts
    <3>4. w.free = f
      BY <2>4, <3>1, <3>3, FS_EmptySet, Sizes
    <3>5. proc_pagetable(f) = Failed(w)
      BY Zenon, <1>2, <2>1, <2>3, <2>5, <3>2 DEF proc_pagetable, kalloc
    <3> QED
      BY <3>2, <3>3, <3>4, <3>5, FailedFacts
  <2>6. CASE t.ok
    <3>1. PICK u : u = mappages(t.free, t.tb, TRAPFRAME)
      OBVIOUS
    <3>2. /\ ~u.panic /\ u.free \in Nat /\ u.tb \in Table
          /\ u.free + Cardinality(u.tb.node) = f
          /\ u.tb.leaf = IF u.ok THEN {TRAMPOLINE, TRAPFRAME} ELSE {TRAMPOLINE}
      <4>1. /\ u \in Res /\ ~u.panic
            /\ u.free + Cardinality(u.tb.node) = t.free + Cardinality(t.tb.node)
            /\ u.tb.leaf = IF u.ok THEN t.tb.leaf \cup {TRAPFRAME} ELSE t.tb.leaf
        <5>1. TRAPFRAME \in Nat /\ TRAPFRAME \notin t.tb.leaf
          BY <2>4, <2>6, Constants
        <5> QED
          BY ZenonT(30), <2>4, <3>1, <5>1, MapFacts
      <4> QED
        BY ZenonT(30), <2>4, <2>6, <4>1 DEF Res
    <3>3. CASE u.ok
      <4>1. proc_pagetable(f) = u
        BY Zenon, <1>2, <2>1, <2>3, <2>6, <3>1, <3>3 DEF proc_pagetable, kalloc
      <4>2. Maps(u.tb, 0)
        BY Zenon, <3>2, <3>3, NoVPages DEF Maps
      <4>3. UserPages(u.tb) = {} /\ Size(u.tb) = Cardinality(u.tb.node)
        BY SMTT(30), <3>2, <3>3, FS_EmptySet, Sizes DEF UserPages, Size
      <4> QED
        BY <3>2, <3>3, <4>1, <4>2, <4>3
    <3>4. CASE ~u.ok
      <4>1. PICK n : n = uvmunmap(u.free, u.tb, {TRAMPOLINE}, FALSE)
        BY Zenon
      <4>2. PICK e : e = [node |-> u.tb.node, leaf |-> u.tb.leaf \ {TRAMPOLINE}]
        BY Zenon
      <4>3. n = Result(u.free, e, TRUE, FALSE)
        <5>1. {TRAMPOLINE} \subseteq u.tb.leaf
          BY <3>2, <3>4
        <5> QED
          BY ZenonT(30), <3>2, <4>1, <4>2, <5>1, UnmapIs
      <4>4. /\ e \in Table /\ e.leaf = VPages(0, 0) /\ e.leaf = {}
            /\ e.node = u.tb.node
        BY ZenonT(30), <3>2, <3>4, <4>2, NoVPages, SmallerTable
      <4>5. n.free = u.free /\ n.tb = e
        BY <4>3 DEF Result
      <4>6. PICK w : w = uvmfree(u.free, e, 0)
        OBVIOUS
      <4>7. w.free = u.free + Cardinality(e.leaf) + Cardinality(e.node) /\ ~w.panic
        BY Zenon, <3>2, <4>4, <4>6, UvmfreeFacts
      <4>8. w.free = f
        BY <3>2, <4>4, <4>7, FS_EmptySet, Sizes
      <4>9. proc_pagetable(f) = Failed(w)
        BY Zenon, <1>2, <2>1, <2>3, <2>6, <3>1, <3>4, <4>1, <4>5, <4>6
        DEF proc_pagetable, kalloc
      <4> QED
        BY <4>6, <4>7, <4>8, <4>9, FailedFacts
    <3> QED
      BY <3>3, <3>4
  <2> QED
    BY <2>5, <2>6
<1> QED
  BY <1>1, <1>2

\* A table that maps up to a page boundary, after an iteration that adds a page.
LEMMA GrowNext ==
    ASSUME NEW f \in Nat, NEW tb \in Table, NEW a \in Nat, Aligned(a),
           Maps(tb, a), Pages(a) <= NPAGE
    PROVE  LET r == MapNew(f, tb, a \div PGSIZE)
           IN  /\ r.free \in Nat /\ r.tb \in Table /\ ~r.panic
               /\ r.free + Size(r.tb) = f + Size(tb)
               /\ r.ok => f > 0 /\ Maps(r.tb, a + PGSIZE)
               /\ ~r.ok => Maps(r.tb, a)
<1>1. PICK v \in Nat : v = a \div PGSIZE /\ v = Pages(a)
  BY RoundAligned
<1>2. tb.leaf = 0..(v - 1) \cup {TRAMPOLINE, TRAPFRAME}
  BY <1>1, NoPages DEF Maps, VPages, Pages
<1>3. v \notin tb.leaf /\ v \notin {TRAMPOLINE, TRAPFRAME}
  BY <1>1, <1>2, Constants
<1>4. PICK r : r = MapNew(f, tb, v)
  OBVIOUS
<1>5. /\ r \in Res /\ ~r.panic /\ r.free + Size(r.tb) = f + Size(tb)
      /\ r.ok => f > 0
      /\ r.tb.leaf = IF r.ok THEN tb.leaf \cup {v} ELSE tb.leaf
  BY ZenonT(30), <1>3, <1>4, MapNewFacts
<1>6. r.ok => Maps(r.tb, a + PGSIZE)
  <2>1. 0..v = 0..(v - 1) \cup {v}
    BY <1>1
  <2>2. VPages(0, a + PGSIZE) = 0..v
    BY <1>1, NoPages, NextPage DEF VPages, Pages
  <2> QED
    BY Zenon, <1>2, <1>5, <2>1, <2>2 DEF Maps
<1>7. ~r.ok => Maps(r.tb, a)
  BY Zenon, <1>5 DEF Maps
<1>8. r.free \in Nat /\ r.tb \in Table
  BY <1>5 DEF Res
<1> QED
  BY Zenon, <1>1, <1>4, <1>5, <1>6, <1>7, <1>8

\* uvmdealloc() of pages that are mapped.
LEMMA DeallocFacts ==
    ASSUME NEW f \in Nat, NEW tb \in Table, NEW old \in Nat, NEW new \in Nat,
           Maps(tb, old), Pages(old) <= NPAGE,
           NEW r, r = uvmdealloc(f, tb, old, new),
           NEW m, m = IF new >= old THEN old ELSE new
    PROVE  /\ r.free \in Nat /\ r.tb \in Table /\ ~r.panic
           /\ r.free + Size(r.tb) = f + Size(tb) /\ Maps(r.tb, m)
<1>1. Pages(old) \in Nat /\ Pages(new) \in Nat
  BY RoundUp
<1>2. /\ VPages(0, old) = 0..(Pages(old) - 1) /\ VPages(0, new) = 0..(Pages(new) - 1)
      /\ VPages(new, old) = Pages(new)..(Pages(old) - 1)
  BY NoPages DEF VPages, Pages
<1>3. PICK V : V = IF new >= old THEN {} ELSE VPages(new, old)
  BY Zenon
<1>5. r = Unmapped(f, tb, V)
  BY Zenon, <1>3 DEF uvmdealloc, Unmapped
<1>6. V \subseteq 0..(Pages(old) - 1)
  BY <1>1, <1>2, <1>3
<1>7. V \subseteq UserPages(tb)
  <2>1. 0..(Pages(old) - 1) \cap {TRAMPOLINE, TRAPFRAME} = {}
    BY <1>1, Constants
  <2> QED
    BY Zenon, <1>2, <1>6, <2>1 DEF Maps, UserPages
<1>8. /\ r.free \in Nat /\ r.tb \in Table /\ ~r.panic
      /\ r.tb.leaf = tb.leaf \ V /\ r.free + Size(r.tb) = f + Size(tb)
  BY <1>5, <1>7, UnmapFacts
<1>9. Maps(r.tb, m)
  <2>1. CASE new >= old
    BY <1>3, <1>8, <2>1 DEF Maps
  <2>2. CASE ~(new >= old)
    <3>1. Pages(new) <= Pages(old)
      BY <2>2, PagesMonotone
    <3>2. V = Pages(new)..(Pages(old) - 1)
      BY <1>2, <1>3, <2>2
    <3>3. tb.leaf \ V = 0..(Pages(new) - 1) \cup {TRAMPOLINE, TRAPFRAME}
      BY SMTT(30), <1>1, <1>2, <3>1, <3>2, Constants DEF Maps
    <3> QED
      BY Zenon, <1>2, <1>8, <2>2, <3>3 DEF Maps
  <2> QED
    BY <2>1, <2>2
<1> QED
  BY Zenon, <1>8, <1>9

\* Taking back the pages that uvmcopy() copied.
LEMMA UncopyFacts ==
    ASSUME NEW f \in Nat, NEW tb \in Table, NEW a \in Nat, Aligned(a),
           Maps(tb, a), Pages(a) <= NPAGE
    PROVE  LET r == Unmapped(f, tb, CopiedUpTo(a))
           IN  /\ r.free \in Nat /\ r.tb \in Table /\ ~r.panic
               /\ r.free + Size(r.tb) = f + Size(tb) /\ Maps(r.tb, 0)
<1>1. PICK k \in Nat : k = Pages(a) /\ k = a \div PGSIZE
  BY RoundAligned
<1>2. VPages(0, a) = 0..(k - 1) /\ CopiedUpTo(a) = 0..(k - 1)
  BY <1>1, NoPages DEF VPages, Pages, CopiedUpTo
<1>3. 0..(k - 1) \cap {TRAMPOLINE, TRAPFRAME} = {}
  BY <1>1, Constants
<1>4. PICK r : r = Unmapped(f, tb, CopiedUpTo(a))
  OBVIOUS
<1>5. CopiedUpTo(a) \subseteq UserPages(tb)
  BY Zenon, <1>2, <1>3 DEF Maps, UserPages
<1>6. /\ r.free \in Nat /\ r.tb \in Table /\ ~r.panic
      /\ r.tb.leaf = tb.leaf \ CopiedUpTo(a) /\ r.free + Size(r.tb) = f + Size(tb)
  BY <1>4, <1>5, UnmapFacts
<1>7. Maps(r.tb, 0)
  BY Zenon, <1>2, <1>3, <1>6, NoVPages DEF Maps
<1> QED
  BY Zenon, <1>4, <1>6, <1>7
-----------------------------------------------------------------------------
\* The accounts of a step.

LEMMA CallIs ==
    ASSUME NEW j
    PROVE  j \in Call <=>
             /\ j = [pc |-> j.pc, new |-> j.new, nsz |-> j.nsz, np |-> j.np,
                     base |-> j.base, a |-> j.a, end |-> j.end,
                     segs |-> j.segs, argv |-> j.argv]
             /\ j.pc \in {"user", "grow", "copy", "argv", "load", "seg", "stack", "push"}
             /\ j.new \in Table /\ j.nsz \in Nat /\ j.np \in Proc /\ j.base \in Nat
             /\ j.a \in Nat /\ j.end \in Nat /\ j.segs \in Nat /\ j.argv \in Nat
BY DEF Call

LEMMA HeldIs ==
    ASSUME NEW t \in 0..1, NEW tb \in Table, NEW j \in Call
    PROVE  LET H == HeldSet(t, tb, j.new, j.argv)
           IN  /\ IsFiniteSet(H) /\ Cardinality(H) \in Nat
               /\ Cardinality(H) = t + Size(tb) + Size(j.new) + j.argv
<1>1. t \in Nat /\ j.new \in Table /\ j.argv \in Nat
  BY CallIs
<1>2. PICK H : H = HeldSet(t, tb, j.new, j.argv)
  OBVIOUS
<1>3. IsFiniteSet(H) /\ Cardinality(H) = t + Size(tb) + Size(j.new) + j.argv
  BY Zenon, <1>1, <1>2, HeldCount
<1>4. Cardinality(H) \in Nat
  BY <1>3, FS_CardinalityType
<1> QED
  BY Zenon, <1>2, <1>3, <1>4

LEMMA InUseIs ==
    ASSUME Types
    PROVE  /\ IsFiniteSet(InUse)
           /\ \A p \in Proc : /\ IsFiniteSet(Held(p)) /\ Cardinality(Held(p)) = Count(p)
                              /\ Count(p) \in Nat
<1>1. ASSUME NEW p \in Proc
      PROVE  /\ IsFiniteSet(Held(p)) /\ Cardinality(Held(p)) = Count(p)
             /\ Count(p) \in Nat
  <2>1. tf[p] \in 0..1 /\ tab[p] \in Table /\ job[p] \in Call
    BY DEF Types
  <2>2. Held(p) = HeldSet(tf[p], tab[p], job[p].new, job[p].argv)
    BY Zenon DEF Held, HeldSet
  <2> QED
    BY Zenon, <2>1, <2>2, HeldIs DEF Count
<1>2. PICK H : H = [p \in Proc |-> Held(p)]
  BY Zenon
<1>3. \A p \in Proc : IsFiniteSet(H[p])
  BY Zenon, <1>1, <1>2
<1>4. InUse = UNION {{p} \X H[p] : p \in Proc}
  BY <1>2 DEF InUse
<1> QED
  BY Zenon, <1>1, <1>3, <1>4, AllFinite

\* When a step changes the pages of one process only, and the free list by as
\* many, the pages are conserved.
LEMMA Accounts ==
    ASSUME Types, Types', PagesConserved, NEW p \in Proc,
           \A q \in Proc \ {p} :
               /\ tf'[q] = tf[q] /\ tab'[q] = tab[q]
               /\ job'[q].new = job[q].new /\ job'[q].argv = job[q].argv,
           free' + Count(p)' = free + Count(p)
    PROVE  PagesConserved'
<1>1. ASSUME NEW q \in Proc
      PROVE  /\ IsFiniteSet(Held(q)) /\ Cardinality(Held(q)) = Count(q)
             /\ Count(q) \in Nat
  BY Zenon, InUseIs
<1>2. ASSUME NEW q \in Proc
      PROVE  /\ IsFiniteSet(Held(q)') /\ Cardinality(Held(q)') = Count(q)'
             /\ Count(q)' \in Nat
  <2>1. tf'[q] \in 0..1 /\ tab'[q] \in Table /\ job'[q] \in Call
    BY DEF Types
  <2>2. Held(q)' = HeldSet(tf'[q], tab'[q], job'[q].new, job'[q].argv)
    BY Zenon DEF Held, HeldSet
  <2> QED
    BY Zenon, <2>1, <2>2, HeldIs DEF Count
<1>3. PICK H : H = [q \in Proc |-> Held(q)]
  BY Zenon
<1>4. PICK G : G = [q \in Proc |-> Held(q)']
  BY Zenon
<1>5. \A q \in Proc : IsFiniteSet(H[q]) /\ IsFiniteSet(G[q])
  BY Zenon, <1>1, <1>2, <1>3, <1>4
<1>6. \A q \in Proc \ {p} : G[q] = H[q]
  BY <1>3, <1>4 DEF Held
<1>7. /\ InUse = UNION {{q} \X H[q] : q \in Proc}
      /\ InUse' = UNION {{q} \X G[q] : q \in Proc}
  BY <1>3, <1>4 DEF InUse
<1>8. Cardinality(InUse') + Cardinality(H[p]) = Cardinality(InUse) + Cardinality(G[p])
  <2>1. /\ \A q \in Proc : IsFiniteSet(H[q])
        /\ \A q \in Proc : IsFiniteSet(G[q])
    BY <1>5
  <2> QED
    BY <2>1, <1>6, <1>7, OneChanges
<1>9. Cardinality(H[p]) = Count(p) /\ Cardinality(G[p]) = Count(p)'
  BY Zenon, <1>1, <1>2, <1>3, <1>4
<1>10. Cardinality(InUse) \in Nat /\ Cardinality(InUse') \in Nat
  <2>1. IsFiniteSet(InUse) /\ IsFiniteSet(InUse')
    BY ZenonT(30), <1>5, <1>7, AllFinite
  <2> QED
    BY <2>1, FS_CardinalityType
<1>11. /\ Count(p) \in Nat /\ Count(p)' \in Nat /\ free \in Nat /\ free' \in Nat
       /\ free + Cardinality(InUse) = NPAGE /\ NPAGE \in Nat
  BY Zenon, <1>1, <1>2, Constants DEF Types, PagesConserved
<1>12. free' + Cardinality(InUse') = NPAGE
  BY <1>8, <1>9, <1>10, <1>11
<1> QED
  BY <1>12 DEF PagesConserved

\* A table of a process has no more pages than there are.
LEMMA FewPages ==
    ASSUME Types, PagesConserved, NEW p \in Proc,
           NEW tb, tb = tab[p] \/ tb = job[p].new, NEW size \in Nat, Maps(tb, size)
    PROVE  /\ tb \in Table /\ Pages(size) \in Nat
           /\ Pages(size) <= NPAGE - free /\ Pages(size) <= NPAGE
<1>1. Cardinality(InUse) = NPAGE - free /\ free \in Nat /\ NPAGE \in Nat
  <2>1. Cardinality(InUse) \in Nat
    BY InUseIs, FS_CardinalityType
  <2> QED
    BY <2>1, Constants DEF PagesConserved, Types
<1>2. Count(p) <= Cardinality(InUse) /\ Count(p) \in Nat
  <2>1. {p} \X Held(p) \subseteq InUse
    BY Zenon DEF InUse
  <2>2. /\ IsFiniteSet(Held(p)) /\ Cardinality(Held(p)) = Count(p)
        /\ Count(p) \in Nat /\ IsFiniteSet(InUse)
    BY Zenon, InUseIs
  <2>3. Cardinality({p} \X Held(p)) = Count(p)
    BY Zenon, <2>2, Tagged
  <2>4. Cardinality({p} \X Held(p)) <= Cardinality(InUse)
    BY <2>1, <2>2, FS_Subset
  <2> QED
    BY <2>2, <2>3, <2>4
<1>3. /\ tb \in Table /\ tab[p] \in Table /\ job[p].new \in Table
      /\ tf[p] \in Nat /\ job[p].argv \in Nat
  BY DEF Types, Call
<1>4. Cardinality(UserPages(tb)) <= Count(p) /\ IsFiniteSet(UserPages(tb))
  <2>1. /\ Size(tab[p]) \in Nat /\ Size(job[p].new) \in Nat
        /\ Cardinality(tb.node) \in Nat /\ Cardinality(UserPages(tb)) \in Nat
        /\ IsFiniteSet(UserPages(tb))
    BY Zenon, <1>3, Sizes
  <2>2. Size(tb) <= Count(p)
    BY <1>3, <2>1 DEF Count
  <2>3. Size(tb) = Cardinality(tb.node) + Cardinality(UserPages(tb))
    BY DEF Size
  <2> QED
    BY <1>2, <2>1, <2>2, <2>3
<1>5. PICK k \in Nat : k = NPAGE - free
  BY <1>1, <1>2
<1>6. Pages(size) \in Nat /\ VPages(0, size) = 0..(Pages(size) - 1)
  BY RoundUp, NoPages DEF VPages, Pages
<1>7. ~(Pages(size) > k)
  <2> SUFFICES ASSUME Pages(size) > k PROVE FALSE
    OBVIOUS
  <2>1. 0..k \subseteq UserPages(tb)
    BY <1>1, <1>5, <1>6, Constants DEF Maps, UserPages
  <2>2. Cardinality(0..k) = k + 1
    BY FS_Interval
  <2>3. Cardinality(0..k) <= Cardinality(UserPages(tb))
    BY <1>4, <2>1, FS_Subset
  <2>4. Cardinality(UserPages(tb)) \in Nat
    BY <1>4, FS_CardinalityType
  <2> QED
    BY <1>1, <1>2, <1>4, <1>5, <2>2, <2>3, <2>4
<1> QED
  BY <1>1, <1>3, <1>5, <1>6, <1>7
-----------------------------------------------------------------------------
\* What a step leaves alone.

Kept(C) ==
    \A r \in Proc \ C :
        /\ tab'[r] = tab[r] /\ sz'[r] = sz[r] /\ tf'[r] = tf[r]
        /\ state'[r] = state[r] /\ job'[r] = job[r]

\* A process that a step does not touch keeps its part of the invariant, if
\* its child is not touched either and nobody takes it over.
LEMMA OthersKept ==
    ASSUME Types, Calls, SpaceExact, ~panicked, ~panicked', NEW C, Kept(C),
           \A r \in Proc \ C : job[r].pc = "copy" =>
               /\ job[r].np \notin C
               /\ \A c \in C : job'[c].pc = "copy" => job'[c].np # job[r].np
    PROVE  \A r \in Proc \ C : CallInv(r)' /\ SpaceOf(r)'
<1> SUFFICES ASSUME NEW r \in Proc \ C PROVE CallInv(r)' /\ SpaceOf(r)'
  OBVIOUS
<1>1. CallInv(r) /\ SpaceOf(r)
  BY DEF Calls, SpaceExact
<1>2. /\ tab'[r] = tab[r] /\ sz'[r] = sz[r] /\ tf'[r] = tf[r]
      /\ state'[r] = state[r] /\ job'[r] = job[r]
  BY DEF Kept
<1>3. InUvmalloc(r)' = InUvmalloc(r)
  BY ZenonT(30), <1>2 DEF InUvmalloc, At
<1>4. job[r].pc = "copy" => Child(r)'
  <2> SUFFICES ASSUME job[r].pc = "copy" PROVE Child(r)'
    OBVIOUS
  <2>1. job[r].np \in Proc \ C
    BY CallIs DEF Types
  <2>2. sz'[job[r].np] = sz[job[r].np] /\ state'[job[r].np] = state[job[r].np]
    BY <2>1 DEF Kept
  <2>3. Child(r)
    BY <1>1 DEF CallInv
  <2>4. ASSUME NEW c \in Proc, c # r, job'[c].pc = "copy"
        PROVE  job'[c].np # job[r].np
    <3>1. CASE c \in C
      BY <2>4, <3>1
    <3>2. CASE c \notin C
      BY <2>3, <2>4, <3>2 DEF Kept, Child
    <3> QED
      BY <3>1, <3>2
  <2> QED
    BY <1>2, <2>2, <2>3, <2>4 DEF Child
<1>5. CallInv(r)'
  BY <1>1, <1>2, <1>4 DEF CallInv, Growing
<1>6. job[r].pc = "copy" => tab'[job[r].np] = tab[job[r].np]
  BY ZenonT(30), CallIs DEF Types, Kept
<1>7. SpaceOf(r)'
  BY ZenonT(30), <1>1, <1>2, <1>3, <1>6 DEF SpaceOf, Reached
<1> QED
  BY <1>5, <1>7

\* The invariant of a running process that is not in fork(), in terms of its
\* table t, its size s and its call j.
Good(t, s, j) ==
    /\ j.pc # "copy" /\ (j.pc = "user" => j = Idle)
    /\ j.pc \in {"user", "grow", "argv"} => j.new = NoTable /\ j.nsz = 0
    /\ j.pc \in {"user", "grow"} => j.argv = 0
    /\ j.pc = "grow" => Growing(j, s)
    /\ j.pc \in {"seg", "stack"} => Growing(j, j.nsz)
    /\ Maps(t, IF j.pc = "grow" THEN j.a ELSE s)
    /\ j.pc \in {"load", "push"} => Maps(j.new, j.nsz)
    /\ j.pc \in {"seg", "stack"} => Maps(j.new, j.a)

Becomes(p, t, s, j) ==
    /\ tab' = [tab EXCEPT ![p] = t]
    /\ sz' = [sz EXCEPT ![p] = s]
    /\ job' = [job EXCEPT ![p] = j]
    /\ UNCHANGED <<tf, state>>

LEMMA Now ==
    ASSUME Inv, NEW p \in Proc
    PROVE  /\ tab[p] \in Table /\ sz[p] \in Nat /\ job[p] \in Call /\ tf[p] \in 0..1
           /\ free \in Nat /\ ~panicked
           /\ state[p] = "run" /\ job[p].pc # "copy" => Good(tab[p], sz[p], job[p])
<1>1. /\ tab[p] \in Table /\ sz[p] \in Nat /\ job[p] \in Call /\ tf[p] \in 0..1
      /\ free \in Nat /\ ~panicked
  BY DEF Inv, Types, NoVmPanic
<1>2. ASSUME state[p] = "run", job[p].pc # "copy" PROVE Good(tab[p], sz[p], job[p])
  <2>1. CallInv(p) /\ SpaceOf(p)
    BY DEF Inv, Calls, SpaceExact
  <2>2. InUvmalloc(p) <=> job[p].pc \in {"grow", "seg", "stack"}
    BY <1>1, <1>2 DEF InUvmalloc, At
  <2>3. /\ (job[p].pc = "user" => job[p] = Idle)
        /\ job[p].pc \in {"user", "grow", "argv"} => job[p].new = NoTable /\ job[p].nsz = 0
        /\ job[p].pc \in {"user", "grow"} => job[p].argv = 0
        /\ job[p].pc = "grow" => Growing(job[p], sz[p])
        /\ job[p].pc \in {"seg", "stack"} => Growing(job[p], job[p].nsz)
    BY ZenonT(30), <2>1 DEF CallInv
  <2>4. /\ Maps(tab[p], IF job[p].pc = "grow" THEN job[p].a ELSE sz[p])
        /\ job[p].pc \in {"load", "push"} => Maps(job[p].new, job[p].nsz)
        /\ job[p].pc \in {"seg", "stack"} => Maps(job[p].new, job[p].a)
    BY ZenonT(30), <1>2, <2>1, <2>2 DEF SpaceOf, Reached
  <2> QED
    BY Zenon, <1>2, <2>3, <2>4 DEF Good
<1> QED
  BY <1>1, <1>2

\* A running process is nobody's unfinished child.
LEMMA NoChild ==
    ASSUME Inv, NEW p \in Proc, state[p] # "used", NEW r \in Proc, job[r].pc = "copy"
    PROVE  job[r].np # p
BY ZenonT(30) DEF Inv, Calls, CallInv, Child

\* A step of one running process, outside fork() and wait().
LEMMA StepOne ==
    ASSUME Inv, NEW p \in Proc, state[p] = "run",
           NEW t \in Table, NEW s \in Nat, NEW j \in Call, Becomes(p, t, s, j),
           Good(t, s, j), free' \in Nat, ~panicked',
           free' + Size(t) + Size(j.new) + j.argv =
             free + Size(tab[p]) + Size(job[p].new) + job[p].argv
    PROVE  Inv'
<1>0. Types /\ Calls /\ PagesConserved /\ SpaceExact /\ ~panicked
  BY DEF Inv, NoVmPanic
<1>1. /\ tab'[p] = t /\ sz'[p] = s /\ job'[p] = j
      /\ tf' = tf /\ state' = state
      /\ \A r \in Proc \ {p} :
            tab'[r] = tab[r] /\ sz'[r] = sz[r] /\ job'[r] = job[r]
  BY <1>0 DEF Becomes, Types
<1>2. Types'
  BY <1>0 DEF Types, Becomes
<1>3. \A r \in Proc \ {p} : CallInv(r)' /\ SpaceOf(r)'
  <2>1. Kept({p})
    BY Zenon, <1>1 DEF Kept
  <2>2. \A r \in Proc \ {p} : job[r].pc = "copy" => job[r].np # p
    BY Zenon, NoChild
  <2>3. job'[p].pc # "copy"
    BY ZenonT(30), <1>1 DEF Good
  <2> QED
    BY <1>0, <2>1, <2>2, <2>3, OthersKept
<1>4. CallInv(p)'
  <2>1. state'[p] = "run"
    BY ZenonT(30), <1>1
  <2> QED
    BY ZenonT(30), <1>1, <2>1 DEF CallInv, Good
<1>5. SpaceOf(p)'
  <2>1. InUvmalloc(p)' <=> j.pc \in {"grow", "seg", "stack"}
    BY <1>1 DEF InUvmalloc, At
  <2>2. state'[p] = "run"
    BY <1>1
  <2> QED
    BY ZenonT(30), <1>1, <2>1, <2>2 DEF SpaceOf, Reached, Good
<1>6. PagesConserved'
  <2>1. \A q \in Proc \ {p} :
            /\ tf'[q] = tf[q] /\ tab'[q] = tab[q]
            /\ job'[q].new = job[q].new /\ job'[q].argv = job[q].argv
    BY <1>1
  <2>2. /\ tf[p] \in Nat /\ Size(t) \in Nat /\ Size(j.new) \in Nat /\ j.argv \in Nat
        /\ Size(tab[p]) \in Nat /\ Size(job[p].new) \in Nat /\ job[p].argv \in Nat
        /\ free \in Nat
    <3>1. tab[p] \in Table /\ job[p] \in Call /\ tf[p] \in 0..1 /\ free \in Nat
      BY Zenon, Now
    <3>2. /\ job[p].new \in Table /\ j.new \in Table /\ tf[p] \in Nat
          /\ job[p].argv \in Nat /\ j.argv \in Nat
      BY <3>1, CallIs
    <3> QED
      BY Zenon, <3>1, <3>2, Sizes
  <2>3. /\ Count(p)' = tf[p] + Size(t) + Size(j.new) + j.argv
        /\ Count(p) = tf[p] + Size(tab[p]) + Size(job[p].new) + job[p].argv
    BY Zenon, <1>1 DEF Count
  <2>4. free' + Count(p)' = free + Count(p)
    <3>1. free' + (tf[p] + Size(t) + Size(j.new) + j.argv) =
            free + (tf[p] + Size(tab[p]) + Size(job[p].new) + job[p].argv)
      BY SMT, <2>2, SameSum
    <3> QED
      BY Zenon, <2>3, <3>1
  <2> QED
    BY Zenon, <1>0, <1>2, <2>1, <2>4, Accounts
<1>7. Calls' /\ SpaceExact'
  BY Zenon, <1>3, <1>4, <1>5 DEF Calls, SpaceExact
<1> QED
  BY ZenonT(30), <1>2, <1>6, <1>7 DEF Inv, NoVmPanic

LEMMA Same ==
    ASSUME NEW S, NEW T, NEW f \in [S -> T], NEW x \in S
    PROVE  f = [f EXCEPT ![x] = f[x]]
BY ZenonT(30)

CallBecomes(p, j) == job' = [job EXCEPT ![p] = j] /\ UNCHANGED slot

\* The same when only the call changes.
LEMMA StepCall ==
    ASSUME Inv, NEW p \in Proc, state[p] = "run",
           NEW j \in Call, Good(tab[p], sz[p], j), CallBecomes(p, j),
           free' \in Nat, ~panicked',
           free' + Size(j.new) + j.argv = free + Size(job[p].new) + job[p].argv
    PROVE  Inv'
<1>1. /\ tab[p] \in Table /\ sz[p] \in Nat /\ job[p] \in Call /\ free \in Nat
      /\ tab \in [Proc -> Table] /\ sz \in [Proc -> Nat]
  BY Zenon, Now DEF Inv, Types
<1>2. tab = [tab EXCEPT ![p] = tab[p]] /\ sz = [sz EXCEPT ![p] = sz[p]]
  BY Zenon, <1>1, Same
<1>3. Becomes(p, tab[p], sz[p], j)
  BY <1>2 DEF Becomes, slot, CallBecomes
<1>4. /\ job[p].new \in Table /\ j.new \in Table
      /\ job[p].argv \in Nat /\ j.argv \in Nat
  BY <1>1, CallIs
<1>5. /\ Size(tab[p]) \in Nat /\ Size(job[p].new) \in Nat /\ Size(j.new) \in Nat
  BY Zenon, <1>1, <1>4, Sizes
<1>6. free' + Size(tab[p]) + Size(j.new) + j.argv =
        free + Size(tab[p]) + Size(job[p].new) + job[p].argv
  BY <1>1, <1>4, <1>5
<1> QED
  BY <1>1, <1>3, <1>6, StepOne
-----------------------------------------------------------------------------
\* Facts that the steps of several calls use.

LEMMA MapsPages ==
    ASSUME NEW tb, NEW m, NEW n, Pages(m) = Pages(n), Maps(tb, m)
    PROVE  Maps(tb, n)
BY DEF Maps, VPages, Pages

LEMMA IdleFacts ==
    /\ Idle \in Call /\ Idle.pc = "user" /\ Idle.new = NoTable /\ Idle.nsz = 0
    /\ Idle.a = 0 /\ Idle.argv = 0
<1>1. Initproc \in Proc /\ NoTable \in Table
  BY ZenonT(30), Constants, NoTableFacts
<1> QED
  BY <1>1 DEF Idle, Call

\* uvmalloc() starts.
LEMMA UvmallocStarts ==
    ASSUME NEW old \in Nat, NEW new \in Nat, old <= new
    PROVE  /\ PGROUNDUP(old) \in Nat /\ Aligned(PGROUNDUP(old))
           /\ PGROUNDUP(old) <= PGROUNDUP(new)
           /\ Pages(PGROUNDUP(old)) = Pages(old)
<1>1. Pages(old) <= Pages(new) /\ Pages(old) \in Nat /\ Pages(new) \in Nat
  BY Zenon, PagesMonotone, RoundUp
<1>2. Pages(old) * PGSIZE <= Pages(new) * PGSIZE
  BY ZenonT(30), <1>1, Times, Constants
<1> QED
  BY <1>2, RoundUp, AlignedRound

\* Inside uvmalloc().
LEMMA Growth ==
    ASSUME Inv, NEW p \in Proc, InUvmalloc(p)
    PROVE  /\ state[p] = "run" /\ job[p].pc \in {"grow", "seg", "stack"}
           /\ Target(p) \in Table /\ Size(Target(p)) \in Nat
           /\ job[p].a \in Nat /\ job[p].end \in Nat
           /\ Aligned(job[p].a) /\ Maps(Target(p), job[p].a)
           /\ Pages(job[p].a) <= NPAGE
           /\ job[p].base <= job[p].a /\ job[p].a <= PGROUNDUP(job[p].end)
           /\ job[p].base = PGROUNDUP(IF job[p].pc = "grow" THEN sz[p] ELSE job[p].nsz)
<1>1. state[p] = "run" /\ job[p].pc \in {"grow", "seg", "stack"}
  BY DEF InUvmalloc, At
<1>2. job[p] \in Call /\ Good(tab[p], sz[p], job[p]) /\ tab[p] \in Table
  BY <1>1, Now
<1>3. job[p].a \in Nat /\ job[p].end \in Nat /\ job[p].new \in Table
  BY <1>2, CallIs
<1>4. Target(p) = tab[p] \/ Target(p) = job[p].new
  BY DEF Target
<1>5. Target(p) \in Table /\ Size(Target(p)) \in Nat
  BY ZenonT(30), <1>2, <1>3, <1>4, Sizes
<1>6. Maps(Target(p), job[p].a)
  BY <1>1, <1>2 DEF Good, Target
<1>7. Pages(job[p].a) <= NPAGE
  BY ZenonT(30), <1>3, <1>4, <1>6, FewPages DEF Inv
<1>8. Growing(job[p], IF job[p].pc = "grow" THEN sz[p] ELSE job[p].nsz)
  BY <1>1, <1>2 DEF Good
<1> QED
  BY ZenonT(30), <1>1, <1>3, <1>5, <1>6, <1>7, <1>8 DEF Growing

\* A step that changes the process's own table.
LEMMA StepTable ==
    ASSUME Inv, NEW p \in Proc, state[p] = "run",
           NEW t \in Table, NEW s \in Nat, NEW j \in Call, Becomes(p, t, s, j),
           Good(t, s, j), free' \in Nat, ~panicked',
           j.new = job[p].new, j.argv = job[p].argv,
           free' + Size(t) = free + Size(tab[p])
    PROVE  Inv'
<1>1. tab[p] \in Table /\ job[p] \in Call /\ free \in Nat
  BY Zenon, Now
<1>2. job[p].new \in Table /\ job[p].argv \in Nat
  BY <1>1, CallIs
<1>3. Size(t) \in Nat /\ Size(tab[p]) \in Nat /\ Size(job[p].new) \in Nat
  BY Zenon, <1>1, <1>2, Sizes
<1>4. free' + Size(t) + Size(j.new) + j.argv =
        free + Size(tab[p]) + Size(job[p].new) + job[p].argv
  BY SMTT(30), <1>1, <1>2, <1>3
<1> QED
  BY Zenon, <1>4, StepOne

LEMMA DeallocDown ==
    ASSUME NEW f \in Nat, NEW tb \in Table, NEW old \in Nat, NEW new \in Nat,
           Maps(tb, old), Pages(old) <= NPAGE, new <= old,
           NEW r, r = uvmdealloc(f, tb, old, new)
    PROVE  /\ r.free \in Nat /\ r.tb \in Table /\ ~r.panic
           /\ r.free + Size(r.tb) = f + Size(tb) /\ Maps(r.tb, new)
<1>1. PICK m : m = IF new >= old THEN old ELSE new
  OBVIOUS
<1>2. m = new
  BY <1>1
<1>3. /\ r.free \in Nat /\ r.tb \in Table /\ ~r.panic
      /\ r.free + Size(r.tb) = f + Size(tb) /\ Maps(r.tb, m)
  BY <1>1, DeallocFacts
<1> QED
  BY Zenon, <1>2, <1>3

\* uvmalloc() that runs out of pages undoes exactly what it did.
LEMMA Undone ==
    ASSUME Inv, NEW p \in Proc, InUvmalloc(p),
           NEW r, r = MapNew(free, Target(p), job[p].a \div PGSIZE), ~r.ok,
           NEW u, u = Undo(p, r)
    PROVE  /\ u.free \in Nat /\ u.tb \in Table /\ ~u.panic
           /\ u.free + Size(u.tb) = free + Size(Target(p))
           /\ Maps(u.tb, IF job[p].pc = "grow" THEN sz[p] ELSE job[p].nsz)
<1>1. PICK size : size = IF job[p].pc = "grow" THEN sz[p] ELSE job[p].nsz
  OBVIOUS
<1>2. /\ Target(p) \in Table /\ job[p].a \in Nat /\ Aligned(job[p].a)
      /\ Maps(Target(p), job[p].a) /\ Pages(job[p].a) <= NPAGE
      /\ job[p].base <= job[p].a /\ job[p].base = PGROUNDUP(size)
  BY Zenon, <1>1, Growth
<1>3. free \in Nat /\ job[p] \in Call /\ sz[p] \in Nat
  BY Zenon, Now
<1>4. size \in Nat /\ job[p].base \in Nat
  BY <1>1, <1>3, CallIs
<1>5. /\ r.free \in Nat /\ r.tb \in Table
      /\ r.free + Size(r.tb) = free + Size(Target(p)) /\ Maps(r.tb, job[p].a)
  <2>1. /\ free \in Nat /\ Target(p) \in Table /\ job[p].a \in Nat /\ Aligned(job[p].a)
        /\ Maps(Target(p), job[p].a) /\ Pages(job[p].a) <= NPAGE
    BY Zenon, <1>2, <1>3
  <2> QED
    BY ZenonT(30), <2>1, GrowNext
<1>6. /\ u.free \in Nat /\ u.tb \in Table /\ ~u.panic
      /\ u.free + Size(u.tb) = r.free + Size(r.tb)
      /\ Maps(u.tb, job[p].base)
  <2>1. u = uvmdealloc(r.free, r.tb, job[p].a, job[p].base)
    BY Zenon DEF Undo
  <2>2. /\ r.free \in Nat /\ r.tb \in Table /\ job[p].a \in Nat /\ job[p].base \in Nat
        /\ Maps(r.tb, job[p].a) /\ Pages(job[p].a) <= NPAGE
        /\ job[p].base <= job[p].a
    BY ZenonT(30), <1>2, <1>4, <1>5
  <2> QED
    BY ZenonT(30), <2>1, <2>2, DeallocDown
<1>7. Maps(u.tb, size)
  BY ZenonT(30), <1>2, <1>4, <1>6, AlignedRound, MapsPages
<1> QED
  BY Zenon, <1>1, <1>5, <1>6, <1>7

\* The call ends, with everything it held on the free list again.
LEMMA Returns ==
    ASSUME Inv, NEW p \in Proc, state[p] = "run", job[p].pc \notin {"copy", "grow"},
           Return(p), UNCHANGED slot, ~panicked',
           free' = free + Size(job[p].new) + job[p].argv
    PROVE  Inv'
<1>1. job[p] \in Call /\ Good(tab[p], sz[p], job[p]) /\ free \in Nat
  BY Now
<1>2. job[p].new \in Table /\ job[p].argv \in Nat
  BY <1>1, CallIs
<1>3. Size(job[p].new) \in Nat
  BY <1>2, Sizes
<1>4. CallBecomes(p, Idle)
  BY ZenonT(30) DEF Return, CallBecomes
<1>5. Maps(tab[p], sz[p])
  BY ZenonT(30), <1>1 DEF Good
<1>6. Good(tab[p], sz[p], Idle)
  BY ZenonT(30), <1>5, IdleFacts DEF Good
<1>7. Size(Idle.new) = 0 /\ Idle.argv = 0
  BY IdleFacts, NoTableFacts
<1>8. free' \in Nat
  BY SMTT(30), <1>1, <1>2, <1>3
<1>9. free' + Size(Idle.new) + Idle.argv = free + Size(job[p].new) + job[p].argv
  BY SMTT(30), <1>1, <1>2, <1>3, <1>7
<1> QED
  BY Zenon, <1>4, <1>6, <1>8, <1>9, IdleFacts, StepCall

LEMMA SegmentFacts ==
    ASSUME NEW j \in Call, j.pc = "load", NEW e \in Nat, Maps(j.new, j.nsz)
    PROVE  LET g == Segment(j, e)
           IN  /\ g \in Call /\ g.new = j.new /\ g.argv = j.argv /\ g.nsz = j.nsz
               /\ \/ g.pc = "load"
                  \/ g.pc = "seg" /\ Growing(g, g.nsz) /\ Maps(g.new, g.a)
<1>1. PICK g : g = Segment(j, e)
  OBVIOUS
<1>2. PICK h : h = UvmallocFrom(j, "seg", j.nsz, e)
  OBVIOUS
<1>3. j.nsz \in Nat
  BY CallIs
<1>4. CASE e < j.nsz
  <2>1. g = [j EXCEPT !.segs = @ + 1]
    BY Zenon, <1>1, <1>4 DEF Segment
  <2>2. g \in Call /\ g.new = j.new /\ g.argv = j.argv /\ g.nsz = j.nsz /\ g.pc = "load"
    BY <2>1 DEF Call
  <2> QED
    BY Zenon, <1>1, <2>2
<1>5. CASE ~(e < j.nsz)
  <2>1. g = [h EXCEPT !.segs = @ + 1]
    BY Zenon, <1>1, <1>2, <1>5 DEF Segment
  <2>2. /\ PGROUNDUP(j.nsz) \in Nat /\ Aligned(PGROUNDUP(j.nsz))
        /\ PGROUNDUP(j.nsz) <= PGROUNDUP(e)
        /\ Pages(PGROUNDUP(j.nsz)) = Pages(j.nsz)
    <3>1. j.nsz <= e
      BY <1>3, <1>5
    <3> QED
      BY Zenon, <1>3, <3>1, UvmallocStarts
  <2>3. /\ g \in Call /\ g.pc = "seg" /\ g.new = j.new /\ g.nsz = j.nsz
        /\ g.argv = j.argv /\ g.a = PGROUNDUP(j.nsz)
        /\ g.base = PGROUNDUP(j.nsz) /\ g.end = e
    <3>1. /\ h \in Call /\ h.pc = "seg" /\ h.new = j.new /\ h.nsz = j.nsz
          /\ h.argv = j.argv /\ h.a = PGROUNDUP(j.nsz)
          /\ h.base = PGROUNDUP(j.nsz) /\ h.end = e
      BY ZenonT(30), <1>2, <2>2 DEF Call, UvmallocFrom
    <3> QED
      BY <2>1, <3>1 DEF Call
  <2>4. Maps(g.new, g.a)
    BY Zenon, <2>2, <2>3, MapsPages
  <2>5. Growing(g, g.nsz)
    BY <2>2, <2>3 DEF Growing
  <2> QED
    BY Zenon, <1>1, <2>3, <2>4, <2>5
<1> QED
  BY <1>4, <1>5

LEMMA StackFacts ==
    ASSUME NEW j \in Call, Maps(j.new, j.nsz)
    PROVE  LET g == Stack(j)
           IN  /\ g \in Call /\ g.new = j.new /\ g.argv = j.argv /\ g.pc = "stack"
               /\ Growing(g, g.nsz) /\ Maps(g.new, g.a)
<1>1. PICK g : g = Stack(j)
  OBVIOUS
<1>2. PICK size : size = PGROUNDUP(j.nsz)
  OBVIOUS
<1>3. PICK top : top = size + (USERSTACK + 1) * PGSIZE
  OBVIOUS
<1>4. PICK h : h = UvmallocFrom(j, "stack", size, top)
  OBVIOUS
<1>5. g = [h EXCEPT !.nsz = size]
  BY ZenonT(30), <1>1, <1>2, <1>3, <1>4 DEF Stack
<1>6. /\ size \in Nat /\ PGROUNDUP(size) = size /\ Pages(size) = Pages(j.nsz)
  BY ZenonT(30), <1>2, CallIs, RoundUp, AlignedRound
<1>7. top \in Nat /\ size <= top
  <2>1. (USERSTACK + 1) * PGSIZE \in Nat
    BY SMTT(30), Times, Constants
  <2> QED
    BY SMTT(30), <1>3, <1>6, <2>1
<1>8. Aligned(size) /\ size <= PGROUNDUP(top)
  BY <1>6, <1>7, UvmallocStarts
<1>9. /\ g \in Call /\ g.pc = "stack" /\ g.new = j.new /\ g.nsz = size
      /\ g.argv = j.argv /\ g.a = size /\ g.base = size /\ g.end = top
  <2>1. /\ h \in Call /\ h.pc = "stack" /\ h.new = j.new
        /\ h.argv = j.argv /\ h.a = size /\ h.base = size /\ h.end = top
    BY ZenonT(30), <1>4, <1>6, <1>7 DEF Call, UvmallocFrom
  <2> QED
    BY <1>5, <1>6, <2>1 DEF Call
<1>10. Maps(g.new, g.a)
  BY Zenon, <1>6, <1>9, MapsPages
<1>11. Growing(g, g.nsz)
  BY <1>6, <1>8, <1>9 DEF Growing
<1> QED
  BY Zenon, <1>1, <1>9, <1>10, <1>11

LEMMA Conclude ==
    ASSUME Inv, Types', ~panicked', PagesConserved', NEW C, Kept(C),
           \A r \in Proc \ C : job[r].pc = "copy" =>
               /\ job[r].np \notin C
               /\ \A c \in C : job'[c].pc = "copy" => job'[c].np # job[r].np,
           \A r \in C : CallInv(r)' /\ SpaceOf(r)'
    PROVE  Inv'
<1>1. Types /\ Calls /\ SpaceExact /\ ~panicked
  BY DEF Inv, NoVmPanic
<1>2. \A r \in Proc \ C : CallInv(r)' /\ SpaceOf(r)'
  BY Zenon, <1>1, OthersKept
<1>3. Calls' /\ SpaceExact'
  BY Zenon, <1>2 DEF Calls, SpaceExact
<1> QED
  BY ZenonT(30), <1>3 DEF Inv, NoVmPanic

LEMMA WalkLevelRoom ==
    ASSUME NEW r \in Res, r.ok, NEW n \in Nat, r.free >= n + 1, NEW k
    PROVE  WalkLevel(r, k).ok /\ WalkLevel(r, k).free >= n
<1>1. r.free \in Nat /\ r.free # 0 /\ r.free - 1 >= n
  BY DEF Res
<1>2. CASE k \in r.tb.node
  <2>1. WalkLevel(r, k) = r
    BY Zenon, <1>2 DEF WalkLevel
  <2> QED
    BY <1>1, <2>1
<1>3. CASE k \notin r.tb.node
  <2>1. WalkLevel(r, k) = [r EXCEPT !.free = r.free - 1, !.tb.node = @ \cup {k}]
    BY Zenon, <1>1, <1>3 DEF WalkLevel, kalloc
  <2> QED
    BY <1>1, <2>1 DEF Res
<1> QED
  BY SMTT(30), <1>2, <1>3

LEMMA MapRoom ==
    ASSUME NEW f \in Nat, NEW tb \in Table, NEW v \in Nat, v \notin tb.leaf,
           NEW n \in Nat, f >= n + 2
    PROVE  mappages(f, tb, v).ok /\ mappages(f, tb, v).free >= n
<1>1. PICK r : r = Result(f, tb, TRUE, FALSE)
  BY Zenon
<1>2. Walked(r, f, tb) /\ r.ok /\ r.free >= (n + 1) + 1 /\ n + 1 \in Nat
  BY <1>1 DEF Walked, Result, Res
<1>3. PICK s : s = WalkLevel(r, PX(v)[1])
  OBVIOUS
<1>4. PICK w : w = WalkLevel(s, PX(v)[2])
  OBVIOUS
<1>5. v \div (FANOUT * FANOUT) \in Nat /\ v \div FANOUT \in Nat
  <2>1. FANOUT * FANOUT \in Nat /\ FANOUT * FANOUT > 0 /\ FANOUT \in Nat /\ FANOUT > 0
    BY MemoryAssumption
  <2>2. ASSUME NEW d \in Nat, d > 0 PROVE v \div d \in Nat
    BY SMTT(30), <2>2
  <2> QED
    BY SMTT(30), <2>1, <2>2
<1>6. PX(v)[1] \in Nat \X Nat
  BY <1>5 DEF PX
<1>7. Walked(s, f, tb)
  BY Zenon, <1>2, <1>3, <1>6, WalkLevelFacts
<1>8. s.ok /\ s.free >= n + 1
  BY Zenon, <1>2, <1>3, WalkLevelRoom DEF Walked
<1>9. w.ok /\ w.free >= n
  BY ZenonT(30), <1>4, <1>7, <1>8, WalkLevelRoom DEF Walked
<1>10. w = walk(f, tb, v) /\ w \in Res
  <2>1. w = walk(f, tb, v)
    BY ZenonT(30), <1>1, <1>3, <1>4 DEF walk
  <2> QED
    BY <2>1, WalkFacts DEF Walked
<1>11. (v \in tb.leaf) = FALSE
  OBVIOUS
<1>12. mappages(f, tb, v) = [w EXCEPT !.tb.leaf = @ \cup {v}, !.panic = FALSE]
  BY Zenon, <1>9, <1>10, <1>11 DEF mappages
<1> QED
  BY SMTT(30), <1>9, <1>10, <1>12 DEF Res

LEMMA PagetableRoom ==
    ASSUME NEW f \in Nat, NEW n \in Nat, f >= n + 5
    PROVE  proc_pagetable(f).ok /\ proc_pagetable(f).free >= n
<1>1. PICK b : b = [NoTable EXCEPT !.node = {Root}]
  BY Zenon
<1>2. /\ b \in Table /\ b.leaf = {} /\ f - 1 \in Nat /\ f # 0
      /\ n + 2 \in Nat /\ f - 1 >= (n + 2) + 2
  <2>1. b = [node |-> {Root}, leaf |-> {}] /\ Root \in Nat \X Nat
    BY Zenon, <1>1 DEF NoTable, Root
  <2>2. IsFiniteSet({Root}) /\ IsFiniteSet({})
    BY FS_Singleton, FS_EmptySet
  <2> QED
    BY <2>1, <2>2 DEF Table
<1>3. PICK t : t = mappages(f - 1, b, TRAMPOLINE)
  OBVIOUS
<1>4. TRAMPOLINE \in Nat /\ TRAMPOLINE \notin b.leaf
  BY <1>2, Constants
<1>5. t.ok /\ t.free >= n + 2
  BY Zenon, <1>2, <1>3, <1>4, MapRoom
<1>6. t \in Res /\ t.tb.leaf = IF t.ok THEN b.leaf \cup {TRAMPOLINE} ELSE b.leaf
  BY ZenonT(30), <1>2, <1>3, <1>4, MapFacts
<1>7. /\ t.free \in Nat /\ t.tb \in Table /\ TRAPFRAME \in Nat
      /\ TRAPFRAME \notin t.tb.leaf
  BY <1>2, <1>5, <1>6, Constants DEF Res
<1>8. PICK u : u = mappages(t.free, t.tb, TRAPFRAME)
  OBVIOUS
<1>9. u.ok /\ u.free >= n
  BY Zenon, <1>5, <1>7, <1>8, MapRoom
<1>10. proc_pagetable(f) = u
  BY ZenonT(30), <1>1, <1>2, <1>3, <1>5, <1>8, <1>9 DEF proc_pagetable, kalloc
<1> QED
  BY Zenon, <1>9, <1>10

LEMMA MapNewRoom ==
    ASSUME NEW f \in Nat, NEW tb \in Table, NEW v \in Nat, v \notin tb.leaf, f >= 3
    PROVE  MapNew(f, tb, v).ok
<1>1. f - 1 \in Nat /\ 0 \in Nat /\ f - 1 >= 0 + 2 /\ f # 0
  OBVIOUS
<1>2. mappages(f - 1, tb, v).ok
  BY Zenon, <1>1, MapRoom
<1> QED
  BY Zenon, <1>1, <1>2 DEF MapNew, kalloc
=============================================================================
