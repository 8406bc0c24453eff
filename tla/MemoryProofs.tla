---------------------------- MODULE MemoryProofs ----------------------------
(***************************************************************************)
(* Memory, for any number of processes and pages and any page size: no     *)
(* page is lost or freed twice, p->sz says what p->pagetable maps, and     *)
(* none of the assertions of vm.c and exec.c fails.                        *)
(***************************************************************************)
EXTENDS MemoryAccounts
-----------------------------------------------------------------------------
\* sbrk().

LEMMA ActGrowproc ==
    ASSUME Inv, NEW p \in Proc, NEW n \in 1..MaxSz, growproc(p, n)
    PROVE  Inv'
<1>1. PICK j : j = UvmallocFrom(job[p], "grow", sz[p], sz[p] + n)
  OBVIOUS
<1>2. /\ state[p] = "run" /\ job[p].pc = "user" /\ CallBecomes(p, j)
      /\ free' = free /\ panicked' = panicked
  BY <1>1 DEF growproc, At, CallBecomes
<1>3. /\ job[p] \in Call /\ sz[p] \in Nat /\ Good(tab[p], sz[p], job[p])
      /\ free \in Nat /\ ~panicked
  BY <1>2, Now
<1>4. sz[p] + n \in Nat /\ sz[p] <= sz[p] + n
  BY <1>3, Constants
<1>5. /\ PGROUNDUP(sz[p]) \in Nat /\ Aligned(PGROUNDUP(sz[p]))
      /\ PGROUNDUP(sz[p]) <= PGROUNDUP(sz[p] + n)
      /\ Pages(PGROUNDUP(sz[p])) = Pages(sz[p])
  BY Zenon, <1>3, <1>4, UvmallocStarts
<1>6. /\ j \in Call /\ j.pc = "grow" /\ j.new = job[p].new /\ j.nsz = job[p].nsz
      /\ j.argv = job[p].argv /\ j.a = PGROUNDUP(sz[p]) /\ j.base = PGROUNDUP(sz[p])
      /\ j.end = sz[p] + n
  BY ZenonT(30), <1>1, <1>3, <1>4, <1>5 DEF Call, UvmallocFrom
<1>7. Growing(j, sz[p])
  BY <1>5, <1>6 DEF Growing
<1>8. Maps(tab[p], j.a)
  <2>1. Maps(tab[p], sz[p])
    BY <1>2, <1>3 DEF Good
  <2> QED
    BY Zenon, <1>5, <1>6, <2>1, MapsPages
<1>9. Good(tab[p], sz[p], j)
  BY <1>2, <1>3, <1>6, <1>7, <1>8 DEF Good
<1> QED
  BY ZenonT(30), <1>2, <1>3, <1>6, <1>9, StepCall

LEMMA ActShrink ==
    ASSUME Inv, NEW p \in Proc, NEW n \in 1..MaxSz, growproc_shrink(p, -n)
    PROVE  Inv'
<1>1. PICK newsz : newsz = (sz[p] + (-n)) % UINT64
  OBVIOUS
<1>2. PICK r : r = uvmdealloc(free, tab[p], sz[p], newsz)
  OBVIOUS
<1>3. PICK s : s = IF newsz >= sz[p] THEN sz[p] ELSE newsz
  OBVIOUS
<1>4. /\ state[p] = "run" /\ job[p].pc = "user"
      /\ free' = r.free /\ tab' = [tab EXCEPT ![p] = r.tb]
      /\ sz' = [sz EXCEPT ![p] = s] /\ panicked' = r.panic
      /\ UNCHANGED <<tf, state, job>>
  BY <1>1, <1>2, <1>3 DEF growproc_shrink, At
<1>5. /\ job[p] \in Call /\ sz[p] \in Nat /\ tab[p] \in Table
      /\ Good(tab[p], sz[p], job[p]) /\ free \in Nat
  BY <1>4, Now
<1>6. newsz \in Nat
  BY SMTT(30), <1>1, <1>5, MemoryAssumption
<1>7. Maps(tab[p], sz[p])
  BY <1>4, <1>5 DEF Good
<1>8. Pages(sz[p]) <= NPAGE
  BY SMTT(30), <1>5, <1>7, FewPages DEF Inv
<1>9. /\ r.free \in Nat /\ r.tb \in Table /\ ~r.panic
      /\ r.free + Size(r.tb) = free + Size(tab[p]) /\ Maps(r.tb, s)
  BY SMTT(30), <1>2, <1>3, <1>5, <1>6, <1>7, <1>8, DeallocFacts
<1>10. Becomes(p, r.tb, s, job[p])
  <2>1. job = [job EXCEPT ![p] = job[p]]
    BY SMTT(30), Same DEF Inv, Types
  <2> QED
    BY <1>4, <2>1 DEF Becomes
<1>11. Good(r.tb, s, job[p])
  BY SMTT(30), <1>4, <1>5, <1>9 DEF Good
<1>12. s \in Nat
  BY <1>3, <1>5, <1>6
<1> QED
  BY ZenonT(30), <1>4, <1>5, <1>9, <1>10, <1>11, <1>12, StepTable

LEMMA ActUvmalloc ==
    ASSUME Inv, NEW p \in Proc, uvmalloc(p)
    PROVE  Inv'
<1>1. PICK r : r = MapNew(free, Target(p), job[p].a \div PGSIZE)
  OBVIOUS
<1>2. PICK k : k = [job[p] EXCEPT !.a = @ + PGSIZE]
  BY ZenonT(30)
<1>3. /\ InUvmalloc(p) /\ job[p].a < job[p].end /\ r.ok /\ free' = r.free
      /\ SetTarget(p, r.tb, k) /\ panicked' = r.panic /\ UNCHANGED <<sz, tf, state>>
  BY <1>1, <1>2 DEF uvmalloc
<1>4. /\ state[p] = "run" /\ job[p].pc \in {"grow", "seg", "stack"}
      /\ Target(p) \in Table /\ job[p].a \in Nat /\ job[p].end \in Nat
      /\ Aligned(job[p].a) /\ Maps(Target(p), job[p].a)
      /\ Pages(job[p].a) <= NPAGE
  BY Zenon, <1>3, Growth
<1>5. /\ tab[p] \in Table /\ sz[p] \in Nat /\ job[p] \in Call /\ free \in Nat
      /\ Good(tab[p], sz[p], job[p])
  BY ZenonT(30), <1>4, Now
<1>6. /\ r.free \in Nat /\ r.tb \in Table /\ ~r.panic
      /\ r.free + Size(r.tb) = free + Size(Target(p))
      /\ Maps(r.tb, job[p].a + PGSIZE)
  BY <1>1, <1>3, <1>4, <1>5, GrowNext
<1>7. /\ job[p].a + PGSIZE \in Nat /\ Aligned(job[p].a + PGSIZE)
      /\ job[p].a + PGSIZE <= PGROUNDUP(job[p].end)
  BY Zenon, <1>3, <1>4, NextPage, PageBelow
<1>8. /\ k \in Call /\ k.pc = job[p].pc /\ k.new = job[p].new /\ k.nsz = job[p].nsz
      /\ k.argv = job[p].argv /\ k.a = job[p].a + PGSIZE
      /\ k.base = job[p].base /\ k.end = job[p].end
  BY ZenonT(30), <1>2, <1>5, <1>7 DEF Call
<1>9. ASSUME NEW size, Growing(job[p], size) PROVE Growing(k, size)
  <2>1. job[p].base <= job[p].a + PGSIZE
    BY SMTT(30), <1>4, <1>5, <1>9, CallIs, Constants DEF Growing
  <2> QED
    BY ZenonT(30), <1>7, <1>8, <1>9, <2>1 DEF Growing
<1>10. CASE job[p].pc = "grow"
  <2>1. Target(p) = tab[p] /\ Becomes(p, r.tb, sz[p], k)
    <3>1. sz = [sz EXCEPT ![p] = sz[p]]
      BY SMTT(30), Same DEF Inv, Types
    <3> QED
      BY <1>3, <1>10, <3>1 DEF Becomes, SetTarget, Target
  <2>2. Good(r.tb, sz[p], k)
    BY ZenonT(30), <1>5, <1>6, <1>8, <1>9, <1>10 DEF Good
  <2> QED
    BY ZenonT(30), <1>3, <1>4, <1>5, <1>6, <1>8, <2>1, <2>2, StepTable
<1>11. CASE job[p].pc # "grow"
  <2>1. PICK j : j = [k EXCEPT !.new = r.tb]
    BY Zenon
  <2>2. Target(p) = job[p].new /\ CallBecomes(p, j)
    BY <1>3, <1>11, <2>1 DEF CallBecomes, SetTarget, Target, slot
  <2>3. /\ j \in Call /\ j.pc = k.pc /\ j.new = r.tb /\ j.nsz = k.nsz
        /\ j.argv = k.argv /\ j.a = k.a /\ j.base = k.base /\ j.end = k.end
    BY <1>6, <1>8, <2>1 DEF Call
  <2>4. Good(tab[p], sz[p], j)
    BY ZenonT(30), <1>4, <1>5, <1>6, <1>8, <1>9, <1>11, <2>3 DEF Good, Growing
  <2>5. free' + Size(j.new) + j.argv = free + Size(job[p].new) + job[p].argv
    BY <1>3, <1>6, <1>8, <2>2, <2>3
  <2> QED
    BY ZenonT(30), <1>3, <1>4, <1>6, <2>2, <2>3, <2>4, <2>5, StepCall
<1> QED
  BY <1>10, <1>11

LEMMA ActGrowFail ==
    ASSUME Inv, NEW p \in Proc, growproc_fail(p)
    PROVE  Inv'
<1>1. PICK r : r = MapNew(free, tab[p], job[p].a \div PGSIZE)
  OBVIOUS
<1>2. PICK u : u = Undo(p, r)
  OBVIOUS
<1>3. /\ state[p] = "run" /\ job[p].pc = "grow" /\ InUvmalloc(p) /\ ~r.ok
      /\ free' = u.free /\ tab' = [tab EXCEPT ![p] = u.tb]
      /\ panicked' = u.panic /\ job' = [job EXCEPT ![p] = Idle]
      /\ UNCHANGED <<sz, tf, state>>
  BY <1>1, <1>2 DEF growproc_fail, At, InUvmalloc, Return
<1>4. Target(p) = tab[p]
  BY ZenonT(30), <1>3 DEF Target
<1>5. /\ u.free \in Nat /\ u.tb \in Table /\ ~u.panic
      /\ u.free + Size(u.tb) = free + Size(tab[p]) /\ Maps(u.tb, sz[p])
  BY SMTT(30), <1>1, <1>2, <1>3, <1>4, Undone
<1>6. Becomes(p, u.tb, sz[p], Idle)
  <2>1. sz = [sz EXCEPT ![p] = sz[p]]
    BY Same DEF Inv, Types
  <2> QED
    BY ZenonT(30), <1>3, <2>1 DEF Becomes
<1>7. /\ sz[p] \in Nat /\ Good(tab[p], sz[p], job[p])
  BY <1>3, Now
<1>8. Good(u.tb, sz[p], Idle)
  BY ZenonT(30), <1>5, IdleFacts DEF Good
<1>9. Idle.new = job[p].new /\ Idle.argv = job[p].argv
  BY ZenonT(30), <1>3, <1>7, IdleFacts DEF Good
<1> QED
  BY ZenonT(30), <1>3, <1>5, <1>6, <1>7, <1>8, <1>9, IdleFacts, StepTable

LEMMA ActGrowDone ==
    ASSUME Inv, NEW p \in Proc, growproc_done(p)
    PROVE  Inv'
<1>1. /\ state[p] = "run" /\ job[p].pc = "grow" /\ InUvmalloc(p)
      /\ job[p].a >= job[p].end /\ sz' = [sz EXCEPT ![p] = job[p].end]
      /\ job' = [job EXCEPT ![p] = Idle]
      /\ UNCHANGED <<free, tab, tf, state, panicked>>
  BY DEF growproc_done, At, InUvmalloc, Return
<1>2. /\ job[p].a \in Nat /\ job[p].end \in Nat /\ Aligned(job[p].a)
      /\ Maps(Target(p), job[p].a) /\ job[p].a <= PGROUNDUP(job[p].end)
  BY Zenon, <1>1, Growth
<1>3. Maps(tab[p], job[p].end)
  <2>1. Pages(job[p].a) = Pages(job[p].end)
    BY SMTT(30), <1>1, <1>2, PageReached
  <2>2. Target(p) = tab[p]
    BY <1>1 DEF Target
  <2> QED
    BY ZenonT(30), <1>2, <2>1, <2>2, MapsPages
<1>4. Becomes(p, tab[p], job[p].end, Idle)
  <2>1. tab = [tab EXCEPT ![p] = tab[p]]
    BY SMTT(30), Same DEF Inv, Types
  <2> QED
    BY <1>1, <2>1 DEF Becomes
<1>5. /\ tab[p] \in Table /\ Good(tab[p], sz[p], job[p]) /\ free \in Nat /\ ~panicked
  BY <1>1, Now
<1>6. Good(tab[p], job[p].end, Idle)
  BY SMTT(30), <1>3, IdleFacts DEF Good
<1>7. Idle.new = job[p].new /\ Idle.argv = job[p].argv
  BY ZenonT(30), <1>1, <1>5, IdleFacts DEF Good
<1> QED
  BY ZenonT(30), <1>1, <1>2, <1>4, <1>5, <1>6, <1>7, IdleFacts, StepTable
-----------------------------------------------------------------------------
\* exec().

LEMMA ActSysExec ==
    ASSUME Inv, NEW p \in Proc, sys_exec(p)
    PROVE  Inv'
<1>1. PICK j : j = [job[p] EXCEPT !.pc = "argv"]
  BY ZenonT(30)
<1>2. /\ state[p] = "run" /\ job[p].pc = "user" /\ CallBecomes(p, j)
      /\ free' = free /\ panicked' = panicked
  BY <1>1 DEF sys_exec, At, CallBecomes
<1>3. job[p] \in Call /\ Good(tab[p], sz[p], job[p]) /\ free \in Nat /\ ~panicked
  BY <1>2, Now
<1>4. /\ j \in Call /\ j.pc = "argv" /\ j.new = job[p].new /\ j.nsz = job[p].nsz
      /\ j.argv = job[p].argv
  BY <1>1, <1>3 DEF Call
<1>5. Good(tab[p], sz[p], j)
  BY <1>2, <1>3, <1>4 DEF Good
<1> QED
  BY <1>2, <1>3, <1>4, <1>5, StepCall

LEMMA ActArg ==
    ASSUME Inv, NEW p \in Proc, sys_exec_arg(p)
    PROVE  Inv'
<1>1. PICK j : j = [job[p] EXCEPT !.argv = @ + 1]
  BY ZenonT(30)
<1>2. /\ state[p] = "run" /\ job[p].pc = "argv" /\ CallBecomes(p, j)
      /\ free > 0 /\ free' = free - 1 /\ panicked' = panicked
  BY <1>1 DEF sys_exec_arg, At, CallBecomes, kalloc
<1>3. job[p] \in Call /\ Good(tab[p], sz[p], job[p]) /\ free \in Nat /\ ~panicked
  BY ZenonT(30), <1>2, Now
<1>4. /\ j \in Call /\ j.pc = "argv" /\ j.new = job[p].new /\ j.nsz = job[p].nsz
      /\ j.argv = job[p].argv + 1 /\ job[p].argv \in Nat /\ job[p].new \in Table
  BY <1>1, <1>2, <1>3 DEF Call
<1>5. Good(tab[p], sz[p], j)
  BY ZenonT(30), <1>2, <1>3, <1>4 DEF Good
<1>6. free' + Size(j.new) + j.argv = free + Size(job[p].new) + job[p].argv
  <2>1. Size(job[p].new) \in Nat
    BY SMTT(30), <1>4, Sizes
  <2> QED
    BY SMTT(30), <1>2, <1>3, <1>4, <2>1
<1>7. free' \in Nat
  BY <1>2, <1>3
<1> QED
  BY ZenonT(30), <1>2, <1>3, <1>4, <1>5, <1>6, <1>7, StepCall

LEMMA ActArgBad ==
    ASSUME Inv, NEW p \in Proc, sys_exec_bad(p)
    PROVE  Inv'
<1>1. /\ state[p] = "run" /\ job[p].pc = "argv" /\ Return(p) /\ UNCHANGED slot
      /\ free' = free + job[p].argv /\ panicked' = panicked
  BY DEF sys_exec_bad, At, kfree
<1>2. Good(tab[p], sz[p], job[p]) /\ free \in Nat /\ ~panicked
  BY SMTT(30), <1>1, Now
<1>3. Size(job[p].new) = 0
  BY ZenonT(30), <1>1, <1>2, NoTableFacts DEF Good
<1>4. free' = free + Size(job[p].new) + job[p].argv
  BY <1>1, <1>2, <1>3
<1> QED
  BY <1>1, <1>2, <1>4, Returns

LEMMA ActExec ==
    ASSUME Inv, NEW p \in Proc, exec(p)
    PROVE  Inv'
<1>1. PICK r : r = proc_pagetable(free)
  OBVIOUS
<1>2. /\ state[p] = "run" /\ job[p].pc = "argv" /\ UNCHANGED slot
      /\ panicked' = r.panic
  BY SMTT(30), <1>1 DEF exec, At
<1>3. /\ job[p] \in Call /\ Good(tab[p], sz[p], job[p]) /\ free \in Nat
  BY <1>2, Now
<1>4. /\ ~r.panic
      /\ r.ok => /\ r.free \in Nat /\ r.tb \in Table /\ Maps(r.tb, 0)
                 /\ r.free + Size(r.tb) = free
      /\ ~r.ok => r.free = free
  BY Zenon, <1>1, <1>3, PagetableFacts
<1>5. Size(job[p].new) = 0 /\ job[p].nsz = 0 /\ job[p].argv \in Nat
  BY ZenonT(30), <1>2, <1>3, NoTableFacts, CallIs DEF Good
<1>6. CASE r.ok
  <2>1. PICK j : j = [job[p] EXCEPT !.pc = "load", !.new = r.tb]
    OBVIOUS
  <2>2. free' = r.free /\ CallBecomes(p, j)
    BY Zenon, <1>1, <1>2, <1>6, <2>1 DEF exec, CallBecomes
  <2>3. /\ j \in Call /\ j.pc = "load" /\ j.new = r.tb /\ j.nsz = job[p].nsz
        /\ j.argv = job[p].argv
    BY ZenonT(30), <1>3, <1>4, <1>6, <2>1 DEF Call
  <2>4. Maps(j.new, j.nsz) /\ Maps(tab[p], sz[p])
    BY ZenonT(30), <1>2, <1>3, <1>4, <1>5, <1>6, <2>3 DEF Good
  <2>5. Good(tab[p], sz[p], j)
    BY ZenonT(30), <2>3, <2>4 DEF Good
  <2>6. free' + Size(j.new) + j.argv = free + Size(job[p].new) + job[p].argv
    BY SMTT(30), <1>3, <1>4, <1>5, <1>6, <2>2, <2>3
  <2> QED
    BY ZenonT(30), <1>2, <1>4, <1>6, <2>2, <2>3, <2>5, <2>6, StepCall
<1>7. CASE ~r.ok
  <2>1. free' = r.free + job[p].argv /\ Return(p)
    BY ZenonT(30), <1>1, <1>7 DEF exec, kfree
  <2>2. free' = free + Size(job[p].new) + job[p].argv
    BY SMTT(30), <1>3, <1>4, <1>5, <1>7, <2>1
  <2> QED
    BY <1>2, <1>4, <2>1, <2>2, Returns
<1> QED
  BY <1>6, <1>7

LEMMA ActSegment ==
    ASSUME Inv, NEW p \in Proc, NEW e \in 1..MaxSz, exec_segment(p, e)
    PROVE  Inv'
<1>1. PICK j : j = Segment(job[p], e)
  OBVIOUS
<1>2. /\ state[p] = "run" /\ job[p].pc = "load" /\ CallBecomes(p, j)
      /\ free' = free /\ panicked' = panicked
  BY ZenonT(30), <1>1 DEF exec_segment, At, CallBecomes
<1>3. /\ job[p] \in Call /\ Good(tab[p], sz[p], job[p]) /\ free \in Nat /\ ~panicked
  BY ZenonT(30), <1>2, Now
<1>4. Maps(job[p].new, job[p].nsz) /\ Maps(tab[p], sz[p]) /\ e \in Nat
  BY <1>2, <1>3 DEF Good
<1>5. /\ j \in Call /\ j.new = job[p].new /\ j.argv = job[p].argv
      /\ j.nsz = job[p].nsz
      /\ \/ j.pc = "load"
         \/ j.pc = "seg" /\ Growing(j, j.nsz) /\ Maps(j.new, j.a)
  BY ZenonT(30), <1>1, <1>2, <1>3, <1>4, SegmentFacts
<1>6. Good(tab[p], sz[p], j)
  BY ZenonT(30), <1>4, <1>5 DEF Good
<1> QED
  BY <1>2, <1>3, <1>5, <1>6, StepCall

LEMMA ActLoadseg ==
    ASSUME Inv, NEW p \in Proc, exec_loadseg(p)
    PROVE  Inv'
<1>1. PICK j : j = [job[p] EXCEPT !.pc = "load", !.nsz = job[p].end]
  OBVIOUS
<1>2. /\ state[p] = "run" /\ job[p].pc = "seg" /\ InUvmalloc(p)
      /\ job[p].a >= job[p].end /\ CallBecomes(p, j) /\ free' = free
      /\ panicked' = ~(VPages(0, job[p].end) \subseteq job[p].new.leaf)
  BY ZenonT(30), <1>1 DEF exec_loadseg, At, InUvmalloc, CallBecomes
<1>3. /\ job[p].a \in Nat /\ job[p].end \in Nat /\ Aligned(job[p].a)
      /\ Maps(Target(p), job[p].a) /\ job[p].a <= PGROUNDUP(job[p].end)
  BY Zenon, <1>2, Growth
<1>4. Maps(job[p].new, job[p].end)
  <2>1. Pages(job[p].a) = Pages(job[p].end)
    BY SMTT(30), <1>2, <1>3, PageReached
  <2>2. Target(p) = job[p].new
    BY <1>2 DEF Target
  <2> QED
    BY ZenonT(30), <1>3, <2>1, <2>2, MapsPages
<1>5. ~panicked'
  <2>1. VPages(0, job[p].end) \subseteq job[p].new.leaf
    BY Zenon, <1>4 DEF Maps
  <2> QED
    BY Zenon, <1>2, <2>1
<1>6. /\ job[p] \in Call /\ Good(tab[p], sz[p], job[p]) /\ free \in Nat
  BY <1>2, Now
<1>7. /\ j \in Call /\ j.pc = "load" /\ j.new = job[p].new /\ j.nsz = job[p].end
      /\ j.argv = job[p].argv
  BY ZenonT(30), <1>1, <1>3, <1>6 DEF Call
<1>8. Good(tab[p], sz[p], j)
  BY Zenon, <1>2, <1>4, <1>6, <1>7 DEF Good
<1> QED
  BY ZenonT(30), <1>2, <1>5, <1>6, <1>7, <1>8, StepCall

LEMMA ActStack ==
    ASSUME Inv, NEW p \in Proc, exec_stack(p)
    PROVE  Inv'
<1>1. PICK j : j = Stack(job[p])
  OBVIOUS
<1>2. /\ state[p] = "run" /\ job[p].pc = "load" /\ CallBecomes(p, j)
      /\ free' = free /\ panicked' = panicked
  BY SMTT(30), <1>1 DEF exec_stack, At, CallBecomes
<1>3. /\ job[p] \in Call /\ Good(tab[p], sz[p], job[p]) /\ free \in Nat /\ ~panicked
  BY ZenonT(30), <1>2, Now
<1>4. Maps(job[p].new, job[p].nsz) /\ Maps(tab[p], sz[p])
  BY <1>2, <1>3 DEF Good
<1>5. /\ j \in Call /\ j.new = job[p].new /\ j.argv = job[p].argv
      /\ j.pc = "stack" /\ Growing(j, j.nsz) /\ Maps(j.new, j.a)
  BY ZenonT(30), <1>1, <1>3, <1>4, StackFacts
<1>6. Good(tab[p], sz[p], j)
  BY SMTT(30), <1>4, <1>5 DEF Good
<1> QED
  BY ZenonT(30), <1>2, <1>3, <1>5, <1>6, StepCall

LEMMA ActStackDone ==
    ASSUME Inv, NEW p \in Proc, exec_stack_done(p)
    PROVE  Inv'
<1>1. PICK j : j = [job[p] EXCEPT !.pc = "push", !.nsz = job[p].end]
  OBVIOUS
<1>2. /\ state[p] = "run" /\ job[p].pc = "stack" /\ InUvmalloc(p)
      /\ job[p].a >= job[p].end /\ CallBecomes(p, j) /\ free' = free
      /\ panicked' = panicked
  BY Zenon, <1>1 DEF exec_stack_done, At, InUvmalloc, CallBecomes
<1>3. /\ job[p].a \in Nat /\ job[p].end \in Nat /\ Aligned(job[p].a)
      /\ Maps(Target(p), job[p].a) /\ job[p].a <= PGROUNDUP(job[p].end)
  BY Zenon, <1>2, Growth
<1>4. Maps(job[p].new, job[p].end)
  <2>1. Pages(job[p].a) = Pages(job[p].end)
    BY <1>2, <1>3, PageReached
  <2>2. Target(p) = job[p].new
    BY <1>2 DEF Target
  <2> QED
    BY <1>3, <2>1, <2>2, MapsPages
<1>5. /\ job[p] \in Call /\ Good(tab[p], sz[p], job[p]) /\ free \in Nat /\ ~panicked
  BY <1>2, Now
<1>6. /\ j \in Call /\ j.pc = "push" /\ j.new = job[p].new /\ j.nsz = job[p].end
      /\ j.argv = job[p].argv
  BY Zenon, <1>1, <1>3, <1>5 DEF Call
<1>7. Good(tab[p], sz[p], j)
  BY <1>2, <1>4, <1>5, <1>6 DEF Good
<1> QED
  BY SMTT(30), <1>2, <1>5, <1>6, <1>7, StepCall

\* exec() fails and gives back the image m, which is as large as sz says.
LEMMA GivesBack ==
    ASSUME Inv, NEW p \in Proc, state[p] = "run", job[p].pc \notin {"copy", "grow"},
           NEW m, m.free \in Nat, m.tb \in Table, ~m.panic,
           m.free + Size(m.tb) = free + Size(job[p].new),
           Maps(m.tb, job[p].nsz), Pages(job[p].nsz) <= NPAGE,
           Bad(p, m), Return(p), UNCHANGED slot
    PROVE  Inv'
<1>1. job[p] \in Call /\ free \in Nat
  BY Zenon, Now
<1>2. job[p].nsz \in Nat /\ job[p].new \in Table /\ job[p].argv \in Nat
  BY ZenonT(30), <1>1, CallIs
<1>3. PICK r : r = proc_freepagetable(m.free, m.tb, job[p].nsz)
  BY ZenonT(30)
<1>4. Pages(job[p].nsz) <= TRAPFRAME
  BY SMTT(30), <1>2, RoundUp, Constants
<1>5. r.free = m.free + Size(m.tb) /\ ~r.panic
  BY Zenon, <1>2, <1>3, <1>4, FreepagetableFacts
<1>6. free' = r.free + job[p].argv /\ (panicked' <=> m.panic \/ r.panic)
  BY Zenon, <1>3 DEF Bad, kfree
<1>7. free' = free + Size(job[p].new) + job[p].argv
  BY Zenon, <1>5, <1>6
<1>8. ~panicked'
  BY Zenon, <1>5, <1>6
<1> QED
  BY Zenon, <1>7, <1>8, Returns

LEMMA ActBad ==
    ASSUME Inv, NEW p \in Proc, exec_bad(p)
    PROVE  Inv'
<1>1. PICK m : m = Result(free, job[p].new, TRUE, FALSE)
  BY ZenonT(30)
<1>2. m.free = free /\ m.tb = job[p].new /\ ~m.panic
  BY <1>1 DEF Result
<1>3. /\ state[p] = "run" /\ job[p].pc \in {"load", "push"}
      /\ Return(p) /\ UNCHANGED slot
  BY DEF exec_bad, At
<1>4. Bad(p, m)
  BY Zenon, <1>1 DEF exec_bad
<1>5. job[p] \in Call /\ free \in Nat /\ Good(tab[p], sz[p], job[p])
  BY <1>3, Now
<1>6. job[p].nsz \in Nat /\ job[p].new \in Table
  BY ZenonT(30), <1>5, CallIs
<1>7. Maps(job[p].new, job[p].nsz)
  BY SMTT(30), <1>3, <1>5 DEF Good
<1>8. Pages(job[p].nsz) <= NPAGE
  BY ZenonT(30), <1>6, <1>7, FewPages DEF Inv
<1>9. job[p].pc \notin {"copy", "grow"}
  BY <1>3
<1> QED
  BY ZenonT(30), <1>2, <1>3, <1>4, <1>5, <1>6, <1>7, <1>8, <1>9, GivesBack

LEMMA ActNomem ==
    ASSUME Inv, NEW p \in Proc, exec_nomem(p)
    PROVE  Inv'
<1>1. PICK r : r = MapNew(free, job[p].new, job[p].a \div PGSIZE)
  BY SMTT(30)
<1>2. PICK u : u = Undo(p, r)
  OBVIOUS
<1>3. /\ state[p] = "run" /\ job[p].pc \in {"seg", "stack"} /\ InUvmalloc(p)
      /\ Return(p) /\ UNCHANGED slot
  BY DEF exec_nomem, At, InUvmalloc
<1>4. ~r.ok /\ Bad(p, u)
  BY ZenonT(30), <1>1, <1>2 DEF exec_nomem
<1>5. Target(p) = job[p].new /\ job[p].pc # "grow"
  BY SMTT(30), <1>3 DEF Target
<1>6. PICK size : size = IF job[p].pc = "grow" THEN sz[p] ELSE job[p].nsz
  OBVIOUS
<1>7. /\ u.free \in Nat /\ u.tb \in Table /\ ~u.panic
      /\ u.free + Size(u.tb) = free + Size(job[p].new) /\ Maps(u.tb, size)
  BY ZenonT(30), <1>1, <1>2, <1>3, <1>4, <1>5, <1>6, Undone
<1>8. size = job[p].nsz
  BY ZenonT(30), <1>5, <1>6
<1>9. Pages(job[p].nsz) <= NPAGE
  <2>1. /\ job[p].a \in Nat /\ Pages(job[p].a) <= NPAGE /\ job[p].base <= job[p].a
        /\ job[p].base = PGROUNDUP(size)
    BY Zenon, <1>3, <1>6, Growth
  <2>2. size \in Nat
    BY SMTT(30), <1>8, Now, CallIs
  <2>3. /\ PGROUNDUP(size) \in Nat /\ Pages(PGROUNDUP(size)) = Pages(size)
    BY SMTT(30), <2>2, RoundUp, AlignedRound
  <2>4. Pages(PGROUNDUP(size)) <= Pages(job[p].a)
    BY ZenonT(30), <2>1, <2>3, PagesMonotone
  <2>5. Pages(size) \in Nat /\ Pages(job[p].a) \in Nat /\ NPAGE \in Nat
    BY ZenonT(30), <2>1, <2>2, RoundUp, Constants
  <2> QED
    BY SMTT(30), <1>8, <2>1, <2>3, <2>4, <2>5
<1>10. job[p].pc \notin {"copy", "grow"}
  BY <1>3
<1> QED
  BY Zenon, <1>3, <1>4, <1>7, <1>8, <1>9, <1>10, GivesBack

LEMMA ActCommit ==
    ASSUME Inv, NEW p \in Proc, exec_commit(p)
    PROVE  Inv'
<1>1. PICK r : r = proc_freepagetable(free, tab[p], sz[p])
  BY ZenonT(30)
<1>2. /\ state[p] = "run" /\ job[p].pc = "push"
      /\ free' = r.free + job[p].argv /\ panicked' = r.panic
      /\ Becomes(p, job[p].new, job[p].nsz, Idle)
  BY ZenonT(30), <1>1 DEF exec_commit, At, kfree, Becomes, Return
<1>3. /\ job[p] \in Call /\ free \in Nat /\ Good(tab[p], sz[p], job[p])
      /\ tab[p] \in Table /\ sz[p] \in Nat
  BY SMTT(30), <1>2, Now
<1>4. job[p].nsz \in Nat /\ job[p].new \in Table /\ job[p].argv \in Nat
  BY ZenonT(30), <1>3, CallIs
<1>5. Maps(job[p].new, job[p].nsz) /\ Maps(tab[p], sz[p])
  BY <1>2, <1>3 DEF Good
<1>6. Pages(sz[p]) <= TRAPFRAME
  <2>1. Pages(sz[p]) <= NPAGE /\ Pages(sz[p]) \in Nat
    BY <1>3, <1>5, FewPages DEF Inv
  <2> QED
    BY SMTT(30), <2>1, Constants
<1>7. r.free = free + Size(tab[p]) /\ ~r.panic
  BY ZenonT(30), <1>1, <1>3, <1>5, <1>6, FreepagetableFacts
<1>8. Good(job[p].new, job[p].nsz, Idle)
  BY ZenonT(30), <1>5, IdleFacts DEF Good
<1>9. Size(tab[p]) \in Nat /\ Size(job[p].new) \in Nat /\ Size(Idle.new) = 0
  BY ZenonT(30), <1>3, <1>4, Sizes, IdleFacts, NoTableFacts
<1>10. free' \in Nat
  BY SMTT(30), <1>2, <1>3, <1>4, <1>7, <1>9
<1>11. free' + Size(job[p].new) + Size(Idle.new) + Idle.argv =
         free + Size(tab[p]) + Size(job[p].new) + job[p].argv
  BY SMTT(30), <1>2, <1>3, <1>4, <1>7, <1>9, IdleFacts
<1>12. ~panicked'
  BY ZenonT(30), <1>2, <1>7
<1> QED
  BY Zenon, <1>2, <1>4, <1>8, <1>10, <1>11, <1>12, IdleFacts, StepOne
-----------------------------------------------------------------------------
\* fork(), exit() and wait(): steps that touch another slot.

\* The pages of slot q change, and no others.
OnlyPagesOf(q) ==
    \A r \in Proc \ {q} :
        /\ tf'[r] = tf[r] /\ tab'[r] = tab[r]
        /\ job'[r].new = job[r].new /\ job'[r].argv = job[r].argv

LEMMA SlotAccounts ==
    ASSUME Types, Types', PagesConserved, NEW q \in Proc, job'[q] = job[q],
           OnlyPagesOf(q),
           free' + tf'[q] + Size(tab'[q]) = free + tf[q] + Size(tab[q])
    PROVE  PagesConserved'
<1>1. /\ free \in Nat /\ free' \in Nat /\ tf[q] \in Nat /\ tf'[q] \in Nat
      /\ tab[q] \in Table /\ tab'[q] \in Table /\ job[q] \in Call
  BY DEF Types
<1>2. job[q].new \in Table /\ job[q].argv \in Nat
  BY <1>1, CallIs
<1>3. Size(tab[q]) \in Nat /\ Size(tab'[q]) \in Nat /\ Size(job[q].new) \in Nat
  BY ZenonT(30), <1>1, <1>2, Sizes
<1>4. PICK a \in Nat : a = tf[q] + Size(tab[q])
  BY <1>1, <1>3
<1>5. PICK b \in Nat : b = tf'[q] + Size(tab'[q])
  BY SMTT(30), <1>1, <1>3
<1>6. PICK c \in Nat : c = Size(job[q].new)
  BY <1>3
<1>7. free' + b = free + a
  BY SMTT(30), <1>1, <1>3, <1>4, <1>5
<1>8. PICK d \in Nat : d = job[q].argv
  BY <1>2
<1>9. free' + Count(q)' = free + Count(q)
  <2>1. ASSUME NEW x \in Nat, NEW y \in Nat, x + b = y + a
        PROVE  x + (b + c + d) = y + (a + c + d)
    BY <2>1
  <2>2. free' + (b + c + d) = free + (a + c + d)
    BY ZenonT(30), <1>1, <1>7, <2>1
  <2> QED
    BY ZenonT(30), <1>4, <1>5, <1>6, <1>8, <2>2 DEF Count
<1> QED
  BY Zenon, <1>9, Accounts DEF OnlyPagesOf

\* A slot that does not run has no call.
LEMMA NotRunning ==
    ASSUME Inv, NEW q \in Proc, state[q] # "run"
    PROVE  job[q] = Idle
BY DEF Inv, Calls, CallInv

\* fork() at work: p, its child q, and the others.
LEMMA Forking ==
    ASSUME Inv, NEW p \in Proc, At(p, "copy"), NEW q, q = job[p].np
    PROVE  /\ q \in Proc /\ q # p /\ state[p] = "run" /\ job[p].pc = "copy"
           /\ state[q] = "used" /\ sz[q] = 0 /\ job[q] = Idle
           /\ job[p].a \in Nat /\ Aligned(job[p].a) /\ job[p].a <= PGROUNDUP(sz[p])
           /\ Maps(tab[p], sz[p]) /\ Maps(tab[q], job[p].a)
           /\ job[p].new = NoTable /\ job[p].nsz = 0 /\ job[p].argv = 0
           /\ \A r \in Proc \ {p, q} : job[r].pc = "copy" => job[r].np \notin {p, q}
<1>1. state[p] = "run" /\ job[p].pc = "copy"
  BY DEF At
<1>2. q \in Proc /\ job[p].a \in Nat
  BY CallIs DEF Inv, Types
<1>3. CallInv(p) /\ SpaceOf(p)
  BY ZenonT(30) DEF Inv, Calls, SpaceExact
<1>4. Child(p) /\ job[p].new = NoTable /\ job[p].nsz = 0 /\ job[p].argv = 0
  BY ZenonT(30), <1>1, <1>3 DEF CallInv
<1>5. Maps(tab[p], sz[p]) /\ Maps(tab[q], job[p].a)
  BY ZenonT(30), <1>1, <1>3 DEF SpaceOf
<1>6. state[q] = "used" /\ q # p
  BY ZenonT(30), <1>1, <1>4 DEF Child
<1>7. job[q] = Idle
  BY SMTT(30), <1>2, <1>6, NotRunning
<1>8. ASSUME NEW r \in Proc \ {p, q}, job[r].pc = "copy" PROVE job[r].np \notin {p, q}
  <2>1. job[r].np # q
    BY <1>4, <1>8 DEF Child
  <2>2. job[r].np # p
    BY ZenonT(30), <1>1, <1>8, NoChild
  <2> QED
    BY ZenonT(30), <2>1, <2>2
<1> QED
  BY ZenonT(30), <1>1, <1>2, <1>4, <1>5, <1>6, <1>7, <1>8 DEF Child

LEMMA ActExit ==
    ASSUME Inv, NEW p \in Proc, exit(p)
    PROVE  Inv'
<1>1. /\ state[p] = "run" /\ job[p].pc = "user"
      /\ state' = [state EXCEPT ![p] = "zombie"]
      /\ free' = free /\ tab' = tab /\ sz' = sz /\ tf' = tf /\ job' = job
      /\ panicked' = panicked
  BY DEF exit, At
<1>2. Types' /\ state'[p] = "zombie"
  BY ZenonT(30), <1>1 DEF Inv, Types
<1>3. PagesConserved'
  BY SMTT(30), <1>1 DEF Inv, PagesConserved, InUse, Held
<1>4. Good(tab[p], sz[p], job[p]) /\ ~panicked
  BY SMTT(30), <1>1, Now
<1>5. CallInv(p)'
  BY ZenonT(30), <1>1, <1>2, <1>4, IdleFacts DEF CallInv, Good
<1>6. SpaceOf(p)'
  BY ZenonT(30), <1>1, <1>2, <1>4 DEF SpaceOf, Good
<1>7. Kept({p})
  BY SMTT(30), <1>1 DEF Kept, Inv, Types
<1>8. \A r \in Proc \ {p} : job[r].pc = "copy" => job[r].np # p
  BY SMTT(30), <1>1, NoChild
<1> QED
  BY ZenonT(30), <1>1, <1>2, <1>3, <1>4, <1>5, <1>6, <1>7, <1>8, Conclude

\* A process in fork() whose child q has a copy of what is below a.
LEMMA CopyInv ==
    ASSUME NEW p \in Proc, NEW q \in Proc, state'[p] = "run",
           job'[p].pc = "copy", job'[p].np = q,
           job'[p].new = NoTable, job'[p].nsz = 0, job'[p].argv = 0,
           state'[q] = "used", sz'[q] = 0, Aligned(job'[p].a),
           job'[p].a <= PGROUNDUP(sz'[p]), Maps(tab'[p], sz'[p]),
           Maps(tab'[q], job'[p].a), job'[q] = Idle,
           \A r \in Proc \ {p, q} : job'[r].pc = "copy" => job'[r].np # q
    PROVE  /\ CallInv(p)' /\ SpaceOf(p)' /\ CallInv(q)' /\ SpaceOf(q)'
<1>1. Child(p)'
  <2>1. job'[q].pc # "copy"
    BY ZenonT(30), IdleFacts
  <2> QED
    BY <2>1 DEF Child
<1>2. CallInv(p)'
  BY ZenonT(30), <1>1 DEF CallInv
<1>3. SpaceOf(p)'
  BY ZenonT(30) DEF SpaceOf
<1>4. CallInv(q)'
  BY ZenonT(30), IdleFacts DEF CallInv
<1>5. SpaceOf(q)'
  BY DEF SpaceOf
<1> QED
  BY ZenonT(30), <1>2, <1>3, <1>4, <1>5

LEMMA ActFork ==
    ASSUME Inv, NEW p \in Proc, NEW q \in Proc, fork(p, q)
    PROVE  Inv'
<1>1. PICK r : r = proc_pagetable(free - 1)
  OBVIOUS
<1>2. /\ state[p] = "run" /\ job[p].pc = "user" /\ state[q] = "unused" /\ p # q
      /\ free > 0 /\ panicked' = r.panic /\ sz' = sz
  BY ZenonT(30), <1>1 DEF fork, At, kalloc
<1>3. /\ job[p] \in Call /\ Good(tab[p], sz[p], job[p]) /\ free \in Nat
      /\ free - 1 \in Nat /\ ~panicked /\ sz[p] \in Nat
  BY <1>2, Now
<1>4. /\ ~r.panic
      /\ r.ok => /\ r.free \in Nat /\ r.tb \in Table /\ Maps(r.tb, 0)
                 /\ r.free + Size(r.tb) = free - 1
      /\ ~r.ok => r.free = free - 1
  BY ZenonT(30), <1>1, <1>3, PagetableFacts
<1>5. CASE ~r.ok
  <2>1. free' = r.free + 1 /\ UNCHANGED <<tab, tf, state, job>>
    BY ZenonT(30), <1>1, <1>5 DEF fork, kalloc, kfree
  <2>2. free' = free
    BY SMTT(30), <1>3, <1>4, <1>5, <2>1
  <2>3. Types' /\ PagesConserved' /\ Kept({})
    BY ZenonT(30), <1>2, <2>1, <2>2 DEF Inv, Types, PagesConserved, InUse, Held, Kept
  <2>4. ~panicked'
    BY ZenonT(30), <1>2, <1>4
  <2> QED
    BY ZenonT(30), <2>3, <2>4, Conclude
<1>6. CASE r.ok
  <2>1. PICK j : j = [job[p] EXCEPT !.pc = "copy", !.np = q]
    OBVIOUS
  <2>2. /\ free' = r.free /\ tab' = [tab EXCEPT ![q] = r.tb]
        /\ tf' = [tf EXCEPT ![q] = 1] /\ state' = [state EXCEPT ![q] = "used"]
        /\ job' = [job EXCEPT ![p] = j]
    BY ZenonT(30), <1>1, <1>6, <2>1 DEF fork, kalloc
  <2>3. job[p] = Idle /\ job[q] = Idle
    BY ZenonT(30), <1>2, <1>3, NotRunning DEF Good
  <2>4. /\ j \in Call /\ j.pc = "copy" /\ j.np = q /\ j.new = NoTable /\ j.nsz = 0
        /\ j.argv = 0 /\ j.a = 0
    BY ZenonT(30), <1>3, <2>1, <2>3, IdleFacts DEF Call
  <2>5. Types'
    BY <1>2, <1>4, <1>6, <2>2, <2>4 DEF Inv, Types
  <2>6. /\ tab'[q] = r.tb /\ tf'[q] = 1 /\ state'[q] = "used" /\ job'[p] = j
        /\ tab'[p] = tab[p] /\ state'[p] = "run" /\ job'[q] = Idle
        /\ \A x \in Proc \ {p} : job'[x] = job[x]
        /\ \A x \in Proc \ {q} : /\ tab'[x] = tab[x] /\ tf'[x] = tf[x]
                                 /\ state'[x] = state[x]
    BY ZenonT(30), <1>2, <2>2, <2>3 DEF Inv, Types
  <2>7. Kept({p, q})
    BY <1>2, <2>6 DEF Kept
  <2>8. SpaceOf(q)
    BY DEF Inv, SpaceExact
  <2>9. tab[q] = NoTable /\ sz[q] = 0 /\ tf[q] = 0
    BY ZenonT(30), <1>2, <2>8 DEF SpaceOf
  <2>10. PagesConserved'
    <3>1. OnlyPagesOf(q)
      BY SMTT(30), <2>3, <2>4, <2>6, IdleFacts DEF OnlyPagesOf
    <3>2. Size(r.tb) \in Nat
      BY ZenonT(30), <1>4, <1>6, Sizes
    <3>3. free' + tf'[q] + Size(tab'[q]) = free + tf[q] + Size(tab[q])
      BY SMTT(30), <1>3, <1>4, <1>6, <2>2, <2>6, <2>9, <3>2, NoTableFacts
    <3> QED
      BY ZenonT(30), <2>3, <2>5, <2>6, <3>1, <3>3, SlotAccounts DEF Inv
  <2>11. \A x \in Proc \ {p, q} : job[x].pc = "copy" => job[x].np \notin {p, q}
    BY ZenonT(30), <1>2, NoChild
  <2>12. /\ Maps(tab[p], sz[p]) /\ 0 <= PGROUNDUP(sz[p]) /\ Aligned(0)
    BY SMTT(30), <1>2, <1>3, RoundUp, NoPages DEF Good
  <2>13. CallInv(p)' /\ SpaceOf(p)' /\ CallInv(q)' /\ SpaceOf(q)'
    <3>1. /\ state'[p] = "run" /\ state'[q] = "used" /\ sz'[q] = 0 /\ sz'[p] = sz[p]
          /\ job'[q] = Idle
      BY Zenon, <1>2, <2>6, <2>9
    <3>2. /\ job'[p].pc = "copy" /\ job'[p].np = q /\ job'[p].new = NoTable
          /\ job'[p].nsz = 0 /\ job'[p].argv = 0 /\ job'[p].a = 0
      BY Zenon, <2>4, <2>6
    <3>3. /\ Aligned(job'[p].a) /\ job'[p].a <= PGROUNDUP(sz'[p])
          /\ Maps(tab'[p], sz'[p]) /\ Maps(tab'[q], job'[p].a)
      BY Zenon, <1>4, <1>6, <2>6, <2>12, <3>1, <3>2
    <3>4. \A x \in Proc \ {p, q} : job'[x].pc = "copy" => job'[x].np # q
      BY Zenon, <2>6, <2>11
    <3> QED
      BY ZenonT(30), <3>1, <3>2, <3>3, <3>4, CopyInv
  <2>14. \A x \in Proc \ {p, q} : job[x].pc = "copy" =>
            /\ job[x].np \notin {p, q}
            /\ \A c \in {p, q} : job'[c].pc = "copy" => job'[c].np # job[x].np
    <3>1. job'[p].np = q /\ job'[q].pc # "copy"
      BY Zenon, <2>4, <2>6, IdleFacts
    <3> QED
      BY Zenon, <2>11, <3>1
  <2> QED
    BY ZenonT(30), <1>2, <1>4, <2>5, <2>7, <2>10, <2>13, <2>14, Conclude
<1> QED
  BY <1>5, <1>6

LEMMA ActCopy ==
    ASSUME Inv, NEW p \in Proc, uvmcopy(p)
    PROVE  Inv'
<1>1. PICK q : q = job[p].np
  OBVIOUS
<1>2. PICK v : v = job[p].a \div PGSIZE
  OBVIOUS
<1>3. PICK r : r = MapNew(free, tab[q], v)
  BY SMTT(30)
<1>4. PICK j : j = [job[p] EXCEPT !.a = @ + PGSIZE]
  BY Zenon
<1>5. /\ At(p, "copy") /\ job[p].a < sz[p] /\ r.ok /\ free' = r.free
      /\ tab' = [tab EXCEPT ![q] = r.tb]
      /\ (panicked' <=> r.panic \/ v \notin tab[p].leaf)
      /\ job' = [job EXCEPT ![p] = j] /\ sz' = sz /\ tf' = tf /\ state' = state
  BY Zenon, <1>1, <1>2, <1>3, <1>4 DEF uvmcopy
<1>6. /\ q \in Proc /\ q # p /\ state[p] = "run" /\ job[p].pc = "copy"
      /\ state[q] = "used" /\ sz[q] = 0 /\ job[q] = Idle
      /\ job[p].a \in Nat /\ Aligned(job[p].a)
      /\ Maps(tab[p], sz[p]) /\ Maps(tab[q], job[p].a)
      /\ job[p].new = NoTable /\ job[p].nsz = 0 /\ job[p].argv = 0
      /\ \A x \in Proc \ {p, q} : job[x].pc = "copy" => job[x].np \notin {p, q}
  BY ZenonT(30), <1>1, <1>5, Forking
<1>7. /\ free \in Nat /\ tab[q] \in Table /\ job[p] \in Call /\ sz[p] \in Nat
  BY Zenon, <1>6, Now
<1>8. Pages(job[p].a) <= NPAGE
  BY <1>6, FewPages DEF Inv
<1>9. /\ r.free \in Nat /\ r.tb \in Table /\ ~r.panic
      /\ r.free + Size(r.tb) = free + Size(tab[q]) /\ Maps(r.tb, job[p].a + PGSIZE)
  BY ZenonT(30), <1>2, <1>3, <1>5, <1>6, <1>7, <1>8, GrowNext
<1>10. /\ job[p].a + PGSIZE \in Nat /\ Aligned(job[p].a + PGSIZE)
       /\ job[p].a + PGSIZE <= PGROUNDUP(sz[p]) /\ Pages(job[p].a) < Pages(sz[p])
  BY Zenon, <1>5, <1>6, <1>7, NextPage, PageBelow
<1>11. v \in tab[p].leaf
  <2>1. v \in Nat /\ v = Pages(job[p].a)
    BY ZenonT(30), <1>2, <1>6, RoundAligned
  <2>2. VPages(0, sz[p]) = 0..(Pages(sz[p]) - 1) /\ Pages(sz[p]) \in Nat
    BY Zenon, <1>7, NoPages, RoundUp DEF VPages, Pages
  <2>3. v \in VPages(0, sz[p])
    BY <1>10, <2>1, <2>2
  <2> QED
    BY ZenonT(30), <1>6, <2>3 DEF Maps
<1>12. ~panicked'
  BY Zenon, <1>5, <1>9, <1>11
<1>13. /\ j \in Call /\ j.pc = "copy" /\ j.np = q /\ j.new = NoTable /\ j.nsz = 0
       /\ j.argv = 0 /\ j.a = job[p].a + PGSIZE
  BY ZenonT(30), <1>1, <1>4, <1>6, <1>7, <1>10 DEF Call
<1>14. Types'
  BY ZenonT(30), <1>5, <1>6, <1>9, <1>13 DEF Inv, Types
<1>15. /\ tab'[q] = r.tb /\ job'[p] = j /\ tab'[p] = tab[p] /\ job'[q] = Idle
       /\ \A x \in Proc \ {p} : job'[x] = job[x]
       /\ \A x \in Proc \ {q} : tab'[x] = tab[x]
  BY ZenonT(30), <1>5, <1>6 DEF Inv, Types
<1>16. Kept({p, q})
  BY ZenonT(30), <1>5, <1>15 DEF Kept
<1>17. PagesConserved'
  <2>1. OnlyPagesOf(q)
    BY SMTT(30), <1>5, <1>6, <1>13, <1>15 DEF OnlyPagesOf
  <2>2. /\ Size(r.tb) \in Nat /\ Size(tab[q]) \in Nat /\ tf[q] \in Nat
    BY SMTT(30), <1>6, <1>7, <1>9, Sizes DEF Inv, Types
  <2>3. free' + tf'[q] + Size(tab'[q]) = free + tf[q] + Size(tab[q])
    BY SMTT(30), <1>5, <1>7, <1>9, <1>15, <2>2
  <2> QED
    BY ZenonT(30), <1>6, <1>14, <1>15, <2>1, <2>3, SlotAccounts DEF Inv
<1>18. CallInv(p)' /\ SpaceOf(p)' /\ CallInv(q)' /\ SpaceOf(q)'
  <2>1. state'[p] = "run" /\ state'[q] = "used" /\ sz'[q] = 0 /\ sz'[p] = sz[p]
    BY Zenon, <1>5, <1>6
  <2>2. /\ job'[p].pc = "copy" /\ job'[p].np = q /\ job'[p].new = NoTable
        /\ job'[p].nsz = 0 /\ job'[p].argv = 0 /\ job'[p].a = job[p].a + PGSIZE
    BY Zenon, <1>13, <1>15
  <2>3. /\ Aligned(job'[p].a) /\ job'[p].a <= PGROUNDUP(sz'[p])
        /\ Maps(tab'[p], sz'[p]) /\ Maps(tab'[q], job'[p].a)
    BY Zenon, <1>6, <1>9, <1>10, <1>15, <2>1, <2>2
  <2>4. \A x \in Proc \ {p, q} : job'[x].pc = "copy" => job'[x].np # q
    BY Zenon, <1>6, <1>15
  <2> QED
    BY ZenonT(30), <1>6, <1>15, <2>1, <2>2, <2>3, <2>4, CopyInv
<1>19. \A x \in Proc \ {p, q} : job[x].pc = "copy" =>
          /\ job[x].np \notin {p, q}
          /\ \A c \in {p, q} : job'[c].pc = "copy" => job'[c].np # job[x].np
  <2>1. job'[p].np = q /\ job'[q].pc # "copy"
    BY Zenon, <1>13, <1>15, IdleFacts
  <2> QED
    BY Zenon, <1>6, <2>1
<1> QED
  BY ZenonT(30), <1>12, <1>14, <1>16, <1>17, <1>18, <1>19, Conclude

\* p frees slot q, of which m is left, and is back in user mode.
LEMMA SlotFreed ==
    ASSUME Inv, NEW p \in Proc, NEW q \in Proc, p # q,
           state[p] = "run", job[p].new = NoTable, job[p].argv = 0,
           Maps(tab[p], sz[p]), state[q] # "run",
           \A x \in Proc \ {p, q} : job[x].pc = "copy" => job[x].np \notin {p, q},
           NEW m, m.free \in Nat, m.tb \in Table, ~m.panic,
           m.free + Size(m.tb) = free + Size(tab[q]),
           Maps(m.tb, sz[q]), Pages(sz[q]) <= NPAGE,
           freeproc(q, m), Return(p)
    PROVE  Inv'
<1>1. PICK r : r = proc_freepagetable(m.free + tf[q], m.tb, sz[q])
  OBVIOUS
<1>2. /\ free' = r.free /\ (panicked' <=> m.panic \/ r.panic)
      /\ tab' = [tab EXCEPT ![q] = NoTable] /\ sz' = [sz EXCEPT ![q] = 0]
      /\ tf' = [tf EXCEPT ![q] = 0] /\ state' = [state EXCEPT ![q] = "unused"]
      /\ job' = [job EXCEPT ![p] = Idle]
  BY ZenonT(30), <1>1 DEF freeproc, Return, kfree
<1>3. /\ tf[q] \in Nat /\ sz[q] \in Nat /\ tab[q] \in Table /\ free \in Nat
      /\ m.free + tf[q] \in Nat
  BY SMTT(30) DEF Inv, Types
<1>4. Pages(sz[q]) <= TRAPFRAME
  BY <1>3, RoundUp, Constants
<1>5. r.free = m.free + tf[q] + Size(m.tb) /\ ~r.panic
  BY Zenon, <1>1, <1>3, <1>4, FreepagetableFacts
<1>6. ~panicked'
  BY Zenon, <1>2, <1>5
<1>7. Size(m.tb) \in Nat /\ Size(tab[q]) \in Nat
  BY ZenonT(30), <1>3, Sizes
<1>8. free' = free + tf[q] + Size(tab[q]) /\ free' \in Nat
  BY SMTT(30), <1>2, <1>3, <1>5, <1>7
<1>9. Types'
  <2>1. /\ tab' \in [Proc -> Table] /\ sz' \in [Proc -> Nat]
        /\ job' \in [Proc -> Call]
    BY ZenonT(30), <1>2, NoTableFacts, IdleFacts DEF Inv, Types
  <2>2. tf' \in [Proc -> 0..1] /\ state' \in [Proc -> {"unused", "used", "run", "zombie"}]
    BY <1>2 DEF Inv, Types
  <2> QED
    BY ZenonT(30), <1>8, <2>1, <2>2 DEF Types
<1>10. job[q] = Idle
  BY ZenonT(30), NotRunning
<1>11. /\ tab'[q] = NoTable /\ sz'[q] = 0 /\ tf'[q] = 0 /\ state'[q] = "unused"
       /\ job'[q] = Idle /\ job'[p] = Idle
       /\ \A x \in Proc \ {q} : /\ tab'[x] = tab[x] /\ sz'[x] = sz[x]
                                /\ tf'[x] = tf[x] /\ state'[x] = state[x]
       /\ \A x \in Proc \ {p} : job'[x] = job[x]
  BY <1>2, <1>10 DEF Inv, Types
<1>12. Kept({p, q})
  BY Zenon, <1>11 DEF Kept
<1>13. PagesConserved'
  <2>1. OnlyPagesOf(q)
    BY ZenonT(30), <1>11, IdleFacts DEF OnlyPagesOf
  <2>2. free' + tf'[q] + Size(tab'[q]) = free + tf[q] + Size(tab[q])
    <3>1. tf'[q] = 0 /\ Size(tab'[q]) = 0
      BY ZenonT(30), <1>11, NoTableFacts
    <3>2. free' + tf'[q] + Size(tab'[q]) = free'
      <4>1. \A n \in Nat : n + 0 + 0 = n
        OBVIOUS
      <4> QED
        BY Zenon, <1>8, <3>1, <4>1
    <3> QED
      BY Zenon, <1>8, <3>2
  <2>3. Types /\ PagesConserved /\ job'[q] = job[q]
    BY ZenonT(30), <1>10, <1>11 DEF Inv
  <2> QED
    BY Zenon, <1>9, <2>1, <2>2, <2>3, SlotAccounts
<1>14. CallInv(p)' /\ CallInv(q)'
  BY ZenonT(30), <1>11, IdleFacts DEF CallInv
<1>15. SpaceOf(q)'
  BY ZenonT(30), <1>11 DEF SpaceOf
<1>16. SpaceOf(p)'
  <2>1. tab'[p] = tab[p] /\ sz'[p] = sz[p] /\ state'[p] = "run"
    BY ZenonT(30), <1>11
  <2> QED
    BY ZenonT(30), <1>11, <2>1, IdleFacts DEF SpaceOf
<1>17. \A x \in Proc \ {p, q} : job[x].pc = "copy" =>
          /\ job[x].np \notin {p, q}
          /\ \A c \in {p, q} : job'[c].pc = "copy" => job'[c].np # job[x].np
  BY <1>11, IdleFacts
<1> QED
  BY Zenon, <1>6, <1>9, <1>12, <1>13, <1>14, <1>15, <1>16, <1>17, Conclude

LEMMA ActCopyFail ==
    ASSUME Inv, NEW p \in Proc, uvmcopy_fail(p)
    PROVE  Inv'
<1>1. PICK q : q = job[p].np
  OBVIOUS
<1>2. PICK r : r = MapNew(free, tab[q], job[p].a \div PGSIZE)
  OBVIOUS
<1>3. PICK u : u = Unmapped(r.free, r.tb, CopiedUpTo(job[p].a))
  OBVIOUS
<1>4. At(p, "copy") /\ ~r.ok /\ freeproc(q, u) /\ Return(p)
  BY Zenon, <1>1, <1>2, <1>3 DEF uvmcopy_fail, Unmapped
<1>5. /\ q \in Proc /\ q # p /\ state[p] = "run"
      /\ state[q] = "used" /\ sz[q] = 0
      /\ job[p].a \in Nat /\ Aligned(job[p].a)
      /\ Maps(tab[p], sz[p]) /\ Maps(tab[q], job[p].a)
      /\ job[p].new = NoTable /\ job[p].argv = 0
      /\ \A x \in Proc \ {p, q} : job[x].pc = "copy" => job[x].np \notin {p, q}
  BY Zenon, <1>1, <1>4, Forking
<1>6. free \in Nat /\ tab[q] \in Table
  BY ZenonT(30), <1>5, Now
<1>7. Pages(job[p].a) <= NPAGE
  BY <1>5, FewPages DEF Inv
<1>8. /\ r.free \in Nat /\ r.tb \in Table
      /\ r.free + Size(r.tb) = free + Size(tab[q]) /\ Maps(r.tb, job[p].a)
  BY Zenon, <1>2, <1>4, <1>5, <1>6, <1>7, GrowNext
<1>9. /\ u.free \in Nat /\ u.tb \in Table /\ ~u.panic
      /\ u.free + Size(u.tb) = r.free + Size(r.tb) /\ Maps(u.tb, 0)
  BY ZenonT(30), <1>3, <1>5, <1>7, <1>8, UncopyFacts
<1>10. Maps(u.tb, sz[q]) /\ Pages(sz[q]) <= NPAGE
  BY SMTT(30), <1>5, <1>9, NoPages, Constants
<1>11. state[q] # "run" /\ u.free + Size(u.tb) = free + Size(tab[q])
  BY Zenon, <1>5, <1>8, <1>9
<1> QED
  BY ZenonT(30), <1>4, <1>5, <1>9, <1>10, <1>11, SlotFreed

LEMMA ActWait ==
    ASSUME Inv, NEW p \in Proc, NEW q \in Proc, wait(p, q)
    PROVE  Inv'
<1>1. PICK m : m = Result(free, tab[q], TRUE, FALSE)
  BY Zenon
<1>2. m.free = free /\ m.tb = tab[q] /\ ~m.panic
  BY <1>1 DEF Result
<1>3. /\ state[p] = "run" /\ job[p].pc = "user" /\ state[q] = "zombie" /\ p # q
      /\ job' = job
  BY DEF wait, At
<1>4. freeproc(q, m)
  BY Zenon, <1>1 DEF wait
<1>5. Good(tab[p], sz[p], job[p]) /\ free \in Nat
  BY ZenonT(30), <1>3, Now
<1>6. /\ job[p] = Idle /\ job[p].new = NoTable /\ job[p].argv = 0 /\ Maps(tab[p], sz[p])
  BY <1>3, <1>5 DEF Good
<1>7. Return(p)
  <2>1. job = [job EXCEPT ![p] = job[p]]
    BY ZenonT(30), Same DEF Inv, Types
  <2> QED
    BY Zenon, <1>3, <1>6, <2>1 DEF Return
<1>8. \A x \in Proc \ {p, q} : job[x].pc = "copy" => job[x].np \notin {p, q}
  BY <1>3, NoChild
<1>9. SpaceOf(q) /\ tab[q] \in Table /\ sz[q] \in Nat
  BY ZenonT(30), Now DEF Inv, SpaceExact
<1>10. Maps(tab[q], sz[q])
  BY ZenonT(30), <1>3, <1>9 DEF SpaceOf
<1>11. Pages(sz[q]) <= NPAGE
  BY ZenonT(30), <1>9, <1>10, FewPages DEF Inv
<1>12. state[q] # "run"
  BY <1>3
<1> QED
  BY ZenonT(30), <1>2, <1>3, <1>4, <1>5, <1>6, <1>7, <1>8, <1>9, <1>10, <1>11, <1>12, SlotFreed

LEMMA ActForkDone ==
    ASSUME Inv, NEW p \in Proc, fork_done(p)
    PROVE  Inv'
<1>1. PICK q : q = job[p].np
  OBVIOUS
<1>2. /\ At(p, "copy") /\ job[p].a >= sz[p]
      /\ sz' = [sz EXCEPT ![q] = sz[p]] /\ state' = [state EXCEPT ![q] = "run"]
      /\ job' = [job EXCEPT ![p] = Idle]
      /\ free' = free /\ tab' = tab /\ tf' = tf /\ panicked' = panicked
  BY <1>1 DEF fork_done, Return
<1>3. /\ q \in Proc /\ q # p /\ state[p] = "run"
      /\ state[q] = "used" /\ job[q] = Idle
      /\ job[p].a \in Nat /\ Aligned(job[p].a) /\ job[p].a <= PGROUNDUP(sz[p])
      /\ Maps(tab[p], sz[p]) /\ Maps(tab[q], job[p].a)
      /\ job[p].new = NoTable /\ job[p].argv = 0
      /\ \A x \in Proc \ {p, q} : job[x].pc = "copy" => job[x].np \notin {p, q}
  BY ZenonT(30), <1>1, <1>2, Forking
<1>4. sz[p] \in Nat /\ ~panicked /\ free \in Nat
  BY Zenon, Now
<1>5. Maps(tab[q], sz[p])
  <2>1. Pages(job[p].a) = Pages(sz[p])
    BY ZenonT(30), <1>2, <1>3, <1>4, PageReached
  <2> QED
    BY ZenonT(30), <1>3, <2>1, MapsPages
<1>6. Types'
  BY ZenonT(30), <1>2, <1>3, <1>4, IdleFacts DEF Inv, Types
<1>7. /\ sz'[q] = sz[p] /\ state'[q] = "run" /\ job'[q] = Idle /\ job'[p] = Idle
      /\ sz'[p] = sz[p] /\ state'[p] = "run"
      /\ \A x \in Proc \ {q} : sz'[x] = sz[x] /\ state'[x] = state[x]
      /\ \A x \in Proc \ {p} : job'[x] = job[x]
  BY SMTT(30), <1>2, <1>3 DEF Inv, Types
<1>8. Kept({p, q})
  BY <1>2, <1>7 DEF Kept
<1>9. PagesConserved'
  <2>1. OnlyPagesOf(q)
    BY SMTT(30), <1>2, <1>3, <1>7, IdleFacts DEF OnlyPagesOf
  <2>2. /\ Types /\ PagesConserved /\ job'[q] = job[q]
        /\ free' + tf'[q] + Size(tab'[q]) = free + tf[q] + Size(tab[q])
    BY ZenonT(30), <1>2, <1>3, <1>7 DEF Inv
  <2> QED
    BY ZenonT(30), <1>3, <1>6, <2>1, <2>2, SlotAccounts
<1>10. CallInv(p)' /\ CallInv(q)'
  BY ZenonT(30), <1>7, IdleFacts DEF CallInv
<1>11. SpaceOf(q)' /\ SpaceOf(p)'
  BY ZenonT(30), <1>2, <1>3, <1>5, <1>7, IdleFacts DEF SpaceOf
<1>12. \A x \in Proc \ {p, q} : job[x].pc = "copy" =>
          /\ job[x].np \notin {p, q}
          /\ \A c \in {p, q} : job'[c].pc = "copy" => job'[c].np # job[x].np
  BY ZenonT(30), <1>3, <1>7, IdleFacts
<1> QED
  BY ZenonT(30), <1>2, <1>4, <1>6, <1>8, <1>9, <1>10, <1>11, <1>12, Conclude
-----------------------------------------------------------------------------
\* userinit() has enough pages.

LEMMA InitInv == Init => Inv
<1> SUFFICES ASSUME Init PROVE Inv
  OBVIOUS
<1>1. PICK first : first = proc_pagetable(NPAGE - 1)
  OBVIOUS
<1>2. PICK mem : mem = MapNew(first.free, first.tb, 0)
  OBVIOUS
<1>3. /\ free = mem.free
      /\ tab = [p \in Proc |-> IF p = Initproc THEN mem.tb ELSE NoTable]
      /\ sz = [p \in Proc |-> IF p = Initproc THEN PGSIZE ELSE 0]
      /\ tf = [p \in Proc |-> IF p = Initproc THEN 1 ELSE 0]
      /\ state = [p \in Proc |-> IF p = Initproc THEN "run" ELSE "unused"]
      /\ job = [p \in Proc |-> Idle] /\ ~panicked
  BY Zenon, <1>1, <1>2 DEF Init, kalloc, uvmfirst
<1>4. /\ NPAGE - 1 \in Nat /\ NPAGE - 1 >= 3 + 5 /\ 3 \in Nat
  BY MemoryAssumption
<1>5. /\ first.ok /\ first.free >= 3
  BY Zenon, <1>1, <1>4, PagetableRoom
<1>6. /\ first.free \in Nat /\ first.tb \in Table /\ Maps(first.tb, 0)
      /\ first.free + Size(first.tb) = NPAGE - 1
  BY ZenonT(30), <1>1, <1>4, <1>5, PagetableFacts
<1>7. 0 \notin first.tb.leaf /\ 0 \in Nat
  BY SMTT(30), <1>6, NoVPages, Constants DEF Maps
<1>8. mem.ok
  BY ZenonT(30), <1>2, <1>5, <1>6, <1>7, MapNewRoom
<1>9. /\ mem.free \in Nat /\ mem.tb \in Table
      /\ mem.free + Size(mem.tb) = NPAGE - 1 /\ Maps(mem.tb, PGSIZE)
  <2>1. PICK v : v = 0 \div PGSIZE
    OBVIOUS
  <2>2. v = 0 /\ 0 + PGSIZE = PGSIZE /\ Pages(0) <= NPAGE /\ Aligned(0)
    BY SMTT(30), <2>1, Constants, NoPages
  <2>3. PICK r : r = MapNew(first.free, first.tb, 0 \div PGSIZE)
    OBVIOUS
  <2>4. /\ r.free \in Nat /\ r.tb \in Table
        /\ r.free + Size(r.tb) = first.free + Size(first.tb)
        /\ (r.ok => Maps(r.tb, 0 + PGSIZE))
    BY ZenonT(30), <1>6, <1>7, <2>2, <2>3, GrowNext
  <2>5. r = mem
    BY Zenon, <1>2, <2>1, <2>2, <2>3
  <2> QED
    BY ZenonT(30), <1>6, <1>8, <2>2, <2>4, <2>5
<1>10. Types
  BY <1>3, <1>9, IdleFacts, NoTableFacts, Constants DEF Types
<1>11. Calls
  BY <1>3, IdleFacts DEF Calls, CallInv
<1>12. SpaceExact
  <2> SUFFICES ASSUME NEW p \in Proc PROVE SpaceOf(p)
    BY DEF SpaceExact
  <2>1. job[p].pc = "user"
    BY ZenonT(30), <1>3, IdleFacts
  <2>2. CASE p = Initproc
    BY ZenonT(30), <1>3, <1>9, <2>1, <2>2 DEF SpaceOf
  <2>3. CASE p # Initproc
    BY <1>3, <2>1, <2>3 DEF SpaceOf
  <2> QED
    BY <2>2, <2>3
<1>13. PagesConserved
  <2>1. \A p \in Proc : /\ IsFiniteSet(Held(p)) /\ Cardinality(Held(p)) = Count(p)
    BY Zenon, <1>10, InUseIs
  <2>2. Initproc \in Proc /\ Size(NoTable) = 0 /\ Idle.new = NoTable /\ Idle.argv = 0
    BY Zenon, Constants, NoTableFacts, IdleFacts
  <2>3. ASSUME NEW p \in Proc, p # Initproc PROVE Held(p) = {}
    <3>1. tf[p] = 0 /\ tab[p] = NoTable /\ job[p] = Idle
      BY ZenonT(30), <1>3, <2>3
    <3>2. Count(p) = 0
      BY <2>2, <3>1 DEF Count
    <3> QED
      BY <2>1, <3>2, FS_EmptySet
  <2>4. Count(Initproc) = 1 + Size(mem.tb) + 0 + 0
    BY <1>3, <2>2 DEF Count
  <2>5. PICK H : H = [p \in Proc |-> {}]
    BY ZenonT(30)
  <2>6. PICK G : G = [p \in Proc |-> Held(p)]
    BY ZenonT(30)
  <2>7. /\ \A p \in Proc : IsFiniteSet(H[p]) /\ IsFiniteSet(G[p])
        /\ \A p \in Proc \ {Initproc} : G[p] = H[p]
    BY <2>1, <2>3, <2>5, <2>6, FS_EmptySet
  <2>8. /\ InUse = UNION {{p} \X G[p] : p \in Proc}
        /\ UNION {{p} \X H[p] : p \in Proc} = {}
    <3>1. \A p \in Proc : G[p] = Held(p) /\ H[p] = {}
      BY Zenon, <2>5, <2>6
    <3> QED
      BY <3>1 DEF InUse
  <2>9. Cardinality(InUse) + Cardinality(H[Initproc]) =
          Cardinality({}) + Cardinality(G[Initproc])
    BY <2>2, <2>7, <2>8, OneChanges
  <2>10. Cardinality(H[Initproc]) = 0 /\ Cardinality({}) = 0
    BY <2>2, <2>5, FS_EmptySet
  <2>11. Cardinality(G[Initproc]) = 1 + Size(mem.tb) + 0 + 0
    BY Zenon, <2>1, <2>2, <2>4, <2>6
  <2>12. Cardinality(InUse) \in Nat /\ Size(mem.tb) \in Nat
    BY ZenonT(30), <1>9, <1>10, InUseIs, FS_CardinalityType, Sizes
  <2>13. Cardinality(InUse) = 1 + Size(mem.tb)
    BY <2>9, <2>10, <2>11, <2>12
  <2>14. mem.free + Cardinality(InUse) = NPAGE
    BY <1>9, <2>12, <2>13, Constants
  <2> QED
    BY Zenon, <1>3, <2>14 DEF PagesConserved
<1> QED
  BY ZenonT(30), <1>3, <1>10, <1>11, <1>12, <1>13 DEF Inv, NoVmPanic

LEMMA StepInv == ASSUME Inv, [Next]_vars PROVE Inv'
<1>1. ASSUME NEW p \in Proc, Step(p) PROVE Inv'
  <2>1. ASSUME NEW n \in 1..MaxSz, growproc(p, n) \/ growproc_shrink(p, -n) PROVE Inv'
    BY Zenon, <2>1, ActGrowproc, ActShrink
  <2>2. CASE uvmalloc(p) \/ growproc_fail(p) \/ growproc_done(p)
    BY Zenon, <2>2, ActUvmalloc, ActGrowFail, ActGrowDone
  <2>3. ASSUME NEW q \in Proc, fork(p, q) \/ wait(p, q) PROVE Inv'
    BY Zenon, <2>3, ActFork, ActWait
  <2>4. CASE uvmcopy(p) \/ uvmcopy_fail(p) \/ fork_done(p) \/ exit(p)
    BY Zenon, <2>4, ActCopy, ActCopyFail, ActForkDone, ActExit
  <2>5. CASE sys_exec(p) \/ sys_exec_arg(p) \/ sys_exec_bad(p) \/ exec(p)
    BY Zenon, <2>5, ActSysExec, ActArg, ActArgBad, ActExec
  <2>6. ASSUME NEW e \in 1..MaxSz, exec_segment(p, e) PROVE Inv'
    BY Zenon, <2>6, ActSegment
  <2>7. CASE exec_loadseg(p) \/ exec_stack(p) \/ exec_stack_done(p)
    BY Zenon, <2>7, ActLoadseg, ActStack, ActStackDone
  <2>8. CASE exec_bad(p) \/ exec_nomem(p) \/ exec_commit(p)
    BY Zenon, <2>8, ActBad, ActNomem, ActCommit
  <2> QED
    BY Zenon, <1>1, <2>1, <2>2, <2>3, <2>4, <2>5, <2>6, <2>7, <2>8 DEF Step
<1>2. CASE UNCHANGED vars
  <2>1. /\ free' = free /\ tab' = tab /\ sz' = sz /\ tf' = tf /\ state' = state
        /\ job' = job /\ panicked' = panicked
    BY <1>2 DEF vars
  <2>2. Types' /\ PagesConserved' /\ Kept({}) /\ ~panicked'
    BY <2>1 DEF Inv, Types, PagesConserved, InUse, Held, Kept, NoVmPanic
  <2> QED
    BY <2>2, Conclude
<1> QED
  BY Zenon, <1>1, <1>2 DEF Next

LEMMA Invariance == Spec => []Inv
BY InitInv, StepInv, PTL DEF Spec

\* No page is lost and none is freed twice, by any interleaving of sbrk, fork,
\* exec, exit and wait and whatever fails half way: kalloc.c, vm.c, exec.c.
THEOREM MemoryPagesConserved == Spec => []PagesConserved
<1>1. Inv => PagesConserved
  BY DEF Inv
<1> QED
  BY <1>1, Invariance, PTL

\* p->sz says exactly which user pages p->pagetable maps, in every state of
\* every call: growproc(), fork() and exec() of kernel/proc.c and exec.c.
THEOREM MemorySpaceExact == Spec => []SpaceExact
<1>1. Inv => SpaceExact
  BY DEF Inv
<1> QED
  BY <1>1, Invariance, PTL

\* No assertion of vm.c or exec.c fails: nothing is mapped twice, and nothing
\* is unmapped, copied or loaded that is not there.
THEOREM MemoryNoVmPanic == Spec => []NoVmPanic
<1>1. Inv => NoVmPanic
  BY DEF Inv
<1> QED
  BY <1>1, Invariance, PTL
=============================================================================
