------------------------------- MODULE Memory -------------------------------
(***************************************************************************)
(* Physical pages and user address spaces: kernel/kalloc.c, the user half  *)
(* of kernel/vm.c, kernel/exec.c, and what sbrk, fork, exec, exit and wait *)
(* do with memory.                                                         *)
(*                                                                         *)
(* Pages are counted: which page of the free list is used, what it holds   *)
(* and its permission bits are left out.  An address is a byte address, a  *)
(* vpage is an address divided by PGSIZE.  A table is the set of page-     *)
(* table pages that walk() made and the set of vpages with a leaf entry.   *)
(* An iteration of an allocating loop is one step, and so is a series of   *)
(* kfree() calls, which cannot fail.  The pages the kernel takes for       *)
(* itself at boot are not counted in NPAGE; pipes are left to Pipe.        *)
(***************************************************************************)
EXTENDS Integers, FiniteSets

CONSTANTS Proc,
          Initproc,
          NPAGE,      \* pages of the allocator when the first process starts
          PGSIZE,
          FANOUT,     \* entries of a page-table page (512)
          USERSTACK,
          UINT64,     \* 2^64
          MaxSz,      \* bound: the largest size asked for by sbrk and segments
          MaxSegs,    \* bound: program segments of a file
          MaxArg      \* bound: MAXARG

MAXVA == (FANOUT * FANOUT * FANOUT) \div 2
TRAMPOLINE == MAXVA - 1
TRAPFRAME == MAXVA - 2

ASSUME MemoryAssumption ==
    /\ IsFiniteSet(Proc) /\ Initproc \in Proc
    /\ PGSIZE \in Nat \ {0} /\ FANOUT \in Nat \ {0} /\ USERSTACK \in Nat
    /\ MaxSz \in Nat /\ MaxSegs \in Nat /\ MaxArg \in Nat
    /\ NPAGE \in Nat /\ NPAGE >= 9          \* enough for userinit()
    /\ NPAGE < TRAPFRAME                    \* memory runs out before addresses
    /\ UINT64 \in Nat /\ UINT64 > 2 * (MaxSz + NPAGE * PGSIZE)

VARIABLES
    free,       \* kmem.freelist: its length
    tab,        \* p->pagetable
    sz,         \* p->sz
    tf,         \* p->trapframe: 1 page, or 0
    state,      \* p->state, as far as memory depends on it
    job,        \* the call p is in and its local variables
    panicked

vars == <<free, tab, sz, tf, state, job, panicked>>

NoTable == [node |-> {}, leaf |-> {}]

Idle == [pc |-> "user", new |-> NoTable, nsz |-> 0, np |-> Initproc,
         base |-> 0, a |-> 0, end |-> 0, segs |-> 0, argv |-> 0]

PGROUNDUP(n) == ((n + PGSIZE - 1) \div PGSIZE) * PGSIZE

\* The vpages between two addresses, rounded up.
VPages(from, to) ==
    (PGROUNDUP(from) \div PGSIZE)..((PGROUNDUP(to) \div PGSIZE) - 1)
-----------------------------------------------------------------------------
(* Operators on a free list f and a table tb.  They return both with ok    *)
(* (the C function did not fail) and panic.                                *)

Result(f, tb, ok, panic) == [free |-> f, tb |-> tb, ok |-> ok, panic |-> panic]

kalloc(f) == f - 1

\* n calls of kfree().
kfree(f, n) == f + n

Root == <<2, 0>>

\* The page-table pages on the way to vpage v, from the root.
PX(v) == <<<<1, v \div (FANOUT * FANOUT)>>, <<0, v \div FANOUT>>>>

\* One level of walk(pagetable, va, 1).
WalkLevel(r, k) ==
    IF ~r.ok \/ k \in r.tb.node THEN r
    ELSE IF r.free = 0 THEN [r EXCEPT !.ok = FALSE]
    ELSE [r EXCEPT !.free = kalloc(@), !.tb.node = @ \cup {k}]

walk(f, tb, v) ==
    WalkLevel(WalkLevel(Result(f, tb, TRUE, FALSE), PX(v)[1]), PX(v)[2])

\* mappages() of one page.  A page-table page made before the failure stays.
mappages(f, tb, v) ==
    LET r == walk(f, tb, v)
    IN  IF r.ok THEN [r EXCEPT !.tb.leaf = @ \cup {v}, !.panic = v \in tb.leaf]
        ELSE r

MapNewLeaks(f, tb, v) ==
    IF f = 0 THEN Result(f, tb, FALSE, FALSE) ELSE mappages(kalloc(f), tb, v)

\* An iteration of uvmalloc() and of uvmcopy(): a page, and its mapping.
MapNew(f, tb, v) ==
    IF f = 0 THEN Result(f, tb, FALSE, FALSE)
    ELSE LET r == mappages(kalloc(f), tb, v)
         IN  IF r.ok THEN r ELSE [r EXCEPT !.free = kfree(@, 1)]

\* uvmunmap() of the vpages V.
uvmunmap(f, tb, V, do_free) ==
    Result(IF do_free THEN kfree(f, Cardinality(V)) ELSE f,
           [tb EXCEPT !.leaf = @ \ V], TRUE, ~(V \subseteq tb.leaf))

uvmdeallocDown(f, tb, oldsz, newsz) ==
    uvmunmap(f, tb, IF newsz >= oldsz THEN {}
                    ELSE VPages(newsz, oldsz) \cup {newsz \div PGSIZE}, TRUE)

\* uvmdealloc(), which is also how uvmalloc() undoes what it did.
uvmdealloc(f, tb, oldsz, newsz) ==
    uvmunmap(f, tb, IF newsz >= oldsz THEN {} ELSE VPages(newsz, oldsz), TRUE)

freewalk(f, tb) ==
    Result(kfree(f, Cardinality(tb.node)), NoTable, TRUE, tb.leaf # {})

uvmfree(f, tb, size) ==
    LET u == uvmunmap(f, tb, VPages(0, size), TRUE)
        w == freewalk(u.free, u.tb)
    IN  [w EXCEPT !.panic = @ \/ u.panic]

proc_freepagetable(f, tb, size) ==
    LET t == uvmunmap(f, tb, {TRAMPOLINE, TRAPFRAME}, FALSE)
        u == uvmfree(t.free, t.tb, size)
    IN  [u EXCEPT !.panic = @ \/ t.panic]

Failed(r) == [r EXCEPT !.ok = FALSE]

proc_pagetable(f) ==
    IF f = 0 THEN Failed(Result(f, NoTable, TRUE, FALSE))
    ELSE LET t == mappages(kalloc(f), [NoTable EXCEPT !.node = {Root}], TRAMPOLINE)
             u == mappages(t.free, t.tb, TRAPFRAME)
             n == uvmunmap(u.free, u.tb, {TRAMPOLINE}, FALSE)
         IN  IF ~t.ok THEN Failed(uvmfree(t.free, t.tb, 0))
             ELSE IF ~u.ok THEN Failed(uvmfree(n.free, n.tb, 0))
             ELSE u
-----------------------------------------------------------------------------
uvmfirst(f, tb) == MapNew(f, tb, 0)

\* userinit(): the first process, with one page at address 0.
Init ==
    LET first == proc_pagetable(kalloc(NPAGE))
        mem == uvmfirst(first.free, first.tb)
    IN  /\ free = mem.free
        /\ tab = [p \in Proc |-> IF p = Initproc THEN mem.tb ELSE NoTable]
        /\ sz = [p \in Proc |-> IF p = Initproc THEN PGSIZE ELSE 0]
        /\ tf = [p \in Proc |-> IF p = Initproc THEN 1 ELSE 0]
        /\ state = [p \in Proc |-> IF p = Initproc THEN "run" ELSE "unused"]
        /\ job = [p \in Proc |-> Idle]
        /\ panicked = FALSE

At(p, pc) == ~panicked /\ state[p] = "run" /\ job[p].pc = pc

Return(p) == job' = [job EXCEPT ![p] = Idle]

slot == <<tab, sz, tf, state>>
-----------------------------------------------------------------------------
\* sys_sbrk and growproc(n).  sz + n is computed modulo 2^64: a size below 0
\* is a very large one, which uvmdealloc() refuses.
growproc_shrink(p, n) ==
    /\ At(p, "user") /\ n < 0
    /\ LET newsz == (sz[p] + n) % UINT64
           r == uvmdealloc(free, tab[p], sz[p], newsz)
       IN  /\ free' = r.free
           /\ tab' = [tab EXCEPT ![p] = r.tb]
           /\ sz' = [sz EXCEPT ![p] = IF newsz >= @ THEN @ ELSE newsz]
           /\ panicked' = r.panic
    /\ UNCHANGED <<tf, state, job>>

\* The start of uvmalloc(): the rounding of oldsz.
UvmallocFrom(j, pc, oldsz, newsz) ==
    [j EXCEPT !.pc = pc, !.base = PGROUNDUP(oldsz), !.a = PGROUNDUP(oldsz),
              !.end = newsz]

growproc(p, n) ==
    /\ At(p, "user") /\ n > 0 /\ sz[p] + n <= MaxSz
    /\ job' = [job EXCEPT ![p] = UvmallocFrom(@, "grow", sz[p], sz[p] + n)]
    /\ UNCHANGED <<free, slot, panicked>>

InUvmalloc(p) == At(p, "grow") \/ At(p, "seg") \/ At(p, "stack")

\* The table uvmalloc() works on: the process's own, or the one exec() builds.
Target(p) == IF job[p].pc = "grow" THEN tab[p] ELSE job[p].new

SetTarget(p, tb, j) ==
    IF job[p].pc = "grow"
    THEN tab' = [tab EXCEPT ![p] = tb] /\ job' = [job EXCEPT ![p] = j]
    ELSE tab' = tab /\ job' = [job EXCEPT ![p] = [j EXCEPT !.new = tb]]

uvmalloc(p) ==
    /\ InUvmalloc(p) /\ job[p].a < job[p].end
    /\ LET r == MapNew(free, Target(p), job[p].a \div PGSIZE)
       IN  /\ r.ok
           /\ free' = r.free
           /\ SetTarget(p, r.tb, [job[p] EXCEPT !.a = @ + PGSIZE])
           /\ panicked' = r.panic
    /\ UNCHANGED <<sz, tf, state>>

\* No page for the memory or for the page table.
Undo(p, r) == uvmdealloc(r.free, r.tb, job[p].a, job[p].base)

growproc_fail(p) ==
    /\ At(p, "grow") /\ job[p].a < job[p].end
    /\ LET r == MapNew(free, tab[p], job[p].a \div PGSIZE)
           u == Undo(p, r)
       IN  /\ ~r.ok
           /\ free' = u.free
           /\ tab' = [tab EXCEPT ![p] = u.tb]
           /\ panicked' = u.panic
    /\ Return(p)
    /\ UNCHANGED <<sz, tf, state>>

growproc_done(p) ==
    /\ At(p, "grow") /\ job[p].a >= job[p].end
    /\ sz' = [sz EXCEPT ![p] = job[p].end]
    /\ Return(p)
    /\ UNCHANGED <<free, tab, tf, state, panicked>>
-----------------------------------------------------------------------------
freeprocKeepsSz(q, m) ==
    LET r == proc_freepagetable(kfree(m.free, tf[q]), m.tb, sz[q])
    IN  /\ free' = r.free
        /\ panicked' = (m.panic \/ r.panic)
        /\ tab' = [tab EXCEPT ![q] = NoTable]
        /\ tf' = [tf EXCEPT ![q] = 0]
        /\ state' = [state EXCEPT ![q] = "unused"]
        /\ UNCHANGED sz

\* freeproc(q), after m: the trapframe, then the table of p->sz bytes.
freeproc(q, m) ==
    LET r == proc_freepagetable(kfree(m.free, tf[q]), m.tb, sz[q])
    IN  /\ free' = r.free
        /\ panicked' = (m.panic \/ r.panic)
        /\ tab' = [tab EXCEPT ![q] = NoTable]
        /\ sz' = [sz EXCEPT ![q] = 0]
        /\ tf' = [tf EXCEPT ![q] = 0]
        /\ state' = [state EXCEPT ![q] = "unused"]

\* allocproc() for slot q, at the start of fork().  When a page is missing,
\* freeproc() gives back the trapframe.
fork(p, q) ==
    /\ At(p, "user") /\ state[q] = "unused"
    /\ free > 0
    /\ LET r == proc_pagetable(kalloc(free))
       IN  /\ panicked' = r.panic
           /\ IF r.ok
              THEN /\ free' = r.free
                   /\ tab' = [tab EXCEPT ![q] = r.tb]
                   /\ tf' = [tf EXCEPT ![q] = 1]
                   /\ state' = [state EXCEPT ![q] = "used"]
                   /\ job' = [job EXCEPT ![p].pc = "copy", ![p].np = q]
              ELSE free' = kfree(r.free, 1) /\ UNCHANGED <<tab, tf, state, job>>
    /\ UNCHANGED sz

\* uvmcopy(), from p's table to the child's.
uvmcopy(p) ==
    /\ At(p, "copy") /\ job[p].a < sz[p]
    /\ LET q == job[p].np
           v == job[p].a \div PGSIZE
           r == MapNew(free, tab[q], v)
       IN  /\ r.ok
           /\ free' = r.free
           /\ tab' = [tab EXCEPT ![q] = r.tb]
           /\ panicked' = (r.panic \/ v \notin tab[p].leaf)
    /\ job' = [job EXCEPT ![p].a = @ + PGSIZE]
    /\ UNCHANGED <<sz, tf, state>>

\* The pages uvmcopy() takes back when it fails at address i.
CopiedUpTo(i) == 0..((i \div PGSIZE) - 1)

\* uvmcopy() takes back its pages, and fork() frees the slot.
uvmcopy_fail(p) ==
    /\ At(p, "copy") /\ job[p].a < sz[p]
    /\ LET q == job[p].np
           r == MapNew(free, tab[q], job[p].a \div PGSIZE)
           u == uvmunmap(r.free, r.tb, CopiedUpTo(job[p].a), TRUE)
       IN  ~r.ok /\ freeproc(q, u)
    /\ Return(p)

fork_done(p) ==
    /\ At(p, "copy") /\ job[p].a >= sz[p]
    /\ sz' = [sz EXCEPT ![job[p].np] = sz[p]]
    /\ state' = [state EXCEPT ![job[p].np] = "run"]
    /\ Return(p)
    /\ UNCHANGED <<free, tab, tf, panicked>>

exit(p) ==
    /\ At(p, "user") /\ p # Initproc
    /\ state' = [state EXCEPT ![p] = "zombie"]
    /\ UNCHANGED <<free, tab, sz, tf, job, panicked>>

\* wait() finds the zombie q.  Who its parent is makes no difference here.
wait(p, q) ==
    /\ At(p, "user") /\ state[q] = "zombie"
    /\ freeproc(q, Result(free, tab[q], TRUE, FALSE))
    /\ UNCHANGED job
-----------------------------------------------------------------------------
\* sys_exec(): a page for each argument.
sys_exec(p) ==
    /\ At(p, "user")
    /\ job' = [job EXCEPT ![p].pc = "argv"]
    /\ UNCHANGED <<free, slot, panicked>>

sys_exec_arg(p) ==
    /\ At(p, "argv") /\ job[p].argv < MaxArg
    /\ free > 0
    /\ free' = kalloc(free)
    /\ job' = [job EXCEPT ![p].argv = @ + 1]
    /\ UNCHANGED <<slot, panicked>>

\* sys_exec() gives up: a bad pointer, too many arguments, no page; or exec()
\* does before it has a table.
sys_exec_bad(p) ==
    /\ At(p, "argv")
    /\ free' = kfree(free, job[p].argv)
    /\ Return(p)
    /\ UNCHANGED <<slot, panicked>>

exec(p) ==
    /\ At(p, "argv")
    /\ LET r == proc_pagetable(free)
       IN  /\ panicked' = r.panic
           /\ IF r.ok
              THEN /\ free' = r.free
                   /\ job' = [job EXCEPT ![p].pc = "load", ![p].new = r.tb]
              ELSE free' = kfree(r.free, job[p].argv) /\ Return(p)
    /\ UNCHANGED slot

\* A segment that ends at e.  If it is below sz, uvmalloc() has nothing to do
\* and loadseg() finds its pages.  (e = 0 makes no difference, or is taken for a
\* failure when nothing has been loaded: exec_bad.)
Segment(j, e) ==
    IF e < j.nsz THEN [j EXCEPT !.segs = @ + 1]
    ELSE [UvmallocFrom(j, "seg", j.nsz, e) EXCEPT !.segs = @ + 1]

exec_segment(p, e) ==
    /\ At(p, "load") /\ job[p].segs < MaxSegs
    /\ e > 0
    /\ job' = [job EXCEPT ![p] = Segment(@, e)]
    /\ UNCHANGED <<free, slot, panicked>>

\* loadseg() panics if an address below the end of the segment is not mapped.
exec_loadseg(p) ==
    /\ At(p, "seg") /\ job[p].a >= job[p].end
    /\ job' = [job EXCEPT ![p].pc = "load", ![p].nsz = job[p].end]
    /\ panicked' = ~(VPages(0, job[p].end) \subseteq job[p].new.leaf)
    /\ UNCHANGED <<free, slot>>

\* The stack and its guard page, from the next page boundary.
Stack(j) ==
    LET size == PGROUNDUP(j.nsz)
    IN  [UvmallocFrom(j, "stack", size, size + (USERSTACK + 1) * PGSIZE)
           EXCEPT !.nsz = size]

exec_stack(p) ==
    /\ At(p, "load")
    /\ job' = [job EXCEPT ![p] = Stack(@)]
    /\ UNCHANGED <<free, slot, panicked>>

exec_stack_done(p) ==
    /\ At(p, "stack") /\ job[p].a >= job[p].end
    /\ job' = [job EXCEPT ![p].pc = "push", ![p].nsz = job[p].end]
    /\ UNCHANGED <<free, slot, panicked>>

\* exec()'s label bad, and the end of sys_exec().
Bad(p, m) ==
    LET r == proc_freepagetable(m.free, m.tb, job[p].nsz)
    IN  /\ free' = kfree(r.free, job[p].argv)
        /\ panicked' = (m.panic \/ r.panic)

\* The file cannot be read or is no program, or the arguments do not fit.
exec_bad(p) ==
    /\ At(p, "load") \/ At(p, "push")
    /\ Bad(p, Result(free, job[p].new, TRUE, FALSE))
    /\ Return(p)
    /\ UNCHANGED slot

\* uvmalloc() failed: it undoes its pages first.
exec_nomem(p) ==
    /\ At(p, "seg") \/ At(p, "stack")
    /\ job[p].a < job[p].end
    /\ LET r == MapNew(free, job[p].new, job[p].a \div PGSIZE)
           u == Undo(p, r)
       IN  ~r.ok /\ Bad(p, u)
    /\ Return(p)
    /\ UNCHANGED slot

\* Commit to the new image and free the old one.
exec_commit(p) ==
    /\ At(p, "push")
    /\ LET r == proc_freepagetable(free, tab[p], sz[p])
       IN  free' = kfree(r.free, job[p].argv) /\ panicked' = r.panic
    /\ tab' = [tab EXCEPT ![p] = job[p].new]
    /\ sz' = [sz EXCEPT ![p] = job[p].nsz]
    /\ Return(p)
    /\ UNCHANGED <<tf, state>>
-----------------------------------------------------------------------------
Step(p) ==
    \/ \E n \in 1..MaxSz : growproc(p, n) \/ growproc_shrink(p, -n)
    \/ uvmalloc(p) \/ growproc_fail(p) \/ growproc_done(p)
    \/ \E q \in Proc : fork(p, q) \/ wait(p, q)
    \/ uvmcopy(p) \/ uvmcopy_fail(p) \/ fork_done(p) \/ exit(p)
    \/ sys_exec(p) \/ sys_exec_arg(p) \/ sys_exec_bad(p) \/ exec(p)
    \/ \E e \in 1..MaxSz : exec_segment(p, e)
    \/ exec_loadseg(p) \/ exec_stack(p) \/ exec_stack_done(p)
    \/ exec_bad(p) \/ exec_nomem(p) \/ exec_commit(p)

Next == \E p \in Proc : Step(p)

Spec == Init /\ [][Next]_vars
-----------------------------------------------------------------------------
IsTable(tb) ==
    /\ tb.leaf \subseteq 0..(MAXVA - 1)
    /\ \A v \in tb.leaf : {PX(v)[1], PX(v)[2]} \subseteq tb.node
    /\ tb.node # {} => Root \in tb.node

\* Types, and that every leaf entry is in page-table pages that exist.
TypeOK ==
    /\ free \in 0..NPAGE
    /\ \A p \in Proc : IsTable(tab[p]) /\ IsTable(job[p].new)
    /\ sz \in [Proc -> Nat]
    /\ tf \in [Proc -> 0..1]
    /\ state \in [Proc -> {"unused", "used", "run", "zombie"}]
    /\ \A p \in Proc :
          /\ job[p].pc \in {"user", "grow", "copy", "argv", "load", "seg",
                            "stack", "push"}
          /\ job[p].argv \in 0..MaxArg

UserPages(tb) == tb.leaf \ {TRAMPOLINE, TRAPFRAME}

\* The physical pages of a table, by what they are for.
TablePages(tb) == ({"node"} \X tb.node) \cup ({"page"} \X UserPages(tb))

\* The pages a process has: trapframe, page tables, memory, exec's arguments.
Held(p) ==
    ({"trapframe"} \X (1..tf[p])) \cup ({"pagetable"} \X TablePages(tab[p]))
        \cup ({"image"} \X TablePages(job[p].new))
        \cup ({"argv"} \X (1..job[p].argv))

InUse == UNION {{p} \X Held(p) : p \in Proc}

\* The pages on the free list and those in use are all there are: whatever
\* fails, and in whatever order the processes run, no call of kernel/vm.c,
\* exec.c or proc.c leaks a page or frees one twice.
PagesConserved == free + Cardinality(InUse) = NPAGE

\* A table maps the user pages below size, the trampoline and the trapframe.
Maps(tb, size) == tb.leaf = VPages(0, size) \cup {TRAMPOLINE, TRAPFRAME}

\* Inside uvmalloc(), the pages up to a are there.
Reached(p, size) ==
    IF InUvmalloc(p) THEN job[p].a ELSE size

SpaceOf(p) ==
    /\ state[p] = "unused" => tab[p] = NoTable /\ sz[p] = 0 /\ tf[p] = 0
    /\ state[p] = "zombie" => Maps(tab[p], sz[p])
    /\ state[p] = "run" =>
         /\ Maps(tab[p], IF job[p].pc = "grow" THEN job[p].a ELSE sz[p])
         /\ job[p].pc = "copy" => Maps(tab[job[p].np], job[p].a)
         /\ job[p].pc \in {"load", "seg", "stack", "push"} =>
              Maps(job[p].new, Reached(p, job[p].nsz))

\* p->sz says what p->pagetable maps, also after a call that failed half way;
\* the same for the table exec() builds and for the child of a fork().
SpaceExact == \A p \in Proc : SpaceOf(p)

\* None of the assertions of vm.c and exec.c fails: "mappages: remap",
\* "uvmunmap: not mapped", "freewalk: leaf", "uvmcopy: page not present",
\* "loadseg: address should exist".
NoVmPanic == ~panicked
=============================================================================
