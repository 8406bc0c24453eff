-------------------------------- MODULE Proc --------------------------------
(***************************************************************************)
(* kernel/proc.c: the process table, the per-CPU scheduler, fork, exit,    *)
(* wait, kill and the sleep/wakeup pair they rest on.                      *)
(*                                                                         *)
(* Locks are explicit: wait_lock and one p->lock per slot, each owned by   *)
(* the CPU that acquired it (a process hands its p->lock to the scheduler  *)
(* of its CPU and gets it back from the CPU that resumes it).  A step is   *)
(* the code between two points where another CPU can get in: an acquire    *)
(* that may spin, or a swtch.                                              *)
(***************************************************************************)
EXTENDS Naturals, FiniteSets, Sequences

CONSTANTS NPROC,     \* kernel/param.h
          CPU,       \* the harts
          NoCPU,     \* owner of a free lock
          MaxPid,    \* bound: pids handed out
          KillPids   \* bound: arguments given to kill()

ASSUME ProcAssumption ==
    /\ NPROC \in Nat \ {0}
    /\ MaxPid \in Nat \ {0}
    /\ KillPids \subseteq 0..MaxPid
    /\ NoCPU \notin CPU

Slot == 1..NPROC
initproc == 1

VARIABLES
    state, chan, killed, pid, parent,  \* fields of struct proc (0 = null)
    plock,                             \* p->lock: owner
    wait_lock,                         \* owner
    cur,                               \* c->proc
    pc,                                \* where each kernel thread is
    ret,                               \* where yield() returns to
    idx,                               \* loop index of wait() and wakeup()
    wakes,                             \* channels exit() has yet to wake
    np,                                \* fork()'s new process
    nextpid

procs == <<chan, killed, pid, parent>>
locals == <<ret, idx, wakes, np>>
vars == <<state, chan, killed, pid, parent, plock, wait_lock, cur, pc, ret,
          idx, wakes, np, nextpid>>

\* Process p executes on CPU c.
On(c, p) == cur[c] = p /\ state[p] = "RUNNING"

InUser(c, p) == On(c, p) /\ pc[p] = "user"

Kids(p) == {q \in Slot : parent[q] = p}

Goto(p, l) == pc' = [pc EXCEPT ![p] = l]

\* userinit: one process, about to run for the first time.
Init ==
    /\ state = [p \in Slot |-> IF p = initproc THEN "RUNNABLE" ELSE "UNUSED"]
    /\ chan = [p \in Slot |-> 0]
    /\ killed = [p \in Slot |-> FALSE]
    /\ pid = [p \in Slot |-> IF p = initproc THEN 1 ELSE 0]
    /\ parent = [p \in Slot |-> 0]
    /\ plock = [p \in Slot |-> NoCPU]
    /\ wait_lock = NoCPU
    /\ cur = [c \in CPU |-> 0]
    /\ pc = [p \in Slot |-> "forkret"]
    /\ ret = [p \in Slot |-> "user"]
    /\ idx = [p \in Slot |-> 1]
    /\ wakes = [p \in Slot |-> << >>]
    /\ np = [p \in Slot |-> 0]
    /\ nextpid = 2
-----------------------------------------------------------------------------
\* The scheduler takes a RUNNABLE process and switches to it with its lock.
scheduler(c, p) ==
    /\ cur[c] = 0
    /\ plock[p] = NoCPU
    /\ state[p] = "RUNNABLE"
    /\ state' = [state EXCEPT ![p] = "RUNNING"]
    /\ cur' = [cur EXCEPT ![c] = p]
    /\ plock' = [plock EXCEPT ![p] = c]
    /\ UNCHANGED <<procs, locals, wait_lock, pc, nextpid>>

\* swtch() back into the scheduler, which releases the lock the process held.
sched(c, p) ==
    /\ cur[c] = p
    /\ state[p] # "RUNNING"
    /\ cur' = [cur EXCEPT ![c] = 0]
    /\ plock' = [plock EXCEPT ![p] = NoCPU]
    /\ UNCHANGED <<state, procs, locals, wait_lock, pc, nextpid>>

forkret(c, p) ==
    /\ On(c, p)
    /\ pc[p] = "forkret"
    /\ plock' = [plock EXCEPT ![p] = NoCPU]
    /\ Goto(p, "user")
    /\ UNCHANGED <<state, procs, locals, wait_lock, cur, nextpid>>

\* A timer interrupt, where the process holds no lock.
yield(c, p) ==
    /\ On(c, p)
    /\ pc[p] \in {"user", "fork_parent", "fork_ready", "reacquire"}
    /\ plock[p] = NoCPU
    /\ plock' = [plock EXCEPT ![p] = c]
    /\ state' = [state EXCEPT ![p] = "RUNNABLE"]
    /\ ret' = [ret EXCEPT ![p] = pc[p]]
    /\ Goto(p, "yielded")
    /\ UNCHANGED <<procs, idx, wakes, np, wait_lock, cur, nextpid>>

yield_return(c, p) ==
    /\ On(c, p)
    /\ pc[p] = "yielded"
    /\ plock' = [plock EXCEPT ![p] = NoCPU]
    /\ Goto(p, ret[p])
    /\ ret' = [ret EXCEPT ![p] = "user"]
    /\ UNCHANGED <<state, procs, idx, wakes, np, wait_lock, cur, nextpid>>
-----------------------------------------------------------------------------
\* fork: allocproc() to the first release(&np->lock).  q is any free slot:
\* the scan may have passed others before they became free.
fork_alloc(c, p, q) ==
    /\ InUser(c, p) /\ ~killed[p]
    /\ plock[q] = NoCPU
    /\ state[q] = "UNUSED"
    /\ nextpid <= MaxPid
    /\ nextpid' = nextpid + 1
    /\ pid' = [pid EXCEPT ![q] = nextpid]
    /\ state' = [state EXCEPT ![q] = "USED"]
    /\ np' = [np EXCEPT ![p] = q]
    /\ pc' = [pc EXCEPT ![p] = "fork_parent", ![q] = "forkret"]
    /\ UNCHANGED <<chan, killed, parent, plock, wait_lock, cur, ret, idx,
                   wakes>>

\* kalloc or uvmcopy failed: freeproc(np), and the pid is used up.
fork_fail(c, p, q) ==
    /\ InUser(c, p) /\ ~killed[p]
    /\ plock[q] = NoCPU
    /\ state[q] = "UNUSED"
    /\ nextpid <= MaxPid
    /\ nextpid' = nextpid + 1
    /\ killed' = [killed EXCEPT ![q] = FALSE]
    /\ UNCHANGED <<state, chan, pid, parent, plock, wait_lock, cur, pc,
                   locals>>

fork_parent(c, p) ==
    /\ On(c, p)
    /\ pc[p] = "fork_parent"
    /\ wait_lock = NoCPU
    /\ parent' = [parent EXCEPT ![np[p]] = p]
    /\ Goto(p, "fork_ready")
    /\ UNCHANGED <<state, chan, killed, pid, plock, wait_lock, cur, locals,
                   nextpid>>

fork_ready(c, p) ==
    /\ On(c, p)
    /\ pc[p] = "fork_ready"
    /\ plock[np[p]] = NoCPU
    /\ state' = [state EXCEPT ![np[p]] = "RUNNABLE"]
    /\ np' = [np EXCEPT ![p] = 0]
    /\ Goto(p, "user")
    /\ UNCHANGED <<procs, plock, wait_lock, cur, ret, idx, wakes, nextpid>>
-----------------------------------------------------------------------------
\* reparent(p): its children go to init.
Reparented(p) ==
    [q \in Slot |-> IF parent[q] = p THEN initproc ELSE parent[q]]

WakeParentOnly(p) == <<parent[p]>>

\* The wakeups of exit: wakeup(initproc) in reparent (once stands for once
\* per child: init cannot sleep again before wait_lock is released), then
\* wakeup(p->parent).
ExitWakes(p) ==
    IF Kids(p) = {} THEN <<parent[p]>> ELSE <<initproc, parent[p]>>

\* exit, called by the process or by usertrap() for a killed one.
exit(c, p) ==
    /\ InUser(c, p)
    /\ p # initproc
    /\ wait_lock = NoCPU
    /\ wait_lock' = c
    /\ parent' = Reparented(p)
    /\ wakes' = [wakes EXCEPT ![p] = ExitWakes(p)]
    /\ idx' = [idx EXCEPT ![p] = 1]
    /\ Goto(p, "wakeup")
    /\ UNCHANGED <<state, chan, killed, pid, plock, cur, ret, np, nextpid>>

\* The table scans stop after the last slot.
AtEnd(i) == i = NPROC

\* One iteration of wakeup's loop; it skips the caller.
wakeup(c, p) ==
    LET i == idx[p]
        ch == Head(wakes[p])
        rest == IF AtEnd(i) THEN Tail(wakes[p]) ELSE wakes[p]
    IN
    /\ On(c, p)
    /\ pc[p] = "wakeup"
    /\ i # p => plock[i] = NoCPU
    /\ state' = IF i # p /\ state[i] = "SLEEPING" /\ chan[i] = ch
                THEN [state EXCEPT ![i] = "RUNNABLE"] ELSE state
    /\ idx' = [idx EXCEPT ![p] = IF AtEnd(i) THEN 1 ELSE i + 1]
    /\ wakes' = [wakes EXCEPT ![p] = rest]
    /\ Goto(p, IF rest = << >> THEN "exit_zombie" ELSE "wakeup")
    /\ UNCHANGED <<procs, plock, wait_lock, cur, ret, np, nextpid>>

exit_zombie(c, p) ==
    /\ On(c, p)
    /\ pc[p] = "exit_zombie"
    /\ plock[p] = NoCPU
    /\ plock' = [plock EXCEPT ![p] = c]
    /\ state' = [state EXCEPT ![p] = "ZOMBIE"]
    /\ wait_lock' = NoCPU
    /\ Goto(p, "zombie")
    /\ UNCHANGED <<procs, cur, locals, nextpid>>
-----------------------------------------------------------------------------
\* wait: acquire wait_lock, on entry or when sleep() reacquires it.
wait(c, p) ==
    /\ On(c, p)
    /\ (pc[p] = "user" /\ ~killed[p]) \/ pc[p] = "reacquire"
    /\ wait_lock = NoCPU
    /\ wait_lock' = c
    /\ idx' = [idx EXCEPT ![p] = 1]
    /\ Goto(p, "wait_scan")
    /\ UNCHANGED <<state, procs, plock, cur, ret, wakes, np, nextpid>>

\* i is the next child the scan of wait() comes to.
Scanning(c, p, i) ==
    /\ On(c, p)
    /\ pc[p] = "wait_scan"
    /\ i \in Kids(p) /\ i >= idx[p]
    /\ \A k \in Kids(p) : k >= idx[p] => k >= i

AnyChild(i) == TRUE

\* "make sure the child isn't still in exit() or swtch()"
ChildUnlocked(i) == plock[i] = NoCPU

wait_alive(c, p, i) ==
    /\ Scanning(c, p, i)
    /\ ChildUnlocked(i)
    /\ state[i] # "ZOMBIE"
    /\ idx' = [idx EXCEPT ![p] = i + 1]
    /\ UNCHANGED <<state, procs, plock, wait_lock, cur, pc, ret, wakes, np,
                   nextpid>>

\* freeproc(pp) and return its pid.
wait_reap(c, p, i) ==
    /\ Scanning(c, p, i)
    /\ ChildUnlocked(i)
    /\ state[i] = "ZOMBIE"
    /\ state' = [state EXCEPT ![i] = "UNUSED"]
    /\ chan' = [chan EXCEPT ![i] = 0]
    /\ killed' = [killed EXCEPT ![i] = FALSE]
    /\ pid' = [pid EXCEPT ![i] = 0]
    /\ parent' = [parent EXCEPT ![i] = 0]
    /\ wait_lock' = NoCPU
    /\ idx' = [idx EXCEPT ![p] = 1]
    /\ Goto(p, "user")
    /\ UNCHANGED <<plock, cur, ret, wakes, np, nextpid>>

\* copyout of the exit status failed: -1, and the zombie stays.
wait_copyout_fail(c, p, i) ==
    /\ Scanning(c, p, i)
    /\ ChildUnlocked(i)
    /\ state[i] = "ZOMBIE"
    /\ wait_lock' = NoCPU
    /\ idx' = [idx EXCEPT ![p] = 1]
    /\ Goto(p, "user")
    /\ UNCHANGED <<state, procs, plock, cur, ret, wakes, np, nextpid>>

ScanOver(c, p) ==
    /\ On(c, p)
    /\ pc[p] = "wait_scan"
    /\ \A k \in Kids(p) : k < idx[p]
    /\ idx' = [idx EXCEPT ![p] = 1]

\* No children, or killed: -1.
wait_fail(c, p) ==
    /\ ScanOver(c, p)
    /\ Kids(p) = {} \/ killed[p]
    /\ wait_lock' = NoCPU
    /\ Goto(p, "user")
    /\ UNCHANGED <<state, procs, plock, cur, ret, wakes, np, nextpid>>

wait_sleep(c, p) ==
    /\ ScanOver(c, p)
    /\ Kids(p) # {} /\ ~killed[p]
    /\ Goto(p, "sleep")
    /\ UNCHANGED <<state, procs, plock, wait_lock, cur, ret, wakes, np,
                   nextpid>>
-----------------------------------------------------------------------------
\* sleep(p, &wait_lock): take p->lock first ...
sleep(c, p) ==
    /\ On(c, p)
    /\ pc[p] = "sleep"
    /\ plock[p] = NoCPU
    /\ plock' = [plock EXCEPT ![p] = c]
    /\ Goto(p, "sleep_switch")
    /\ UNCHANGED <<state, procs, wait_lock, cur, locals, nextpid>>

\* ... then release lk and become SLEEPING.
sleep_switch(c, p) ==
    /\ On(c, p)
    /\ pc[p] = "sleep_switch"
    /\ wait_lock' = NoCPU
    /\ chan' = [chan EXCEPT ![p] = p]
    /\ state' = [state EXCEPT ![p] = "SLEEPING"]
    /\ Goto(p, "asleep")
    /\ UNCHANGED <<killed, pid, parent, plock, cur, locals, nextpid>>

sleep_return(c, p) ==
    /\ On(c, p)
    /\ pc[p] = "asleep"
    /\ chan' = [chan EXCEPT ![p] = 0]
    /\ plock' = [plock EXCEPT ![p] = NoCPU]
    /\ Goto(p, "reacquire")
    /\ UNCHANGED <<state, killed, pid, parent, wait_lock, cur, locals,
                   nextpid>>

WakeVictim(i) ==
    IF state[i] = "SLEEPING" THEN [state EXCEPT ![i] = "RUNNABLE"] ELSE state

\* kill(pid): the slot with that pid, if there is one.
kill(c, p, i) ==
    /\ InUser(c, p) /\ ~killed[p]
    /\ pid[i] \in KillPids
    /\ plock[i] = NoCPU
    /\ killed' = [killed EXCEPT ![i] = TRUE]
    /\ state' = WakeVictim(i)
    /\ UNCHANGED <<chan, pid, parent, plock, wait_lock, cur, pc, locals,
                   nextpid>>
-----------------------------------------------------------------------------
Step(c, p) ==
    \/ scheduler(c, p) \/ sched(c, p) \/ forkret(c, p)
    \/ yield(c, p) \/ yield_return(c, p)
    \/ fork_parent(c, p) \/ fork_ready(c, p)
    \/ exit(c, p) \/ wakeup(c, p) \/ exit_zombie(c, p)
    \/ wait(c, p) \/ wait_fail(c, p) \/ wait_sleep(c, p)
    \/ sleep(c, p) \/ sleep_switch(c, p) \/ sleep_return(c, p)
    \/ \E q \in Slot :
          \/ fork_alloc(c, p, q) \/ fork_fail(c, p, q)
          \/ wait_alive(c, p, q) \/ wait_reap(c, p, q)
          \/ wait_copyout_fail(c, p, q)
          \/ kill(c, p, q)

Next == \E c \in CPU, p \in Slot : Step(c, p)

Spec == Init /\ [][Next]_vars
-----------------------------------------------------------------------------
\* enum procstate (kernel/proc.h).
procstate == {"UNUSED", "USED", "SLEEPING", "RUNNABLE", "RUNNING", "ZOMBIE"}

Returns == {"user", "fork_parent", "fork_ready", "reacquire"}

Points == Returns \cup {"forkret", "yielded", "wakeup", "exit_zombie",
              "zombie", "wait_scan", "sleep", "sleep_switch", "asleep"}

Index == 1..(NPROC + 1)

Pid == 0..MaxPid

TypeOK ==
    /\ state \in [Slot -> procstate]
    /\ chan \in [Slot -> Slot \cup {0}]
    /\ killed \in [Slot -> BOOLEAN]
    /\ pid \in [Slot -> Pid]
    /\ parent \in [Slot -> Slot \cup {0}]
    /\ plock \in [Slot -> CPU \cup {NoCPU}]
    /\ wait_lock \in CPU \cup {NoCPU}
    /\ cur \in [CPU -> Slot \cup {0}]
    /\ pc \in [Slot -> Points]
    /\ ret \in [Slot -> Returns]
    /\ idx \in [Slot -> Index]
    /\ wakes \in [Slot -> Seq(Slot \cup {0})]
    /\ np \in [Slot -> Slot \cup {0}]
    /\ nextpid \in 1..(MaxPid + 1)

\* A kernel stack is in use by one CPU at most, and while a CPU is on the
\* stack of p the process is RUNNING or its lock is held: nobody can resume,
\* reap or reuse p before swtch() is over.
StackExclusive ==
    \A c \in CPU, p \in Slot : cur[c] = p =>
        /\ \A d \in CPU : cur[d] = p => d = c
        /\ state[p] = "RUNNING" \/ plock[p] = c
        /\ state[p] \notin {"UNUSED", "USED"}

\* The panics of sched(): it runs with p->lock and no other lock held.
SchedLocks ==
    \A c \in CPU, p \in Slot : cur[c] = p /\ state[p] # "RUNNING" =>
        /\ plock[p] = c
        /\ wait_lock # c
        /\ \A q \in Slot \ {p} : plock[q] # c

\* No lost wakeup between wait() and exit(): whenever wait_lock is free, a
\* parent asleep in wait() has no zombie child, its own or inherited.
NoLostExit ==
    wait_lock = NoCPU =>
        \A p \in Slot : state[p] = "SLEEPING" =>
            \A q \in Kids(p) : state[q] # "ZOMBIE"
=============================================================================
