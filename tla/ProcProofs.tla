----------------------------- MODULE ProcProofs -----------------------------
(***************************************************************************)
(* The process table for every number of slots and CPUs: a kernel stack    *)
(* has one CPU, sched() is entered with p->lock and no other lock, and no  *)
(* exit is lost between exit() and wait().                                 *)
(***************************************************************************)
EXTENDS Proc, TLAPS

\* Points at which a process on a CPU has p->lock.
PLocked == {"forkret", "yielded", "asleep", "sleep_switch"}

\* Points at which a process has wait_lock.
WLocked == {"wakeup", "exit_zombie", "wait_scan", "sleep", "sleep_switch"}

\* Where a process in each state is.
PlaceInv ==
    \A p \in Slot :
        /\ state[p] = "RUNNABLE" => pc[p] \in {"forkret", "yielded", "asleep"}
        /\ state[p] = "SLEEPING" => pc[p] = "asleep" /\ chan[p] = p
        /\ state[p] = "USED" => pc[p] = "forkret"
        /\ state[p] = "ZOMBIE" => pc[p] = "zombie"
        /\ state[p] = "RUNNING" =>
              pc[p] # "zombie" /\ \E c \in CPU : cur[c] = p

\* p->lock is passed between a process and the scheduler of its CPU.
LockInv ==
    /\ \A c \in CPU, p \in Slot : cur[c] = p =>
          /\ \A d \in CPU : cur[d] = p => d = c
          /\ state[p] \in {"RUNNING", "RUNNABLE", "SLEEPING", "ZOMBIE"}
          /\ state[p] # "RUNNING" \/ pc[p] \in PLocked => plock[p] = c
    /\ \A c \in CPU, p \in Slot : plock[p] = c => cur[c] = p

\* wait_lock belongs to a process that runs, and says so.
WaitInv ==
    /\ \A p \in Slot : pc[p] \in WLocked =>
          \E c \in CPU : cur[c] = p /\ wait_lock = c /\ state[p] = "RUNNING"
    /\ \A c \in CPU : wait_lock = c =>
          \E p \in Slot : /\ cur[c] = p /\ state[p] = "RUNNING"
                          /\ pc[p] \in WLocked

\* A process in the middle of fork() has the new slot for itself.
Forking(p) ==
    \/ pc[p] \in {"fork_parent", "fork_ready"}
    \/ pc[p] = "yielded" /\ ret[p] \in {"fork_parent", "fork_ready"}

ForkInv ==
    \A p \in Slot :
        /\ Forking(p) => np[p] # 0
        /\ np[p] # 0 => /\ state[np[p]] = "USED"
                        /\ \A q \in Slot : np[q] = np[p] => q = p

\* init stays, has no parent, and nobody is its own parent.
FamilyInv ==
    /\ state[initproc] \in {"RUNNABLE", "RUNNING", "SLEEPING"}
    /\ parent[initproc] = 0
    /\ \A p \in Slot : parent[p] # p

Zombies(p) == {q \in Kids(p) : state[q] = "ZOMBIE"}

\* reparent() has given away p's children and has not woken init yet.
InitWillWake(p) ==
    pc[p] = "wakeup" /\ wakes[p] = <<initproc, parent[p]>> /\ idx[p] = 1

\* What wait() has seen so far.
ScanInv ==
    \A p \in Slot :
        /\ pc[p] = "wait_scan" => \A q \in Zombies(p) : q >= idx[p]
        /\ pc[p] \in {"sleep", "sleep_switch"} => Zombies(p) = {}

\* Whom exit() has to wake, and whom it has woken so far.
WakeAt(p) ==
    /\ pc[p] \in {"wakeup", "exit_zombie"} => p # initproc
    /\ pc[p] = "wakeup" =>
          /\ idx[p] \in Slot
          /\ wakes[p] \in {<<initproc, parent[p]>>, <<parent[p]>>}
    /\ \/ pc[p] = "exit_zombie"
       \/ /\ pc[p] = "wakeup" /\ wakes[p] = <<parent[p]>>
          /\ parent[p] < idx[p]
       => \A r \in Slot : r = parent[p] => state[r] # "SLEEPING"

WakeInv == \A p \in Slot : WakeAt(p)

\* Only init can be asleep with a zombie child, and not for long.
ZombieInv ==
    \A r \in Slot : state[r] = "SLEEPING" /\ Zombies(r) # {} =>
        r = initproc /\ \E p \in Slot : InitWillWake(p)

Inv ==
    /\ TypeOK /\ PlaceInv /\ LockInv /\ WaitInv /\ ForkInv
    /\ FamilyInv /\ ScanInv /\ WakeInv /\ ZombieInv
-----------------------------------------------------------------------------
\* Slots are numbered from 1: 0 stands for the null pointer.
LEMMA Slots ==
    /\ 0 \notin Slot /\ initproc \in Slot /\ Slot \subseteq Nat
    /\ NoCPU \notin CPU
    /\ Index \subseteq Nat /\ 1 \in Index /\ 0 \in Pid
BY ProcAssumption DEF Slot, initproc, Index, Pid

LEMMA SlotOrder ==
    \A i, j \in Slot :
        /\ ~(j < 1)
        /\ i = NPROC \/ j < i + 1 => j = i \/ j < i
        /\ i + 1 \in Index
        /\ i # NPROC => i + 1 \in Slot
BY ProcAssumption DEF Slot, Index

LEMMA ShortSeq ==
    ASSUME NEW T, NEW a \in T, NEW b \in T
    PROVE  <<a>> \in Seq(T) /\ <<a, b>> \in Seq(T)
OBVIOUS

\* One iteration of wakeup() wakes at most the slot it looks at.
LEMMA WakeupStep ==
    ASSUME Inv, NEW c \in CPU, NEW p \in Slot, wakeup(c, p)
    PROVE  /\ idx[p] \in Slot
           /\ \/ state' = state
              \/ /\ state[idx[p]] = "SLEEPING"
                 /\ state' = [state EXCEPT ![idx[p]] = "RUNNABLE"]
           /\ pc' = [pc EXCEPT ![p] = pc'[p]]
           /\ pc'[p] \in {"wakeup", "exit_zombie"}
<1>1. pc \in [Slot -> Points] /\ idx[p] \in Slot
  BY DEF Inv, TypeOK, WakeInv, WakeAt, wakeup
<1> QED
  BY <1>1 DEF wakeup, Goto

LEMMA TypeStep == Inv /\ [Next]_vars => TypeOK'
<1> SUFFICES ASSUME Inv, [Next]_vars PROVE TypeOK'
    OBVIOUS
<1>0. TypeOK /\ ForkInv
  BY DEF Inv
<1> USE Slots DEF TypeOK, procstate, Points, Returns, initproc, On, procs,
     locals
<1>1. ASSUME NEW c \in CPU, NEW p \in Slot, scheduler(c, p) PROVE TypeOK'
  BY ZenonT(30), <1>0, <1>1 DEF scheduler
<1>2. ASSUME NEW c \in CPU, NEW p \in Slot, sched(c, p) PROVE TypeOK'
  BY Zenon, <1>0, <1>2 DEF sched
<1>3. ASSUME NEW c \in CPU, NEW p \in Slot, forkret(c, p) PROVE TypeOK'
  BY ZenonT(30), <1>0, <1>3 DEF forkret, Goto
<1>4. ASSUME NEW c \in CPU, NEW p \in Slot, yield(c, p) PROVE TypeOK'
  BY ZenonT(30), <1>0, <1>4 DEF yield, Goto
<1>5. ASSUME NEW c \in CPU, NEW p \in Slot, yield_return(c, p) PROVE TypeOK'
  BY ZenonT(30), <1>0, <1>5 DEF yield_return, Goto
<1>6. ASSUME NEW c \in CPU, NEW p \in Slot, fork_parent(c, p) PROVE TypeOK'
  BY Zenon, <1>0, <1>6 DEF fork_parent, Goto
<1>7. ASSUME NEW c \in CPU, NEW p \in Slot, fork_ready(c, p) PROVE TypeOK'
  BY Zenon, <1>0, <1>7 DEF fork_ready, Goto
<1>8. ASSUME NEW c \in CPU, NEW p \in Slot, exit(c, p) PROVE TypeOK'
  <2>1. parent' \in [Slot -> Slot \cup {0}]
    BY <1>0, <1>8 DEF exit, Reparented
  <2>2. ExitWakes(p) \in Seq(Slot \cup {0})
    <3>1. parent[p] \in Slot \cup {0}
      BY <1>0
    <3> HIDE DEF TypeOK
    <3> QED
      BY Zenon, <3>1, Slots, ShortSeq DEF ExitWakes
  <2> QED
    BY Zenon, <1>0, <1>8, <2>1, <2>2 DEF exit, Goto, InUser
<1>9. ASSUME NEW c \in CPU, NEW p \in Slot, wakeup(c, p) PROVE TypeOK'
  <2>1. wakes[p] # << >> /\ idx[p] \in Slot
    <3> HIDE DEF TypeOK
    <3>1. /\ idx[p] \in Slot
          /\ wakes[p] \in {<<initproc, parent[p]>>, <<parent[p]>>}
      BY Zenon, <1>9 DEF Inv, WakeInv, WakeAt, wakeup
    <3>2. <<initproc, parent[p]>> # << >> /\ <<parent[p]>> # << >>
      OBVIOUS
    <3> QED
      BY <3>1, <3>2
  <2>2. Tail(wakes[p]) \in Seq(Slot \cup {0})
    BY <1>0, <2>1
  <2> QED
    BY Zenon, <1>0, <1>9, <2>1, <2>2, SlotOrder DEF wakeup, Goto, AtEnd
<1>10. ASSUME NEW c \in CPU, NEW p \in Slot, exit_zombie(c, p) PROVE TypeOK'
  BY ZenonT(30), <1>0, <1>10 DEF exit_zombie, Goto
<1>11. ASSUME NEW c \in CPU, NEW p \in Slot, wait(c, p) PROVE TypeOK'
  BY ZenonT(30), <1>0, <1>11 DEF wait, Goto
<1>12. ASSUME NEW c \in CPU, NEW p \in Slot, wait_fail(c, p) PROVE TypeOK'
  BY ZenonT(30), <1>0, <1>12 DEF wait_fail, Goto, ScanOver
<1>13. ASSUME NEW c \in CPU, NEW p \in Slot, wait_sleep(c, p) PROVE TypeOK'
  BY ZenonT(30), <1>0, <1>13 DEF wait_sleep, Goto, ScanOver
<1>14. ASSUME NEW c \in CPU, NEW p \in Slot, sleep(c, p) PROVE TypeOK'
  BY ZenonT(30), <1>0, <1>14 DEF sleep, Goto
<1>15. ASSUME NEW c \in CPU, NEW p \in Slot, sleep_switch(c, p) PROVE TypeOK'
  BY ZenonT(30), <1>0, <1>15 DEF sleep_switch, Goto
<1>16. ASSUME NEW c \in CPU, NEW p \in Slot, sleep_return(c, p) PROVE TypeOK'
  BY Zenon, <1>0, <1>16 DEF sleep_return, Goto
<1>17. ASSUME NEW c \in CPU, NEW p \in Slot, NEW q \in Slot,
             fork_alloc(c, p, q)
      PROVE  TypeOK'
  <2>1. nextpid \in Pid /\ nextpid' \in 1..(MaxPid + 1)
    BY <1>0, <1>17, ProcAssumption DEF fork_alloc, Pid
  <2> QED
    BY Zenon, <1>0, <1>17, <2>1 DEF fork_alloc, InUser
<1>18. ASSUME NEW c \in CPU, NEW p \in Slot, NEW q \in Slot,
             fork_fail(c, p, q)
      PROVE  TypeOK'
  <2>1. nextpid \in Pid /\ nextpid' \in 1..(MaxPid + 1)
    BY <1>0, <1>18, ProcAssumption DEF fork_fail, Pid
  <2> QED
    BY Zenon, <1>0, <1>18, <2>1 DEF fork_fail, InUser
<1>19. ASSUME NEW c \in CPU, NEW p \in Slot, NEW q \in Slot,
             wait_alive(c, p, q)
      PROVE  TypeOK'
  BY Zenon, <1>0, <1>19, SlotOrder DEF wait_alive, Scanning, ChildUnlocked
<1>20. ASSUME NEW c \in CPU, NEW p \in Slot, NEW q \in Slot,
             wait_reap(c, p, q)
      PROVE  TypeOK'
  BY ZenonT(30), <1>0, <1>20 DEF wait_reap, Scanning, ChildUnlocked, Goto
<1>21. ASSUME NEW c \in CPU, NEW p \in Slot, NEW q \in Slot,
             wait_copyout_fail(c, p, q)
      PROVE  TypeOK'
  BY ZenonT(30), <1>0, <1>21 DEF wait_copyout_fail, Scanning, ChildUnlocked, Goto
<1>22. ASSUME NEW c \in CPU, NEW p \in Slot, NEW q \in Slot, kill(c, p, q)
      PROVE  TypeOK'
  BY ZenonT(30), <1>0, <1>22 DEF kill, InUser, WakeVictim
<1>23. CASE UNCHANGED vars
  BY Zenon, <1>0, <1>23 DEF vars
<1> QED
  BY ZenonT(30), <1>1, <1>2, <1>3, <1>4, <1>5, <1>6, <1>7, <1>8, <1>9, <1>10, <1>11,
     <1>12, <1>13, <1>14, <1>15, <1>16, <1>17, <1>18, <1>19, <1>20, <1>21,
     <1>22, <1>23, Zenon
  DEF Next, Step

LEMMA PlaceStep == Inv /\ [Next]_vars => PlaceInv'
<1> SUFFICES ASSUME Inv, [Next]_vars PROVE PlaceInv'
    OBVIOUS
<1>0. TypeOK /\ PlaceInv /\ LockInv /\ ForkInv
  BY DEF Inv
<1> USE Slots DEF TypeOK, PlaceInv, LockInv, PLocked, ForkInv, Forking,
     initproc, On, procs, locals
<1>1. ASSUME NEW c \in CPU, NEW p \in Slot, scheduler(c, p) PROVE PlaceInv'
  BY <1>0, <1>1 DEF scheduler
<1>2. ASSUME NEW c \in CPU, NEW p \in Slot, sched(c, p) PROVE PlaceInv'
  BY <1>0, <1>2 DEF sched
<1>3. ASSUME NEW c \in CPU, NEW p \in Slot, forkret(c, p) PROVE PlaceInv'
  BY <1>0, <1>3 DEF forkret, Goto
<1>4. ASSUME NEW c \in CPU, NEW p \in Slot, yield(c, p) PROVE PlaceInv'
  BY <1>0, <1>4 DEF yield, Goto
<1>5. ASSUME NEW c \in CPU, NEW p \in Slot, yield_return(c, p)
      PROVE  PlaceInv'
  <2>1. /\ ret[p] \notin PLocked /\ ret[p] \notin WLocked /\ ret[p] # "zombie"
    <3>1. ret[p] \in Returns
      BY <1>0
    <3> HIDE DEF TypeOK, PlaceInv, LockInv, ForkInv
    <3> QED
      BY <3>1 DEF Returns, PLocked, WLocked
  <2> QED
    BY <1>0, <1>5, <2>1 DEF yield_return, Goto
<1>6. ASSUME NEW c \in CPU, NEW p \in Slot, fork_parent(c, p) PROVE PlaceInv'
  BY <1>0, <1>6 DEF fork_parent, Goto
<1>7. ASSUME NEW c \in CPU, NEW p \in Slot, fork_ready(c, p) PROVE PlaceInv'
  BY <1>0, <1>7 DEF fork_ready, Goto
<1>8. ASSUME NEW c \in CPU, NEW p \in Slot, exit(c, p) PROVE PlaceInv'
  BY SMTT(30), <1>0, <1>8 DEF exit, Goto, InUser, Reparented, ExitWakes, Kids
<1>9. ASSUME NEW c \in CPU, NEW p \in Slot, wakeup(c, p) PROVE PlaceInv'
  <2>1. /\ idx[p] \in Slot
        /\ \/ state' = state
           \/ /\ state[idx[p]] = "SLEEPING"
              /\ state' = [state EXCEPT ![idx[p]] = "RUNNABLE"]
        /\ pc' = [pc EXCEPT ![p] = pc'[p]]
        /\ pc'[p] \in {"wakeup", "exit_zombie"}
    BY <1>9, WakeupStep
  <2> QED
    BY <1>0, <1>9, <2>1 DEF wakeup
<1>10. ASSUME NEW c \in CPU, NEW p \in Slot, exit_zombie(c, p)
      PROVE  PlaceInv'
  BY <1>0, <1>10 DEF exit_zombie, Goto
<1>11. ASSUME NEW c \in CPU, NEW p \in Slot, wait(c, p) PROVE PlaceInv'
  BY <1>0, <1>11 DEF wait, Goto
<1>12. ASSUME NEW c \in CPU, NEW p \in Slot, wait_fail(c, p) PROVE PlaceInv'
  BY <1>0, <1>12 DEF wait_fail, Goto, ScanOver
<1>13. ASSUME NEW c \in CPU, NEW p \in Slot, wait_sleep(c, p) PROVE PlaceInv'
  BY SMTT(30), <1>0, <1>13 DEF wait_sleep, Goto, ScanOver
<1>14. ASSUME NEW c \in CPU, NEW p \in Slot, sleep(c, p) PROVE PlaceInv'
  BY <1>0, <1>14 DEF sleep, Goto
<1>15. ASSUME NEW c \in CPU, NEW p \in Slot, sleep_switch(c, p)
      PROVE  PlaceInv'
  BY <1>0, <1>15 DEF sleep_switch, Goto
<1>16. ASSUME NEW c \in CPU, NEW p \in Slot, sleep_return(c, p)
      PROVE  PlaceInv'
  BY <1>0, <1>16 DEF sleep_return, Goto
<1>17. ASSUME NEW c \in CPU, NEW p \in Slot, NEW q \in Slot,
             fork_alloc(c, p, q)
      PROVE  PlaceInv'
  BY <1>0, <1>17 DEF fork_alloc, InUser
<1>18. ASSUME NEW c \in CPU, NEW p \in Slot, NEW q \in Slot,
             fork_fail(c, p, q)
      PROVE  PlaceInv'
  BY <1>0, <1>18 DEF fork_fail, InUser
<1>19. ASSUME NEW c \in CPU, NEW p \in Slot, NEW q \in Slot,
             wait_alive(c, p, q)
      PROVE  PlaceInv'
  BY SMTT(30), <1>0, <1>19 DEF wait_alive, Scanning, ChildUnlocked
<1>20. ASSUME NEW c \in CPU, NEW p \in Slot, NEW q \in Slot,
             wait_reap(c, p, q)
      PROVE  PlaceInv'
  BY SMTT(30), <1>0, <1>20 DEF wait_reap, Scanning, ChildUnlocked, Goto
<1>21. ASSUME NEW c \in CPU, NEW p \in Slot, NEW q \in Slot,
             wait_copyout_fail(c, p, q)
      PROVE  PlaceInv'
  BY SMTT(30), <1>0, <1>21 DEF wait_copyout_fail, Scanning, ChildUnlocked, Goto
<1>22. ASSUME NEW c \in CPU, NEW p \in Slot, NEW q \in Slot, kill(c, p, q)
      PROVE  PlaceInv'
  BY <1>0, <1>22 DEF kill, InUser, WakeVictim
<1>23. CASE UNCHANGED vars
  BY <1>0, <1>23 DEF vars
<1> QED
  BY ZenonT(30), <1>1, <1>2, <1>3, <1>4, <1>5, <1>6, <1>7, <1>8, <1>9, <1>10, <1>11,
     <1>12, <1>13, <1>14, <1>15, <1>16, <1>17, <1>18, <1>19, <1>20, <1>21,
     <1>22, <1>23, Zenon
  DEF Next, Step

LEMMA LockStep == Inv /\ [Next]_vars => LockInv'
<1> SUFFICES ASSUME Inv, [Next]_vars PROVE LockInv'
    OBVIOUS
<1>0. TypeOK /\ PlaceInv /\ LockInv /\ ForkInv
  BY DEF Inv
<1> USE Slots DEF TypeOK, PlaceInv, LockInv, PLocked, ForkInv, Forking,
     initproc, On, procs, locals
<1>1. ASSUME NEW c \in CPU, NEW p \in Slot, scheduler(c, p) PROVE LockInv'
  BY <1>0, <1>1 DEF scheduler
<1>2. ASSUME NEW c \in CPU, NEW p \in Slot, sched(c, p) PROVE LockInv'
  BY <1>0, <1>2 DEF sched
<1>3. ASSUME NEW c \in CPU, NEW p \in Slot, forkret(c, p) PROVE LockInv'
  BY SMTT(30), <1>0, <1>3 DEF forkret, Goto
<1>4. ASSUME NEW c \in CPU, NEW p \in Slot, yield(c, p) PROVE LockInv'
  BY SMTT(30), <1>0, <1>4 DEF yield, Goto
<1>5. ASSUME NEW c \in CPU, NEW p \in Slot, yield_return(c, p) PROVE LockInv'
  <2>1. /\ ret[p] \notin PLocked /\ ret[p] \notin WLocked /\ ret[p] # "zombie"
    <3>1. ret[p] \in Returns
      BY <1>0
    <3> HIDE DEF TypeOK, PlaceInv, LockInv, ForkInv
    <3> QED
      BY <3>1 DEF Returns, PLocked, WLocked
  <2> QED
    BY <1>0, <1>5, <2>1 DEF yield_return, Goto
<1>6. ASSUME NEW c \in CPU, NEW p \in Slot, fork_parent(c, p) PROVE LockInv'
  BY <1>0, <1>6 DEF fork_parent, Goto
<1>7. ASSUME NEW c \in CPU, NEW p \in Slot, fork_ready(c, p) PROVE LockInv'
  BY <1>0, <1>7 DEF fork_ready, Goto
<1>8. ASSUME NEW c \in CPU, NEW p \in Slot, exit(c, p) PROVE LockInv'
  BY SMTT(30), <1>0, <1>8 DEF exit, Goto, InUser, Reparented, ExitWakes, Kids
<1>9. ASSUME NEW c \in CPU, NEW p \in Slot, wakeup(c, p) PROVE LockInv'
  <2>1. /\ idx[p] \in Slot
        /\ \/ state' = state
           \/ /\ state[idx[p]] = "SLEEPING"
              /\ state' = [state EXCEPT ![idx[p]] = "RUNNABLE"]
        /\ pc' = [pc EXCEPT ![p] = pc'[p]]
        /\ pc'[p] \in {"wakeup", "exit_zombie"}
    BY <1>9, WakeupStep
  <2> QED
    BY SMTT(30), <1>0, <1>9, <2>1 DEF wakeup
<1>10. ASSUME NEW c \in CPU, NEW p \in Slot, exit_zombie(c, p) PROVE LockInv'
  BY <1>0, <1>10 DEF exit_zombie, Goto
<1>11. ASSUME NEW c \in CPU, NEW p \in Slot, wait(c, p) PROVE LockInv'
  BY <1>0, <1>11 DEF wait, Goto
<1>12. ASSUME NEW c \in CPU, NEW p \in Slot, wait_fail(c, p) PROVE LockInv'
  BY SMTT(30), <1>0, <1>12 DEF wait_fail, Goto, ScanOver
<1>13. ASSUME NEW c \in CPU, NEW p \in Slot, wait_sleep(c, p) PROVE LockInv'
  BY SMTT(30), <1>0, <1>13 DEF wait_sleep, Goto, ScanOver
<1>14. ASSUME NEW c \in CPU, NEW p \in Slot, sleep(c, p) PROVE LockInv'
  BY SMTT(30), <1>0, <1>14 DEF sleep, Goto
<1>15. ASSUME NEW c \in CPU, NEW p \in Slot, sleep_switch(c, p)
      PROVE  LockInv'
  BY <1>0, <1>15 DEF sleep_switch, Goto
<1>16. ASSUME NEW c \in CPU, NEW p \in Slot, sleep_return(c, p)
      PROVE  LockInv'
  BY SMTT(30), <1>0, <1>16 DEF sleep_return, Goto
<1>17. ASSUME NEW c \in CPU, NEW p \in Slot, NEW q \in Slot,
             fork_alloc(c, p, q)
      PROVE  LockInv'
  BY <1>0, <1>17 DEF fork_alloc, InUser
<1>18. ASSUME NEW c \in CPU, NEW p \in Slot, NEW q \in Slot,
             fork_fail(c, p, q)
      PROVE  LockInv'
  BY <1>0, <1>18 DEF fork_fail, InUser
<1>19. ASSUME NEW c \in CPU, NEW p \in Slot, NEW q \in Slot,
             wait_alive(c, p, q)
      PROVE  LockInv'
  BY SMTT(30), <1>0, <1>19 DEF wait_alive, Scanning, ChildUnlocked
<1>20. ASSUME NEW c \in CPU, NEW p \in Slot, NEW q \in Slot,
             wait_reap(c, p, q)
      PROVE  LockInv'
  BY SMTT(30), <1>0, <1>20 DEF wait_reap, Scanning, ChildUnlocked, Goto
<1>21. ASSUME NEW c \in CPU, NEW p \in Slot, NEW q \in Slot,
             wait_copyout_fail(c, p, q)
      PROVE  LockInv'
  BY SMTT(30), <1>0, <1>21 DEF wait_copyout_fail, Scanning, ChildUnlocked, Goto
<1>22. ASSUME NEW c \in CPU, NEW p \in Slot, NEW q \in Slot, kill(c, p, q)
      PROVE  LockInv'
  BY <1>0, <1>22 DEF kill, InUser, WakeVictim
<1>23. CASE UNCHANGED vars
  BY <1>0, <1>23 DEF vars
<1> QED
  BY ZenonT(30), <1>1, <1>2, <1>3, <1>4, <1>5, <1>6, <1>7, <1>8, <1>9, <1>10, <1>11,
     <1>12, <1>13, <1>14, <1>15, <1>16, <1>17, <1>18, <1>19, <1>20, <1>21,
     <1>22, <1>23, Zenon
  DEF Next, Step

LEMMA WaitStep == Inv /\ [Next]_vars => WaitInv'
<1> SUFFICES ASSUME Inv, [Next]_vars PROVE WaitInv'
    OBVIOUS
<1>0. TypeOK /\ PlaceInv /\ LockInv /\ WaitInv /\ ForkInv
  BY DEF Inv
<1> USE Slots DEF TypeOK, PlaceInv, LockInv, WaitInv, WLocked, PLocked,
     ForkInv, Forking, initproc, On, procs, locals
<1>1. ASSUME NEW c \in CPU, NEW p \in Slot, scheduler(c, p) PROVE WaitInv'
  BY SMTT(30), <1>0, <1>1 DEF scheduler
<1>2. ASSUME NEW c \in CPU, NEW p \in Slot, sched(c, p) PROVE WaitInv'
  BY <1>0, <1>2 DEF sched
<1>3. ASSUME NEW c \in CPU, NEW p \in Slot, forkret(c, p) PROVE WaitInv'
  BY <1>0, <1>3 DEF forkret, Goto
<1>4. ASSUME NEW c \in CPU, NEW p \in Slot, yield(c, p) PROVE WaitInv'
  BY <1>0, <1>4 DEF yield, Goto
<1>5. ASSUME NEW c \in CPU, NEW p \in Slot, yield_return(c, p) PROVE WaitInv'
  <2>1. /\ ret[p] \notin PLocked /\ ret[p] \notin WLocked /\ ret[p] # "zombie"
    <3>1. ret[p] \in Returns
      BY SMTT(30), <1>0
    <3> HIDE DEF TypeOK, PlaceInv, LockInv, ForkInv
    <3> QED
      BY <3>1 DEF Returns, PLocked, WLocked
  <2> QED
    BY <1>0, <1>5, <2>1 DEF yield_return, Goto
<1>6. ASSUME NEW c \in CPU, NEW p \in Slot, fork_parent(c, p) PROVE WaitInv'
  BY SMTT(30), <1>0, <1>6 DEF fork_parent, Goto
<1>7. ASSUME NEW c \in CPU, NEW p \in Slot, fork_ready(c, p) PROVE WaitInv'
  BY SMTT(30), <1>0, <1>7 DEF fork_ready, Goto
<1>8. ASSUME NEW c \in CPU, NEW p \in Slot, exit(c, p) PROVE WaitInv'
  BY <1>0, <1>8 DEF exit, Goto, InUser, Reparented, ExitWakes, Kids
<1>9. ASSUME NEW c \in CPU, NEW p \in Slot, wakeup(c, p) PROVE WaitInv'
  <2>1. /\ idx[p] \in Slot
        /\ \/ state' = state
           \/ /\ state[idx[p]] = "SLEEPING"
              /\ state' = [state EXCEPT ![idx[p]] = "RUNNABLE"]
        /\ pc' = [pc EXCEPT ![p] = pc'[p]]
        /\ pc'[p] \in {"wakeup", "exit_zombie"}
    BY <1>9, WakeupStep
  <2> QED
    BY <1>0, <1>9, <2>1 DEF wakeup
<1>10. ASSUME NEW c \in CPU, NEW p \in Slot, exit_zombie(c, p) PROVE WaitInv'
  BY <1>0, <1>10 DEF exit_zombie, Goto
<1>11. ASSUME NEW c \in CPU, NEW p \in Slot, wait(c, p) PROVE WaitInv'
  BY <1>0, <1>11 DEF wait, Goto
<1>12. ASSUME NEW c \in CPU, NEW p \in Slot, wait_fail(c, p) PROVE WaitInv'
  BY <1>0, <1>12 DEF wait_fail, Goto, ScanOver
<1>13. ASSUME NEW c \in CPU, NEW p \in Slot, wait_sleep(c, p) PROVE WaitInv'
  BY SMTT(30), <1>0, <1>13 DEF wait_sleep, Goto, ScanOver
<1>14. ASSUME NEW c \in CPU, NEW p \in Slot, sleep(c, p) PROVE WaitInv'
  BY <1>0, <1>14 DEF sleep, Goto
<1>15. ASSUME NEW c \in CPU, NEW p \in Slot, sleep_switch(c, p)
      PROVE  WaitInv'
  BY SMTT(30), <1>0, <1>15 DEF sleep_switch, Goto
<1>16. ASSUME NEW c \in CPU, NEW p \in Slot, sleep_return(c, p)
      PROVE  WaitInv'
  BY SMTT(30), <1>0, <1>16 DEF sleep_return, Goto
<1>17. ASSUME NEW c \in CPU, NEW p \in Slot, NEW q \in Slot,
             fork_alloc(c, p, q)
      PROVE  WaitInv'
  <2>1. q # p /\ \A r \in Slot : np[r] # q
    <3>1. state[q] = "UNUSED" /\ state[p] = "RUNNING"
      BY <1>17 DEF fork_alloc, InUser
    <3>2. \A r \in Slot : np[r] # 0 => state[np[r]] = "USED"
      BY SMTT(30), <1>0
    <3> QED
      BY <3>1, <3>2
  <2>2. /\ \A r \in Slot : pc'[r] = IF r = p THEN "fork_parent"
                                ELSE IF r = q THEN "forkret" ELSE pc[r]
        /\ \A r \in Slot : state'[r] = IF r = q THEN "USED" ELSE state[r]
        /\ \A r \in Slot : np'[r] = IF r = p THEN q ELSE np[r]
    BY SMTT(30), <1>0, <1>17, <2>1 DEF fork_alloc
  <2> QED
    BY SMTT(30), <1>0, <1>17, <2>1, <2>2 DEF fork_alloc, InUser
<1>18. ASSUME NEW c \in CPU, NEW p \in Slot, NEW q \in Slot,
             fork_fail(c, p, q)
      PROVE  WaitInv'
  BY SMTT(30), <1>0, <1>18 DEF fork_fail, InUser
<1>19. ASSUME NEW c \in CPU, NEW p \in Slot, NEW q \in Slot,
             wait_alive(c, p, q)
      PROVE  WaitInv'
  BY SMTT(30), <1>0, <1>19 DEF wait_alive, Scanning, ChildUnlocked
<1>20. ASSUME NEW c \in CPU, NEW p \in Slot, NEW q \in Slot,
             wait_reap(c, p, q)
      PROVE  WaitInv'
  BY SMTT(30), <1>0, <1>20 DEF wait_reap, Scanning, ChildUnlocked, Goto
<1>21. ASSUME NEW c \in CPU, NEW p \in Slot, NEW q \in Slot,
             wait_copyout_fail(c, p, q)
      PROVE  WaitInv'
  BY SMTT(30), <1>0, <1>21 DEF wait_copyout_fail, Scanning, ChildUnlocked, Goto
<1>22. ASSUME NEW c \in CPU, NEW p \in Slot, NEW q \in Slot, kill(c, p, q)
      PROVE  WaitInv'
  BY SMTT(30), <1>0, <1>22 DEF kill, InUser, WakeVictim
<1>23. CASE UNCHANGED vars
  BY <1>0, <1>23 DEF vars
<1> QED
  BY ZenonT(30), <1>1, <1>2, <1>3, <1>4, <1>5, <1>6, <1>7, <1>8, <1>9, <1>10, <1>11,
     <1>12, <1>13, <1>14, <1>15, <1>16, <1>17, <1>18, <1>19, <1>20, <1>21,
     <1>22, <1>23, Zenon
  DEF Next, Step

LEMMA ForkStep == Inv /\ [Next]_vars => ForkInv'
<1> SUFFICES ASSUME Inv, [Next]_vars PROVE ForkInv'
    OBVIOUS
<1>0. TypeOK /\ PlaceInv /\ ForkInv
  BY DEF Inv
<1> USE Slots DEF TypeOK, PlaceInv, ForkInv, Forking, initproc, On, procs,
     locals
<1>1. ASSUME NEW c \in CPU, NEW p \in Slot, scheduler(c, p) PROVE ForkInv'
  BY <1>0, <1>1 DEF scheduler
<1>2. ASSUME NEW c \in CPU, NEW p \in Slot, sched(c, p) PROVE ForkInv'
  BY <1>0, <1>2 DEF sched
<1>3. ASSUME NEW c \in CPU, NEW p \in Slot, forkret(c, p) PROVE ForkInv'
  BY <1>0, <1>3 DEF forkret, Goto
<1>4. ASSUME NEW c \in CPU, NEW p \in Slot, yield(c, p) PROVE ForkInv'
  BY <1>0, <1>4 DEF yield, Goto
<1>5. ASSUME NEW c \in CPU, NEW p \in Slot, yield_return(c, p) PROVE ForkInv'
  <2>1. /\ ret[p] \notin PLocked /\ ret[p] \notin WLocked /\ ret[p] # "zombie"
    <3>1. ret[p] \in Returns
      BY SMTT(30), <1>0
    <3> HIDE DEF TypeOK, PlaceInv, LockInv, ForkInv
    <3> QED
      BY <3>1 DEF Returns, PLocked, WLocked
  <2> QED
    BY <1>0, <1>5, <2>1 DEF yield_return, Goto
<1>6. ASSUME NEW c \in CPU, NEW p \in Slot, fork_parent(c, p) PROVE ForkInv'
  BY SMTT(30), <1>0, <1>6 DEF fork_parent, Goto
<1>7. ASSUME NEW c \in CPU, NEW p \in Slot, fork_ready(c, p) PROVE ForkInv'
  BY SMTT(30), <1>0, <1>7 DEF fork_ready, Goto
<1>8. ASSUME NEW c \in CPU, NEW p \in Slot, exit(c, p) PROVE ForkInv'
  BY SMTT(30), <1>0, <1>8 DEF exit, Goto, InUser, Reparented, ExitWakes, Kids
<1>9. ASSUME NEW c \in CPU, NEW p \in Slot, wakeup(c, p) PROVE ForkInv'
  <2>1. /\ idx[p] \in Slot
        /\ \/ state' = state
           \/ /\ state[idx[p]] = "SLEEPING"
              /\ state' = [state EXCEPT ![idx[p]] = "RUNNABLE"]
        /\ pc' = [pc EXCEPT ![p] = pc'[p]]
        /\ pc'[p] \in {"wakeup", "exit_zombie"}
    BY <1>9, WakeupStep
  <2> QED
    BY SMTT(30), <1>0, <1>9, <2>1 DEF wakeup
<1>10. ASSUME NEW c \in CPU, NEW p \in Slot, exit_zombie(c, p) PROVE ForkInv'
  BY <1>0, <1>10 DEF exit_zombie, Goto
<1>11. ASSUME NEW c \in CPU, NEW p \in Slot, wait(c, p) PROVE ForkInv'
  BY SMTT(30), <1>0, <1>11 DEF wait, Goto
<1>12. ASSUME NEW c \in CPU, NEW p \in Slot, wait_fail(c, p) PROVE ForkInv'
  BY SMTT(30), <1>0, <1>12 DEF wait_fail, Goto, ScanOver
<1>13. ASSUME NEW c \in CPU, NEW p \in Slot, wait_sleep(c, p) PROVE ForkInv'
  BY SMTT(30), <1>0, <1>13 DEF wait_sleep, Goto, ScanOver
<1>14. ASSUME NEW c \in CPU, NEW p \in Slot, sleep(c, p) PROVE ForkInv'
  BY SMTT(30), <1>0, <1>14 DEF sleep, Goto
<1>15. ASSUME NEW c \in CPU, NEW p \in Slot, sleep_switch(c, p)
      PROVE  ForkInv'
  BY SMTT(30), <1>0, <1>15 DEF sleep_switch, Goto
<1>16. ASSUME NEW c \in CPU, NEW p \in Slot, sleep_return(c, p)
      PROVE  ForkInv'
  BY SMTT(30), <1>0, <1>16 DEF sleep_return, Goto
<1>17. ASSUME NEW c \in CPU, NEW p \in Slot, NEW q \in Slot,
             fork_alloc(c, p, q)
      PROVE  ForkInv'
  <2>1. q # p /\ \A r \in Slot : np[r] # q
    <3>1. state[q] = "UNUSED" /\ state[p] = "RUNNING"
      BY <1>17 DEF fork_alloc, InUser
    <3>2. \A r \in Slot : np[r] # 0 => state[np[r]] = "USED"
      BY <1>0
    <3> QED
      BY <3>1, <3>2
  <2>2. /\ \A r \in Slot : pc'[r] = IF r = p THEN "fork_parent"
                                ELSE IF r = q THEN "forkret" ELSE pc[r]
        /\ \A r \in Slot : state'[r] = IF r = q THEN "USED" ELSE state[r]
        /\ \A r \in Slot : np'[r] = IF r = p THEN q ELSE np[r]
    BY <1>0, <1>17, <2>1 DEF fork_alloc
  <2> QED
    BY <1>0, <1>17, <2>1, <2>2 DEF fork_alloc, InUser
<1>18. ASSUME NEW c \in CPU, NEW p \in Slot, NEW q \in Slot,
             fork_fail(c, p, q)
      PROVE  ForkInv'
  BY <1>0, <1>18 DEF fork_fail, InUser
<1>19. ASSUME NEW c \in CPU, NEW p \in Slot, NEW q \in Slot,
             wait_alive(c, p, q)
      PROVE  ForkInv'
  BY <1>0, <1>19 DEF wait_alive, Scanning, ChildUnlocked
<1>20. ASSUME NEW c \in CPU, NEW p \in Slot, NEW q \in Slot,
             wait_reap(c, p, q)
      PROVE  ForkInv'
  BY <1>0, <1>20 DEF wait_reap, Scanning, ChildUnlocked, Goto
<1>21. ASSUME NEW c \in CPU, NEW p \in Slot, NEW q \in Slot,
             wait_copyout_fail(c, p, q)
      PROVE  ForkInv'
  BY <1>0, <1>21 DEF wait_copyout_fail, Scanning, ChildUnlocked, Goto
<1>22. ASSUME NEW c \in CPU, NEW p \in Slot, NEW q \in Slot, kill(c, p, q)
      PROVE  ForkInv'
  BY <1>0, <1>22 DEF kill, InUser, WakeVictim
<1>23. CASE UNCHANGED vars
  BY <1>0, <1>23 DEF vars
<1> QED
  BY ZenonT(30), <1>1, <1>2, <1>3, <1>4, <1>5, <1>6, <1>7, <1>8, <1>9, <1>10, <1>11,
     <1>12, <1>13, <1>14, <1>15, <1>16, <1>17, <1>18, <1>19, <1>20, <1>21,
     <1>22, <1>23, Zenon
  DEF Next, Step

\* While somebody is at a point with wait_lock, nobody else is, and it is
\* not free.
LEMMA Alone ==
    ASSUME Inv, NEW p \in Slot, NEW q \in Slot, pc[q] \in WLocked
    PROVE  /\ wait_lock # NoCPU /\ state[q] = "RUNNING"
           /\ pc[p] \in WLocked => p = q
BY Slots DEF Inv, WaitInv, TypeOK

\* A step that does not need wait_lock: the children, the zombies and the
\* sleepers of the others stay what they are, and so does whoever has it.
Quiet ==
    /\ parent' = parent
    /\ \A r \in Slot :
          /\ state'[r] \in {"ZOMBIE", "SLEEPING"} => state[r] = state'[r]
          /\ pc[r] \in WLocked \/ pc'[r] \in WLocked =>
                pc'[r] = pc[r] /\ idx'[r] = idx[r] /\ wakes'[r] = wakes[r]

LEMMA QuietStep == Inv /\ Quiet => ScanInv' /\ WakeInv' /\ ZombieInv'
<1> SUFFICES ASSUME Inv, Quiet PROVE ScanInv' /\ WakeInv' /\ ZombieInv'
    OBVIOUS
<1>1. \A r \in Slot : Zombies(r)' \subseteq Zombies(r)
  BY DEF Quiet, Zombies, Kids
<1>2. ScanInv'
  BY Zenon, <1>1 DEF Inv, Quiet, ScanInv, WLocked
<1>3. WakeInv'
  BY SMTT(30) DEF Inv, Quiet, WakeInv, WakeAt, WLocked
<1>4. ZombieInv'
  BY <1>1 DEF Inv, Quiet, ZombieInv, InitWillWake, WLocked
<1> QED
  BY <1>2, <1>3, <1>4

\* The steps made with wait_lock held, or while it is free.
Held(c, p) ==
    \/ fork_parent(c, p) \/ exit(c, p) \/ wakeup(c, p) \/ exit_zombie(c, p)
    \/ wait(c, p) \/ wait_fail(c, p) \/ wait_sleep(c, p)
    \/ sleep(c, p) \/ sleep_switch(c, p)
    \/ \E q \in Slot : \/ wait_alive(c, p, q) \/ wait_reap(c, p, q)
                       \/ wait_copyout_fail(c, p, q)

LEMMA QuietOrHeld ==
    Inv /\ [Next]_vars => Quiet \/ \E c \in CPU, p \in Slot : Held(c, p)
<1> SUFFICES ASSUME Inv, [Next]_vars
             PROVE  Quiet \/ \E c \in CPU, p \in Slot : Held(c, p)
    OBVIOUS
<1>0. /\ state \in [Slot -> procstate] /\ pc \in [Slot -> Points]
      /\ ret \in [Slot -> Returns] /\ np \in [Slot -> Slot \cup {0}]
      /\ WaitInv /\ ForkInv
  BY DEF Inv, TypeOK
<1> USE Slots DEF Quiet, WLocked, WaitInv, On, InUser, procs, locals
<1>1. ASSUME NEW c \in CPU, NEW p \in Slot, scheduler(c, p) PROVE Quiet
  BY <1>0, <1>1 DEF scheduler
<1>2. ASSUME NEW c \in CPU, NEW p \in Slot, sched(c, p) PROVE Quiet
  BY <1>0, <1>2 DEF sched
<1>3. ASSUME NEW c \in CPU, NEW p \in Slot, forkret(c, p) PROVE Quiet
  BY <1>0, <1>3 DEF forkret, Goto
<1>4. ASSUME NEW c \in CPU, NEW p \in Slot, yield(c, p) PROVE Quiet
  BY <1>0, <1>4 DEF yield, Goto
<1>5. ASSUME NEW c \in CPU, NEW p \in Slot, yield_return(c, p) PROVE Quiet
  <2>1. ret[p] \in Returns
    BY SMTT(30), <1>0
  <2> QED
    BY <1>0, <1>5, <2>1 DEF yield_return, Goto, Returns
<1>6. ASSUME NEW c \in CPU, NEW p \in Slot, fork_ready(c, p) PROVE Quiet
  BY <1>0, <1>6 DEF fork_ready, Goto, ForkInv, Forking
<1>7. ASSUME NEW c \in CPU, NEW p \in Slot, sleep_return(c, p) PROVE Quiet
  BY SMTT(30), <1>0, <1>7 DEF sleep_return, Goto
<1>8. ASSUME NEW c \in CPU, NEW p \in Slot, NEW q \in Slot,
             fork_alloc(c, p, q)
      PROVE  Quiet
  <2>1. \A r \in Slot : pc'[r] = IF r = q THEN "forkret"
                               ELSE IF r = p THEN "fork_parent" ELSE pc[r]
    BY SMTT(30), <1>0, <1>8 DEF fork_alloc
  <2> QED
    BY SMTT(30), <1>0, <1>8, <2>1 DEF fork_alloc
<1>9. ASSUME NEW c \in CPU, NEW p \in Slot, NEW q \in Slot, fork_fail(c, p, q)
      PROVE  Quiet
  BY SMTT(30), <1>0, <1>9 DEF fork_fail
<1>10. ASSUME NEW c \in CPU, NEW p \in Slot, NEW q \in Slot, kill(c, p, q)
      PROVE  Quiet
  BY <1>0, <1>10 DEF kill, WakeVictim
<1>11. CASE UNCHANGED vars
  BY <1>11 DEF vars
<1> HIDE DEF Quiet
<1> QED
  BY ZenonT(30), <1>1, <1>2, <1>3, <1>4, <1>5, <1>6, <1>7, <1>8, <1>9, <1>10, <1>11
  DEF Next, Step, Held

LEMMA FamilyStep == Inv /\ [Next]_vars => FamilyInv'
<1> SUFFICES ASSUME Inv, [Next]_vars PROVE FamilyInv'
    OBVIOUS
<1>0. TypeOK /\ PlaceInv /\ ForkInv /\ WakeInv /\ FamilyInv
  BY DEF Inv
<1> USE Slots DEF TypeOK, PlaceInv, ForkInv, Forking, FamilyInv, initproc, On,
     procs, locals
<1>1. ASSUME NEW c \in CPU, NEW p \in Slot, scheduler(c, p) PROVE FamilyInv'
  BY SMTT(30), <1>0, <1>1 DEF scheduler
<1>2. ASSUME NEW c \in CPU, NEW p \in Slot, sched(c, p) PROVE FamilyInv'
  BY SMTT(30), <1>0, <1>2 DEF sched
<1>3. ASSUME NEW c \in CPU, NEW p \in Slot, forkret(c, p) PROVE FamilyInv'
  BY SMTT(30), <1>0, <1>3 DEF forkret, Goto
<1>4. ASSUME NEW c \in CPU, NEW p \in Slot, yield(c, p) PROVE FamilyInv'
  BY SMTT(30), <1>0, <1>4 DEF yield, Goto
<1>5. ASSUME NEW c \in CPU, NEW p \in Slot, yield_return(c, p)
      PROVE  FamilyInv'
  BY SMTT(30), <1>0, <1>5 DEF yield_return, Goto
<1>6. ASSUME NEW c \in CPU, NEW p \in Slot, fork_parent(c, p)
      PROVE  FamilyInv'
  BY SMTT(30), <1>0, <1>6 DEF fork_parent, Goto
<1>7. ASSUME NEW c \in CPU, NEW p \in Slot, fork_ready(c, p) PROVE FamilyInv'
  BY <1>0, <1>7 DEF fork_ready, Goto
<1>8. ASSUME NEW c \in CPU, NEW p \in Slot, exit(c, p) PROVE FamilyInv'
  BY SMTT(30), <1>0, <1>8 DEF exit, Goto, InUser, Reparented, ExitWakes, Kids
<1>9. ASSUME NEW c \in CPU, NEW p \in Slot, wakeup(c, p) PROVE FamilyInv'
  <2>1. /\ idx[p] \in Slot
        /\ \/ state' = state
           \/ /\ state[idx[p]] = "SLEEPING"
              /\ state' = [state EXCEPT ![idx[p]] = "RUNNABLE"]
        /\ pc' = [pc EXCEPT ![p] = pc'[p]]
        /\ pc'[p] \in {"wakeup", "exit_zombie"}
    BY <1>9, WakeupStep
  <2> QED
    BY SMTT(30), <1>0, <1>9, <2>1 DEF wakeup
<1>10. ASSUME NEW c \in CPU, NEW p \in Slot, exit_zombie(c, p)
      PROVE  FamilyInv'
  BY <1>0, <1>10 DEF exit_zombie, Goto, WakeInv, WakeAt
<1>11. ASSUME NEW c \in CPU, NEW p \in Slot, wait(c, p) PROVE FamilyInv'
  BY SMTT(30), <1>0, <1>11 DEF wait, Goto
<1>12. ASSUME NEW c \in CPU, NEW p \in Slot, wait_fail(c, p) PROVE FamilyInv'
  BY <1>0, <1>12 DEF wait_fail, Goto, ScanOver
<1>13. ASSUME NEW c \in CPU, NEW p \in Slot, wait_sleep(c, p)
      PROVE  FamilyInv'
  BY <1>0, <1>13 DEF wait_sleep, Goto, ScanOver
<1>14. ASSUME NEW c \in CPU, NEW p \in Slot, sleep(c, p) PROVE FamilyInv'
  BY SMTT(30), <1>0, <1>14 DEF sleep, Goto
<1>15. ASSUME NEW c \in CPU, NEW p \in Slot, sleep_switch(c, p)
      PROVE  FamilyInv'
  BY SMTT(30), <1>0, <1>15 DEF sleep_switch, Goto
<1>16. ASSUME NEW c \in CPU, NEW p \in Slot, sleep_return(c, p)
      PROVE  FamilyInv'
  BY <1>0, <1>16 DEF sleep_return, Goto
<1>17. ASSUME NEW c \in CPU, NEW p \in Slot, NEW q \in Slot,
             fork_alloc(c, p, q)
      PROVE  FamilyInv'
  BY <1>0, <1>17 DEF fork_alloc, InUser
<1>18. ASSUME NEW c \in CPU, NEW p \in Slot, NEW q \in Slot,
             fork_fail(c, p, q)
      PROVE  FamilyInv'
  BY <1>0, <1>18 DEF fork_fail, InUser
<1>19. ASSUME NEW c \in CPU, NEW p \in Slot, NEW q \in Slot,
             wait_alive(c, p, q)
      PROVE  FamilyInv'
  BY <1>0, <1>19 DEF wait_alive, Scanning, ChildUnlocked
<1>20. ASSUME NEW c \in CPU, NEW p \in Slot, NEW q \in Slot,
             wait_reap(c, p, q)
      PROVE  FamilyInv'
  BY <1>0, <1>20 DEF wait_reap, Scanning, ChildUnlocked, Goto
<1>21. ASSUME NEW c \in CPU, NEW p \in Slot, NEW q \in Slot,
             wait_copyout_fail(c, p, q)
      PROVE  FamilyInv'
  BY SMTT(30), <1>0, <1>21 DEF wait_copyout_fail, Scanning, ChildUnlocked, Goto
<1>22. ASSUME NEW c \in CPU, NEW p \in Slot, NEW q \in Slot, kill(c, p, q)
      PROVE  FamilyInv'
  BY SMTT(30), <1>0, <1>22 DEF kill, InUser, WakeVictim
<1>23. CASE UNCHANGED vars
  BY <1>0, <1>23 DEF vars
<1> QED
  BY ZenonT(30), <1>1, <1>2, <1>3, <1>4, <1>5, <1>6, <1>7, <1>8, <1>9, <1>10, <1>11,
     <1>12, <1>13, <1>14, <1>15, <1>16, <1>17, <1>18, <1>19, <1>20, <1>21,
     <1>22, <1>23, Zenon
  DEF Next, Step

LEMMA ScanStep == Inv /\ [Next]_vars => ScanInv'
<1> SUFFICES ASSUME Inv, [Next]_vars PROVE ScanInv'
    OBVIOUS
<1>0. TypeOK /\ PlaceInv /\ ForkInv /\ ScanInv
  BY DEF Inv
<1>a. \A p, q \in Slot : pc[q] \in WLocked =>
         /\ wait_lock # NoCPU /\ state[q] = "RUNNING"
         /\ pc[p] \in WLocked => p = q
  BY SMTT(30), Alone
<1> USE Slots DEF TypeOK, PlaceInv, WLocked, Zombies, Kids, ForkInv, Forking,
     ScanInv, initproc, On, procs, locals
<1>1. ASSUME NEW c \in CPU, NEW p \in Slot, fork_parent(c, p) PROVE ScanInv'
  BY SMTT(30), <1>0, <1>a, <1>1 DEF fork_parent, Goto
<1>2. ASSUME NEW c \in CPU, NEW p \in Slot, exit(c, p) PROVE ScanInv'
  BY SMTT(30), <1>0, <1>a, <1>2 DEF exit, Goto, InUser, Reparented, ExitWakes
<1>3. ASSUME NEW c \in CPU, NEW p \in Slot, wakeup(c, p) PROVE ScanInv'
  BY SMTT(30), <1>0, <1>a, <1>3 DEF wakeup, Goto, AtEnd
<1>4. ASSUME NEW c \in CPU, NEW p \in Slot, exit_zombie(c, p) PROVE ScanInv'
  BY SMTT(30), <1>0, <1>a, <1>4 DEF exit_zombie, Goto
<1>5. ASSUME NEW c \in CPU, NEW p \in Slot, wait(c, p) PROVE ScanInv'
  BY SMTT(30), <1>0, <1>a, <1>5 DEF wait, Goto
<1>6. ASSUME NEW c \in CPU, NEW p \in Slot, wait_fail(c, p) PROVE ScanInv'
  BY SMTT(30), <1>0, <1>a, <1>6 DEF wait_fail, Goto, ScanOver
<1>7. ASSUME NEW c \in CPU, NEW p \in Slot, wait_sleep(c, p) PROVE ScanInv'
  <2>1. Zombies(p) = {}
    <3> SUFFICES ASSUME NEW q \in Zombies(p) PROVE FALSE
      BY Zenon
    <3>1. q \in Nat /\ idx[p] \in Nat
      BY ZenonT(30), <1>0
    <3>2. q < idx[p] /\ q >= idx[p]
      BY Zenon, <1>0, <1>7 DEF wait_sleep, ScanOver
    <3> QED
      BY <3>1, <3>2
  <2> QED
    BY <1>0, <1>a, <1>7, <2>1 DEF wait_sleep, Goto, ScanOver
<1>8. ASSUME NEW c \in CPU, NEW p \in Slot, sleep(c, p) PROVE ScanInv'
  BY <1>0, <1>a, <1>8 DEF sleep, Goto
<1>9. ASSUME NEW c \in CPU, NEW p \in Slot, sleep_switch(c, p) PROVE ScanInv'
  BY <1>0, <1>a, <1>9 DEF sleep_switch, Goto
<1>10. ASSUME NEW c \in CPU, NEW p \in Slot, NEW q \in Slot,
             wait_alive(c, p, q)
      PROVE  ScanInv'
  BY <1>0, <1>a, <1>10 DEF wait_alive, Scanning, ChildUnlocked
<1>11. ASSUME NEW c \in CPU, NEW p \in Slot, NEW q \in Slot,
             wait_reap(c, p, q)
      PROVE  ScanInv'
  BY SMTT(30), <1>0, <1>a, <1>11 DEF wait_reap, Scanning, ChildUnlocked, Goto
<1>12. ASSUME NEW c \in CPU, NEW p \in Slot, NEW q \in Slot,
             wait_copyout_fail(c, p, q)
      PROVE  ScanInv'
  BY <1>0, <1>a, <1>12 DEF wait_copyout_fail, Scanning, ChildUnlocked, Goto
<1> HIDE DEF ScanInv
<1> QED
  BY <1>1, <1>2, <1>3, <1>4, <1>5, <1>6, <1>7, <1>8, <1>9, <1>10, <1>11,
     <1>12, QuietOrHeld, QuietStep, Zenon
  DEF Held

LEMMA WakeStep == Inv /\ [Next]_vars => WakeInv'
<1> SUFFICES ASSUME Inv, [Next]_vars PROVE WakeInv'
    OBVIOUS
<1>0. TypeOK /\ PlaceInv /\ ForkInv /\ WakeInv /\ FamilyInv
  BY DEF Inv
<1>a. \A p, q \in Slot : pc[q] \in WLocked =>
         /\ wait_lock # NoCPU /\ state[q] = "RUNNING"
         /\ pc[p] \in WLocked => p = q
  BY Alone
<1> USE Slots DEF TypeOK, PlaceInv, WLocked, Zombies, Kids, ForkInv, Forking,
     WakeInv, WakeAt, FamilyInv, initproc, On, procs, locals
<1>1. ASSUME NEW c \in CPU, NEW p \in Slot, fork_parent(c, p) PROVE WakeInv'
  BY SMTT(30), <1>0, <1>a, <1>1 DEF fork_parent, Goto
<1>2. ASSUME NEW c \in CPU, NEW p \in Slot, exit(c, p) PROVE WakeInv'
  <2>1. parent'[p] = parent[p]
    BY ZenonT(30), <1>0, <1>2 DEF exit, Reparented
  <2>2. \A r \in Slot : r # p => pc[r] \notin WLocked
    BY SMTT(30), <1>a, <1>2 DEF exit
  <2>3. /\ pc' = [pc EXCEPT ![p] = "wakeup"]
        /\ idx'[p] = 1 /\ 1 \in Slot
        /\ wakes'[p] \in {<<initproc, parent[p]>>, <<parent[p]>>}
        /\ p # initproc
    BY <1>0, <1>2 DEF exit, Goto, ExitWakes
  <2>4. ASSUME NEW r \in Slot, r < 1 PROVE FALSE
    BY <2>4, SlotOrder
  <2> HIDE DEF TypeOK, PlaceInv, ForkInv
  <2> QED
    BY <1>0, <2>1, <2>2, <2>3, <2>4 DEF TypeOK
<1>3. ASSUME NEW c \in CPU, NEW p \in Slot, wakeup(c, p) PROVE WakeInv'
  <2> DEFINE i == idx[p]
  <2>1. /\ i \in Slot /\ p # initproc /\ state[p] = "RUNNING"
        /\ parent[p] \in Slot \cup {0} /\ parent[p] # p
        /\ \A r \in Slot : r # p => pc[r] \notin WLocked
    BY SMTT(30), <1>0, <1>a, <1>3 DEF wakeup
  <2>2. /\ parent' = parent
        /\ \A r \in Slot : r # p => pc'[r] = pc[r]
        /\ \A r \in Slot : state'[r] = "SLEEPING" => state[r] = "SLEEPING"
    BY <1>0, <1>3, <2>1 DEF wakeup, Goto
  <2>a. \A r \in Slot : r # p => WakeAt(r)'
    BY ZenonT(30), <2>1, <2>2
  <2> SUFFICES WakeAt(p)'
    BY <2>a
  <2>3. CASE wakes[p] = <<initproc, parent[p]>>
    <3>1. Tail(wakes[p]) = <<parent[p]>> /\ Tail(wakes[p]) # << >>
      BY <2>3
    <3>2. wakes[p] # << >>
      BY <2>3
    <3>3. CASE i = NPROC
      <4>1. idx'[p] = 1 /\ wakes'[p] = <<parent[p]>> /\ pc'[p] = "wakeup"
        BY <1>0, <1>3, <3>1, <3>3 DEF wakeup, Goto, AtEnd
      <4>2. ~(parent[p] \in Slot /\ parent[p] < 1)
        BY Zenon, SlotOrder
      <4> QED
        BY ZenonT(30), <2>1, <2>2, <4>1, <4>2
    <3>4. CASE i # NPROC
      <4>1. /\ idx'[p] \in Slot /\ wakes'[p] = <<initproc, parent[p]>>
            /\ pc'[p] = "wakeup"
        <5>1. i + 1 \in Slot
          BY ZenonT(30), <2>1, <3>4, SlotOrder
        <5>2. idx'[p] = i + 1
          BY <1>0, <1>3, <3>4 DEF wakeup, AtEnd
        <5>3. wakes'[p] = wakes[p] /\ pc'[p] = "wakeup"
          BY <1>0, <1>3, <3>2, <3>4 DEF wakeup, Goto, AtEnd
        <5> QED
          BY <2>3, <5>1, <5>2, <5>3
      <4>2. <<initproc, parent[p]>> # <<parent[p]>>
        OBVIOUS
      <4> QED
        BY ZenonT(30), <2>1, <2>2, <4>1, <4>2
    <3> QED
      BY <3>3, <3>4
  <2>4. CASE wakes[p] = <<parent[p]>>
    <3>1. Tail(wakes[p]) = << >> /\ Head(wakes[p]) = parent[p]
      BY <2>4
    <3>2. wakes[p] # << >>
      BY <2>4
    <3>3. parent[p] = i => state'[i] # "SLEEPING"
      <4>1. state[i] = "SLEEPING" => chan[i] = i
        BY Zenon, <1>0, <2>1
      <4>2. /\ state \in [Slot -> procstate]
            /\ parent[p] = i /\ state[i] = "SLEEPING" =>
                  state' = [state EXCEPT ![i] = "RUNNABLE"]
            /\ state[i] # "SLEEPING" => state' = state
        <5>1. state \in [Slot -> procstate]
          BY Zenon, <1>0
        <5>2. state' = IF i # p /\ state[i] = "SLEEPING" /\ chan[i] = parent[p]
                       THEN [state EXCEPT ![i] = "RUNNABLE"] ELSE state
          BY Zenon, <1>3, <3>1 DEF wakeup
        <5>3. state[p] # "SLEEPING"
          BY Zenon, <1>0, <1>3, <2>1 DEF wakeup, On
        <5> QED
          BY Zenon, <4>1, <5>1, <5>2, <5>3
      <4> HIDE DEF i
      <4> QED
        BY <2>1, <4>2
    <3>4. parent[p] \in Slot /\ parent[p] < i => state'[parent[p]] # "SLEEPING"
      <4>1. pc[p] = "wakeup"
        BY <1>3 DEF wakeup
      <4>2. parent[p] \in Slot /\ parent[p] < i =>
               state[parent[p]] # "SLEEPING"
        <5>1. WakeAt(p)
          BY <1>0
        <5> HIDE DEF TypeOK
        <5> QED
          BY Zenon, <2>1, <2>4, <4>1, <5>1
      <4> QED
        BY ZenonT(30), <2>2, <4>2
    <3>5. CASE i = NPROC
      <4>1. pc'[p] = "exit_zombie"
        BY Zenon, <1>0, <1>3, <3>1, <3>5 DEF wakeup, Goto, AtEnd
      <4>2. parent[p] \in Slot => parent[p] = i \/ parent[p] < i
        BY Zenon, <2>1, <3>5, SlotOrder
      <4> QED
        BY ZenonT(30), <2>1, <2>2, <3>3, <3>4, <4>1, <4>2
    <3>6. CASE i # NPROC
      <4>1. /\ idx'[p] = i + 1 /\ i + 1 \in Slot /\ pc'[p] = "wakeup"
            /\ wakes'[p] = <<parent[p]>>
        BY Zenon, <1>0, <1>3, <2>1, <2>4, <3>2, <3>6, SlotOrder
        DEF wakeup, Goto, AtEnd
      <4>2. parent[p] \in Slot /\ parent[p] < i + 1 =>
               parent[p] = i \/ parent[p] < i
        BY Zenon, <2>1, SlotOrder
      <4> QED
        BY <2>1, <2>2, <3>3, <3>4, <4>1, <4>2
    <3> QED
      BY <3>5, <3>6
  <2> QED
    BY ZenonT(30), <1>0, <1>3, <2>3, <2>4 DEF wakeup
<1>4. ASSUME NEW c \in CPU, NEW p \in Slot, exit_zombie(c, p) PROVE WakeInv'
  BY <1>0, <1>a, <1>4 DEF exit_zombie, Goto
<1>5. ASSUME NEW c \in CPU, NEW p \in Slot, wait(c, p) PROVE WakeInv'
  BY <1>0, <1>a, <1>5 DEF wait, Goto
<1>6. ASSUME NEW c \in CPU, NEW p \in Slot, wait_fail(c, p) PROVE WakeInv'
  BY SMTT(30), <1>0, <1>a, <1>6 DEF wait_fail, Goto, ScanOver
<1>7. ASSUME NEW c \in CPU, NEW p \in Slot, wait_sleep(c, p) PROVE WakeInv'
  BY SMTT(30), <1>0, <1>a, <1>7 DEF wait_sleep, Goto, ScanOver
<1>8. ASSUME NEW c \in CPU, NEW p \in Slot, sleep(c, p) PROVE WakeInv'
  BY SMTT(30), <1>0, <1>a, <1>8 DEF sleep, Goto
<1>9. ASSUME NEW c \in CPU, NEW p \in Slot, sleep_switch(c, p) PROVE WakeInv'
  BY SMTT(30), <1>0, <1>a, <1>9 DEF sleep_switch, Goto
<1>10. ASSUME NEW c \in CPU, NEW p \in Slot, NEW q \in Slot,
             wait_alive(c, p, q)
      PROVE  WakeInv'
  BY SMTT(30), <1>0, <1>a, <1>10 DEF wait_alive, Scanning, ChildUnlocked
<1>11. ASSUME NEW c \in CPU, NEW p \in Slot, NEW q \in Slot,
             wait_reap(c, p, q)
      PROVE  WakeInv'
  BY SMTT(30), <1>0, <1>a, <1>11 DEF wait_reap, Scanning, ChildUnlocked, Goto
<1>12. ASSUME NEW c \in CPU, NEW p \in Slot, NEW q \in Slot,
             wait_copyout_fail(c, p, q)
      PROVE  WakeInv'
  BY <1>0, <1>a, <1>12 DEF wait_copyout_fail, Scanning, ChildUnlocked, Goto
<1> HIDE DEF WakeInv, WakeAt
<1> QED
  BY ZenonT(30), <1>1, <1>2, <1>3, <1>4, <1>5, <1>6, <1>7, <1>8, <1>9, <1>10, <1>11,
     <1>12, QuietOrHeld, QuietStep, Zenon
  DEF Held

LEMMA ZombieStep == Inv /\ [Next]_vars => ZombieInv'
<1> SUFFICES ASSUME Inv, [Next]_vars PROVE ZombieInv'
    OBVIOUS
<1>0. TypeOK /\ PlaceInv /\ ForkInv /\ ScanInv /\ WakeInv
      /\ FamilyInv /\ ZombieInv
  BY SMTT(30) DEF Inv
<1>a. \A p, q \in Slot : pc[q] \in WLocked =>
         /\ wait_lock # NoCPU /\ state[q] = "RUNNING"
         /\ pc[p] \in WLocked => p = q
  BY Alone
<1> USE Slots DEF TypeOK, PlaceInv, WLocked, Zombies, Kids, ForkInv, Forking,
     ScanInv, WakeInv, WakeAt, FamilyInv, ZombieInv, InitWillWake, initproc,
     On, procs, locals
<1>1. ASSUME NEW c \in CPU, NEW p \in Slot, fork_parent(c, p) PROVE ZombieInv'
  BY <1>0, <1>a, <1>1 DEF fork_parent, Goto
<1>2. ASSUME NEW c \in CPU, NEW p \in Slot, exit(c, p) PROVE ZombieInv'
  <2>1. parent'[p] = parent[p]
    BY <1>0, <1>2 DEF exit, Reparented
  <2>2. \A r \in Slot : pc[r] \notin WLocked
    BY SMTT(30), <1>a, <1>2 DEF exit
  <2>3. ASSUME NEW r \in Slot, state'[r] = "SLEEPING", Zombies(r)' # {}
        PROVE  r = initproc /\ InitWillWake(p)'
    <3>1. state' = state /\ Zombies(r) = {}
      BY SMTT(30), <1>0, <1>2, <2>2, <2>3 DEF exit
    <3>2. PICK q \in Slot : parent'[q] = r /\ state[q] = "ZOMBIE"
      BY Zenon, <2>3, <3>1
    <3>3. parent[q] = p /\ r = initproc
      BY <1>2, <3>1, <3>2 DEF exit, Reparented
    <3>4. wakes'[p] = <<initproc, parent[p]>>
      BY SMTT(30), <1>0, <1>2, <3>3 DEF exit, ExitWakes
    <3> QED
      BY SMTT(30), <1>0, <1>2, <2>1, <3>3, <3>4 DEF exit, Goto
  <2> QED
    BY ZenonT(40), <2>3 DEF ZombieInv
<1>3. ASSUME NEW c \in CPU, NEW p \in Slot, wakeup(c, p) PROVE ZombieInv'
  BY SMTT(30), <1>0, <1>a, <1>3 DEF wakeup, Goto, AtEnd
<1>4. ASSUME NEW c \in CPU, NEW p \in Slot, exit_zombie(c, p) PROVE ZombieInv'
  BY SMTT(30), <1>0, <1>a, <1>4 DEF exit_zombie, Goto
<1>5. ASSUME NEW c \in CPU, NEW p \in Slot, wait(c, p) PROVE ZombieInv'
  BY SMTT(30), <1>0, <1>a, <1>5 DEF wait, Goto
<1>6. ASSUME NEW c \in CPU, NEW p \in Slot, wait_fail(c, p) PROVE ZombieInv'
  BY SMTT(30), <1>0, <1>a, <1>6 DEF wait_fail, Goto, ScanOver
<1>7. ASSUME NEW c \in CPU, NEW p \in Slot, wait_sleep(c, p) PROVE ZombieInv'
  BY SMTT(30), <1>0, <1>a, <1>7 DEF wait_sleep, Goto, ScanOver
<1>8. ASSUME NEW c \in CPU, NEW p \in Slot, sleep(c, p) PROVE ZombieInv'
  BY SMTT(30), <1>0, <1>a, <1>8 DEF sleep, Goto
<1>9. ASSUME NEW c \in CPU, NEW p \in Slot, sleep_switch(c, p)
      PROVE  ZombieInv'
  BY SMTT(30), <1>0, <1>a, <1>9 DEF sleep_switch, Goto
<1>10. ASSUME NEW c \in CPU, NEW p \in Slot, NEW q \in Slot,
             wait_alive(c, p, q)
      PROVE  ZombieInv'
  BY SMTT(30), <1>0, <1>a, <1>10 DEF wait_alive, Scanning, ChildUnlocked
<1>11. ASSUME NEW c \in CPU, NEW p \in Slot, NEW q \in Slot,
             wait_reap(c, p, q)
      PROVE  ZombieInv'
  BY SMTT(30), <1>0, <1>a, <1>11 DEF wait_reap, Scanning, ChildUnlocked, Goto
<1>12. ASSUME NEW c \in CPU, NEW p \in Slot, NEW q \in Slot,
             wait_copyout_fail(c, p, q)
      PROVE  ZombieInv'
  BY <1>0, <1>a, <1>12 DEF wait_copyout_fail, Scanning, ChildUnlocked, Goto
<1> HIDE DEF ZombieInv
<1> QED
  BY <1>1, <1>2, <1>3, <1>4, <1>5, <1>6, <1>7, <1>8, <1>9, <1>10, <1>11,
     <1>12, QuietOrHeld, QuietStep, Zenon
  DEF Held

LEMMA InvInit == Init => Inv
<1> SUFFICES ASSUME Init PROVE Inv
    OBVIOUS
<1> USE Slots, ProcAssumption DEF Init
<1>1. TypeOK
  <2>1. nextpid \in 1..(MaxPid + 1) /\ 1 \in Pid
    BY DEF Pid
  <2>2. wakes \in [Slot -> Seq(Slot \cup {0})]
    OBVIOUS
  <2> QED
    BY <2>1, <2>2 DEF TypeOK, procstate, Points, Returns
<1>2. PlaceInv /\ LockInv /\ ForkInv
  BY DEF PlaceInv, LockInv, PLocked, ForkInv, Forking
<1>3. WaitInv /\ FamilyInv
  BY DEF WaitInv, WLocked, FamilyInv, initproc
<1>4. ScanInv /\ WakeInv /\ ZombieInv
  BY DEF ScanInv, WakeInv, WakeAt, ZombieInv, Zombies, Kids
<1> QED
  BY <1>1, <1>2, <1>3, <1>4 DEF Inv

\* The inductive invariant of proc.c: where a process in each state is, who
\* has its lock and wait_lock, and how far wait() and exit() have come.
THEOREM Invariance == Spec => []Inv
<1>1. Inv /\ [Next]_vars => Inv'
  BY TypeStep, PlaceStep, LockStep, WaitStep, ForkStep, FamilyStep, ScanStep,
     WakeStep, ZombieStep
  DEF Inv
<1> QED
  BY InvInit, <1>1, PTL DEF Spec

\* A kernel stack is used by one CPU at most, and until swtch() is over its
\* process cannot be resumed, reaped or reused.
THEOREM OneStackOneCPU == Spec => []StackExclusive
<1>1. Inv => StackExclusive
  BY SMTT(30) DEF Inv, LockInv, StackExclusive
<1> QED
  BY Invariance, <1>1, PTL

\* sched() never panics: it runs with p->lock and no other lock.
THEOREM SchedSafe == Spec => []SchedLocks
<1>1. Inv => SchedLocks
  BY SMTT(30) DEF Inv, LockInv, WaitInv, SchedLocks
<1> QED
  BY Invariance, <1>1, PTL

\* No exit() is lost: when nobody is in the middle of wait() or exit(), a
\* parent asleep in wait() has no zombie child, its own or inherited.
THEOREM ExitsNoticed == Spec => []NoLostExit
<1>1. Inv => NoLostExit
  <2> SUFFICES ASSUME Inv, wait_lock = NoCPU PROVE NoLostExit
    BY ZenonT(30) DEF NoLostExit
  <2>1. \A p \in Slot : pc[p] \notin WLocked
    BY Alone
  <2> QED
    BY <2>1 DEF Inv, ZombieInv, InitWillWake, WLocked, Zombies, NoLostExit
<1> QED
  BY Invariance, <1>1, PTL
=============================================================================
