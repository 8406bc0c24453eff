----------------------------- MODULE PipeProofs -----------------------------
(***************************************************************************)
(* The pipe is safe for every number of processes, buffer size and width   *)
(* of the counters that PipeAssumption allows: its page is not used after  *)
(* it was freed, nobody sleeps in vain, and the ring buffer, whose         *)
(* counters wrap, implements the FIFO of module Channel.                   *)
(***************************************************************************)
EXTENDS Pipe, Integers, SequenceTheorems, TLAPS

\* Points at which a process has pi->lock.
Locked == {"write", "write_byte", "read", "read_sleep"}

Reading == {"read", "read_sleep", "read_asleep", "read_woken"}

Writing == {"write", "write_byte", "write_asleep", "write_woken"}

\* Who has pi->lock, and what it has tested since it got it.
LockInv ==
    \A p \in Proc :
        /\ pc[p] \in Reading => n[p] > 0
        /\ p \in lock <=> pc[p] \in Locked
        /\ pc[p] = "write_byte" => readopen /\ n[p] > 0
        /\ pc[p] = "read_sleep" => writeopen /\ Empty

\* An end is open as long as a descriptor refers to it, and until the process
\* that closed the last one has been through pipeclose().
EndsInv ==
    /\ freed => ~readopen /\ ~writeopen
    /\ \A p \in Proc :
          /\ pc[p] \in Reading => "r" \in holds[p]
          /\ pc[p] \in Writing => "w" \in holds[p]
          /\ "r" \in holds[p] \/ pc[p] = "close_read" => readopen
          /\ "w" \in holds[p] \/ pc[p] = "close_write" => writeopen
    /\ \A p, q \in Proc :
          /\ pc[p] = "close_read" =>
                "r" \notin holds[q] /\ (pc[q] = "close_read" => p = q)
          /\ pc[p] = "close_write" =>
                "w" \notin holds[q] /\ (pc[q] = "close_write" => p = q)

\* Who sleeps, seen also while somebody has the lock: a writer that has it
\* will wake the readers, unless it is killed.
SleepInv ==
    \A p \in Proc :
        /\ pc[p] = "write_asleep" => Full /\ readopen
        /\ pc[p] = "read_asleep" =>
              /\ writeopen
              /\ \/ Empty
                 \/ \E q \in Proc :
                       killed[q] \/ pc[q] \in {"write", "write_byte"}

Inv == TypeOK /\ LockInv /\ EndsInv /\ SleepInv
-----------------------------------------------------------------------------
\* nwrite and nread stay below twice UINT before they are reduced.
LEMMA Wrap ==
    ASSUME NEW x \in Nat, x < UINT + UINT
    PROVE  x % UINT = IF x < UINT THEN x ELSE x - UINT
BY PipeAssumption

LEMMA Distance ==
    \A r, w \in 0..(UINT - 1) :
        (w + UINT - r) % UINT = IF r <= w THEN w - r ELSE w + UINT - r
BY Wrap, PipeAssumption

LEMMA FullCount ==
    ASSUME TypeOK
    PROVE  /\ Count \in 0..PIPESIZE
           /\ Full <=> Count = PIPESIZE
           /\ Empty <=> Count = 0
<1>1. /\ nread \in 0..(UINT - 1) /\ nwrite \in 0..(UINT - 1)
      /\ Count <= PIPESIZE
  BY DEF TypeOK
<1>2. Count = IF nread <= nwrite THEN nwrite - nread ELSE nwrite + UINT - nread
  BY <1>1, Distance DEF Count
<1>3. (nread + PIPESIZE) % UINT =
         IF nread + PIPESIZE < UINT THEN nread + PIPESIZE
         ELSE nread + PIPESIZE - UINT
  BY SMTT(30), <1>1, Wrap, PipeAssumption
<1> QED
  BY <1>1, <1>2, <1>3, PipeAssumption DEF Full, Empty

\* A byte more, and bytes less, in the buffer.
LEMMA CountUp ==
    ASSUME TypeOK, ~Full, nwrite' = (nwrite + 1) % UINT, nread' = nread
    PROVE  nwrite' \in 0..(UINT - 1) /\ Count' = Count + 1
<1>1. /\ nread \in 0..(UINT - 1) /\ nwrite \in 0..(UINT - 1)
      /\ Count < PIPESIZE
  BY FullCount, PipeAssumption DEF TypeOK
<1>2. nwrite' = IF nwrite + 1 < UINT THEN nwrite + 1 ELSE 0
  BY <1>1, Wrap, PipeAssumption
<1>3. nwrite' \in 0..(UINT - 1)
  BY <1>1, <1>2, PipeAssumption
<1>4. Count = IF nread <= nwrite THEN nwrite - nread ELSE nwrite + UINT - nread
  BY <1>1, Distance DEF Count
<1>5. Count' = IF nread <= nwrite' THEN nwrite' - nread
               ELSE nwrite' + UINT - nread
  BY <1>1, <1>3, Distance DEF Count
<1> QED
  BY <1>1, <1>2, <1>3, <1>4, <1>5, PipeAssumption

LEMMA CountDown ==
    ASSUME TypeOK, NEW m \in 0..Count, nread' = (nread + m) % UINT,
           nwrite' = nwrite
    PROVE  nread' \in 0..(UINT - 1) /\ Count' = Count - m
<1>1. /\ nread \in 0..(UINT - 1) /\ nwrite \in 0..(UINT - 1)
      /\ Count \in 0..PIPESIZE
  BY FullCount DEF TypeOK
<1>2. nread' = IF nread + m < UINT THEN nread + m ELSE nread + m - UINT
  BY <1>1, Wrap, PipeAssumption
<1>3. nread' \in 0..(UINT - 1)
  BY <1>1, <1>2, PipeAssumption
<1>4. Count = IF nread <= nwrite THEN nwrite - nread ELSE nwrite + UINT - nread
  BY <1>1, Distance DEF Count
<1>5. Count' = IF nread' <= nwrite THEN nwrite - nread'
               ELSE nwrite + UINT - nread'
  BY <1>1, <1>3, Distance DEF Count
<1> QED
  BY <1>1, <1>2, <1>3, <1>4, <1>5, PipeAssumption

\* What a read takes is in the buffer.
LEMMA ReadCount ==
    ASSUME TypeOK, NEW p \in Proc, NEW k \in 0..MaxN, NEW lost \in 0..1,
           read_copy(p, k, lost)
    PROVE  /\ k + lost \in 0..Count
           /\ nread' = (nread + (k + lost)) % UINT
           /\ nwrite' = nwrite
<1>1. Count \in 0..PIPESIZE /\ nread \in Nat /\ n[p] \in Nat
  BY FullCount, PipeAssumption DEF TypeOK
<1>2. /\ IF lost = 1 THEN k < n[p] /\ k < Count
         ELSE k <= n[p] /\ k <= Count /\ (k = n[p] \/ k = Count)
      /\ nread' = (nread + k + lost) % UINT
      /\ nwrite' = nwrite
  BY DEF read_copy
<1>3. nread + k + lost = nread + (k + lost) /\ k + lost \in 0..Count
  BY <1>1, <1>2, PipeAssumption
<1> QED
  BY <1>2, <1>3

\* Types, and never more than PIPESIZE bytes in the buffer.
LEMMA TypeStep == Inv /\ [Next]_vars => TypeOK'
<1> SUFFICES ASSUME Inv, [Next]_vars PROVE TypeOK'
    OBVIOUS
<1>0. TypeOK
  BY DEF Inv
<1> USE DEF TypeOK, Asleep, pipe, ends
<1>1. ASSUME NEW p \in Proc, pipeclose(p) PROVE TypeOK'
  BY <1>0, <1>1 DEF pipeclose, CloseWakes, WakeThen, Woken, Count
<1>2. ASSUME NEW p \in Proc, write_check(p) PROVE TypeOK'
  BY <1>0, <1>2 DEF write_check, Goto, Count
<1>3. ASSUME NEW p \in Proc, write_abort(p) PROVE TypeOK'
  BY <1>0, <1>3, PipeAssumption DEF write_abort, Goto, Count
<1>4. ASSUME NEW p \in Proc, write_full(p) PROVE TypeOK'
  BY <1>0, <1>4 DEF write_full, Goto, WakeThen, Woken, Count
<1>5. ASSUME NEW p \in Proc, write_fault(p) PROVE TypeOK'
  BY <1>0, <1>5, PipeAssumption DEF write_fault, Goto, Count
<1>6. ASSUME NEW p \in Proc, write_done(p) PROVE TypeOK'
  BY <1>0, <1>6 DEF write_done, Goto, WakeThen, Woken, Count
<1>7. ASSUME NEW p \in Proc, write_reacquire(p) PROVE TypeOK'
  BY <1>0, <1>7 DEF write_reacquire, Goto, Count
<1>8. ASSUME NEW p \in Proc, NEW b \in Byte, write_byte(p, b) PROVE TypeOK'
  <2>1. nwrite' \in 0..(UINT - 1) /\ Count' <= PIPESIZE
    BY SMTT(30), <1>0, <1>8, CountUp, FullCount, PipeAssumption DEF write_byte
  <2>2. data' \in [0..(PIPESIZE - 1) -> Byte]
    BY <1>0, <1>8, PipeAssumption DEF write_byte
  <2>3. n[p] \in 0..MaxN /\ n[p] > 0
    BY <1>0, <1>8 DEF write_byte, Inv, LockInv
  <2>4. n[p] - 1 \in 0..MaxN
    BY <2>3, PipeAssumption
  <2>5. n' \in [Proc -> 0..MaxN]
    BY <1>0, <1>8, <2>4 DEF write_byte
  <2> QED
    BY SMTT(30), <1>0, <1>8, <2>1, <2>2, <2>5 DEF write_byte, Goto
<1>9. ASSUME NEW p \in Proc, read_abort(p) PROVE TypeOK'
  BY <1>0, <1>9, PipeAssumption DEF read_abort, Goto, Count
<1>10. ASSUME NEW p \in Proc, read_wait(p) PROVE TypeOK'
  BY <1>0, <1>10 DEF read_wait, Goto, Count
<1>11. ASSUME NEW p \in Proc, read_sleep(p) PROVE TypeOK'
  BY <1>0, <1>11 DEF read_sleep, Goto, Count
<1>12. ASSUME NEW p \in Proc, read_reacquire(p) PROVE TypeOK'
  BY <1>0, <1>12 DEF read_reacquire, Goto, Count
<1>13. ASSUME NEW p \in Proc, NEW k \in 0..MaxN, NEW lost \in 0..1,
             read_copy(p, k, lost)
      PROVE  TypeOK'
  <2>1. nread' \in 0..(UINT - 1) /\ Count' <= PIPESIZE
    <3> HIDE DEF TypeOK
    <3>1. /\ k + lost \in 0..Count
          /\ nread' = (nread + (k + lost)) % UINT
          /\ nwrite' = nwrite
      BY <1>0, <1>13, ReadCount
    <3>2. nread' \in 0..(UINT - 1) /\ Count' = Count - (k + lost)
      BY <1>0, <3>1, CountDown
    <3>3. Count \in 0..PIPESIZE
      BY <1>0, FullCount
    <3> HIDE DEF Count
    <3> QED
      BY <3>1, <3>2, <3>3, PipeAssumption
  <2>2. n' \in [Proc -> 0..MaxN]
    BY <1>0, <1>13, PipeAssumption DEF read_copy
  <2> QED
    BY <1>0, <1>13, <2>1, <2>2 DEF read_copy, ReadWakes, WakeThen, Woken
<1>14. ASSUME NEW p \in Proc, NEW q \in Proc, fork(p, q) PROVE TypeOK'
  BY <1>0, <1>14 DEF fork, Goto, Count
<1>15. ASSUME NEW p \in Proc, NEW e \in {"r", "w"}, fileclose(p, e)
      PROVE  TypeOK'
  BY <1>0, <1>15 DEF fileclose, Goto, Count
<1>16. ASSUME NEW p \in Proc, NEW k \in 1..MaxN, pipewrite(p, k) PROVE TypeOK'
  BY <1>0, <1>16 DEF pipewrite, Goto, Count
<1>17. ASSUME NEW p \in Proc, NEW k \in 1..MaxN, piperead(p, k) PROVE TypeOK'
  BY <1>0, <1>17 DEF piperead, Goto, Count
<1>18. ASSUME NEW p \in Proc, kill(p) PROVE TypeOK'
  BY <1>0, <1>18 DEF kill, Goto, Asleep, Woken, Count
<1>19. CASE UNCHANGED vars
  BY <1>0, <1>19 DEF vars, Count
<1> QED
  BY ZenonT(30), <1>1, <1>2, <1>3, <1>4, <1>5, <1>6, <1>7, <1>8, <1>9,
     <1>10, <1>11, <1>12, <1>13, <1>14, <1>15, <1>16, <1>17, <1>18, <1>19,
     Zenon
  DEF Next, Kernel, User

\* pi->lock is held exactly inside the loops, so that what a writer or a
\* reader has tested stays true until it acts or sleeps.
LEMMA LockStep == Inv /\ [Next]_vars => LockInv'
<1> SUFFICES ASSUME Inv, [Next]_vars PROVE LockInv'
    OBVIOUS
<1>0. TypeOK /\ LockInv
  BY DEF Inv
<1> USE DEF LockInv, Locked, Reading, Asleep, pipe, ends, Empty, Free, TypeOK
<1>1. ASSUME NEW p \in Proc, pipeclose(p) PROVE LockInv'
  BY <1>0, <1>1 DEF pipeclose, Goto, CloseWakes, WakeThen, Woken
<1>2. ASSUME NEW p \in Proc, write_check(p) PROVE LockInv'
  BY <1>0, <1>2 DEF write_check, Goto
<1>3. ASSUME NEW p \in Proc, write_abort(p) PROVE LockInv'
  BY <1>0, <1>3 DEF write_abort, Goto
<1>4. ASSUME NEW p \in Proc, write_full(p) PROVE LockInv'
  BY <1>0, <1>4 DEF write_full, Goto, WakeThen, Woken
<1>5. ASSUME NEW p \in Proc, write_fault(p) PROVE LockInv'
  BY <1>0, <1>5 DEF write_fault, Goto
<1>6. ASSUME NEW p \in Proc, write_done(p) PROVE LockInv'
  BY <1>0, <1>6 DEF write_done, Goto, WakeThen, Woken
<1>7. ASSUME NEW p \in Proc, write_reacquire(p) PROVE LockInv'
  BY <1>0, <1>7 DEF write_reacquire, Goto
<1>8. ASSUME NEW p \in Proc, NEW b \in Byte, write_byte(p, b) PROVE LockInv'
  BY <1>0, <1>8 DEF write_byte, Goto
<1>9. ASSUME NEW p \in Proc, read_abort(p) PROVE LockInv'
  BY <1>0, <1>9 DEF read_abort, Goto
<1>10. ASSUME NEW p \in Proc, read_wait(p) PROVE LockInv'
  BY <1>0, <1>10 DEF read_wait, Goto
<1>11. ASSUME NEW p \in Proc, read_sleep(p) PROVE LockInv'
  BY <1>0, <1>11 DEF read_sleep, Goto
<1>12. ASSUME NEW p \in Proc, read_reacquire(p) PROVE LockInv'
  BY <1>0, <1>12 DEF read_reacquire, Goto
<1>13. ASSUME NEW p \in Proc, NEW k \in 0..MaxN, NEW lost \in 0..1,
             read_copy(p, k, lost)
      PROVE  LockInv'
  BY <1>0, <1>13 DEF read_copy, Goto, ReadWakes, WakeThen, Woken
<1>14. ASSUME NEW p \in Proc, NEW q \in Proc, fork(p, q) PROVE LockInv'
  BY <1>0, <1>14 DEF fork, Goto
<1>15. ASSUME NEW p \in Proc, NEW e \in {"r", "w"}, fileclose(p, e)
      PROVE  LockInv'
  BY <1>0, <1>15 DEF fileclose, Goto
<1>16. ASSUME NEW p \in Proc, NEW k \in 1..MaxN, pipewrite(p, k) PROVE LockInv'
  BY <1>0, <1>16 DEF pipewrite, Goto
<1>17. ASSUME NEW p \in Proc, NEW k \in 1..MaxN, piperead(p, k) PROVE LockInv'
  BY <1>0, <1>17 DEF piperead, Goto
<1>18. ASSUME NEW p \in Proc, kill(p) PROVE LockInv'
  BY <1>0, <1>18 DEF kill, Goto, Asleep, Woken
<1>19. CASE UNCHANGED vars
  BY <1>0, <1>19 DEF vars
<1> QED
  BY <1>1, <1>2, <1>3, <1>4, <1>5, <1>6, <1>7, <1>8, <1>9,
     <1>10, <1>11, <1>12, <1>13, <1>14, <1>15, <1>16, <1>17, <1>18, <1>19,
     Zenon
  DEF Next, Kernel, User

\* The ends are open while somebody has them, or is about to close them.
LEMMA EndsStep == Inv /\ [Next]_vars => EndsInv'
<1> SUFFICES ASSUME Inv, [Next]_vars PROVE EndsInv'
    OBVIOUS
<1>0. TypeOK /\ EndsInv
  BY DEF Inv
<1> USE DEF EndsInv, Reading, Writing, Asleep, pipe, ends, TypeOK
<1>1. ASSUME NEW p \in Proc, pipeclose(p) PROVE EndsInv'
  BY SMTT(30), <1>0, <1>1 DEF pipeclose, Goto, CloseWakes, WakeThen, Woken
<1>2. ASSUME NEW p \in Proc, write_check(p) PROVE EndsInv'
  BY <1>0, <1>2 DEF write_check, Goto
<1>3. ASSUME NEW p \in Proc, write_abort(p) PROVE EndsInv'
  BY <1>0, <1>3 DEF write_abort, Goto
<1>4. ASSUME NEW p \in Proc, write_full(p) PROVE EndsInv'
  BY <1>0, <1>4 DEF write_full, Goto, WakeThen, Woken
<1>5. ASSUME NEW p \in Proc, write_fault(p) PROVE EndsInv'
  BY <1>0, <1>5 DEF write_fault, Goto
<1>6. ASSUME NEW p \in Proc, write_done(p) PROVE EndsInv'
  BY <1>0, <1>6 DEF write_done, Goto, WakeThen, Woken
<1>7. ASSUME NEW p \in Proc, write_reacquire(p) PROVE EndsInv'
  BY <1>0, <1>7 DEF write_reacquire, Goto
<1>8. ASSUME NEW p \in Proc, NEW b \in Byte, write_byte(p, b) PROVE EndsInv'
  BY <1>0, <1>8 DEF write_byte, Goto
<1>9. ASSUME NEW p \in Proc, read_abort(p) PROVE EndsInv'
  BY <1>0, <1>9 DEF read_abort, Goto
<1>10. ASSUME NEW p \in Proc, read_wait(p) PROVE EndsInv'
  BY <1>0, <1>10 DEF read_wait, Goto
<1>11. ASSUME NEW p \in Proc, read_sleep(p) PROVE EndsInv'
  BY <1>0, <1>11 DEF read_sleep, Goto
<1>12. ASSUME NEW p \in Proc, read_reacquire(p) PROVE EndsInv'
  BY <1>0, <1>12 DEF read_reacquire, Goto
<1>13. ASSUME NEW p \in Proc, NEW k \in 0..MaxN, NEW lost \in 0..1,
             read_copy(p, k, lost)
      PROVE  EndsInv'
  BY SMTT(30), <1>0, <1>13 DEF read_copy, Goto, ReadWakes, WakeThen, Woken
<1>14. ASSUME NEW p \in Proc, NEW q \in Proc, fork(p, q) PROVE EndsInv'
  BY <1>0, <1>14 DEF fork, Goto
<1>15. ASSUME NEW p \in Proc, NEW e \in {"r", "w"}, fileclose(p, e)
      PROVE  EndsInv'
  BY SMTT(30), <1>0, <1>15 DEF fileclose, Goto, LastRef
<1>16. ASSUME NEW p \in Proc, NEW k \in 1..MaxN, pipewrite(p, k) PROVE EndsInv'
  BY SMTT(30), <1>0, <1>16 DEF pipewrite, Goto
<1>17. ASSUME NEW p \in Proc, NEW k \in 1..MaxN, piperead(p, k) PROVE EndsInv'
  BY <1>0, <1>17 DEF piperead, Goto
<1>18. ASSUME NEW p \in Proc, kill(p) PROVE EndsInv'
  BY SMTT(30), <1>0, <1>18 DEF kill, Goto, Asleep, Woken
<1>19. CASE UNCHANGED vars
  BY <1>0, <1>19 DEF vars
<1> QED
  BY ZenonT(30), <1>1, <1>2, <1>3, <1>4, <1>5, <1>6, <1>7, <1>8, <1>9,
     <1>10, <1>11, <1>12, <1>13, <1>14, <1>15, <1>16, <1>17, <1>18, <1>19,
     Zenon
  DEF Next, Kernel, User

\* Sleepers: who changes the buffer or closes an end wakes those it concerns.
LEMMA SleepStep == Inv /\ [Next]_vars => SleepInv'
<1> SUFFICES ASSUME Inv, [Next]_vars PROVE SleepInv'
    OBVIOUS
<1>0. TypeOK /\ LockInv /\ EndsInv /\ SleepInv
  BY DEF Inv
<1> USE DEF SleepInv, LockInv, Asleep, pipe, ends, Free, TypeOK
<1>1. ASSUME NEW p \in Proc, pipeclose(p) PROVE SleepInv'
  BY ZenonT(30), <1>0, <1>1
  DEF pipeclose, Goto, CloseWakes, WakeThen, Woken, Full, Empty
<1>2. ASSUME NEW p \in Proc, write_check(p) PROVE SleepInv'
  BY SMTT(30), <1>0, <1>2 DEF write_check, Goto, Full, Empty
<1>3. ASSUME NEW p \in Proc, write_abort(p) PROVE SleepInv'
  BY <1>0, <1>3 DEF write_abort, Goto, EndsInv, Reading, Full, Empty
<1>4. ASSUME NEW p \in Proc, write_full(p) PROVE SleepInv'
  BY <1>0, <1>4 DEF write_full, Goto, WakeThen, Woken, Full, Empty
<1>5. ASSUME NEW p \in Proc, write_fault(p) PROVE SleepInv'
  BY <1>0, <1>5 DEF write_fault, Goto, Full, Empty
<1>6. ASSUME NEW p \in Proc, write_done(p) PROVE SleepInv'
  BY SMTT(30), <1>0, <1>6 DEF write_done, Goto, WakeThen, Woken, Full, Empty
<1>7. ASSUME NEW p \in Proc, write_reacquire(p) PROVE SleepInv'
  BY SMTT(30), <1>0, <1>7 DEF write_reacquire, Goto, Full, Empty
<1>8. ASSUME NEW p \in Proc, NEW b \in Byte, write_byte(p, b) PROVE SleepInv'
  <2>1. Full' = Full \/ \A q \in Proc : pc[q] # "write_asleep"
    BY <1>0, <1>8 DEF write_byte
  <2> QED
    BY SMTT(30), <1>0, <1>8, <2>1 DEF write_byte, Goto
<1>9. ASSUME NEW p \in Proc, read_abort(p) PROVE SleepInv'
  BY <1>0, <1>9 DEF read_abort, Goto, Full, Empty
<1>10. ASSUME NEW p \in Proc, read_wait(p) PROVE SleepInv'
  BY <1>0, <1>10 DEF read_wait, Goto, Full, Empty
<1>11. ASSUME NEW p \in Proc, read_sleep(p) PROVE SleepInv'
  BY <1>0, <1>11 DEF read_sleep, Goto, Full, Empty
<1>12. ASSUME NEW p \in Proc, read_reacquire(p) PROVE SleepInv'
  BY <1>0, <1>12 DEF read_reacquire, Goto, Full, Empty
<1>13. ASSUME NEW p \in Proc, NEW k \in 0..MaxN, NEW lost \in 0..1,
             read_copy(p, k, lost)
      PROVE  SleepInv'
  <2>1. Empty => Empty'
    <3>1. /\ k + lost \in 0..Count /\ nread' = (nread + (k + lost)) % UINT
          /\ nwrite' = nwrite
      BY Zenon, <1>0, <1>13, ReadCount
    <3>2. nread \in Nat /\ nread < UINT /\ (Empty => Count = 0)
      BY <1>0, FullCount, PipeAssumption
    <3>3. nread % UINT = nread
      BY <3>2, Wrap, PipeAssumption
    <3>4. Empty => nread + (k + lost) = nread
      BY <3>1, <3>2
    <3> QED
      BY <3>1, <3>3, <3>4 DEF Empty
  <2>2. \A q \in Proc : pc[q] \notin {"write", "write_byte"}
    BY SMTT(30), <1>0, <1>13 DEF read_copy, Locked
  <2> QED
    BY <1>0, <1>13, <2>1, <2>2 DEF read_copy, ReadWakes, WakeThen, Woken
<1>14. ASSUME NEW p \in Proc, NEW q \in Proc, fork(p, q) PROVE SleepInv'
  BY SMTT(30), <1>0, <1>14 DEF fork, Goto, Full, Empty
<1>15. ASSUME NEW p \in Proc, NEW e \in {"r", "w"}, fileclose(p, e)
      PROVE  SleepInv'
  BY SMTT(30), <1>0, <1>15 DEF fileclose, Goto, Full, Empty
<1>16. ASSUME NEW p \in Proc, NEW k \in 1..MaxN, pipewrite(p, k)
      PROVE  SleepInv'
  BY <1>0, <1>16 DEF pipewrite, Goto, Full, Empty
<1>17. ASSUME NEW p \in Proc, NEW k \in 1..MaxN, piperead(p, k) PROVE SleepInv'
  BY ZenonT(30), <1>0, <1>17 DEF piperead, Goto, Full, Empty
<1>18. ASSUME NEW p \in Proc, kill(p) PROVE SleepInv'
  BY <1>0, <1>18 DEF kill, Goto, Asleep, Woken, Full, Empty
<1>19. CASE UNCHANGED vars
  BY <1>0, <1>19 DEF vars, Full, Empty
<1> QED
  BY ZenonT(30), <1>1, <1>2, <1>3, <1>4, <1>5, <1>6, <1>7, <1>8, <1>9,
     <1>10, <1>11, <1>12, <1>13, <1>14, <1>15, <1>16, <1>17, <1>18, <1>19,
     Zenon
  DEF Next, Kernel, User

LEMMA InvInit == Init => Inv
<1> SUFFICES ASSUME Init PROVE Inv
    OBVIOUS
<1>1. TypeOK
  <2>1. /\ nread \in 0..(UINT - 1) /\ nwrite \in 0..(UINT - 1)
        /\ Count <= PIPESIZE
    BY Distance, PipeAssumption DEF Init, Count
  <2>2. /\ holds \in [Proc -> SUBSET {"r", "w"}]
        /\ n \in [Proc -> 0..MaxN]
    BY PipeAssumption DEF Init
  <2> QED
    BY Zenon, <2>1, <2>2 DEF Init, TypeOK
<1>2. LockInv
  BY Zenon DEF Init, LockInv, Locked, Reading
<1>3. EndsInv
  BY DEF Init, EndsInv, Reading, Writing
<1>4. SleepInv
  BY Zenon DEF Init, SleepInv
<1> QED
  BY <1>1, <1>2, <1>3, <1>4 DEF Inv

\* The inductive invariant of pipe.c: types, who has pi->lock and what it may
\* rely on, who keeps an end open, and why each sleeper sleeps.
THEOREM Invariance == Spec => []Inv
<1>1. Inv /\ [Next]_vars => Inv'
  BY TypeStep, LockStep, EndsStep, SleepStep DEF Inv
<1> QED
  BY InvInit, <1>1, PTL DEF Spec

\* pipeclose() frees the page only when no process can still use it: nobody
\* has an end open, or is between fileclose() and pipeclose().
THEOREM PageSafe == Spec => []NoUseAfterFree
<1>1. Inv => NoUseAfterFree
  BY Zenon DEF Inv, TypeOK, EndsInv, NoUseAfterFree, Reading, Writing, Asleep
<1> QED
  BY Invariance, <1>1, PTL

\* A writer in sleep() is waited for by somebody: the pipe is full and its
\* read end is open.
THEOREM WritersWoken == Spec => []WriterMustWait
<1>1. Inv => WriterMustWait
  BY DEF Inv, SleepInv, WriterMustWait
<1> QED
  BY Invariance, <1>1, PTL

\* A reader in sleep() has not missed the end of file, and no byte either,
\* but for those of a write cut short by kill().
THEOREM ReadersWoken == Spec => []ReaderMustWait
<1>1. Inv => ReaderMustWait
  BY DEF Inv, LockInv, Locked, SleepInv, ReaderMustWait, Free
<1> QED
  BY Invariance, <1>1, PTL
-----------------------------------------------------------------------------
\* A multiple of m is not strictly between 0 and m.
LEMMA NoMultiple ==
    ASSUME NEW m \in Nat, NEW z \in Int
    PROVE  ~(0 < m * z /\ m * z < m)
<1>1. CASE z <= 0
  BY <1>1
<1>2. CASE z >= 1
  BY <1>2
<1> QED
  BY <1>1, <1>2

\* Facts of arithmetic.
LEMMA Distribute ==
    \A m, a, b \in Int :
        m * (b - a) = m * b - m * a /\ m * (b + a) = m * b + m * a
OBVIOUS

LEMMA Division ==
    ASSUME NEW x \in Int, NEW m \in Int, m > 0
    PROVE  \E z \in Int : x = m * z + (x % m)
<1>1. x \div m \in Int
  OBVIOUS
<1>2. x = m * (x \div m) + (x % m)
  BY SMTT(60)
<1> QED
  BY <1>1, <1>2, Zenon

\* Two counters less than PIPESIZE apart use different places of the buffer,
\* although they wrap.
LEMMA Places ==
    ASSUME NEW r \in 0..(UINT - 1), NEW i \in Nat, NEW j \in Nat,
           i < j, j < i + PIPESIZE, j < UINT
    PROVE  ((r + i) % UINT) % PIPESIZE # ((r + j) % UINT) % PIPESIZE
<1> DEFINE x == (r + i) % UINT
           y == (r + j) % UINT
<1>1. PICK u \in Int : UINT = PIPESIZE * u
  BY Division, PipeAssumption
<1>2. /\ x = IF r + i < UINT THEN r + i ELSE r + i - UINT
      /\ y = IF r + j < UINT THEN r + j ELSE r + j - UINT
  BY SMTT(30), Wrap, PipeAssumption
<1>3. x \in Int /\ y \in Int /\ PIPESIZE \in Int /\ PIPESIZE > 0
  BY <1>2, PipeAssumption
<1>4. j - i = y - x \/ j - i = y - x + UINT
  BY <1>2, PipeAssumption
<1> HIDE DEF x, y
<1> SUFFICES ASSUME x % PIPESIZE = y % PIPESIZE PROVE FALSE
  BY DEF x, y
<1>5. PICK a \in Int : x = PIPESIZE * a + (x % PIPESIZE)
  BY <1>3, Division, Zenon
<1>6. PICK b \in Int : y = PIPESIZE * b + (y % PIPESIZE)
  BY <1>3, Division, Zenon
<1>7. x % PIPESIZE \in Int
  BY <1>3, PipeAssumption
<1>8. y - x = PIPESIZE * (b - a)
  <2>1. ASSUME NEW A \in Int, NEW B \in Int, NEW R \in Int,
               x = A + R, y = B + R
        PROVE  y - x = B - A
    BY <2>1
  <2>2. PIPESIZE * a \in Int /\ PIPESIZE * b \in Int
    BY PipeAssumption
  <2>3. y - x = PIPESIZE * b - PIPESIZE * a
    BY <1>5, <1>6, <1>7, <2>1, <2>2
  <2> QED
    BY <2>3, Distribute, PipeAssumption
<1>9. j - i = PIPESIZE * (b - a) \/ j - i = PIPESIZE * (b - a + u)
  BY <1>1, <1>4, <1>8, Distribute, PipeAssumption
<1>10. b - a \in Int /\ b - a + u \in Int
  OBVIOUS
<1>11. 0 < j - i /\ j - i < PIPESIZE
  BY PipeAssumption
<1> QED
  BY <1>9, <1>10, <1>11, NoMultiple, PipeAssumption
-----------------------------------------------------------------------------
Place(r, i) == ((r + i - 1) % UINT) % PIPESIZE

LEMMA PlaceType ==
    ASSUME NEW r \in 0..(UINT - 1), NEW i \in 1..PIPESIZE
    PROVE  Place(r, i) \in 0..(PIPESIZE - 1)
<1>1. (r + i - 1) % UINT \in Nat
  BY Wrap, PipeAssumption
<1> QED
  BY <1>1, PipeAssumption DEF Place

LEMMA OldestSeq ==
    ASSUME TypeOK, NEW k \in 0..PIPESIZE
    PROVE  /\ Oldest(k) \in Seq(Byte)
           /\ Len(Oldest(k)) = k
           /\ \A i \in 1..k : Oldest(k)[i] = data[Place(nread, i)]
<1>1. \A i \in 1..k : data[Place(nread, i)] \in Byte
  BY PlaceType, PipeAssumption DEF TypeOK
<1>2. Oldest(k) = [i \in 1..k |-> data[Place(nread, i)]]
  BY DEF Oldest, Place
<1> QED
  BY <1>1, <1>2, PipeAssumption

\* pipewrite() adds a byte behind the others.
LEMMA ByteWritten ==
    ASSUME Inv, NEW p \in Proc, NEW b \in Byte, write_byte(p, b), TypeOK'
    PROVE  Oldest(Count)' = Append(Oldest(Count), b)
<1>1. TypeOK /\ ~Full /\ nread' = nread
      /\ nwrite' = (nwrite + 1) % UINT
      /\ data' = [data EXCEPT ![nwrite % PIPESIZE] = b]
  BY DEF Inv, write_byte
<1>2. Count \in 0..(PIPESIZE - 1) /\ Count' = Count + 1
  BY SMTT(30), <1>1, FullCount, CountUp, PipeAssumption
<1>3. nread \in 0..(UINT - 1) /\ nwrite \in 0..(UINT - 1)
  BY <1>1 DEF TypeOK
<1>4. Place(nread, Count + 1) = nwrite % PIPESIZE
  <2>1. Count = IF nread <= nwrite THEN nwrite - nread
                ELSE nwrite + UINT - nread
    BY <1>3, Distance DEF Count
  <2>2. nread + (Count + 1) - 1 = IF nread <= nwrite THEN nwrite
                                  ELSE nwrite + UINT
    BY <1>2, <1>3, <2>1, PipeAssumption
  <2>3. (nread + (Count + 1) - 1) % UINT = nwrite
    BY <1>3, <2>2, Wrap, PipeAssumption
  <2> QED
    BY <2>3 DEF Place
<1>5. \A i \in 1..Count : Place(nread, i) # nwrite % PIPESIZE
  <2> TAKE i \in 1..Count
  <2>1. ((nread + (i - 1)) % UINT) % PIPESIZE #
           ((nread + Count) % UINT) % PIPESIZE
    <3>1. /\ i - 1 \in Nat /\ Count \in Nat /\ i - 1 < Count
          /\ Count < (i - 1) + PIPESIZE /\ Count < UINT
      BY <1>2, PipeAssumption
    <3> QED
      BY <1>3, <3>1, Places, Zenon
  <2>2. /\ nread + (i - 1) = nread + i - 1
        /\ nread + Count = nread + (Count + 1) - 1
    BY <1>2, <1>3
  <2> QED
    BY <1>4, <2>1, <2>2 DEF Place
<1>6. \A i \in 1..Count : data'[Place(nread, i)] = data[Place(nread, i)]
  BY SMTT(30), <1>1, <1>2, <1>3, <1>5, PlaceType, PipeAssumption DEF TypeOK
<1>7. data'[Place(nread, Count + 1)] = b
  BY SMTT(30), <1>1, <1>2, <1>3, <1>4, PlaceType, PipeAssumption DEF TypeOK
<1> DEFINE old == Oldest(Count)
           new == Oldest(Count)'
<1>8. /\ old \in Seq(Byte) /\ Len(old) = Count
      /\ \A i \in 1..Count : old[i] = data[Place(nread, i)]
  BY <1>1, <1>2, OldestSeq, PipeAssumption
<1>9. new = [i \in 1..(Count + 1) |-> data'[Place(nread, i)]]
  BY <1>1, <1>2 DEF Oldest, Place
<1> HIDE DEF old, new
<1>10. \A i \in 1..(Count + 1) : data'[Place(nread, i)] \in Byte
  BY SMTT(30), <1>1, <1>2, <1>3, PlaceType, PipeAssumption DEF TypeOK
<1>11. new \in Seq(Byte) /\ Len(new) = Count + 1
  BY <1>2, <1>9, <1>10
<1>12. /\ Append(old, b) \in Seq(Byte) /\ Len(Append(old, b)) = Count + 1
       /\ \A i \in 1..Count : Append(old, b)[i] = old[i]
       /\ Append(old, b)[Count + 1] = b
  BY SMTT(30), <1>8, AppendProperties
<1>13. \A i \in 1..(Count + 1) : new[i] = Append(old, b)[i]
  BY SMTT(30), <1>2, <1>6, <1>7, <1>8, <1>9, <1>12
<1>14. new = Append(old, b)
  BY <1>11, <1>12, <1>13, SeqEqual
<1> QED
  BY <1>14 DEF old, new

\* piperead() takes bytes from the front: what it copies out, and what stays.
LEMMA BytesRead ==
    ASSUME TypeOK, NEW k \in 0..Count, NEW lost \in 0..1, k + lost <= Count,
           nread' = (nread + (k + lost)) % UINT, nwrite' = nwrite,
           data' = data
    PROVE  /\ Oldest(k) = SubSeq(Oldest(Count), 1, k)
           /\ Oldest(Count)' =
                SubSeq(Oldest(Count), k + lost + 1, Len(Oldest(Count)))
<1> DEFINE old == Oldest(Count)
           new == Oldest(Count)'
           m == k + lost
<1>1. /\ nread \in 0..(UINT - 1) /\ Count \in 0..PIPESIZE
      /\ data \in [0..(PIPESIZE - 1) -> Byte]
  BY FullCount DEF TypeOK
<1>2. m \in 0..Count /\ k \in 0..PIPESIZE
  BY <1>1, PipeAssumption
<1>3. /\ nread' \in 0..(UINT - 1) /\ Count' = Count - m
      /\ nread' = (nread + m) % UINT
  BY <1>2, CountDown
<1>4. /\ old \in Seq(Byte) /\ Len(old) = Count
      /\ \A i \in 1..Count : old[i] = data[Place(nread, i)]
  BY <1>1, OldestSeq
<1>5. /\ Oldest(k) \in Seq(Byte) /\ Len(Oldest(k)) = k
      /\ \A i \in 1..k : Oldest(k)[i] = data[Place(nread, i)]
  BY <1>2, OldestSeq
<1>6. \A i \in 1..(Count - m) : Place(nread', i) = Place(nread, m + i)
  <2> HIDE DEF m
  <2> TAKE i \in 1..(Count - m)
  <2>1. ASSUME NEW r \in 0..(UINT - 1), NEW d \in 0..PIPESIZE,
               NEW h \in 0..PIPESIZE, d + h <= PIPESIZE
        PROVE  (((r + d) % UINT) + h) % UINT = (r + d + h) % UINT
    <3>1. (r + d) % UINT = IF r + d < UINT THEN r + d ELSE r + d - UINT
      BY SMTT(30), <2>1, Wrap, PipeAssumption
    <3>2. (r + d + h) % UINT =
             IF r + d + h < UINT THEN r + d + h ELSE r + d + h - UINT
      BY <2>1, Wrap, PipeAssumption
    <3>3. r + d - UINT + h = r + d + h - UINT
      BY <2>1, PipeAssumption
    <3>4. CASE r + d < UINT
      BY <3>1, <3>4
    <3>5. CASE r + d >= UINT
      <4>1. (r + d + h - UINT) % UINT = r + d + h - UINT
        BY <2>1, <3>5, Wrap, PipeAssumption
      <4> QED
        BY <2>1, <3>1, <3>2, <3>3, <3>5, <4>1, PipeAssumption
    <3> QED
      BY <2>1, <3>4, <3>5, PipeAssumption
  <2>2. (((nread + m) % UINT) + (i - 1)) % UINT = (nread + m + (i - 1)) % UINT
    <3>1. /\ m \in 0..PIPESIZE /\ i - 1 \in 0..PIPESIZE
          /\ m + (i - 1) <= PIPESIZE
      BY <1>1, <1>2, PipeAssumption
    <3> QED
      BY ZenonT(30), <1>1, <2>1, <3>1
  <2>3. /\ nread' + (i - 1) = nread' + i - 1
        /\ nread + m + (i - 1) = nread + (m + i) - 1
    BY <1>1, <1>2, <1>3, PipeAssumption
  <2> QED
    BY <1>3, <2>2, <2>3 DEF Place
<1>7. new = [i \in 1..(Count - m) |-> data[Place(nread, m + i)]]
  BY <1>3, <1>6 DEF Oldest, Place
<1> HIDE DEF old, new, m
<1>8. \A i \in 1..(Count - m) : data[Place(nread, m + i)] = old[m + i]
  BY <1>1, <1>2, <1>4
<1>9. \A i \in 1..Count : old[i] \in Byte
  BY <1>4
<1>10. /\ new \in Seq(Byte) /\ Len(new) = Count - m
       /\ \A i \in 1..(Count - m) : new[i] = old[m + i]
  <2>1. \A i \in 1..(Count - m) : m + i \in 1..Count
    BY <1>1, <1>2
  <2>2. \A i \in 1..(Count - m) : data[Place(nread, m + i)] \in Byte
    BY <1>8, <1>9, <2>1
  <2>3. Count - m \in Nat
    BY <1>1, <1>2
  <2> QED
    BY <1>7, <1>8, <2>2, <2>3
<1>11. new = SubSeq(old, m + 1, Len(old))
  BY SMTT(30), <1>1, <1>2, <1>4, <1>9, <1>10, SubSeqProperties, SeqEqual
<1>12. Oldest(k) = SubSeq(old, 1, k)
  BY SMTT(30), <1>1, <1>2, <1>4, <1>5, <1>9, SubSeqProperties, SeqEqual
<1> QED
  BY <1>11, <1>12 DEF old, new, m

abstract == <<Oldest(Count), out, readopen, writeopen>>

\* One step of pipe.c is one step of the channel, or none.
LEMMA FifoStep == Inv /\ [Next]_vars => [Fifo!Next]_abstract
<1> SUFFICES ASSUME Inv, [Next]_vars PROVE [Fifo!Next]_abstract
    OBVIOUS
<1>0. Inv /\ TypeOK /\ LockInv /\ EndsInv /\ TypeOK'
  BY TypeStep DEF Inv
<1>s. ASSUME UNCHANGED <<data, nread, nwrite, out, readopen, writeopen>>
      PROVE  [Fifo!Next]_abstract
  BY <1>s DEF abstract, Oldest, Count
<1>1. ASSUME NEW p \in Proc, pipeclose(p) PROVE [Fifo!Next]_abstract
  <2>1. Oldest(Count)' = Oldest(Count) /\ out' = out
    BY <1>1 DEF pipeclose, pipe, Oldest, Count
  <2>2. CASE pc[p] = "close_read"
    <3>1. readopen /\ ~readopen' /\ writeopen' = writeopen
      BY <1>0, <1>1, <2>2 DEF pipeclose, EndsInv, TypeOK
    <3> QED
      BY SMTT(30), <2>1, <3>1 DEF Fifo!Next, Fifo!CloseRead
  <2>3. CASE pc[p] = "close_write"
    <3>1. writeopen /\ ~writeopen' /\ readopen' = readopen
      BY <1>0, <1>1, <2>3 DEF pipeclose, EndsInv, TypeOK
    <3> QED
      BY SMTT(30), <2>1, <3>1 DEF Fifo!Next, Fifo!CloseWrite
  <2> QED
    BY <1>1, <2>2, <2>3 DEF pipeclose
<1>2. ASSUME NEW p \in Proc, write_check(p) PROVE [Fifo!Next]_abstract
  BY <1>s, <1>2 DEF write_check, pipe, ends
<1>3. ASSUME NEW p \in Proc, write_abort(p) PROVE [Fifo!Next]_abstract
  BY <1>s, <1>3 DEF write_abort, pipe, ends
<1>4. ASSUME NEW p \in Proc, write_full(p) PROVE [Fifo!Next]_abstract
  BY <1>s, <1>4 DEF write_full, pipe, ends
<1>5. ASSUME NEW p \in Proc, write_fault(p) PROVE [Fifo!Next]_abstract
  BY <1>s, <1>5 DEF write_fault, pipe, ends
<1>6. ASSUME NEW p \in Proc, write_done(p) PROVE [Fifo!Next]_abstract
  BY <1>s, <1>6 DEF write_done, pipe, ends
<1>7. ASSUME NEW p \in Proc, write_reacquire(p) PROVE [Fifo!Next]_abstract
  BY <1>s, <1>7 DEF write_reacquire, pipe, ends
<1>8. ASSUME NEW p \in Proc, NEW b \in Byte, write_byte(p, b)
      PROVE  [Fifo!Next]_abstract
  <2>1. readopen /\ writeopen
    BY <1>0, <1>8 DEF write_byte, LockInv, EndsInv, Writing
  <2>2. Len(Oldest(Count)) < PIPESIZE
    <3>1. Count \in 0..PIPESIZE /\ Count # PIPESIZE
      BY <1>0, <1>8, FullCount DEF write_byte
    <3>2. Len(Oldest(Count)) = Count
      BY <1>0, <3>1, OldestSeq
    <3> QED
      BY <3>1, <3>2, PipeAssumption
  <2>3. Oldest(Count)' = Append(Oldest(Count), b)
    BY <1>0, <1>8, ByteWritten
  <2>4. UNCHANGED <<out, readopen, writeopen>>
    BY <1>8 DEF write_byte, ends
  <2>5. Fifo!Send(b)
    BY SMTT(30), <2>1, <2>2, <2>3, <2>4 DEF Fifo!Send
  <2> QED
    BY SMTT(30), <2>5 DEF Fifo!Next
<1>9. ASSUME NEW p \in Proc, read_abort(p) PROVE [Fifo!Next]_abstract
  BY <1>s, <1>9 DEF read_abort, pipe, ends
<1>10. ASSUME NEW p \in Proc, read_wait(p) PROVE [Fifo!Next]_abstract
  BY <1>s, <1>10 DEF read_wait, pipe, ends
<1>11. ASSUME NEW p \in Proc, read_sleep(p) PROVE [Fifo!Next]_abstract
  BY <1>s, <1>11 DEF read_sleep, pipe, ends
<1>12. ASSUME NEW p \in Proc, read_reacquire(p) PROVE [Fifo!Next]_abstract
  BY <1>s, <1>12 DEF read_reacquire, pipe, ends
<1>13. ASSUME NEW p \in Proc, NEW k \in 0..MaxN, NEW lost \in 0..1,
             read_copy(p, k, lost)
      PROVE  [Fifo!Next]_abstract
  <2>1. /\ k + lost \in 0..Count
        /\ nread' = (nread + (k + lost)) % UINT
        /\ nwrite' = nwrite
    BY <1>0, <1>13, ReadCount
  <2>2. Count \in 0..PIPESIZE /\ k \in 0..Count /\ k + lost <= Count
    BY <1>0, <2>1, FullCount, PipeAssumption
  <2>3. /\ Oldest(k) = SubSeq(Oldest(Count), 1, k)
        /\ Oldest(Count)' =
             SubSeq(Oldest(Count), k + lost + 1, Len(Oldest(Count)))
    <3>1. data' = data
      BY <1>13 DEF read_copy
    <3> QED
      BY SMTT(30), <1>0, <2>1, <2>2, <3>1, BytesRead
  <2>4. readopen
    BY <1>0, <1>13 DEF read_copy, EndsInv, Reading
  <2>5. Fifo!Take(k, lost)
    BY ZenonT(30), <1>13, <2>3, <2>4 DEF Fifo!Take, read_copy, ends
  <2>6. Len(Oldest(Count)) = Count
    BY ZenonT(30), <1>0, <2>2, OldestSeq
  <2>7. CASE lost = 1
    <3>1. k \in 0..(Len(Oldest(Count)) - 1)
      BY <2>2, <2>6, <2>7
    <3> QED
      BY <2>5, <2>7, <3>1 DEF Fifo!Next, Fifo!Fault
  <2>8. CASE lost = 0 /\ k > 0
    <3>1. k \in 1..Len(Oldest(Count))
      BY <2>2, <2>6, <2>8
    <3> QED
      BY <2>5, <2>8, <3>1 DEF Fifo!Next, Fifo!Receive
  <2>9. CASE lost = 0 /\ k = 0
    <3>1. n[p] > 0 /\ n[p] \in Nat
      BY SMTT(30), <1>0, <1>13, PipeAssumption DEF read_copy, LockInv, Reading, TypeOK
    <3>2. Count = 0 /\ Empty
      BY <1>0, <1>13, <2>2, <2>9, <3>1, FullCount DEF read_copy
    <3>3. ~writeopen
      BY Zenon, <1>13, <3>2 DEF read_copy
    <3>4. Oldest(Count) = << >>
      BY SMTT(30), <3>2 DEF Oldest
    <3> QED
      BY SMTT(30), <2>5, <2>9, <3>3, <3>4 DEF Fifo!Next, Fifo!EndOfFile
  <2> QED
    BY <2>2, <2>7, <2>8, <2>9
<1>14. ASSUME NEW p \in Proc, NEW q \in Proc, fork(p, q)
      PROVE  [Fifo!Next]_abstract
  BY SMTT(30), <1>s, <1>14 DEF fork, pipe
<1>15. ASSUME NEW p \in Proc, NEW e \in {"r", "w"}, fileclose(p, e)
      PROVE  [Fifo!Next]_abstract
  BY SMTT(30), <1>s, <1>15 DEF fileclose, pipe
<1>16. ASSUME NEW p \in Proc, NEW k \in 1..MaxN, pipewrite(p, k)
      PROVE  [Fifo!Next]_abstract
  BY SMTT(30), <1>s, <1>16 DEF pipewrite, pipe, ends
<1>17. ASSUME NEW p \in Proc, NEW k \in 1..MaxN, piperead(p, k)
      PROVE  [Fifo!Next]_abstract
  BY <1>s, <1>17 DEF piperead, pipe, ends
<1>18. ASSUME NEW p \in Proc, kill(p) PROVE [Fifo!Next]_abstract
  BY <1>s, <1>18 DEF kill, pipe, ends
<1>19. CASE UNCHANGED vars
  BY <1>s, <1>19 DEF vars
<1> QED
  BY <1>1, <1>2, <1>3, <1>4, <1>5, <1>6, <1>7, <1>8, <1>9,
     <1>10, <1>11, <1>12, <1>13, <1>14, <1>15, <1>16, <1>17, <1>18, <1>19,
     Zenon
  DEF Next, Kernel, User

\* A pipe is a bounded FIFO, whatever interleaving of readers, writers, closes
\* and kills it sees and however often its counters wrap.
THEOREM PipeImplementsChannel == Spec => PipeIsFifo
<1>1. Init => Fifo!Init
  <2> SUFFICES ASSUME Init PROVE Fifo!Init
    OBVIOUS
  <2>1. Count = 0
    BY Distance, PipeAssumption DEF Init, Count
  <2>2. Oldest(Count) = << >>
    BY <2>1 DEF Oldest
  <2> QED
    BY <2>2 DEF Init, Fifo!Init
<1>2. Inv /\ [Next]_vars => [Fifo!Next]_(Fifo!cvars)
  BY FifoStep DEF abstract, Fifo!cvars
<1> QED
  BY <1>1, <1>2, Invariance, PTL DEF Spec, PipeIsFifo, Fifo!Spec
=============================================================================
