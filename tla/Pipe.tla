-------------------------------- MODULE Pipe --------------------------------
(***************************************************************************)
(* kernel/pipe.c, with the reference counts of kernel/file.c that decide   *)
(* when an end is closed.  Several processes share the two ends, as after  *)
(* pipe() and fork().  pi->lock is explicit, because kill() does not take  *)
(* it: a process can be killed at any point of a read or a write.          *)
(***************************************************************************)
EXTENDS Naturals, Sequences

CONSTANTS Proc,      \* processes
          First,     \* the one that called pipe()
          Killable,  \* bound: processes kill() is aimed at
          Byte,
          PIPESIZE,
          UINT,      \* 2^32 in the code: nread and nwrite wrap here
          MaxN       \* bound: bytes per call

ASSUME PipeAssumption ==
    /\ First \in Proc
    /\ Killable \subseteq Proc
    /\ PIPESIZE \in Nat \ {0}
    /\ UINT \in Nat
    /\ PIPESIZE < UINT
    /\ UINT % PIPESIZE = 0
    /\ MaxN \in Nat \ {0}

VARIABLES data, nread, nwrite, readopen, writeopen,  \* struct pipe
          lock,     \* pi->lock: the set holding it (empty: free)
          freed,    \* the page went back to kfree()
          holds,    \* ends each process has open: "r", "w"
          killed,
          pc,
          n,        \* bytes the call has left
          out       \* what the last read delivered

pipe == <<data, nread, nwrite>>
ends == <<readopen, writeopen, freed, holds>>
vars == <<data, nread, nwrite, readopen, writeopen, lock, freed, holds,
          killed, pc, n, out>>

Free == lock = {}

Goto(p, l) == pc' = [pc EXCEPT ![p] = l]

Asleep == {"read_asleep", "write_asleep"}

\* wakeup() of one channel, then p goes on to l.
Woken(l) == CASE l = "read_asleep" -> "read_woken"
              [] l = "write_asleep" -> "write_woken"

WakeThen(sleeping, p, l) ==
    pc' = [q \in Proc |-> IF q = p THEN l
                          ELSE IF pc[q] = sleeping THEN Woken(sleeping)
                          ELSE pc[q]]

\* pipealloc: the caller has both ends open.
Init ==
    /\ data \in [0..(PIPESIZE - 1) -> Byte]
    /\ \A i, j \in DOMAIN data : data[i] = data[j]
    /\ nread = 0 /\ nwrite = 0
    /\ readopen = TRUE /\ writeopen = TRUE
    /\ lock = {}
    /\ freed = FALSE
    /\ holds = [p \in Proc |-> IF p = First THEN {"r", "w"} ELSE {}]
    /\ killed = [p \in Proc |-> FALSE]
    /\ pc = [p \in Proc |-> IF p = First THEN "user" ELSE "unborn"]
    /\ n = [p \in Proc |-> 0]
    /\ out = << >>
-----------------------------------------------------------------------------
\* fork(): filedup() of every open end.
fork(p, q) ==
    /\ pc[p] = "user" /\ ~killed[p]
    /\ pc[q] = "unborn"
    /\ holds' = [holds EXCEPT ![q] = holds[p]]
    /\ Goto(q, "user")
    /\ UNCHANGED <<pipe, readopen, writeopen, lock, freed, killed, n, out>>

AnyRef(p, e) == TRUE

\* --f->ref > 0 fails: nobody else has the end open.
LastRef(p, e) == \A q \in Proc \ {p} : e \notin holds[q]

\* fileclose(), under ftable.lock; the last reference goes on to pipeclose().
fileclose(p, e) ==
    /\ pc[p] = "user"
    /\ e \in holds[p]
    /\ holds' = [holds EXCEPT ![p] = @ \ {e}]
    /\ Goto(p, IF ~LastRef(p, e) THEN "user"
               ELSE IF e = "r" THEN "close_read" ELSE "close_write")
    /\ UNCHANGED <<pipe, readopen, writeopen, lock, freed, killed, n, out>>

CloseWakesOwn(p) ==
    WakeThen(IF pc[p] = "close_write" THEN "write_asleep" ELSE "read_asleep",
             p, "user")

\* pipeclose wakes the sleepers of the other end.
CloseWakes(p) ==
    WakeThen(IF pc[p] = "close_write" THEN "read_asleep" ELSE "write_asleep",
             p, "user")

pipeclose(p) ==
    /\ pc[p] \in {"close_read", "close_write"}
    /\ Free
    /\ writeopen' = (writeopen /\ pc[p] # "close_write")
    /\ readopen' = (readopen /\ pc[p] # "close_read")
    /\ freed' = (~readopen' /\ ~writeopen')
    /\ CloseWakes(p)
    /\ UNCHANGED <<pipe, lock, holds, killed, n, out>>

\* kill(): the flag, and a sleeper becomes RUNNABLE.
kill(p) ==
    /\ p \in Killable
    /\ pc[p] # "unborn" /\ ~killed[p]
    /\ killed' = [killed EXCEPT ![p] = TRUE]
    /\ pc' = IF pc[p] \in Asleep THEN [pc EXCEPT ![p] = Woken(@)] ELSE pc
    /\ UNCHANGED <<pipe, ends, lock, n, out>>
-----------------------------------------------------------------------------
FullLate == nwrite = (nread + PIPESIZE + 1) % UINT

Full == nwrite = (nread + PIPESIZE) % UINT

pipewrite(p, k) ==
    /\ pc[p] = "user" /\ ~killed[p] /\ "w" \in holds[p]
    /\ Free
    /\ lock' = {p}
    /\ n' = [n EXCEPT ![p] = k]
    /\ Goto(p, "write")
    /\ UNCHANGED <<pipe, ends, killed, out>>

\* Top of the loop, i < n: the test of readopen and killed ...
write_check(p) ==
    /\ pc[p] = "write" /\ n[p] > 0
    /\ readopen /\ ~killed[p]
    /\ Goto(p, "write_byte")
    /\ UNCHANGED <<pipe, ends, lock, killed, n, out>>

\* ... and the return of -1, which wakes nobody.
write_abort(p) ==
    /\ pc[p] = "write" /\ n[p] > 0
    /\ ~readopen \/ killed[p]
    /\ lock' = {}
    /\ n' = [n EXCEPT ![p] = 0]
    /\ Goto(p, "user")
    /\ UNCHANGED <<pipe, ends, killed, out>>

write_full(p) ==
    /\ pc[p] = "write_byte"
    /\ Full
    /\ lock' = {}
    /\ WakeThen("read_asleep", p, "write_asleep")
    /\ UNCHANGED <<pipe, ends, killed, n, out>>

write_byte(p, b) ==
    /\ pc[p] = "write_byte"
    /\ ~Full
    /\ data' = [data EXCEPT ![nwrite % PIPESIZE] = b]
    /\ nwrite' = (nwrite + 1) % UINT
    /\ n' = [n EXCEPT ![p] = @ - 1]
    /\ Goto(p, "write")
    /\ UNCHANGED <<nread, ends, lock, killed, out>>

\* copyin failed: leave the loop.
write_fault(p) ==
    /\ pc[p] = "write_byte"
    /\ ~Full
    /\ n' = [n EXCEPT ![p] = 0]
    /\ Goto(p, "write")
    /\ UNCHANGED <<pipe, ends, lock, killed, out>>

write_done(p) ==
    /\ pc[p] = "write" /\ n[p] = 0
    /\ lock' = {}
    /\ WakeThen("read_asleep", p, "user")
    /\ UNCHANGED <<pipe, ends, killed, n, out>>

write_reacquire(p) ==
    /\ pc[p] = "write_woken"
    /\ Free
    /\ lock' = {p}
    /\ Goto(p, "write")
    /\ UNCHANGED <<pipe, ends, killed, n, out>>
-----------------------------------------------------------------------------
Empty == nread = nwrite

Count == (nwrite + UINT - nread) % UINT

\* The next k bytes in the buffer.
Oldest(k) == [i \in 1..k |-> data[((nread + i - 1) % UINT) % PIPESIZE]]

piperead(p, k) ==
    /\ pc[p] = "user" /\ ~killed[p] /\ "r" \in holds[p]
    /\ Free
    /\ lock' = {p}
    /\ n' = [n EXCEPT ![p] = k]
    /\ Goto(p, "read")
    /\ UNCHANGED <<pipe, ends, killed, out>>

read_abort(p) ==
    /\ pc[p] = "read"
    /\ Empty /\ writeopen
    /\ killed[p]
    /\ lock' = {}
    /\ n' = [n EXCEPT ![p] = 0]
    /\ Goto(p, "user")
    /\ UNCHANGED <<pipe, ends, killed, out>>

read_wait(p) ==
    /\ pc[p] = "read"
    /\ Empty /\ writeopen
    /\ ~killed[p]
    /\ Goto(p, "read_sleep")
    /\ UNCHANGED <<pipe, ends, lock, killed, n, out>>

\* sleep(&pi->nread, &pi->lock), after the test of killed.
read_sleep(p) ==
    /\ pc[p] = "read_sleep"
    /\ lock' = {}
    /\ Goto(p, "read_asleep")
    /\ UNCHANGED <<pipe, ends, killed, n, out>>

read_reacquire(p) ==
    /\ pc[p] = "read_woken"
    /\ Free
    /\ lock' = {p}
    /\ Goto(p, "read")
    /\ UNCHANGED <<pipe, ends, killed, n, out>>

ReadWakesNone(p) == Goto(p, "user")

ReadWakes(p) == WakeThen("write_asleep", p, "user")

\* The copy loop: k bytes delivered, and one more consumed if copyout failed
\* on it.
read_copy(p, k, lost) ==
    /\ pc[p] = "read"
    /\ ~(Empty /\ writeopen)
    /\ IF lost = 1 THEN k < n[p] /\ k < Count
       ELSE k <= n[p] /\ k <= Count /\ (k = n[p] \/ k = Count)
    /\ out' = Oldest(k)
    /\ nread' = (nread + k + lost) % UINT
    /\ lock' = {}
    /\ n' = [n EXCEPT ![p] = 0]
    /\ ReadWakes(p)
    /\ UNCHANGED <<data, nwrite, ends, killed>>
-----------------------------------------------------------------------------
\* What a process does by itself once it is in the kernel.
Kernel(p) ==
    \/ pipeclose(p)
    \/ write_check(p) \/ write_abort(p) \/ write_full(p) \/ write_fault(p)
    \/ write_done(p) \/ write_reacquire(p)
    \/ \E b \in Byte : write_byte(p, b)
    \/ read_abort(p) \/ read_wait(p) \/ read_sleep(p) \/ read_reacquire(p)
    \/ \E k \in 0..MaxN, lost \in 0..1 : read_copy(p, k, lost)

User(p) ==
    \/ \E q \in Proc : fork(p, q)
    \/ \E e \in {"r", "w"} : fileclose(p, e)
    \/ \E k \in 1..MaxN : pipewrite(p, k) \/ piperead(p, k)
    \/ kill(p)

Next == \E p \in Proc : Kernel(p) \/ User(p)

Spec == Init /\ [][Next]_vars
-----------------------------------------------------------------------------
TypeOK ==
    /\ data \in [0..(PIPESIZE - 1) -> Byte]
    /\ nread \in 0..(UINT - 1) /\ nwrite \in 0..(UINT - 1)
    /\ Count <= PIPESIZE
    /\ readopen \in BOOLEAN /\ writeopen \in BOOLEAN /\ freed \in BOOLEAN
    /\ lock \subseteq Proc /\ \A p, q \in lock : p = q
    /\ holds \in [Proc -> SUBSET {"r", "w"}]
    /\ killed \in [Proc -> BOOLEAN]
    /\ pc \in [Proc -> Asleep \cup
               {"unborn", "user", "close_read", "close_write", "write",
                "write_byte", "write_woken", "read", "read_sleep",
                "read_woken"}]
    /\ n \in [Proc -> 0..MaxN]

\* The page of the pipe is not freed under a process that will still touch it.
NoUseAfterFree ==
    freed => \A p \in Proc : pc[p] \in {"unborn", "user"}

\* A writer sleeps only while the pipe is full and somebody can read it.
WriterMustWait ==
    Free => \A p \in Proc :
        pc[p] = "write_asleep" => Full /\ readopen

\* A reader sleeps only while somebody can write the pipe, so that end of file
\* reaches every reader, and only while the pipe is empty: but a write that
\* kill() cuts short returns without the wakeup.
ReaderMustWait ==
    Free => \A p \in Proc :
        pc[p] = "read_asleep" =>
            /\ writeopen
            /\ Empty \/ \E q \in Proc : killed[q]

\* The ring buffer, its wrapping indices and its sleepers implement a FIFO.
Fifo == INSTANCE Channel WITH
    Capacity <- PIPESIZE,
    queue <- Oldest(Count),
    ropen <- readopen,
    wopen <- writeopen

PipeIsFifo == Fifo!Spec
=============================================================================
