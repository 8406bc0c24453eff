------------------------------- MODULE Primes -------------------------------
(***************************************************************************)
(* user/primes.c: a sieve of processes.  Each prints the first number it   *)
(* reads and passes on those it does not divide.  An int is one item of a  *)
(* pipe: 512 is a multiple of 4, so that a full pipe never splits one.     *)
(***************************************************************************)
EXTENDS Syscalls

CONSTANT MaxNum      \* 280 in the code

PrimeAt(p, l) == At(p, "primes", l)

\* Variables: the descriptor read from, the two ends of the pipe that was
\* made, the divisor n and the number num to be sent (0: none).
Vars(fd, rd, wr, n, num) == [fd |-> fd, rd |-> rd, wr |-> wr, n |-> n, num |-> num]
Small(p, l, m, t) == proc' = Go(p, l, m, t) /\ UNCHANGED <<chan, sink, disk>>

\* pipe(p), in main and in prime.
prime_pipe(p) ==
    LET t == proc[p].ofile
        rd == Lowest(t)
        wr == Lowest(Alloc(t, Tty))
        from == IF PrimeAt(p, "main") THEN Vars(0, rd, wr, 0, 2)
                ELSE [proc[p].m EXCEPT !.rd = rd, !.wr = wr]
    IN
    /\ PrimeAt(p, "main") \/ PrimeAt(p, "pipe")
    /\ proc' = Go(p, "fork", from, PipeTable(t, NewPipe))
    /\ chan' = Emptied(NewPipe)
    /\ UNCHANGED <<sink, disk>>

ChildKeepsWriter(t, m) == IF m.fd = 0 THEN t ELSE Close(Close(t, m.wr), m.fd)

\* The child's table in prime(): close(p[WR]), close(fd_rd).
ChildTable(t, m) == IF m.fd = 0 THEN Close(t, m.wr)
                    ELSE Close(Close(t, m.wr), m.fd)

\* fork(): the child goes on in prime(p[RD]), its parent closes p[RD].  A fork
\* that fails is not noticed.
prime_fork(p) ==
    LET m == proc[p].m
        t == proc[p].ofile
        next == IF m.fd = 0 THEN "send" ELSE "sieve"
    IN
    /\ PrimeAt(p, "fork")
    /\ proc' = IF Slots = {} THEN Go(p, next, m, Close(t, m.rd))
               ELSE Forked(p, Min(Slots), next, m, Close(t, m.rd),
                           [proc[p] EXCEPT !.at = "prime", !.ofile = ChildTable(t, m),
                                           !.m = Vars(m.rd, 0, 0, 0, 0)])
    /\ UNCHANGED <<chan, sink, disk>>

\* main: for(i = 2; i <= 280; i++) write(p[WR], &i, 4); close(p[WR])
main_send(p) ==
    LET m == proc[p].m IN
    /\ PrimeAt(p, "send")
    /\ IF m.num > MaxNum
       THEN Small(p, "wait", m, Close(proc[p].ofile, m.wr))
       ELSE /\ Writable(p, m.wr)
            /\ put(p, m.wr, m.num)
            /\ proc' = Go(p, "send", [m EXCEPT !.num = @ + 1], proc[p].ofile)

\* prime: the first read, which ends the pipeline or gives a prime.
prime(p) ==
    LET m == proc[p].m
        n == Item(p, m.fd)
    IN
    /\ PrimeAt(p, "prime") /\ Readable(p, m.fd)
    /\ chan' = Drained(p, m.fd)
    /\ proc' = IF n = Eof THEN Exited(p)
               ELSE Go(p, "print", [m EXCEPT !.n = n[1]], proc[p].ofile)
    /\ UNCHANGED <<sink, disk>>

prime_print(p) ==
    LET m == proc[p].m IN
    /\ PrimeAt(p, "print") /\ Writable(p, 1)
    /\ put(p, 1, m.n)
    /\ proc' = Go(p, "pipe", m, proc[p].ofile)

Passes(num, n) == num % n # 0

\* The loop of prime: a read, then a write of what n does not divide.
sieve_read(p) ==
    LET m == proc[p].m
        num == Item(p, m.fd)
    IN
    /\ PrimeAt(p, "sieve") /\ Readable(p, m.fd)
    /\ chan' = Drained(p, m.fd)
    /\ proc' = IF num = Eof
               THEN Go(p, "wait", m, Close(Close(proc[p].ofile, m.fd), m.wr))
               ELSE IF Passes(num[1], m.n)
               THEN Go(p, "pass", [m EXCEPT !.num = num[1]], proc[p].ofile)
               ELSE proc
    /\ UNCHANGED <<sink, disk>>

sieve_write(p) ==
    LET m == proc[p].m IN
    /\ PrimeAt(p, "pass") /\ Writable(p, m.wr)
    /\ put(p, m.wr, m.num)
    /\ proc' = Go(p, "sieve", [m EXCEPT !.num = 0], proc[p].ofile)

\* wait(0), then exit.
prime_wait(p) == PrimeAt(p, "wait") /\ wait(p, "done", proc[p].m)
prime_exit(p) == PrimeAt(p, "done") /\ exit(p)

PrimeStep(p) ==
    \/ prime_pipe(p) \/ prime_fork(p) \/ main_send(p) \/ prime(p) \/ prime_print(p)
    \/ sieve_read(p) \/ sieve_write(p) \/ prime_wait(p) \/ prime_exit(p)
=============================================================================
