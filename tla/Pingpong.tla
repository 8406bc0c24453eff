------------------------------ MODULE Pingpong ------------------------------
(***************************************************************************)
(* user/pingpong.c: a byte to the child and back.                          *)
(***************************************************************************)
EXTENDS Syscalls

\* The descriptors of the two pipes, in order of allocation.
c2pRD == 3
c2pWR == 4
p2cRD == 5
p2cWR == 6

PingAt(p, l) == At(p, "pingpong", l)
PingGo(p, l, t) == proc' = Go(p, l, << >>, t) /\ UNCHANGED <<sink, disk>>

\* pipe(fd_c2p); pipe(fd_p2c)
ping_pipe(p) ==
    LET k == NewPipe
        j == CHOOSE i \in Pid \ {k} : ~InUse(i)
    IN
    /\ PingAt(p, "main")
    /\ PingGo(p, "fork", PipeTable(PipeTable(proc[p].ofile, k), j))
    /\ chan' = [chan EXCEPT ![k] = << >>, ![j] = << >>]

\* Each side closes the ends it does not use.
ping_fork(p) ==
    LET t == proc[p].ofile
        parent == Close(Close(t, p2cRD), c2pWR)
        child == Close(Close(t, p2cWR), c2pRD)
    IN
    /\ PingAt(p, "fork")
    /\ IF Slots = {} THEN put(p, 2, "fork") /\ proc' = Exited(p)
       ELSE /\ proc' = Forked(p, Min(Slots), "ping", << >>, parent,
                              [proc[p] EXCEPT !.at = "read", !.ofile = child])
            /\ UNCHANGED <<chan, sink, disk>>

\* The parent: write, read, print, exit.  A read that fails prints to 2.
ping_write(p) ==
    /\ PingAt(p, "ping") /\ Writable(p, p2cWR)
    /\ put(p, p2cWR, "P")
    /\ proc' = Go(p, "pong", << >>, proc[p].ofile)

ping_read(p) ==
    /\ PingAt(p, "pong") /\ Readable(p, c2pRD)
    /\ proc' = Go(p, "print", Item(p, c2pRD), proc[p].ofile)
    /\ chan' = Drained(p, c2pRD)
    /\ UNCHANGED <<sink, disk>>

Report(p, text) ==
    IF proc[p].m = Eof THEN put(p, 2, "read") ELSE Writable(p, 1) /\ put(p, 1, text)

ping_print(p) == PingAt(p, "print") /\ Report(p, "pong") /\ proc' = Exited(p)

\* The child: read and print, then write, exit.
pong_read(p) ==
    /\ PingAt(p, "read") /\ Readable(p, p2cRD)
    /\ proc' = Go(p, "ack", Item(p, p2cRD), proc[p].ofile)
    /\ chan' = Drained(p, p2cRD)
    /\ UNCHANGED <<sink, disk>>

PrintLast(p) ==
    \/ /\ PingAt(p, "ack") /\ Writable(p, c2pWR)
       /\ put(p, c2pWR, "P")
       /\ proc' = Go(p, "late", proc[p].m, proc[p].ofile)
    \/ PingAt(p, "late") /\ Report(p, "ping") /\ proc' = Exited(p)

pong_print(p) ==
    /\ PingAt(p, "ack") /\ Report(p, "ping")
    /\ proc' = Go(p, "answer", << >>, proc[p].ofile)

pong_write(p) ==
    /\ PingAt(p, "answer") /\ Writable(p, c2pWR)
    /\ put(p, c2pWR, "P")
    /\ proc' = Exited(p)

PingStep(p) ==
    \/ ping_pipe(p) \/ ping_fork(p) \/ ping_write(p) \/ ping_read(p)
    \/ ping_print(p) \/ pong_read(p) \/ pong_print(p) \/ pong_write(p)
=============================================================================
