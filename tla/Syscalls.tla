------------------------------ MODULE Syscalls ------------------------------
(***************************************************************************)
(* The system calls the user programs are built from, as a program sees    *)
(* them: processes with a parent and a table of descriptors, pipes that    *)
(* are bounded queues, and places output goes to.  Proc, Pipe and Files    *)
(* show how the kernel does this; here a call that does not block is one   *)
(* step.                                                                   *)
(***************************************************************************)
EXTENDS Naturals, Sequences, FiniteSetsExt, SequencesExt, TLC

CONSTANTS NPROC, NOFILE,
          PIPESIZE,      \* items a pipe holds
          Contents       \* the files there are, and what is in them

Pid == 1..NPROC
initproc == 1
Fd == 0..(NOFILE - 1)

\* What a descriptor refers to: the console (descriptor 2 is told apart), an
\* end of pipe k, or file f opened as k.
None == <<"none">>
Tty == <<"console">>
Stderr == <<"stderr">>
Rd(k) == <<"read", k>>
Wr(k) == <<"write", k>>
Open(f, k) == <<"file", k, f>>

VARIABLES proc,    \* state, parent, ofile, program, where it is, its variables
          chan,    \* contents of a pipe; what passed through an open file,
                   \* whose length is the offset
          sink,    \* what was written to Tty and Stderr
          disk     \* contents of the files there are

NoFiles == [i \in Fd |-> None]
Unused == [state |-> "unused", parent |-> 0, ofile |-> NoFiles, prog |-> "none",
           at |-> "none", m |-> << >>]

\* The first process, with console open three times.
SysInit ==
    /\ proc = [p \in Pid |->
                 IF p = initproc
                 THEN [state |-> "run", parent |-> 0,
                       ofile |-> [i \in Fd |-> IF i < 2 THEN Tty
                                               ELSE IF i = 2 THEN Stderr ELSE None],
                       prog |-> "init", at |-> "fork", m |-> 0]
                 ELSE Unused]
    /\ chan = [k \in Pid |-> << >>]
    /\ sink = [d \in {Tty, Stderr} |-> << >>]
    /\ disk = Contents
-----------------------------------------------------------------------------
At(p, prog, l) == proc[p].state = "run" /\ proc[p].prog = prog /\ proc[p].at = l

\* p goes on at l with variables m and descriptors t.
Go(p, l, m, t) == [proc EXCEPT ![p].at = l, ![p].m = m, ![p].ofile = t]

\* sys_close
Close(t, fd) == [t EXCEPT ![fd] = None]

\* fdalloc: the lowest descriptor that is free.
Lowest(t) == CHOOSE i \in Fd : t[i] = None /\ \A j \in 0..(i - 1) : t[j] # None
Alloc(t, o) == [t EXCEPT ![Lowest(t)] = o]

\* sys_dup
Dup(t, fd) == Alloc(t, t[fd])

HasRef(o) == \E p \in Pid, i \in Fd : proc[p].ofile[i] = o
InUse(k) == \E p \in Pid, i \in Fd : Len(proc[p].ofile[i]) > 1 /\ proc[p].ofile[i][2] = k

\* sys_pipe: k is a new pipe, and this the table with its two ends.
NewPipe == CHOOSE k \in Pid : ~InUse(k) /\ \A j \in 1..(k - 1) : InUse(j)
PipeTable(t, k) == Alloc(Alloc(t, Rd(k)), Wr(k))
Emptied(k) == [chan EXCEPT ![k] = << >>]

\* sys_open, with O_CREATE and O_TRUNC or without.
Exists(f) == f \in DOMAIN disk
Created(f) == IF Exists(f) THEN disk ELSE (f :> << >>) @@ disk
Truncated(f) == (f :> << >>) @@ disk

\* fork, as two outcomes: the child is c.
Slots == {p \in Pid : proc[p].state = "unused"}
Forked(p, c, l, m, t, child) ==
    [Go(p, l, m, t) EXCEPT ![c] =
        [child EXCEPT !.state = "run", !.parent = p]]

\* exec: the same process and descriptors, at the start of a program.
Program == {"echo", "cat", "xargs", "primes", "pingpong"}
Execed(r, argv) ==
    [r EXCEPT !.prog = argv[1], !.at = "main",
              !.m = [args |-> Tail(argv), fd |-> 0, item |-> << >>]]

\* exit: descriptors are closed, children go to init.
Exited(p) ==
    [q \in Pid |->
        IF q = p THEN [proc[p] EXCEPT !.state = "zombie", !.ofile = NoFiles,
                                      !.at = "exit", !.m = << >>]
        ELSE IF proc[q].parent = p /\ proc[q].state # "unused"
        THEN [proc[q] EXCEPT !.parent = initproc]
        ELSE proc[q]]

exit(p) == proc' = Exited(p) /\ UNCHANGED <<chan, sink, disk>>

\* wait: a zombie child is freed; -1 without children.
Kids(p) == {c \in Pid : proc[c].state # "unused" /\ proc[c].parent = p}
Zombies(p) == {c \in Kids(p) : proc[c].state = "zombie"}
wait(p, l, m) ==
    \/ /\ \E c \in Zombies(p) :
             proc' = [Go(p, l, m, proc[p].ofile) EXCEPT ![c] = Unused]
       /\ UNCHANGED <<chan, sink, disk>>
    \/ /\ Kids(p) = {}
       /\ proc' = Go(p, l, m, proc[p].ofile)
       /\ UNCHANGED <<chan, sink, disk>>

\* read: the next item, <<v>>, or end of file, where the console always is.
Eof == << >>
Readable(p, fd) ==
    LET o == proc[p].ofile[fd] IN
    o[1] = "read" => chan[o[2]] # << >> \/ ~HasRef(Wr(o[2]))
Item(p, fd) ==
    LET o == proc[p].ofile[fd] IN
    CASE o[1] = "read" -> IF chan[o[2]] = << >> THEN Eof ELSE <<Head(chan[o[2]])>>
      [] o[1] = "file" -> LET off == Len(chan[o[2]]) + 1 IN
                          IF off > Len(disk[o[3]]) THEN Eof ELSE <<disk[o[3]][off]>>
      [] OTHER -> Eof
Drained(p, fd) ==
    LET o == proc[p].ofile[fd] IN
    IF Item(p, fd) = Eof THEN chan
    ELSE [chan EXCEPT ![o[2]] = IF o[1] = "read" THEN Tail(@)
                                ELSE Append(@, Item(p, fd)[1])]

\* write: fails without a reader.  A file is overwritten from the offset on.
Broken(p, fd) ==
    LET o == proc[p].ofile[fd] IN
    o[1] \in {"none", "read"} \/ (o[1] = "write" /\ ~HasRef(Rd(o[2])))
Writable(p, fd) ==
    LET o == proc[p].ofile[fd] IN
    (o[1] = "write" /\ ~Broken(p, fd)) => Len(chan[o[2]]) < PIPESIZE
Overwritten(s, off, v) ==
    SubSeq(s, 1, off) \o <<v>> \o SubSeq(s, off + 2, Len(s))
put(p, fd, v) ==
    LET o == proc[p].ofile[fd] IN
    /\ chan' = IF Len(o) > 1 /\ ~Broken(p, fd)
               THEN [chan EXCEPT ![o[2]] = Append(@, v)] ELSE chan
    /\ sink' = IF o \in {Tty, Stderr} THEN [sink EXCEPT ![o] = Append(@, v)] ELSE sink
    /\ disk' = IF o[1] = "file"
               THEN [disk EXCEPT ![o[3]] = Overwritten(@, Len(chan[o[2]]), v)]
               ELSE disk
=============================================================================
