------------------------------- MODULE Shell -------------------------------
(***************************************************************************)
(* user/sh.c: main and runcmd, over the commands of ShellParser.           *)
(*                                                                         *)
(* A process of the shell has as variables the line, the command it runs   *)
(* and the descriptors of the pipe it made.                                *)
(***************************************************************************)
EXTENDS Syscalls, ShellParser

ShAt(p, l) == At(p, "sh", l)
Cmd(p) == proc[p].m.cmd
Word(p, i) == proc[p].m.line[i]
ShVars(line, cmd) == [line |-> line, cmd |-> cmd, rd |-> 0, wr |-> 0]
Quietly == UNCHANGED <<chan, sink, disk>>

\* p, running cmd next with descriptors t.
Run(p, cmd, t) == [proc[p] EXCEPT !.at = "runcmd", !.m.cmd = cmd, !.ofile = t]

\* fork1: the parent goes on at l with variables m and descriptors t; without
\* a process panic("fork") exits.
fork1(p, l, m, t, child) ==
    IF Slots = {} THEN put(p, 2, "fork") /\ proc' = Exited(p)
    ELSE Quietly /\ proc' = Forked(p, Min(Slots), l, m, t, child)

\* main, once getcmd has read a line: cd is done by the shell itself, the rest
\* by a child that parses and runs it.
main(p, line) ==
    LET r == parsecmd(line)
        m == ShVars(line, r.cmd)
        child == [proc[p] EXCEPT !.at = IF r = panic THEN "panic" ELSE "runcmd", !.m = m]
    IN
    /\ ShAt(p, "main")
    /\ IF Len(line) > 1 /\ line[1] = "cd"
       THEN Quietly /\ proc' = Go(p, "main", m, proc[p].ofile)
       ELSE fork1(p, "wait", m, proc[p].ofile, child)

main_wait(p) == ShAt(p, "wait") /\ wait(p, "main", proc[p].m)

\* getcmd found the end of the input.
main_exit(p) == ShAt(p, "main") /\ exit(p)

run_exit(p) == ShAt(p, "exit") /\ exit(p)

\* The parser's panic().
run_panic(p) == ShAt(p, "panic") /\ put(p, 2, "syntax") /\ proc' = Exited(p)
-----------------------------------------------------------------------------
Runs(p, type) == ShAt(p, "runcmd") /\ Cmd(p).type = type

run_exec(p) ==
    LET argv == [i \in DOMAIN Cmd(p).argv |-> Word(p, Cmd(p).argv[i])] IN
    /\ Runs(p, "EXEC")
    /\ IF argv = << >> THEN exit(p)
       ELSE IF argv[1] \in Program 
       THEN Quietly /\ proc' = [proc EXCEPT ![p] = Execed(@, argv)]
       ELSE put(p, 2, "exec") /\ proc' = Exited(p)

\* close(rcmd->fd); open(rcmd->file, rcmd->mode): the lowest descriptor.
run_redir(p) ==
    LET c == Cmd(p)
        f == Word(p, c.file)
        k == NewPipe
    IN
    /\ Runs(p, "REDIR")
    /\ IF c.mode = "read" /\ ~Exists(f)
       THEN put(p, 2, "open") /\ proc' = Exited(p)
       ELSE /\ proc' = [proc EXCEPT ![p] =
                          Run(p, c.cmd, Alloc(Close(proc[p].ofile, c.fd), Open(f, k)))]
            /\ chan' = Emptied(k)
            /\ disk' = CASE c.mode = "read" -> disk
                         [] c.mode = "trunc" -> Truncated(f)
                         [] c.mode = "write" -> Created(f)
            /\ UNCHANGED sink

run_list(p) ==
    LET t == proc[p].ofile IN
    /\ Runs(p, "LIST")
    /\ fork1(p, "list", proc[p].m, t, Run(p, Cmd(p).left, t))

list_wait(p) ==
    ShAt(p, "list") /\ wait(p, "runcmd", [proc[p].m EXCEPT !.cmd = Cmd(p).right])

run_back(p) ==
    LET t == proc[p].ofile IN
    /\ Runs(p, "BACK")
    /\ fork1(p, "exit", proc[p].m, t, Run(p, Cmd(p).cmd, t))

\* pipe(p)
run_pipe(p) ==
    LET t == proc[p].ofile
        rd == Lowest(t)
        wr == Lowest(Alloc(t, Tty))
    IN
    /\ Runs(p, "PIPE")
    /\ proc' = Go(p, "left", [proc[p].m EXCEPT !.rd = rd, !.wr = wr],
                  PipeTable(t, NewPipe))
    /\ chan' = Emptied(NewPipe)
    /\ UNCHANGED <<sink, disk>>

LeftKeepsReader(p) ==
    LET m == proc[p].m IN Close(Dup(Close(proc[p].ofile, 1), m.wr), m.wr)

\* The left child: close(1); dup(p[1]); close(p[0]); close(p[1])
LeftTable(p) ==
    LET m == proc[p].m
    IN Close(Close(Dup(Close(proc[p].ofile, 1), m.wr), m.rd), m.wr)

\* The right child: close(0); dup(p[0]); close(p[0]); close(p[1])
RightTable(p) ==
    LET m == proc[p].m
    IN Close(Close(Dup(Close(proc[p].ofile, 0), m.rd), m.rd), m.wr)

pipe_left(p) ==
    /\ ShAt(p, "left")
    /\ fork1(p, "right", proc[p].m, proc[p].ofile, Run(p, Cmd(p).left, LeftTable(p)))

\* After the second fork the parent closes both ends.
pipe_right(p) ==
    LET m == proc[p].m IN
    /\ ShAt(p, "right")
    /\ fork1(p, "wait1", m, Close(Close(proc[p].ofile, m.rd), m.wr),
             Run(p, Cmd(p).right, RightTable(p)))

OneWait(p) == ShAt(p, "wait1") /\ wait(p, "exit", proc[p].m)

pipe_wait(p) ==
    \/ ShAt(p, "wait1") /\ wait(p, "wait2", proc[p].m)
    \/ ShAt(p, "wait2") /\ wait(p, "exit", proc[p].m)

ShStep(p) ==
    \/ main_wait(p) \/ run_exit(p) \/ run_panic(p) \/ run_exec(p) \/ run_redir(p)
    \/ run_list(p) \/ list_wait(p) \/ run_back(p)
    \/ run_pipe(p) \/ pipe_left(p) \/ pipe_right(p) \/ pipe_wait(p)
=============================================================================
