------------------------------- MODULE Tools -------------------------------
(***************************************************************************)
(* user/echo.c, user/cat.c and user/xargs.c.  A text is a sequence of      *)
(* words, blanks and newlines; a read or a write moves one of them.        *)
(***************************************************************************)
EXTENDS Syscalls

Blank == " "
Newline == "nl"

Same(p) == proc[p].ofile

\* echo writes each argument and what follows it, and does not look at what
\* write returns.
echo(p) ==
    LET m == proc[p].m
        sep == IF Len(m.args) = 1 THEN Newline ELSE Blank
    IN
    /\ At(p, "echo", "main")
    /\ IF m.args = << >> THEN exit(p)
       ELSE /\ Writable(p, 1)
            /\ IF m.item = << >>
               THEN /\ put(p, 1, Head(m.args))
                    /\ proc' = Go(p, "main", [m EXCEPT !.item = <<sep>>], Same(p))
               ELSE /\ put(p, 1, sep)
                    /\ proc' = Go(p, "main", [m EXCEPT !.item = << >>, !.args = Tail(@)],
                                  Same(p))

\* cat's main: its arguments in turn, or its input.
cat_main(p) ==
    LET m == proc[p].m
        k == NewPipe
        fd == Lowest(Same(p))
    IN
    /\ At(p, "cat", "main") \/ At(p, "cat", "next")
    /\ IF m.args = << >>
       THEN /\ proc' = IF At(p, "cat", "main") THEN Go(p, "read", m, Same(p))
                       ELSE Exited(p)
            /\ UNCHANGED <<chan, sink, disk>>
       ELSE IF ~Exists(Head(m.args)) THEN put(p, 2, "cat") /\ proc' = Exited(p)
       ELSE /\ proc' = Go(p, "read", [m EXCEPT !.args = Tail(@), !.fd = fd],
                          Alloc(Same(p), Open(Head(m.args), k)))
            /\ chan' = Emptied(k)
            /\ UNCHANGED <<sink, disk>>

cat_read(p) ==
    LET m == proc[p].m
        v == Item(p, m.fd)
    IN
    /\ At(p, "cat", "read") /\ Readable(p, m.fd)
    /\ chan' = Drained(p, m.fd)
    /\ proc' = IF v # Eof THEN Go(p, "write", [m EXCEPT !.item = v], Same(p))
               ELSE IF m.fd = 0 THEN Exited(p)
               ELSE Go(p, "next", [m EXCEPT !.fd = 0], Close(Same(p), m.fd))
    /\ UNCHANGED <<sink, disk>>

\* A write that fails ends cat.
cat_write(p) ==
    LET m == proc[p].m IN
    /\ At(p, "cat", "write") /\ Writable(p, 1)
    /\ IF Broken(p, 1) THEN put(p, 2, "cat") /\ proc' = Exited(p)
       ELSE /\ put(p, 1, m.item[1])
            /\ proc' = Go(p, "read", [m EXCEPT !.item = << >>], Same(p))
-----------------------------------------------------------------------------
\* xargs: item is the line read so far.
xargs_main(p) ==
    LET m == proc[p].m IN
    /\ At(p, "xargs", "main")
    /\ IF m.args = << >> THEN put(p, 2, "usage") /\ proc' = Exited(p)
       ELSE proc' = Go(p, "read", m, Same(p)) /\ UNCHANGED <<chan, sink, disk>>

\* The words of a line, split at blanks.
Split(line) == SelectSeq(line, LAMBDA w : w # Blank)

\* A character is read: a newline, and the end of the input after an unfinished
\* line, run the command.
xargs_read(p) ==
    LET m == proc[p].m
        v == Item(p, 0)
        l == IF v = <<Newline>> THEN "run"
             ELSE IF v # Eof THEN "read"
             ELSE IF m.item = << >> THEN "exit" ELSE "last"
    IN
    /\ At(p, "xargs", "read") /\ Readable(p, 0)
    /\ chan' = Drained(p, 0)
    /\ proc' = Go(p, l, IF l = "read" THEN [m EXCEPT !.item = @ \o v] ELSE m, Same(p))
    /\ UNCHANGED <<sink, disk>>

\* fork: the child calls exec, xargs waits; a fork that fails goes unnoticed.
xargs_fork(p) ==
    LET m == [proc[p].m EXCEPT !.item = << >>]
        l == IF At(p, "xargs", "last") THEN "waitlast" ELSE "wait"
    IN
    /\ At(p, "xargs", "run") \/ At(p, "xargs", "last")
    /\ proc' = IF Slots = {} THEN Go(p, l, m, Same(p))
               ELSE Forked(p, Min(Slots), l, m, Same(p),
                           [proc[p] EXCEPT !.at = "exec"])
    /\ UNCHANGED <<chan, sink, disk>>

xargs_exec(p) ==
    LET argv == proc[p].m.args \o Split(proc[p].m.item) IN
    /\ At(p, "xargs", "exec")
    /\ IF argv[1] \in Program
       THEN /\ proc' = [proc EXCEPT ![p] = Execed(@, argv)]
            /\ UNCHANGED <<chan, sink, disk>>
       ELSE put(p, 2, "exec") /\ proc' = Exited(p)

xargs_wait(p) ==
    \/ At(p, "xargs", "wait") /\ wait(p, "read", proc[p].m)
    \/ At(p, "xargs", "waitlast") /\ wait(p, "exit", proc[p].m)

xargs_exit(p) == At(p, "xargs", "exit") /\ exit(p)

ToolStep(p) ==
    \/ echo(p) \/ cat_main(p) \/ cat_read(p) \/ cat_write(p)
    \/ xargs_main(p) \/ xargs_read(p) \/ xargs_fork(p) \/ xargs_exec(p)
    \/ xargs_wait(p) \/ xargs_exit(p)
=============================================================================
