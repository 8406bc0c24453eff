-------------------------------- MODULE User --------------------------------
(***************************************************************************)
(* user/init.c, and the programs of the other modules run by the shell it  *)
(* starts.  The user types the lines of a script.                          *)
(***************************************************************************)
EXTENDS Shell, Tools, Primes, Pingpong

CONSTANTS Scripts,      \* what may be typed: sequences of lines, EndInput
          Tokens,       \* of a line that is only parsed
          MaxLine

VARIABLES script,       \* all that is typed
          ran,          \* how much of it the shell has read
          ahead         \* a line typed ahead, before init has started

uvars == <<proc, chan, sink, disk, script, ran, ahead>>

EndInput == <<"^D">>

Init ==
    /\ SysInit
    /\ script \in Scripts
    /\ ran = 0
    /\ ahead = << >>

\* init: fork, exec("sh"), then wait until that child exits.  Its variable is
\* the pid of the shell.
init_fork ==
    /\ At(initproc, "init", "fork")
    /\ LET sh == [proc[initproc] EXCEPT !.prog = "sh", !.at = "main",
                                        !.m = ShVars(<< >>, execcmd(<< >>))]
       IN IF Slots = {} THEN put(initproc, 1, "init") /\ proc' = Exited(initproc)
          ELSE /\ proc' = Forked(initproc, Min(Slots), "wait", Min(Slots),
                                 Same(initproc), sh)
               /\ UNCHANGED <<chan, sink, disk>>

init_wait ==
    /\ At(initproc, "init", "wait")
    /\ IF Kids(initproc) = {}
       THEN proc' = Exited(initproc)
       ELSE \E c \in Zombies(initproc) :
               LET l == IF c = proc[initproc].m THEN "fork" ELSE "wait" IN
               proc' = [Go(initproc, l, proc[initproc].m, Same(initproc))
                          EXCEPT ![c] = Unused]
    /\ UNCHANGED <<chan, sink, disk>>

\* The shell reads what is typed next.
ReadLine(p) ==
    /\ ran < Len(script)
    /\ ran' = ran + 1
    /\ IF script[ran + 1] = EndInput THEN main_exit(p) ELSE main(p, script[ran + 1])

System ==
    /\ UNCHANGED <<script, ahead>>
    /\ \/ UNCHANGED ran /\ (init_fork \/ init_wait)
       \/ \E p \in Pid :
             \/ ReadLine(p)
             \/ /\ UNCHANGED ran
                /\ ShStep(p) \/ ToolStep(p) \/ PrimeStep(p) \/ PingStep(p)

\* A line of no script, that is parsed and not run.
TypeAhead ==
    /\ script = << >> /\ At(initproc, "init", "fork")
    /\ Len(ahead) < MaxLine
    /\ \E t \in Tokens : ahead' = Append(ahead, t)
    /\ UNCHANGED <<proc, chan, sink, disk, script, ran>>

Next == System \/ TypeAhead

Spec == Init /\ [][Next]_uvars

\* Whatever can take a step, some step is taken: the kernel's scheduler.
FairSpec == Spec /\ WF_uvars(System)
-----------------------------------------------------------------------------
(* What a script should print and leave in the files: its commands one     *)
(* after the other, each with all of its input there from the start.       *)

RECURSIVE Spaced(_)
Spaced(words) == IF Len(words) <= 1 THEN words \o <<Newline>>
                 ELSE <<Head(words), Blank>> \o Spaced(Tail(words))

IsPrime(n) == \A d \in 2..(n - 1) : n % d # 0

UsesInput(argv) == argv # << >> /\ (argv = <<"cat">> \/ argv[1] = "xargs")

RECURSIVE Output(_, _, _)
Output(argv, in, fs) ==
    LET args == Tail(argv)
        eol == IF in = << >> THEN 0
               ELSE Min({i \in DOMAIN in : in[i] = Newline \/ i = Len(in)})
        words == SelectSeq(SubSeq(in, 1, eol), LAMBDA w : w \notin {Blank, Newline})
        found == SelectSeq([i \in 1..Len(args) |-> i],
                           LAMBDA i : \A j \in 1..i : args[j] \in DOMAIN fs)
    IN CASE argv = << >> \/ argv[1] \notin Program -> << >>
         [] argv[1] = "echo" -> IF args = << >> THEN << >> ELSE Spaced(args)
         [] argv = <<"cat">> -> in
         [] argv[1] = "cat" /\ args # << >> ->
                FoldLeft(LAMBDA s, i : s \o fs[args[i]], << >>, found)
         [] argv[1] = "xargs" ->
                IF in = << >> \/ args = << >> THEN << >>
                ELSE Output(args \o words, << >>, fs)
                     \o Output(argv, SubSeq(in, eol + 1, Len(in)), fs)
         [] argv[1] = "primes" -> SelectSeq([i \in 1..(MaxNum - 1) |-> i + 1], IsPrime)
         [] argv[1] = "pingpong" -> <<"ping", "pong">>

\* What is written, the files, and what is left of the input.
Outcome(out, fs, rest) == [out |-> out, fs |-> fs, rest |-> rest]

Over(new, old) == new \o SubSeq(old, Len(new) + 1, Len(old))

RECURSIVE Eval(_, _, _, _)
Eval(s, cmd, in, fs) ==
    CASE cmd.type = "EXEC" ->
           LET argv == [i \in DOMAIN cmd.argv |-> s[cmd.argv[i]]]
           IN Outcome(Output(argv, in, fs), fs, IF UsesInput(argv) THEN << >> ELSE in)
      [] cmd.type = "REDIR" /\ cmd.mode = "read" ->
           IF s[cmd.file] \notin DOMAIN fs THEN Outcome(<< >>, fs, in)
           ELSE [Eval(s, cmd.cmd, fs[s[cmd.file]], fs) EXCEPT !.rest = in]
      [] cmd.type = "REDIR" /\ cmd.mode # "read" ->
           LET f == s[cmd.file]
               old == IF f \in DOMAIN fs /\ cmd.mode = "write" THEN fs[f] ELSE << >>
               r == Eval(s, cmd.cmd, in, (f :> old) @@ fs)
           IN Outcome(<< >>, (f :> Over(r.out, r.fs[f])) @@ r.fs, r.rest)
      [] cmd.type = "LIST" ->
           LET l == Eval(s, cmd.left, in, fs)
               r == Eval(s, cmd.right, l.rest, l.fs)
           IN Outcome(l.out \o r.out, r.fs, r.rest)
      [] cmd.type = "PIPE" ->
           LET l == Eval(s, cmd.left, in, fs)
               r == Eval(s, cmd.right, l.out, l.fs)
           IN Outcome(r.out, r.fs, l.rest)

\* The outcome of the first n lines.
RECURSIVE Expected(_)
Expected(n) ==
    IF n = 0 THEN Outcome(<< >>, Contents, << >>)
    ELSE LET e == Expected(n - 1)
             s == script[n]
             r == Eval(s, parsecmd(s).cmd, << >>, e.fs)
         IN IF s = EndInput \/ Token(s, 1) = "cd" \/ parsecmd(s) = panic THEN e
            ELSE Outcome(e.out \o r.out, r.fs, << >>)
-----------------------------------------------------------------------------
Prompt(p) == ShAt(p, "main")

\* No line so far had a job in the background, and no fork1 failed.
Foreground ==
    /\ \A i \in 1..ran : \A j \in DOMAIN script[i] : script[i][j] # "&"
    /\ \A j \in DOMAIN sink[Stderr] : sink[Stderr][j] # "fork"

\* The recursive descent of sh.c (parseline, parsepipe, parseexec, parseblock,
\* parseredirs) and the place of each operator give the same command for every
\* line, or both reject it; nulterminate ends every word of the line.
ParserAgrees ==
    LET r == parsecmd(ahead) IN
    IF r = panic THEN Meaning(ahead) = Fails
    ELSE /\ r.cmd = Meaning(ahead)
         /\ nulterminate(r.cmd) = {i \in DOMAIN ahead : IsWord(ahead, i)}

\* However deep in pipes and redirections runcmd calls exec, the program finds
\* descriptors 0 to 2 open and no other: no end of a pipe leaks into it.
OnlyStdFds ==
    \A p \in Pid :
        (proc[p].prog \in Program \cup {"sh"} /\ proc[p].at = "main") =>
            \A i \in Fd : (proc[p].ofile[i] # None) <=> (i < 3)

\* When main prompts it has no child left, so that its wait never takes a
\* background job for the command; without those, every process of the line is
\* gone, reaped by the waits of runcmd, except the child of pingpong, which its
\* parent does not wait for.
ForegroundDone ==
    \A p \in Pid : Prompt(p) =>
        /\ Kids(p) = {}
        /\ Foreground => \A q \in Pid \ {initproc, p} :
                            proc[q].prog \in {"none", "pingpong"}

\* At the prompt the console and the files hold what running the lines one
\* command at a time gives, whatever the order in which the processes of
\* runcmd's pipelines, of primes and of pingpong ran.
OutputRight ==
    (Foreground /\ \E p \in Pid : Prompt(p)) =>
        /\ sink[Tty] = Expected(ran).out
        /\ disk = Expected(ran).fs

\* Every script comes to its end: the shell prompts and nothing else is left,
\* because each program closes the ends of pipes it does not use, so that every
\* reader sees the end of its input and every wait returns.
Terminates ==
    <>[](/\ ran = Len(script)
         /\ \E p \in Pid : /\ Prompt(p)
                           /\ \A q \in Pid \ {initproc, p} : proc[q] = Unused)
=============================================================================
