----------------------------- MODULE ShellParser -----------------------------
(***************************************************************************)
(* The parser of user/sh.c.  A line is a sequence of tokens, as gettoken   *)
(* makes them: symbols, "+" for ">>", and words.  A position in the line   *)
(* stands for the pointer *ps, and for the pointers to words kept in a     *)
(* command.                                                                *)
(***************************************************************************)
EXTENDS Integers, SequencesExt

CONSTANT MAXARGS

Symbols == {"|", "&", ";", "<", ">", "+", "(", ")"}

\* The token at i ("": end of the line), and whether it is a word.
Token(s, i) == IF i <= Len(s) THEN s[i] ELSE ""
IsWord(s, i) == i <= Len(s) /\ s[i] \notin Symbols
peek(s, i, toks) == Token(s, i) \in toks

execcmd(argv) == [type |-> "EXEC", argv |-> argv]
redircmd(cmd, file, mode, fd) ==
    [type |-> "REDIR", cmd |-> cmd, file |-> file, mode |-> mode, fd |-> fd]
pipecmd(l, r) == [type |-> "PIPE", left |-> l, right |-> r]
listcmd(l, r) == [type |-> "LIST", left |-> l, right |-> r]
backcmd(c) == [type |-> "BACK", cmd |-> c]

\* What a function returns: a command and the position reached, or the exit
\* of panic().
Result(cmd, at) == [cmd |-> cmd, at |-> at]
panic == Result(execcmd(<< >>), 0)
Then(r, K(_)) ==
    CHOOSE k \in {IF x = panic THEN panic ELSE K(x) : x \in {r}} : TRUE

\* The redirection with operator tok.
Redirect(cmd, tok, file) ==
    CASE tok = "<" -> redircmd(cmd, file, "read", 0)
      [] tok = ">" -> redircmd(cmd, file, "trunc", 1)
      [] tok = "+" -> redircmd(cmd, file, "write", 1)

RECURSIVE parseredirs(_, _, _)
parseredirs(s, cmd, i) ==
    IF ~peek(s, i, {"<", ">", "+"}) THEN Result(cmd, i)
    ELSE IF ~IsWord(s, i + 1) THEN panic
    ELSE parseredirs(s, Redirect(cmd, s[i], i + 1), i + 2)

\* The command parseexec builds is filled in place, under the redirections
\* that already hold it.
RECURSIVE WithArg(_, _)
WithArg(cmd, a) ==
    IF cmd.type = "EXEC" THEN execcmd(Append(cmd.argv, a))
    ELSE [cmd EXCEPT !.cmd = WithArg(cmd.cmd, a)]

RECURSIVE parseargs(_, _, _, _)
parseargs(s, ret, argc, i) ==
    IF peek(s, i, {"|", ")", "&", ";", ""}) THEN Result(ret, i)
    ELSE IF ~IsWord(s, i) \/ argc + 1 >= MAXARGS THEN panic
    ELSE Then(parseredirs(s, WithArg(ret, i), i + 1),
              LAMBDA r : parseargs(s, r.cmd, argc + 1, r.at))

RECURSIVE parseline(_, _), parsepipe(_, _), parseexec(_, _)
parseblock(s, i) ==
    Then(parseline(s, i + 1),
         LAMBDA r : IF peek(s, r.at, {")"}) THEN parseredirs(s, r.cmd, r.at + 1)
                    ELSE panic)

parseexec(s, i) ==
    IF peek(s, i, {"("}) THEN parseblock(s, i)
    ELSE Then(parseredirs(s, execcmd(<< >>), i),
              LAMBDA r : parseargs(s, r.cmd, 0, r.at))

PipeLeft(s, l, i) ==
    Then(parseexec(s, i + 1), LAMBDA r : Result(pipecmd(l, r.cmd), r.at))

PipeRest(s, l, i) ==
    Then(parsepipe(s, i + 1), LAMBDA r : Result(pipecmd(l, r.cmd), r.at))

parsepipe(s, i) ==
    Then(parseexec(s, i),
         LAMBDA l : IF peek(s, l.at, {"|"}) THEN PipeRest(s, l.cmd, l.at) ELSE l)

RECURSIVE parseback(_, _)
parseback(s, r) ==
    IF peek(s, r.at, {"&"}) THEN parseback(s, Result(backcmd(r.cmd), r.at + 1))
    ELSE r

parseline(s, i) ==
    Then(Then(parsepipe(s, i), LAMBDA p : parseback(s, p)),
         LAMBDA l : IF peek(s, l.at, {";"})
                    THEN Then(parseline(s, l.at + 1),
                              LAMBDA r : Result(listcmd(l.cmd, r.cmd), r.at))
                    ELSE l)

\* The whole line, or panic("syntax") if something is left over.
parsecmd(s) ==
    Then(parseline(s, 1), LAMBDA r : IF r.at = Len(s) + 1 THEN r ELSE panic)

\* The words that are terminated.
RECURSIVE nulterminate(_)
nulterminate(cmd) ==
    CASE cmd.type = "EXEC" -> {cmd.argv[i] : i \in DOMAIN cmd.argv}
      [] cmd.type = "REDIR" -> nulterminate(cmd.cmd) \cup {cmd.file}
      [] cmd.type = "BACK" -> nulterminate(cmd.cmd)
      [] OTHER -> nulterminate(cmd.left) \cup nulterminate(cmd.right)
-----------------------------------------------------------------------------
(* What a line means, by where its operators stand rather than by reading  *)
(* it from left to right.                                                  *)

\* Parentheses that are open after place i, counted from a.
Nest(s, a, i) == Cardinality({j \in a..i : s[j] = "("})
                 - Cardinality({j \in a..i : s[j] = ")"})
Balanced(s) == \A i \in 1..Len(s) : Nest(s, 1, i) >= 0 /\ Nest(s, 1, Len(s)) = 0

\* The places of tok outside of parentheses.
Outside(s, a, b, tok) == {i \in a..b : s[i] = tok /\ Nest(s, a, i) = 0}
Places(a, b) == [k \in 1..(IF b < a THEN 0 ELSE b - a + 1) |-> a + k - 1]
Fails == [type |-> "FAILS"]
Unless(S, cmd) == IF Fails \in S THEN Fails ELSE cmd
IsRedirect(s, i) == s[i] \in {"<", ">", "+"}

\* cmd under the redirections in a..b, the last outermost.
Wrapped(s, cmd, a, b) ==
    FoldLeft(LAMBDA c, i : Redirect(c, s[i], i + 1), cmd,
             SelectSeq(Places(a, b), LAMBDA i : IsRedirect(s, i)))
RedirectsNameFiles(s, a, b) ==
    \A i \in a..b : IsRedirect(s, i) => i < b /\ IsWord(s, i + 1)
IsFile(s, a, i) == i > a /\ IsRedirect(s, i - 1)

Simple(s, a, b) ==
    LET argv == SelectSeq(Places(a, b), LAMBDA i : IsWord(s, i) /\ ~IsFile(s, a, i))
    IN IF /\ \A i \in a..b : IsWord(s, i) \/ IsRedirect(s, i)
          /\ RedirectsNameFiles(s, a, b)
          /\ Len(argv) < MAXARGS
       THEN Wrapped(s, execcmd(argv), a, b)
       ELSE Fails

RECURSIVE LineMeaning(_, _, _)
Block(s, a, b) ==
    LET m == Min({i \in a..b : Nest(s, a, i) = 0})
        inner == LineMeaning(s, a + 1, m - 1)
    IN IF /\ inner # Fails
          /\ \A i \in (m + 1)..b : IsRedirect(s, i) \/ IsFile(s, m + 1, i)
          /\ RedirectsNameFiles(s, m + 1, b)
       THEN Wrapped(s, inner, m + 1, b)
       ELSE Fails

Command(s, a, b) == IF a <= b /\ s[a] = "(" THEN Block(s, a, b) ELSE Simple(s, a, b)

RECURSIVE PipeMeaning(_, _, _)
PipeMeaning(s, a, b) ==
    LET bars == Outside(s, a, b, "|") IN
    IF bars = {} THEN Command(s, a, b)
    ELSE LET l == Command(s, a, Min(bars) - 1)
             r == PipeMeaning(s, Min(bars) + 1, b)
         IN Unless({l, r}, pipecmd(l, r))

RECURSIVE BackMeaning(_, _, _)
BackMeaning(s, a, b) ==
    IF a <= b /\ s[b] = "&"
    THEN LET c == BackMeaning(s, a, b - 1) IN Unless({c}, backcmd(c))
    ELSE PipeMeaning(s, a, b)

LineMeaning(s, a, b) ==
    LET semis == Outside(s, a, b, ";") IN
    IF semis = {} THEN BackMeaning(s, a, b)
    ELSE LET l == BackMeaning(s, a, Min(semis) - 1)
             r == LineMeaning(s, Min(semis) + 1, b)
         IN Unless({l, r}, listcmd(l, r))

Meaning(s) == IF Balanced(s) THEN LineMeaning(s, 1, Len(s)) ELSE Fails
=============================================================================
