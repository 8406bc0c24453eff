------------------------------ MODULE Terminal ------------------------------
(***************************************************************************)
(* What the console promises.  Keys go to a line that can be edited until  *)
(* it is finished, by a newline, by end of file or because there is no     *)
(* room; finished input is consumed in order and never edited.  Output     *)
(* leaves in the order in which it was written.                            *)
(***************************************************************************)
EXTENDS Naturals, Sequences

CONSTANTS Char, Ends,      \* Ends: the characters that finish a line
          InputRoom, OutputRoom

VARIABLES ready,   \* finished input
          line,    \* the line being edited
          output   \* written and not sent

tvars == <<ready, line, output>>

Init == ready = << >> /\ line = << >> /\ output = << >>

Accept(c) ==
    LET more == Append(line, c)
        room == InputRoom - Len(ready)
    IN
    /\ Len(line) < room
    /\ IF c \in Ends \/ Len(more) = room
       THEN ready' = ready \o more /\ line' = << >>
       ELSE line' = more /\ UNCHANGED ready
    /\ UNCHANGED output

Rubout ==
    /\ line # << >>
    /\ line' = SubSeq(line, 1, Len(line) - 1)
    /\ UNCHANGED <<ready, output>>

KillLine == line' = << >> /\ UNCHANGED <<ready, output>>

Consume ==
    /\ ready # << >>
    /\ ready' = Tail(ready)
    /\ UNCHANGED <<line, output>>

Write(c) ==
    /\ Len(output) < OutputRoom
    /\ output' = Append(output, c)
    /\ UNCHANGED <<ready, line>>

Send ==
    /\ output # << >>
    /\ output' = Tail(output)
    /\ UNCHANGED <<ready, line>>

Next ==
    \/ \E c \in Char : Accept(c) \/ Write(c)
    \/ Rubout \/ KillLine \/ Consume \/ Send

Spec == Init /\ [][Next]_tvars
=============================================================================
