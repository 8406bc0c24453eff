------------------------------- MODULE MCPipe -------------------------------
(* Instances of Pipe for TLC. *)
EXTENDS Pipe, TLC

\* Bytes are interchangeable, and so are the processes that did not call
\* pipe() and are killed alike.
Symmetry ==
    Permutations(Byte) \cup Permutations(Killable \ {First})
        \cup Permutations(Proc \ (Killable \cup {First}))
=============================================================================
