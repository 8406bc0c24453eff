------------------------------- MODULE Channel -------------------------------
(***************************************************************************)
(* What a pipe promises: a bounded FIFO of bytes.  A read delivers the     *)
(* oldest bytes, in order and once; it delivers nothing only at end of     *)
(* file.  A read whose destination faults loses the byte it faulted on.    *)
(***************************************************************************)
EXTENDS Naturals, Sequences

CONSTANTS Byte, Capacity

VARIABLES queue,   \* bytes written and not yet read
          out,     \* what the last read delivered
          ropen, wopen

cvars == <<queue, out, ropen, wopen>>

Init ==
    /\ queue = << >>
    /\ out = << >>
    /\ ropen = TRUE
    /\ wopen = TRUE

Send(b) ==
    /\ ropen /\ wopen
    /\ Len(queue) < Capacity
    /\ queue' = Append(queue, b)
    /\ UNCHANGED <<out, ropen, wopen>>

\* k bytes delivered, and lost more bytes consumed.
Take(k, lost) ==
    /\ ropen
    /\ out' = SubSeq(queue, 1, k)
    /\ queue' = SubSeq(queue, k + lost + 1, Len(queue))
    /\ UNCHANGED <<ropen, wopen>>

Receive == \E k \in 1..Len(queue) : Take(k, 0)

Fault == \E k \in 0..(Len(queue) - 1) : Take(k, 1)

EndOfFile == queue = << >> /\ ~wopen /\ Take(0, 0)

CloseRead == ropen /\ ropen' = FALSE /\ UNCHANGED <<queue, out, wopen>>

CloseWrite == wopen /\ wopen' = FALSE /\ UNCHANGED <<queue, out, ropen>>

Next ==
    \/ \E b \in Byte : Send(b)
    \/ Receive \/ Fault \/ EndOfFile
    \/ CloseRead \/ CloseWrite

Spec == Init /\ [][Next]_cvars
=============================================================================
