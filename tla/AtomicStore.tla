---------------------------- MODULE AtomicStore ----------------------------
(***************************************************************************)
(* What the logging layer promises its callers (the comment that opens     *)
(* kernel/log.c): a store of blocks that operations modify in place, whose *)
(* durable image only ever moves from the result of one set of complete    *)
(* operations to the result of a larger one.  A crash falls back to the    *)
(* durable image and forgets the operations that were open.                *)
(***************************************************************************)
CONSTANTS Proc, Block, Val

VARIABLES mem,      \* what bread() returns for every block
          stable,   \* what a crash followed by recovery would leave
          active    \* processes between begin_op() and end_op()

Init ==
    /\ mem \in [Block -> Val]
    /\ stable = mem
    /\ active = {}

Begin(p) ==
    /\ p \notin active
    /\ active' = active \cup {p}
    /\ UNCHANGED <<mem, stable>>

Write(p, b, v) ==
    /\ p \in active
    /\ mem' = [mem EXCEPT ![b] = v]
    /\ UNCHANGED <<stable, active>>

End(p) ==
    /\ p \in active
    /\ active' = active \ {p}
    /\ UNCHANGED <<mem, stable>>

\* The whole of memory becomes durable at once, and only while no operation
\* is half done.
Commit ==
    /\ active = {}
    /\ stable' = mem
    /\ UNCHANGED <<mem, active>>

Crash ==
    /\ mem' = stable
    /\ active' = {}
    /\ UNCHANGED stable

Next ==
    \/ \E p \in Proc : Begin(p) \/ End(p)
    \/ \E p \in Proc, b \in Block, v \in Val : Write(p, b, v)
    \/ Commit
    \/ Crash

Spec == Init /\ [][Next]_<<mem, stable, active>>
=============================================================================
