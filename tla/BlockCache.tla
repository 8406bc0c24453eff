----------------------------- MODULE BlockCache -----------------------------
(***************************************************************************)
(* What the buffer cache promises its callers: a block has one content,    *)
(* one client at a time has the block locked, and only that client         *)
(* changes it.                                                             *)
(***************************************************************************)
CONSTANTS Client, Block, Val

VARIABLES content,   \* of each block
          holders    \* clients that have each block locked

bvars == <<content, holders>>

Init == content \in [Block -> Val] /\ holders = [k \in Block |-> {}]

Lock(c, k) ==
    /\ holders[k] = {}
    /\ holders' = [holders EXCEPT ![k] = {c}]
    /\ UNCHANGED content

Modify(c, k, v) ==
    /\ holders[k] = {c}
    /\ content' = [content EXCEPT ![k] = v]
    /\ UNCHANGED holders

Unlock(c, k) ==
    /\ holders[k] = {c}
    /\ holders' = [holders EXCEPT ![k] = {}]
    /\ UNCHANGED content

Next ==
    \E c \in Client, k \in Block :
        \/ Lock(c, k) \/ Unlock(c, k)
        \/ \E v \in Val : Modify(c, k, v)

Spec == Init /\ [][Next]_bvars
=============================================================================
