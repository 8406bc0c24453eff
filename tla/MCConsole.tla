------------------------------ MODULE MCConsole ------------------------------
(* Instance of Console for TLC. *)
EXTENDS Console, TLC

CONSTANTS x, y

Work(keys, typed, reads, kills, writes, prints) ==
    [typed |-> typed,
     left |-> [what \in Limit |-> CASE what = "keys" -> keys
                                   [] what = "reads" -> reads
                                   [] what = "kills" -> kills
                                   [] what = "writes" -> writes
                                   [] what = "prints" -> prints]]

Editing == {x, CR, CtrlD, CtrlH, CtrlU}

\* Two readers of edited lines; one reader while the indices wrap; a reader
\* that is killed; writers against the echo of a key; printf as well.
MCWorks ==
    {Work(3, Editing, 2, 0, 0, 0), Work(4, Editing, 1, 0, 0, 0),
     Work(2, {x, CR, NUL}, 2, 1, 0, 0),
     Work(1, {x, CtrlP}, 0, 0, 2, 0), Work(1, {x}, 0, 0, 1, 1)}
=============================================================================
