------------------------------ MODULE MCMemory ------------------------------
(* Instances of Memory for TLC. *)
EXTENDS Memory, TLC

\* The slots of the process table are interchangeable, but for the first.
Symmetry == Permutations(Proc \ {Initproc})
=============================================================================
