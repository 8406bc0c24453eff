------------------------------ MODULE MCBcache ------------------------------
(* Instances of Bcache for TLC. *)
EXTENDS Bcache, TLC

Symmetry == Permutations(Client) \cup Permutations(Block) \cup Permutations(Val)
=============================================================================
