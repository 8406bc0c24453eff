---------------------------- MODULE MCVirtioDisk ----------------------------
(* Instances of VirtioDisk for TLC. *)
EXTENDS VirtioDisk, TLC

Symmetry == Permutations(Proc)
=============================================================================
