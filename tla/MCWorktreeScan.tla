----------------------------- MODULE MCWorktreeScan -----------------------------
(* Instances of WorktreeScan for TLC. *)
EXTENDS WorktreeScan, TLC

Symmetry == Permutations(Bodies)
=============================================================================
