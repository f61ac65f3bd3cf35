----------------------------- MODULE MCScopedStage -----------------------------
(* Instances of ScopedStage for TLC. *)
EXTENDS ScopedStage, TLC

Symmetry == Permutations(Bodies)
=============================================================================
