--------------------------- MODULE MCWorkflowFacade ---------------------------
(* Instances of WorkflowFacade for TLC. *)
EXTENDS WorkflowFacade, TLC

Symmetry == Permutations(Runs) \union Permutations(Tasks)
=============================================================================
