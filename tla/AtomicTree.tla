------------------------------ MODULE AtomicTree ------------------------------
(***************************************************************************)
(* What the reconciliation of a stage promises its caller: a tree is       *)
(* replaced as a whole.  While an update is open nobody may rely on the    *)
(* tree; it closes by a decision, and what is seen from then on is all of  *)
(* the new tree or all of the old one.  The promise lasts as long as the   *)
(* update is alone: a tree that someone else writes too is out of it.      *)
(***************************************************************************)
CONSTANT Busy        \* seen while an update is open

VARIABLES
  old, new,          \* the two trees, fixed from the start
  seen,              \* the tree that a reader may rely on, or Busy
  decision,          \* what the open update has durably decided
  alone              \* has nobody else written the tree?

atomicVars == <<old, new, seen, decision, alone>>

AtomicInit == seen = old /\ decision = "none" /\ alone = TRUE

Open ==
  /\ seen = old /\ decision = "none"
  /\ seen' = Busy
  /\ UNCHANGED <<old, new, decision, alone>>

Decide ==
  /\ seen = Busy /\ decision = "none"
  /\ decision' \in {"commit", "rollback"}
  /\ UNCHANGED <<old, new, seen, alone>>

Close ==
  /\ seen = Busy /\ decision # "none"
  /\ seen' = IF decision = "commit" THEN new ELSE old
  /\ decision' = "none"
  /\ UNCHANGED <<old, new, alone>>

\* Somebody else writes the tree, or has done so: nothing more is promised.
Interfere == alone' = FALSE /\ UNCHANGED <<old, new>>

AtomicNext == Open \/ Decide \/ Close \/ Interfere

AtomicSpec == AtomicInit /\ [][AtomicNext]_atomicVars
=============================================================================
