--------------------------- MODULE MCReconciliation ---------------------------
(* Instances of Reconciliation for TLC. *)
EXTENDS Reconciliation, TLC

CONSTANTS d, e, f, g, c1, c2, foreign

\* A directory d with a file f in it, and a file g beside it.
WideAnc == d :> {} @@ f :> {d} @@ g :> {}

\* Two nested directories d, e and a file f in the inner one.
DeepAnc == d :> {} @@ e :> {d} @@ f :> {d, e}

Contents == Permutations({c1, c2})
=============================================================================
