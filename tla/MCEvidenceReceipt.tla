------------------------- MODULE MCEvidenceReceipt -------------------------
(* EvidenceReceipt on a small instance: one untracked content is out of scope. *)
EXTENDS EvidenceReceipt
MCOutOfScope == {2}
=============================================================================
