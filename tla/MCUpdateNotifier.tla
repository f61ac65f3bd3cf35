-------------------------- MODULE MCUpdateNotifier --------------------------
(* Source versions and a release for TLC. *)
EXTENDS UpdateNotifier

CONSTANTS v1, v2, r1
=============================================================================
