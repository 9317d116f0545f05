----------------------------- MODULE MCTargets -----------------------------
(* Targets with sets of callers, tabs and sessions for TLC. *)
EXTENDS Targets, TLC
=============================================================================
