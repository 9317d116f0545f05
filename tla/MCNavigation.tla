---------------------------- MODULE MCNavigation ----------------------------
(* Small instances of Navigation for TLC. *)
EXTENDS Navigation, TLC

CallSymmetry == Permutations(Calls)
=============================================================================
