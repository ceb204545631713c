----------------------------- MODULE P2PSessionsMC -----------------------------
(* P2PSessions on small instances. *)
EXTENDS P2PSessions, TLC

Symmetry == Permutations(Sessions)
=============================================================================
