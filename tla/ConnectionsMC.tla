---------------------------- MODULE ConnectionsMC ----------------------------
(* Connections on small instances. *)
EXTENDS Connections, TLC

Symmetry == Permutations(Requests)
=============================================================================
