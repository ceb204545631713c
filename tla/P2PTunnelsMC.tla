----------------------------- MODULE P2PTunnelsMC -----------------------------
(* P2PTunnels on small instances. *)
EXTENDS P2PTunnels, TLC

Symmetry == Permutations(Opens) \cup Permutations(Nodes)
=============================================================================
