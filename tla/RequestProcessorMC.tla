------------------------- MODULE RequestProcessorMC -------------------------
(* RequestProcessor on small instances. *)
EXTENDS RequestProcessor, TLC

Symmetry == Permutations(Requests)
=============================================================================
