----------------------------- MODULE RpcServiceMC -----------------------------
(* RpcService on small instances. *)
EXTENDS RpcService, TLC

Symmetry == Permutations(Calls)
=============================================================================
