--------------------------- MODULE SceneLifecycleMC ---------------------------
(* SceneLifecycle on small instances. *)
EXTENDS SceneLifecycle, TLC

Symmetry == Permutations(Scenes) \cup Permutations(Handles)
=============================================================================
