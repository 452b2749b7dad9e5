-------------------------- MODULE MCWorkbenchLaunch --------------------------
(* Three contexts for two Sessions: one of them is launched twice. *)
EXTENDS WorkbenchLaunch, TLC

Symmetry == Permutations(Contexts) \cup Permutations(Files)
=============================================================================
