-------------------------- MODULE MCKernelStateSync --------------------------
(* Instances of KernelStateSync for TLC. *)
EXTENDS KernelStateSync, TLC

Acknowledgements == Permutations(Waiters)
=============================================================================
