-------------------------- MODULE MCRestartContinuation --------------------------
(* An instance of RestartContinuation for TLC. *)
EXTENDS RestartContinuation, TLC

\* Sessions are alike.
Alike == Permutations(Sessions)
=============================================================================
