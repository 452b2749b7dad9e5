-------------------------- MODULE MCNativeSubagents --------------------------
(* The Session and its tasks for TLC: two tasks are siblings or nested. *)
EXTENDS NativeSubagents
=============================================================================
