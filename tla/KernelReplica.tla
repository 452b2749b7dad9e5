---------------------------- MODULE KernelReplica ----------------------------
(***************************************************************************)
(* What the Kernel and a Renderer promise each other about state, without  *)
(* events, batches, frames or resynchronisation: the Kernel numbers its    *)
(* published mutations, and the Renderer shows the result of a prefix of   *)
(* them that only ever grows.                                              *)
(***************************************************************************)
EXTENDS Integers

VARIABLES
  published,   \* number of mutations the Kernel has published
  shown,       \* length of the prefix on screen, -1 before the first state
  contents     \* the mutations the state on screen contains

vars == <<published, shown, contents>>

Init ==
  /\ published = 0
  /\ shown = -1
  /\ contents = {}

Publish ==
  /\ published' = published + 1
  /\ UNCHANGED <<shown, contents>>

\* The screen moves forward to some published revision, never back.
Advance ==
  /\ shown' \in (shown + 1)..published
  /\ contents' = 1..shown'
  /\ UNCHANGED published

Next == Publish \/ Advance

Spec == Init /\ [][Next]_vars
=============================================================================
