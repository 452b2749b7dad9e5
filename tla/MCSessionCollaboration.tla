------------------------ MODULE MCSessionCollaboration ------------------------
(* Instances of SessionCollaboration for TLC. *)
EXTENDS SessionCollaboration, TLC

Never == [k \in OutsideEvent |-> 0]

\* Two requests, and every outside event but the prompts and aborts of the user.
FaultyLimit == [[k \in OutsideEvent |-> 1] EXCEPT !["send"] = 2, !["user"] = 0]

QuietLimit ==
  [Never EXCEPT !["send"] = 2, !["user"] = 1, !["launchFault"] = 1,
                !["crash"] = 1, !["stop"] = 1]

CancelLimit == [Never EXCEPT !["send"] = 2]
SpawnLimit == [Never EXCEPT !["send"] = 1, !["stop"] = 1]
TwoSessions == Permutations(Sessions)
=============================================================================
