------------------------- MODULE MCRuntimeHibernation -------------------------
(* Bounds for the outside events. *)
EXTENDS RuntimeHibernation

MCLimit == [prompt |-> 1, operation |-> 1, silence |-> 2, stopFault |-> 1,
            crash |-> 1, activate |-> 1]
=============================================================================
