-------------------------- MODULE MCPiRuntimeProcess --------------------------
EXTENDS PiRuntimeProcess, TLC

\* Each outside event as often as one run needs it.
MCLimit == [call |-> 1, stop |-> 2, crash |-> 1, disposeFault |-> 1,
            createFault |-> 1, shutdown |-> 1, switch |-> 1]

\* With two Runtimes there is one stop; a stop that is tried again needs only one.
MCOneStop == [MCLimit EXCEPT !.stop = 1]

\* The files and the Runtimes are alike.
MCSymmetry == Permutations(Runtimes) \cup Permutations(Files)
=============================================================================
