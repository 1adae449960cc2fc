--------------------------- MODULE MCEventManager ---------------------------
EXTENDS EventManager

CONSTANTS e1, e2, h1

\* A handler that is not concurrent.
MCLimit == [h \in Handlers |-> 1]
=============================================================================
