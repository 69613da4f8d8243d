\* Every graph of three nodes.
SPECIFICATION Spec
CONSTANTS
    Graphs <- SmallGraphs
INVARIANTS
    TypeOK
    SourcesComeFirst
    AcceptedIsWhole
    RefusedIsCyclic
    AcceptedIsTheOrder
\* A verdict ends it.
CHECK_DEADLOCK FALSE
