\* The name a file is written under.
SPECIFICATION Spec
CONSTANTS
    Graphs <- SmallGraphs
    Paths = {"a.png", "b.png"}
INVARIANT NamedAfterOne
\* A run ends.
CHECK_DEADLOCK FALSE
