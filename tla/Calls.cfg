\* Every provider, adapter and kind of node.
SPECIFICATION Spec
CONSTANTS
    Configs <- SomeConfigs
    Nodes <- SomeNodes
INVARIANTS
    RoutedRight
    SentIsUnderstood
    AnswersAreEarned
    PaidOnce
PROPERTY CallEnds
\* A call ends.
CHECK_DEADLOCK FALSE
