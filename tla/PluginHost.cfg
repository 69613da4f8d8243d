SPECIFICATION FairSpec
CONSTANTS
    Declared <- AllCapabilities
    FilesGiven = TRUE
    Used <- OneOfEach
    MaxLLMCalls = 2
    Budget = 2
    Ceiling = 5
    StepsAsked <- SomeSteps
    MaxGuards = 1
    MaxCallbacks = 2
    MaxWait = 2
INVARIANTS
    TypeOK
    SpendIsPaidFor
    ClockIsScriptTime
    ReasonIsHonest
    LateCallsAreOwed
PROPERTIES
    Released
    GoroutineEnds
CHECK_DEADLOCK FALSE
