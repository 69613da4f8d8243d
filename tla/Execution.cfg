SPECIFICATION FairSpec
CONSTANTS
    Workflow <- Chain
    Inputs <- In
    Readers <- Nobody
    Writers <- Nobody
    Templated <- Nobody
    Brains <- Brain
    Images <- Nobody
    Outputs <- Out
    RunRequests <- ChainRequests
    NoTarget = NoTarget
    None = None
    MaxRuns = 2
    MaxLive = 2
    MaxEdits = 0
    MaxMishaps = 1
INVARIANTS
    TypeOK
    CompletedIsWhole
    SettledHasNoRunningNode
    PollSeesRun
PROPERTIES
    RunsEnd
    FilesKeepHistory
CHECK_DEADLOCK FALSE
