SPECIFICATION Spec
CONSTANTS
    Workflow <- Chain
    Inputs <- In
    Readers <- Nobody
    Writers <- Nobody
    Templated <- Nobody
    Brains <- Brain
    Images <- Nobody
    Outputs <- Out
    RunRequests <- InputRun
    NoTarget = NoTarget
    None = None
    MaxRuns = 1
    MaxLive = 1
    MaxEdits = 1
    MaxMishaps = 0
INVARIANTS
    TargetIsRun
CHECK_DEADLOCK FALSE
