SPECIFICATION Spec
CONSTANTS
    Workflow <- Saved
    Inputs <- In
    Readers <- File
    Writers <- Save
    Templated <- Nobody
    Brains <- Nobody
    Images <- Nobody
    Outputs <- Nobody
    RunRequests <- ReplayRequests
    NoTarget = NoTarget
    None = None
    MaxRuns = 3
    MaxLive = 1
    MaxEdits = 1
    MaxMishaps = 0
INVARIANTS
    ReplayHonest
PROPERTIES
    UnchangedIsReplayed
CHECK_DEADLOCK FALSE
