SPECIFICATION Spec
CONSTANTS
    Workflow <- FromFile
    Inputs <- Nobody
    Readers <- File
    Writers <- Nobody
    Templated <- Nobody
    Brains <- Nobody
    Images <- Nobody
    Outputs <- Out
    RunRequests <- WholeRuns
    NoTarget = NoTarget
    None = None
    MaxRuns = 2
    MaxLive = 1
    MaxEdits = 1
    MaxMishaps = 0
INVARIANTS
    ReplayHonest
CHECK_DEADLOCK FALSE
