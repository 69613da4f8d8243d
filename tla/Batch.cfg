SPECIFICATION Spec
CONSTANTS
    d1 = d1
    d2 = d2
    d3 = d3
    q1 = q1
    q2 = q2
    NoDriver = NoDriver
    N = 2
    Drivers <- TwoDrivers
    Requests <- TwoRequests
    MaxRequests = 3
    MaxMishaps = 0
SYMMETRY Symmetry
INVARIANTS
    TypeOK
    CompletedItemHasRun
    CompletedMeansEvery
    QuietIsSettled
    PollSeesDriver
PROPERTIES
    ResumeSkipsCompleted
CHECK_DEADLOCK FALSE
