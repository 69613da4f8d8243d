SPECIFICATION FairSpec
CONSTANTS
    d1 = d1
    d2 = d2
    d3 = d3
    q1 = q1
    q2 = q2
    NoDriver = NoDriver
    N = 2
    Drivers <- TwoDrivers
    Requests <- TwoRequests
    MaxRequests = 2
    MaxMishaps = 1
PROPERTIES
    DriversEnd
    CancelHonoured
CHECK_DEADLOCK FALSE
