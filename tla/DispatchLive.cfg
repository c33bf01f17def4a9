SPECIFICATION FairSpec
CONSTANTS
    r1 = r1
    r2 = r2
    w1 = w1
    Reviews = {r1, r2}
    Workers = {w1}
    Local = Local
    Collisions = {{r1, r2}}
    MaxConcurrent = 2
    LocalFallback = FALSE
    MaxRuns = 2
    MaxQueued = 1
    MaxFaults = 1
PROPERTY Settles
PROPERTY ServedUnlessPhantom
CHECK_DEADLOCK FALSE
