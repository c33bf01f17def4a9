SPECIFICATION Spec
CONSTANTS
    r1 = r1
    w1 = w1
    w2 = w2
    Reviews = {r1}
    Workers = {w1, w2}
    Local = Local
    Collisions = {}
    MaxConcurrent = 2
    LocalFallback = TRUE
    MaxRuns = 2
    MaxQueued = 1
    MaxFaults = 2
SYMMETRY Symmetry
INVARIANT UnspoiltIsExecuting
 
PROPERTY ImplementsLifecycle
CHECK_DEADLOCK FALSE
