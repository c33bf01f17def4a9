SPECIFICATION Spec
CONSTANTS
    Reactions = {r1}
    Workers = {w1}
    Local = Local
    MaxQueued = 1
    MaxMoves = 1
    MaxFaults = 1
INVARIANT RunsWhereItsSessionIs
CHECK_DEADLOCK FALSE
