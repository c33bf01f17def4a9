SPECIFICATION FairSpec
CONSTANTS
    Requests = {r1, r2}
    Low = {r1}
    EnvAutoPass = TRUE
    MaxSwitches = 3
    MaxFaults = 2
INVARIANT DecidedOnce
PROPERTY HooksAnswer
CHECK_DEADLOCK FALSE
