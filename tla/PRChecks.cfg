SPECIFICATION ChecksSpec
CONSTANTS
    Workflows = {"ci"}
    Jobs = {"build", "optional"}
    Contexts = {"external"}
    Results = {"pass", "fail"}
    Bypass = {"optional"}
    MaxRuns = 2
    MaxIds = 2
    MaxEvents = 2
INVARIANT FailureIsVisible
INVARIANT BypassExcuses
INVARIANT SupersededNeverCounts
INVARIANT PassIsComplete
CHECK_DEADLOCK FALSE
