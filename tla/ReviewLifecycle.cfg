SPECIFICATION Spec
CONSTANTS
    r1 = r1
    w1 = w1
    w2 = w2
    Reviews = {r1}
    Workers = {w1, w2}
    Local = Local
    Modes = {"distributed", "local"}
    ResultRequired = TRUE
    MaxRuns = 3
    MaxContexts = 2
SYMMETRY Symmetry
INVARIANT TypeOK
INVARIANT Ownership
INVARIANT VerdictOfLatestRun
INVARIANT SessionInContext
PROPERTY PublishesOwnRun
PROPERTY SettledRunsKept
PROPERTY SuccessHasResult
