SPECIFICATION Spec
CONSTANTS
    p1 = p1
    p2 = p2
    Posters = {p1, p2}
    PostInline = TRUE
    MaxFindings = 2
    MaxRuns = 2
    MaxCalls = 1
    MaxFaults = 1
SYMMETRY Symmetry
INVARIANT OneCommentEach
INVARIANT MarkedArePosted
CHECK_DEADLOCK FALSE
