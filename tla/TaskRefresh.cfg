SPECIFICATION Spec
CONSTANTS
    t1 = t1
    t2 = t2
    i1 = i1
    i2 = i2
    s1 = s1
    u1 = u1
    Tasks = {t1, t2}
    Issues = {i1, i2}
    Linked = {i1}
    Sweeper = s1
    Users = {u1}
    MaxChanges = 1
    MaxEdits = 3
    MaxSweeps = 1
SYMMETRY Symmetry
INVARIANT SeenIsOfBoundIssue
INVARIANT OperatorFieldsKept
PROPERTY RegressesOnlyByOverlap
PROPERTY ArchivedKeepsSnapshots
CHECK_DEADLOCK FALSE
