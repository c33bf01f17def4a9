SPECIFICATION FairSpec
CONSTANTS
    Reactions = {r1, r2}
    Workers = {w1}
    Local = Local
    MaxQueued = 1
    MaxMoves = 1
    MaxFaults = 1
INVARIANT AnsweredOnce
PROPERTY ReactionsSettle
CHECK_DEADLOCK FALSE
