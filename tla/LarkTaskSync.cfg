SPECIFICATION FairSpec
CONSTANTS
    Users = {u1, u2}
    Sweeper = sweeper
    Groups = {g1}
    NoGroup = NoGroup
    DefaultGroup = NoGroup
    MaxEdits = 1
    MaxFaults = 2
    MaxAsks = 4
INVARIANT OneRemoteTask
INVARIANT ToldIsShown
PROPERTY OpenTaskConverges
CHECK_DEADLOCK FALSE
