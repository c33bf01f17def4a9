SPECIFICATION FairSpec
CONSTANTS
    p1 = p1
    p2 = p2
    w1 = w1
    u1 = u1
    PRs = {p1, p2}
    Mine = {p1}
    Pollers = {w1}
    Users = {u1}
    MaxChanges = 2
    MaxFaults = 1
    MaxAsks = 1
INVARIANT SwitchKept
INVARIANT SnapshotOfOneMoment
INVARIANT ViewNotOlder
PROPERTY NeverRegresses
PROPERTY Converges
