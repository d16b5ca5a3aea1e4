SPECIFICATION Spec
CONSTANTS
    MaxIndex = 4
    MaxTerm = 2
    Down = Down
    Founders = {c1, c2}
    Joiner = j
    Pooled = {p1, p2}
    JoinTarget = c1
    NoOne = NoOne
    MaxFaults = 2
    MaxCrashes = 2
INVARIANT
    RestartResumes
CHECK_DEADLOCK FALSE
