\* Two replicas, three entries, crashes and snapshots.
CONSTANTS
    Replica     = {r1, r2}
    MaxLog      = 3
    MaxCrashes  = 1
    MaxInstalls = 1
    MaxSnapshots = 1
    None        = None
SPECIFICATION Spec
SYMMETRY Symmetry
CHECK_DEADLOCK FALSE
INVARIANTS
    FollowsLog
    ToldIsDurable
    SnapshotIsConsistent
