\* A replica installs a snapshot that was built while entries were applied.
CONSTANTS
    Replica     = {r1, r2}
    MaxLog      = 3
    MaxCrashes  = 0
    MaxInstalls = 1
    MaxSnapshots = 1
    None        = None
SPECIFICATION Spec
SYMMETRY Symmetry
CHECK_DEADLOCK FALSE
INVARIANT NothingSkipped
