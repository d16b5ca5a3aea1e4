\* Autoscalers and health: one workload of up to three replicas and two sizes,
\* two leaders, a budget of two pods; ages up to two, two reports under way.
\* Cron: one cron with two scheduled times, three leaders with clocks one tick apart.
CONSTANTS
    Nothing = Nothing
    Milli = 2
    MaxReplicas = 3
    Load = {1, 4}
    Sample = {1, 2, 3, 7}
    Percent = {0, 1, 25, 50, 51, 99, 100, 101}
    Server = {n1, n2}
    Size = {1, 2}
    Hpa <- HpaPolicy
    Vpa <- VpaPolicy
    RoleBudget <- KeepTwo
    MaxUnits = 4
    MaxTick = 2
    MaxWrites = 1
    MaxTerms = 1
    Staleness = 1
    Grace = 1
    Lease = 1
    Old = 2
    MaxInTransit = 2
    MaxReports = 2
    MaxElections = 1
    Unset = Unset
    Cron = {nightly}
    Due = {1, 2}
    MaxTime = 2
    MaxSkew = 1
    MaxSubmits = 2
    MaxFailovers = 2
    None = None
SPECIFICATION ControllersSpec
CHECK_DEADLOCK FALSE
INVARIANTS
    SplitIsFair
    AllowedLeavesBudget
    MarkerMeansSustained
    MarkIsStartOfRun
    NoRunLost
    TriggersOncePerLeader
PROPERTIES
    UndisturbedKeepsBudget
    UndisturbedWriteIsExact
    
    
    SilentNodeIsEvicted
    DueIsRun
