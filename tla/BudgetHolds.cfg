\* Both autoscalers at once on one workload of up to three replicas and two
\* sizes, with a budget of two pods and no change of leader.
CONSTANTS
    Nothing = Nothing
    Milli = 2
    MaxReplicas = 3
    Load = {1, 4}
    Sample = {1, 2, 3, 7}
    Percent = {0, 1, 25, 50, 51, 99, 100, 101}
    Server = {n1, n2}
    Size = {1, 2}
    Hpa <- HpaPolicy
    Vpa <- VpaPolicy
    RoleBudget <- KeepTwo
    MaxUnits = 4
    MaxTick = 2
    MaxWrites = 0
    MaxTerms = 0
    Staleness = 1
    Grace = 1
    Lease = 1
    Old = 2
    MaxInTransit = 2
    MaxReports = 2
    MaxElections = 1
    Unset = Unset
    Cron = {nightly}
    Due = {1}
    MaxTime = 1
    MaxSkew = 0
    MaxSubmits = 0
    MaxFailovers = 0
    None = None
SPECIFICATION ControllersSpec
PROPERTY BudgetHolds
CHECK_DEADLOCK FALSE
