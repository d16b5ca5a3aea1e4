\* A change of leader with commands in flight and a follower that lags.
CONSTANTS
    Node         = {n1}
    Tenant       = {t1}
    Service      = {web, run}
    Role         = {replica}
    MaxReplicas  = 1
    Footprint    = {1}
    Capacity     = {2}
    Priority     = {0}
    TaintKey     = {}
    Tolerations  = {{}}
    Grant        = {}
    MaxTime      = 0
    None         = None
    Running      = {"workload", "cron", "hpa"}
    CronService  = {run}
    SpreadRole   = {}
    Domains      = {{n1}}
    MaxOps       = 2
    MaxFailovers = 1
SPECIFICATION FairSpec
CHECK_DEADLOCK FALSE
PROPERTY FreshSlotIsPlaced
