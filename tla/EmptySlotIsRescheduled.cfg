\* The vertical autoscaler removes a pod and nothing puts it back.
CONSTANTS
    Node         = {n1, n2}
    Tenant       = {t1}
    Service      = {web}
    Role         = {replica}
    MaxReplicas  = 1
    Footprint    = {1, 2}
    Capacity     = {2}
    Priority     = {0}
    TaintKey     = {}
    Tolerations  = {{}}
    Grant        = {}
    MaxTime      = 0
    None         = None
    Running      = {"workload", "vpa"}
    CronService  = {}
    SpreadRole   = {}
    Domains      = {{n1}, {n2}}
    MaxOps       = 1
    MaxFailovers = 0
SPECIFICATION FairSpec
CHECK_DEADLOCK FALSE
PROPERTY EmptySlotIsRescheduled
