\* One leader, one workload of two replicas on two nodes; pods are moved by
\* drains, evictions, the autoscalers and the operator while they are placed.
CONSTANTS
    Node         = {n1, n2}
    Tenant       = {t1}
    Service      = {web}
    Role         = {replica}
    MaxReplicas  = 2
    Footprint    = {1, 2}
    Capacity     = {2}
    Priority     = {0}
    TaintKey     = {}
    Tolerations  = {{}}
    Grant        = {}
    MaxTime      = 0
    None         = None
    Running      = {"workload", "pod", "vpa", "drain", "scale"}
    CronService  = {}
    SpreadRole   = {}
    Domains      = {{n1}, {n2}}
    MaxOps       = 3
    MaxFailovers = 0
SPECIFICATION Spec
SYMMETRY Symmetry
CHECK_DEADLOCK FALSE
INVARIANTS
    ControllersTypeOK
    PlacedSlotIsRecorded
    SlotBacksPlacement
PROPERTY StaysPut
