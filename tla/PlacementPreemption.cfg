\* One leader, two workloads of one replica each and of two priorities, two
\* nodes with room for one pod, taints: pods are preempted and evicted.
CONSTANTS
    Node         = {n1, n2}
    Tenant       = {t1}
    Service      = {web, batch}
    Role         = {replica}
    MaxReplicas  = 1
    Footprint    = {1}
    Capacity     = {1}
    Priority     = {0, 1}
    TaintKey     = {dedicated}
    Tolerations  = {{}, {dedicated}}
    Grant        = {}
    MaxTime      = 0
    None         = None
    Running      = {"workload", "node"}
    CronService  = {}
    SpreadRole   = {replica}
    Domains      = {{n1}, {n2}}
    MaxOps       = 3
    MaxFailovers = 0
SPECIFICATION Spec
SYMMETRY Symmetry
CHECK_DEADLOCK FALSE
INVARIANT SlotBacksPlacement
