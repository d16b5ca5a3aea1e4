\* One node, and two tenants that use the same workload name.
CONSTANTS
    Node        = {n1}
    Tenant      = {t1, t2}
    Service     = {web}
    Role        = {replica}
    MaxReplicas = 1
    Footprint   = {1}
    Capacity    = {1}
    Priority    = {0}
    TaintKey    = {dedicated}
    Tolerations = {{}}
    Grant       = {g1}
    MaxTime     = 1
    None        = None
SPECIFICATION FleetSpec
SYMMETRY Symmetry
PROPERTIES
    EvictionCascade
    OnlyRegistrationLiftsEviction
    DelegationsAccounted
    WorkloadIsolation
