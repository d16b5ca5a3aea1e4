CONSTANTS
    Absent = Absent
    MaxFlight = 2
    Tenant = {t1, t2}
    Service = {web, db, log}
    MaxBlocks = 2
    MaxHosts = 2
    Replicas = {1, 2}
    QuotaOf <- Quotas
    MaxRequests = 6
    Field = {"a", "b"}
    Value = {"d", "v", "w"}
    Default = "d"
    Manifest <- Manifests
    Batch <- Kinds
    RuleContent <- Rule
    MaxCalls = 3
    Host = {h1, h2}
    Nonce = {n1, n2, n3}
    MaxPending = 1
    Joiner = {j1, j2}
    Token = {k1}
    TokenOf <- Given
    Fits <- AllFit
    MaxVersion = 2
    Ek = {e1}
    MaxRedirects = 1
    MaxAdmin = 4
    Reader = {r1, r2}
    SecretValue = {s1, s2}
    Acl <- OneReader
    MaxSvid = 2
    MaxSequence = 2
    MaxEdits = 2
    MaxReboots = 1
    Machine = {m1, m2}
    Ordinal = {0, 1}
    MaxSecond = 1
    MaxKeys = 2
    MaxPlaced = 2
    Operator = {o1, o2}
    bootstrap_admins = {o2}
    allowed_operators = {o1}
    Ctrl = ctrl
    MaxTtl = 1
    MaxNow = 1
    MaxGrants = 3
    Watcher = {w1}
    Capacity = 1
    MaxEntries = 3
    EventPod = {p1, p2}
    EventType = {Started, BackOff}
    Thread = {a1, a2}
    MAX_EVENTS = 2
    MAX_EVENTS_PER_POD = 2
    MaxReports = 6
    MaxSweeps = 1
    MetricsPod = {p1, p2}
    Reporter = {q1, q2}
    MAX_PODS = 1
    MAX_WINDOWS_PER_POD = 2
    MaxWindow = 3
SPECIFICATION ServicesSpec
CHECK_DEADLOCK FALSE
INVARIANTS
    AddressesAreSeparate
    PendingIsBounded
    TokenAdmitsOnce
    
    EveryGrantHasARoot
    CaughtUpIsCurrent
    CapHolds
PROPERTIES
    BatchTakesEffect
    RevocationSticks
    FetchIsConsistent
    
