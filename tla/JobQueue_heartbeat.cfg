CONSTANTS
    Worker = {w1}
    Port = {p1}
    MaxConcurrent <- OneJobPerPort
    User = {u1}
    Deletable = {}
    MaxQueued = 1
    Priority = {0}
    Request = {r1}
    AdminRequest = {r1}
    MaxBulk = 1
    LeaseTicks = 2
    HeartbeatInterval = 1
    MaxRuntime = 2
    StartEpoch = 1000
    MaxJobId = 1
    MaxCreated = 1
    MaxFaults = 0
    AllowToggle = FALSE
    None = None
SPECIFICATION Spec
PROPERTY HeartbeatRenewsLease
