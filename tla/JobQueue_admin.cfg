CONSTANTS
    Worker = {w1, w2}
    Port = {p1}
    MaxConcurrent <- OneJobPerPort
    User = {u1, u2}
    Deletable = {u2}
    MaxQueued = 1
    Priority = {0}
    Request = {r1}
    AdminRequest = {r1}
    MaxBulk = 1
    LeaseTicks = 1
    HeartbeatInterval = 1
    MaxRuntime = 0
    StartEpoch = 1000
    MaxJobId = 2
    MaxCreated = 2
    MaxFaults = 0
    AllowToggle = FALSE
    None = None
SPECIFICATION Spec
SYMMETRY WorkerSymmetry
INVARIANTS QuotaRespected
PROPERTY ImplementsBoard
