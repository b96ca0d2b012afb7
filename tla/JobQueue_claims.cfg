CONSTANTS
    Worker = {w1, w2}
    Port = {p1}
    MaxConcurrent <- OneJobPerPort
    User = {u1}
    Deletable = {}
    MaxQueued = 2
    Priority = {0}
    Request = {r1}
    AdminRequest = {r1}
    MaxBulk = 2
    LeaseTicks = 2
    HeartbeatInterval = 1
    MaxRuntime = 1
    StartEpoch = 1000
    MaxJobId = 2
    MaxCreated = 2
    MaxFaults = 1
    AllowToggle = TRUE
    None = None
SPECIFICATION Spec
SYMMETRY WorkerSymmetry
INVARIANTS  RowShape PortConcurrency LeaseProtects DriversWithinLimit
PROPERTY NoResurrection
