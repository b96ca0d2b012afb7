\* Two users of one web process compete for one port.
SPECIFICATION Spec
CONSTANTS
    web = web
    other = other
    owner = owner
    None = None
    Proc = {web}
    AdminProc = {}
    Conn = {c1, c2}
    User = {c1, c2}
    Port = {p1}
    ProcOf <- OneProcess
    UserOf <- OwnAccounts
    MaxSessions = 1
    LeaseTicks = 1
    GraceTicks = 1
    IdleTimeout = 0
    MaxRuntime = 0
    MaxSessionId = 2
    MaxFaults = 0
INVARIANTS  LeaseExcludes
PROPERTY ImplementsLock
SYMMETRY Exchange
