\* Two users, one port; the first one is away for less than the grace period.
SPECIFICATION Spec
CONSTANTS
    web = web
    other = other
    owner = owner
    None = None
    Proc = {web}
    AdminProc = {}
    Conn = {c1, c2}
    User = {c1, c2}
    Port = {p1}
    ProcOf <- OneProcess
    UserOf <- OwnAccounts
    MaxSessions = 1
    LeaseTicks = 1
    GraceTicks = 2
    IdleTimeout = 0
    MaxRuntime = 1
    MaxSessionId = 2
    MaxFaults = 0
INVARIANT PortIsolation
