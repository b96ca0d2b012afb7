\* One user whose device fails.
SPECIFICATION FairSpec
CONSTANTS
    web = web
    other = other
    owner = owner
    None = None
    Proc = {web}
    AdminProc = {}
    Conn = {c1}
    User = {c1}
    Port = {p1}
    ProcOf <- OneProcess
    UserOf <- OwnAccounts
    MaxSessions = 1
    LeaseTicks = 1
    GraceTicks = 1
    IdleTimeout = 0
    MaxRuntime = 1
    MaxSessionId = 1
    MaxFaults = 1
PROPERTY ErrorEndsSession
