\* One user asks for a session on two connections at once.
SPECIFICATION Spec
CONSTANTS
    web = web
    other = other
    owner = owner
    None = None
    Proc = {web}
    AdminProc = {}
    Conn = {c1, c2}
    User = {owner}
    Port = {p1, p2}
    ProcOf <- OneProcess
    UserOf <- OneOwner
    MaxSessions = 1
    LeaseTicks = 1
    GraceTicks = 1
    IdleTimeout = 0
    MaxRuntime = 0
    MaxSessionId = 2
    MaxFaults = 0
INVARIANT SessionLimit
