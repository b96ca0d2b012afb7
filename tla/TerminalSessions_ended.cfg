\* An administrator, in the process of the bridge or in another, ends the session of a user who comes and goes, and a flask command starts.
SPECIFICATION FairSpec
CONSTANTS
    web = web
    other = other
    owner = owner
    None = None
    Proc = {web, other}
    AdminProc = {web, other}
    Conn = {c1}
    User = {c1}
    Port = {p1}
    ProcOf <- OneProcess
    UserOf <- OwnAccounts
    MaxSessions = 1
    LeaseTicks = 1
    GraceTicks = 1
    IdleTimeout = 0
    MaxRuntime = 1
    MaxSessionId = 1
    MaxFaults = 1
PROPERTIES EndedPortCloses UnattendedEnds
