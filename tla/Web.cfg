\* The components behind the requests of a web client.
SPECIFICATION Spec
CONSTANTS
    a = a
    b = b
    None = None
    Process = {a, b}
    Thread = {a, b}
    Request <- Requests
    Endpoint <- Endpoints
    BlueprintOf <- Blueprints
    Limits <- RateLimits
    Trusted = {}
    BusyTimeout = 1
    MaxAge = 3
    SweepInterval = 3
    MaxClock = 4
    MaxAdmitted = 2
    Client = {"key"}
    Limit = 2
    Span = 2
    Stall = 1
    StoreClock = 5
    MaxGranted = 4
    Ip = {"home", "cafe"}
    Username = {"ann"}
    Account = {"ann"}
    MaxFailed = 1
    ThrottleWindow = 1
    LoginClock = 2
    MaxAttempts = 3
    User = {"ann", "bob"}
    Patron = {"pat"}
    MaxTokens = 2
    Name = {"ann", "bob"}
    Mail = {"home", "work"}
    Password = {"old", "new"}
    MaxAccount = 2
    MaxServed = 2
    Worker = {"w"}
    Deleter = {"d"}
    Viewer = {"v"}
    MaxId = 1
    MaxJobs = 2
    MaxRuns = 2
    MaxLines = 1
    Blocks = {1, 2, 3, 8}
    Tails = {0, 1, 2, 3}
    MaxTail = 3
    MaxLog = 7
    Scripts <- Dialogues
    Sizes = {1, 2, 3}
    RetentionDays = 1
    RetentionCount = 3
    MaxBackups = 3
    MaxEvents = 1
    MaxDay = 2
INVARIANTS WindowBound BoundBetweenRaces ThrottleBound  LinkWhole  OneAccountPerPatron UniqueAccounts  UploadIntact OwnOutput  TailExact  ReadInOrder NothingLostAtEnd SomeBackupSurvives RetentionMet
PROPERTIES RefusalJustified NeverRefusedEarly NoLostUpdate DoneIsComplete NeverTooFew 
SYMMETRY Exchange
\* Every part stops at its bounds.
CHECK_DEADLOCK FALSE
