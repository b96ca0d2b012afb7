---------------------------------- MODULE Web ----------------------------------
(* The components that stand behind the requests of a web client: the       *)
(* limiter and its two stores, the login, the link to Patreon, the accounts, *)
(* the files of a job, the end of its log, the line to a device, and the    *)
(* backups behind them all.  They share no state, so a behaviour is one of  *)
(* any of them: their interleavings would add nothing.                      *)
EXTENDS Integers, Sequences, FiniteSets

CONSTANTS
    Process, Thread,   \* web processes and cron jobs, threads of a process
    None,
    Request, Endpoint, BlueprintOf, Limits, Trusted, BusyTimeout, MaxAge, SweepInterval,
    MaxClock, MaxAdmitted,                                       \* RateLimiter
    Client, Limit, Span, Stall, StoreClock, MaxGranted,          \* MemoryStore
    Ip, Username, Account, MaxFailed, ThrottleWindow, LoginClock, MaxAttempts, \* Login
    User, Patron, MaxTokens,                                     \* PatreonLink
    Name, Mail, Password, MaxAccount, MaxServed,                 \* Accounts
    Worker, Deleter, Viewer, MaxId, MaxJobs, MaxRuns, MaxLines,  \* JobFiles
    Blocks, Tails, MaxTail, MaxLog,                              \* OutputTail
    Scripts, Sizes,                                              \* Transport
    RetentionDays, RetentionCount, MaxBackups, MaxEvents, MaxDay \* Backups

VARIABLES
    part,                                              \* the component at work
    clock,                                             \* RateLimiter, MemoryStore, Login
    call, lastSweep, rows, log,                        \* RateLimiter
    check, dict, heap, granted, raced,                 \* MemoryStore
    login, attempts, present, notices, parallel,       \* Login
    userRow, work, owner, alive, member, lost, mixed,  \* PatreonLink
    account, request, writer, served,                  \* Accounts
    jobRow, users, upload, folder, logFile, making, deleter, worker, stream,
    created, runs, racedJobs, orphaned,                \* JobFiles
    bytes,                                             \* OutputTail
    script, said, line, socket, mode, pendingIac, out, answers, wrapper,
    got, raised, heard, initial, torn,                 \* Transport
    files, run, db, today, restores, begun, crashes, made, alone, tidy \* Backups

Limiter == INSTANCE RateLimiter
Store   == INSTANCE MemoryStore WITH MaxClock <- StoreClock
Door    == INSTANCE Login WITH MaxClock <- LoginClock
Link    == INSTANCE PatreonLink WITH row <- userRow
People  == INSTANCE Accounts WITH Request <- Thread, MaxId <- MaxAccount
Jobs    == INSTANCE JobFiles WITH row <- jobRow, log <- logFile, raced <- racedJobs
Shown   == INSTANCE OutputTail WITH Requests <- Tails
Line    == INSTANCE Transport WITH phase <- mode
Copies  == INSTANCE Backups WITH MaxRuns <- MaxBackups

-----------------------------------------------------------------------------
(* What the code and its configuration say of the constants.               *)

\* A limit is a number, and its window no shorter than a request may wait for the
\* locks of the database, nor longer than rows are kept (RATE_LIMITS, MAX_AGE).
ASSUME LimiterAssumption ==
    /\ BusyTimeout \in Nat /\ MaxAge \in Nat /\ SweepInterval \in Nat
    /\ MaxClock \in Nat /\ MaxAdmitted \in Nat
    /\ Request # {}
    /\ \A r \in Request :
          LET k == Limiter!KeyOf(r)
          IN  /\ Limiter!Max(k) \in Nat
              /\ Limiter!Max(k) > 0 => Limiter!Window(k) \in Limiter!Delay .. MaxAge

\* A limit, its window and the time that a check takes are numbers (security.py:66-78).
ASSUME StoreAssumption == Limit \in Nat /\ Span \in Nat /\ Stall \in Nat

\* The throttle lets an attempt through (MAX_FAILED_ATTEMPTS), and a process has
\* finitely many threads.
ASSUME DoorAssumption ==
    /\ IsFiniteSet(Thread)
    /\ Ip # {} /\ Username # {}
    /\ MaxFailed \in Nat \ {0}
    /\ ThrottleWindow \in Nat

\* The writer tells a request from nobody, and a row an account at Patreon from none.
ASSUME PeopleAssumption == None \notin Thread
ASSUME LinkAssumption == None \notin Patron

\* The most lines that are shown, and a block, are numbers that are not 0
\* (MAX_OUTPUT_TAIL, api/routes.py:16; block, jobs/utils.py:330).
ASSUME TailAssumption == MaxTail \in Nat \ {0} /\ Blocks \subseteq Nat \ {0}

\* A server says bytes, and a read asks for a number of them.
ASSUME LineAssumption == Scripts \subseteq Seq(STRING) /\ Sizes \subseteq Nat

\* The retention is given in whole days and files (deploy/backup.py, the config), and
\* a host runs finitely many processes.
ASSUME CopiesAssumption ==
    RetentionDays \in Int /\ RetentionCount \in Int /\ IsFiniteSet(Process)

-----------------------------------------------------------------------------

limiterVars == <<call, lastSweep, rows, log>>
storeVars   == <<check, dict, heap, granted, raced>>
loginVars   == <<login, attempts, present, notices, parallel>>
linkVars    == <<userRow, work, owner, alive, member, lost, mixed>>
peopleVars  == <<account, request, writer, served>>
jobVars     == <<jobRow, users, upload, folder, logFile, making, deleter, worker, stream,
                 created, runs, racedJobs, orphaned>>
lineVars    == <<script, said, line, socket, mode, pendingIac, out, answers, wrapper,
                 got, raised, heard, initial, torn>>
backupVars  == <<files, run, db, today, restores, begun, crashes, made, alone, tidy>>
allVars     == <<part, clock, limiterVars, storeVars, loginVars, linkVars,
                 peopleVars, jobVars, bytes, lineVars, backupVars>>

\* A part that does not take place has no state.
NoCalls   == call = 0 /\ lastSweep = 0 /\ rows = 0 /\ log = 0
NoStore   == check = 0 /\ dict = 0 /\ heap = 0 /\ granted = 0 /\ raced = 0
NoLogins  == login = 0 /\ attempts = 0 /\ present = 0 /\ notices = 0 /\ parallel = 0
NoLink    == /\ userRow = 0 /\ work = 0 /\ owner = 0 /\ alive = 0 /\ member = 0
             /\ lost = 0 /\ mixed = 0
NoPeople  == account = 0 /\ request = 0 /\ writer = 0 /\ served = 0
NoJobs    == /\ jobRow = 0 /\ users = 0 /\ upload = 0 /\ folder = 0 /\ logFile = 0
             /\ making = 0 /\ deleter = 0 /\ worker = 0 /\ stream = 0 /\ created = 0
             /\ runs = 0 /\ racedJobs = 0 /\ orphaned = 0
NoLine    == /\ script = 0 /\ said = 0 /\ line = 0 /\ socket = 0 /\ mode = 0
             /\ pendingIac = 0 /\ out = 0 /\ answers = 0 /\ wrapper = 0 /\ got = 0
             /\ raised = 0 /\ heard = 0 /\ initial = 0 /\ torn = 0
NoCopies  == /\ files = 0 /\ run = 0 /\ db = 0 /\ today = 0 /\ restores = 0
             /\ begun = 0 /\ crashes = 0 /\ made = 0 /\ alone = 0 /\ tidy = 0

Init ==
    /\ part \in {"limiter", "store", "login", "link", "people", "jobs", "tail", "line",
                 "backups"}
    /\ clock = 0
    /\ IF part = "limiter" THEN Limiter!Init ELSE NoCalls
    /\ IF part = "store" THEN Store!Init ELSE NoStore
    /\ IF part = "login" THEN Door!Init ELSE NoLogins
    /\ IF part = "link" THEN Link!Init ELSE NoLink
    /\ IF part = "people" THEN People!Init ELSE NoPeople
    /\ IF part = "jobs" THEN Jobs!Init ELSE NoJobs
    /\ IF part = "tail" THEN Shown!Init ELSE bytes = 0
    /\ IF part = "line" THEN Line!Init ELSE NoLine
    /\ IF part = "backups" THEN Copies!Init ELSE NoCopies

Next ==
    /\ UNCHANGED part
    /\ \/ part = "limiter" /\ Limiter!Next
       \/ part # "limiter" /\ UNCHANGED limiterVars
    /\ \/ part = "store" /\ Store!Next
       \/ part # "store" /\ UNCHANGED storeVars
    /\ \/ part = "login" /\ Door!Next
       \/ part # "login" /\ UNCHANGED loginVars
    /\ \/ part = "link" /\ Link!Next
       \/ part # "link" /\ UNCHANGED linkVars
    /\ \/ part = "people" /\ People!Next
       \/ part # "people" /\ UNCHANGED peopleVars
    /\ \/ part = "jobs" /\ Jobs!Next
       \/ part # "jobs" /\ UNCHANGED jobVars
    /\ \/ part = "tail" /\ Shown!Next
       \/ part # "tail" /\ UNCHANGED bytes
    /\ \/ part = "line" /\ Line!Next
       \/ part # "line" /\ UNCHANGED lineVars
    /\ \/ part = "backups" /\ Copies!Next
       \/ part # "backups" /\ UNCHANGED backupVars
    /\ part \notin {"limiter", "store", "login"} => UNCHANGED clock

Spec == Init /\ [][Next]_allVars

-----------------------------------------------------------------------------
(* The properties of the parts, under the names they have there.           *)

LimiterTypeOK       == part = "limiter" => Limiter!TypeOK
WindowBound         == part = "limiter" => Limiter!WindowBound
RefusalJustified    == [][part = "limiter" => Limiter!RefusedOverLimit]_<<clock, limiterVars>>
BoundBetweenRaces   == part = "store" => Store!BoundBetweenRaces
NeverRefusedEarly   == [][part = "store" => Store!RefusedInTime]_storeVars
ThrottleBound       == part = "login" => Door!ThrottleBound
NewAddressTold      == part = "login" => Door!NewAddressTold
LinkWhole           == part = "link" => Link!LinkWhole
StoredTokenAlive    == part = "link" => Link!StoredTokenAlive
OneAccountPerPatron == part = "link" => Link!OneAccountPerPatron
UniqueAccounts      == part = "people" => People!UniqueAccounts
NoLostUpdate        == [][part = "people" => People!OnlyWhatItChanges]_peopleVars
ToldIsTrue          == part = "people" => People!ToldIsTrue
UploadIntact        == part = "jobs" => Jobs!UploadIntact
OwnOutput           == part = "jobs" => Jobs!OwnOutput
ReadInOnePiece      == part = "jobs" => Jobs!ReadInOnePiece
DoneIsComplete      == [][part = "jobs" => Jobs!EndsComplete]_jobVars
TailExact           == part = "tail" => Shown!TailExact
NegotiationExact    == part = "line" => Line!NegotiationExact
ReadInOrder         == part = "line" => Line!ReadInOrder
NothingLostAtEnd    == part = "line" => Line!NothingLostAtEnd
SomeBackupSurvives  == part = "backups" => Copies!SomeBackupSurvives
RetentionMet        == part = "backups" => Copies!RetentionMet
NeverTooFew         == [][part = "backups" => Copies!PrunedInExcess]_backupVars
CompressedRestoreIsWhole == [][part = "backups" => Copies!RestoredWhole]_backupVars
=============================================================================
