------------------------------- MODULE JobQueue -------------------------------
(***************************************************************************)
(* The job queue of one RetroBridge device: the rows of the jobs table,    *)
(* the worker processes of worker.py that claim and execute them, and the  *)
(* web requests that submit, cancel and delete them.                       *)
(*                                                                         *)
(* Every action is one SQLite transaction (SQLite admits one writer at a   *)
(* time) or one step a worker takes between two of its transactions.  A    *)
(* worker's copy of a row can therefore be stale when it is written back,  *)
(* and so can the row a cancel request has read.                           *)
(***************************************************************************)
EXTENDS Integers, FiniteSets

CONSTANTS
    Worker,            \* worker processes started for this device
    Port,              \* its enabled ports with purpose "job_queue"
    MaxConcurrent,     \* DevicePort.max_concurrent_jobs, a function on Port
    User,              \* accounts that submit jobs
    Deletable,         \* accounts an administrator may delete
    MaxQueued,         \* User.max_queued_jobs
    Priority,          \* values of Job.priority
    Request,           \* cancel requests that may be in flight at once
    AdminRequest,      \* the ones made by an administrator
    MaxBulk,           \* rows one bulk-cancel request may name
    LeaseTicks,        \* JOB_LEASE_SECONDS, in ticks
    HeartbeatInterval, \* JOB_HEARTBEAT_INTERVAL, in ticks
    MaxRuntime,        \* DevicePort.max_runtime_seconds, in ticks
    StartEpoch,        \* time.time() when a capture starts, in ticks
    MaxJobId,          \* bound: job ids in use at once
    MaxCreated,        \* bound: jobs ever submitted
    MaxFaults,         \* bound: crashes and failed transactions
    AllowToggle,       \* bound: may the device be disabled and enabled?
    None               \* SQL NULL

ASSUME PortAssumption == Port # {} /\ MaxConcurrent \in [Port -> Nat]

ASSUME BoundAssumption ==
    /\ {MaxQueued, MaxBulk, MaxJobId, MaxCreated, MaxFaults} \subseteq Nat
    /\ Priority \subseteq Int
    /\ AdminRequest \subseteq Request
    /\ Deletable \subseteq User
    /\ AllowToggle \in BOOLEAN
    /\ None \notin Port \cup Worker \cup User

\* A capture starts at a wall-clock time (seconds since 1970), far beyond any
\* duration a capture can reach.
ASSUME TimeAssumption ==
    /\ LeaseTicks \in Nat \ {0}
    /\ HeartbeatInterval \in Nat \ {0}
    /\ MaxRuntime \in Nat
    /\ StartEpoch \in Nat
    /\ StartEpoch > MaxRuntime

VARIABLES
    jobs,     \* the jobs table
    users,    \* accounts that still exist
    worker,   \* local state of each worker process
    pending,  \* what each cancel request has read and not yet committed
    enabled,  \* Device.is_enabled
    created,  \* jobs submitted so far: the clock behind created_at
    faults    \* crashes and failed transactions so far

vars == <<jobs, users, worker, pending, enabled, created, faults>>

-----------------------------------------------------------------------------
(* Rows, and the predicates on them that the SQL statements use.           *)

JobId    == 1 .. MaxJobId
Terminal == {"completed", "failed", "canceled"}
Active   == {"queued", "running"}
Status   == Active \cup Terminal

\* A lease is what remains of lease_expires_at - now: 0 once it has passed,
\* NoLease for NULL.
NoLease == -1

LeaseLeft == NoLease .. LeaseTicks
CreatedAt == 0 .. MaxCreated
Elapsed   == 0 .. MaxRuntime + 1

Row == [status    : Status \cup {"absent"},
        cancel    : BOOLEAN,              \* cancel_requested
        port      : Port \cup {None},     \* port_id
        claimedBy : Worker \cup {None},
        lease     : LeaseLeft,
        priority  : Priority \cup {0},
        user      : User \cup {None},     \* user_id
        createdAt : CreatedAt]

NoRow == [status |-> "absent", cancel |-> FALSE, port |-> None,
          claimedBy |-> None, lease |-> NoLease, priority |-> 0,
          user |-> None, createdAt |-> 0]

Present(j) == jobs[j].status # "absent"

RunningOn(p) == {j \in JobId : jobs[j].status = "running" /\ jobs[j].port = p}

HasSlot_CountsClaimedOnly(p) ==
    Cardinality({j \in RunningOn(p) : jobs[j].lease > 0}) < MaxConcurrent[p]
HasSlot_OffByOne(p) == Cardinality(RunningOn(p)) <= MaxConcurrent[p]
HasSlot(p) == Cardinality(RunningOn(p)) < MaxConcurrent[p]

\* ORDER BY priority DESC, created_at ASC
Precedes(j, k) ==
    \/ jobs[j].priority > jobs[k].priority
    \/ jobs[j].priority = jobs[k].priority /\ jobs[j].createdAt < jobs[k].createdAt

Waiting == {j \in JobId : jobs[j].status = "queued" /\ ~jobs[j].cancel}

\* The row the UPDATE of claim_job selects for port p; empty when the port is
\* full or nothing waits.
Claimable(p) ==
    {j \in Waiting : HasSlot(p) /\ \A k \in Waiting \ {j} : ~Precedes(k, j)}

Stale_IgnoresLease == {j \in JobId : jobs[j].status = "running"}
Stale == {j \in JobId : jobs[j].status = "running" /\ jobs[j].lease = 0}

StaleCanceled_Skipped == {j \in Stale : FALSE}
StaleCanceled == {j \in Stale : jobs[j].cancel}

Released_KeepsPort(row, status) ==
    [row EXCEPT !.status = status, !.claimedBy = None, !.lease = NoLease]
Released(row, status) ==
    [row EXCEPT !.status = status, !.port = None, !.claimedBy = None,
                !.lease = NoLease]

Claimed_NoLease(row, w, p) ==
    [row EXCEPT !.status = "running", !.port = p, !.claimedBy = w]
Claimed(row, w, p) ==
    [row EXCEPT !.status = "running", !.port = p, !.claimedBy = w,
                !.lease = LeaseTicks]

CancelSeen(j) == Present(j) /\ (jobs[j].cancel \/ jobs[j].status = "canceled")

-----------------------------------------------------------------------------
(* The local state of a worker.  job, port and loaded are the Job object   *)
(* it holds; outcome is the status run_job_on_device left on that object;  *)
(* elapsed and beat are the capture loop's clock and last_heartbeat.       *)
(* claim and until are history: created_at of the row it claimed, and what *)
(* remains of the lease it took (a local of claim_job, dropped there).     *)

Pc == {"idle", "recover", "claim", "claimed", "start", "open", "transfer",
       "capture", "final", "save"}

WorkerState == [pc      : Pc,
                orphans : SUBSET JobId,
                ports   : SUBSET Port,
                job     : JobId \cup {0},
                port    : Port \cup {None},
                loaded  : Status \cup {"none"},
                outcome : Status \cup {"none"},
                elapsed : Elapsed,
                beat    : Nat,
                claim   : CreatedAt,
                until   : LeaseLeft]

Idle == [pc |-> "idle", orphans |-> {}, ports |-> {}, job |-> 0, port |-> None,
         loaded |-> "none", outcome |-> "none", elapsed |-> 0, beat |-> 0,
         claim |-> 0, until |-> 0]

\* The steps of run_job_on_device, and the ones in which it has the port open.
Executing == {"start", "open", "transfer", "capture", "final"}
Driving   == {"transfer", "capture", "final"}

\* run_job_on_device returns: the port is closed, the object carries s.
Return(w, s) == worker' = [worker EXCEPT ![w].pc = "save", ![w].outcome = s]

Goto(w, pc) == worker' = [worker EXCEPT ![w].pc = pc]

BackToIdle(w) == worker' = [worker EXCEPT ![w] = Idle]

-----------------------------------------------------------------------------
(* Submission, deletion and administration.                                *)

ActiveJobs(u) ==
    {j \in JobId : jobs[j].user = u /\ jobs[j].status \in Active}

WithinQuota_CountsQueued(u) ==
    Cardinality({j \in ActiveJobs(u) : jobs[j].status = "queued"}) < MaxQueued
WithinQuota(u) == Cardinality(ActiveJobs(u)) < MaxQueued

\* SQLite hands out one more than the largest id in the table, so the id of a
\* deleted last row is used again.
IsNextId(j) ==
    /\ \A k \in JobId : Present(k) => k < j
    /\ j > 1 => Present(j - 1)

\* create_job: the check and the INSERT are one BEGIN IMMEDIATE transaction.
\* The hourly limit is off (MAX_JOBS_PER_HOUR = 0).
CreateJob(u, j, p) ==
    /\ enabled
    /\ u \in users
    /\ WithinQuota(u)
    /\ IsNextId(j)
    /\ created < MaxCreated
    /\ created' = created + 1
    /\ jobs' = [jobs EXCEPT ![j] =
                   [NoRow EXCEPT !.status = "queued", !.priority = p,
                                 !.user = u, !.createdAt = created + 1]]
    /\ UNCHANGED <<users, worker, pending, enabled, faults>>

\* delete_user: the jobs of the account go with it, running ones included.
DeleteUser(u) ==
    /\ u \in users \cap Deletable
    /\ users' = users \ {u}
    /\ jobs' = [j \in JobId |-> IF jobs[j].user = u THEN NoRow ELSE jobs[j]]
    /\ UNCHANGED <<worker, pending, enabled, created, faults>>

ToggleDevice ==
    /\ AllowToggle
    /\ enabled' = ~enabled
    /\ UNCHANGED <<jobs, users, worker, pending, created, faults>>

-----------------------------------------------------------------------------
(* Cancellation reads a row and commits later; nothing locks it between.   *)

Named(r) == {j \in JobId : pending[r][j] # "none"}

\* cancel_job, and one turn of the loop in bulk_cancel_jobs.
CancelRead(r, j) ==
    /\ pending[r][j] = "none"
    /\ Cardinality(Named(r)) < IF r \in AdminRequest THEN MaxBulk ELSE 1
    /\ ~jobs[j].cancel
    /\ \/ jobs[j].status = "queued"
       \/ jobs[j].status = "running" /\ r \in AdminRequest
    /\ pending' = [pending EXCEPT ![r][j] = jobs[j].status]
    /\ UNCHANGED <<jobs, users, worker, enabled, created, faults>>

CancelWritten(row, read) ==
    IF read = "queued"
    THEN [row EXCEPT !.cancel = TRUE, !.status = "canceled"]
    ELSE [row EXCEPT !.cancel = TRUE]

\* The UPDATEs name the rows by id only; one that is gone aborts them all.
CancelCommit(r) ==
    /\ Named(r) # {}
    /\ pending' = [pending EXCEPT ![r] = [j \in JobId |-> "none"]]
    /\ jobs' = [j \in JobId |->
                  IF j \in Named(r) /\ \A k \in Named(r) : Present(k)
                  THEN CancelWritten(jobs[j], pending[r][j]) ELSE jobs[j]]
    /\ UNCHANGED <<users, worker, enabled, created, faults>>

-----------------------------------------------------------------------------
(* worker_loop and claim_job.                                              *)

\* Top of the loop: a disabled device sleeps; otherwise the queued rows whose
\* cancellation was requested are collected.
BeginCycle(w) ==
    /\ worker[w].pc = "idle"
    /\ enabled
    /\ worker' = [worker EXCEPT
                    ![w].pc = "recover",
                    ![w].orphans = {j \in JobId : jobs[j].status = "queued"
                                                  /\ jobs[j].cancel}]
    /\ UNCHANGED <<jobs, users, pending, enabled, created, faults>>

\* One commit per collected row; a row that is gone ends the cycle.
CancelOrphan(w, j) ==
    /\ worker[w].pc = "recover"
    /\ j \in worker[w].orphans
    /\ IF Present(j)
       THEN /\ jobs' = [jobs EXCEPT ![j].status = "canceled"]
            /\ worker' = [worker EXCEPT ![w].orphans = @ \ {j}]
       ELSE UNCHANGED jobs /\ BackToIdle(w)
    /\ UNCHANGED <<users, pending, enabled, created, faults>>

InClaimJob(w) == worker[w].pc = "recover" /\ worker[w].orphans = {}

FindDisabled(w) ==
    /\ InClaimJob(w)
    /\ ~enabled
    /\ BackToIdle(w)
    /\ UNCHANGED <<jobs, users, pending, enabled, created, faults>>

\* recover_stale_jobs commits at most one of its two updates: when an expired
\* job was to be canceled, the other expired jobs wait for the next poll.
RecoverTo(w, S, status) ==
    /\ InClaimJob(w)
    /\ enabled
    /\ S # {}
    /\ jobs' = [j \in JobId |->
                  IF j \in S THEN Released(jobs[j], status) ELSE jobs[j]]
    /\ worker' = [worker EXCEPT ![w].pc = "claim", ![w].ports = Port]
    /\ UNCHANGED <<users, pending, enabled, created, faults>>

RecoverCanceled(w) == RecoverTo(w, StaleCanceled, "canceled")

RecoverQueued(w) ==
    /\ StaleCanceled = {}
    /\ RecoverTo(w, Stale, "queued")

\* The claim on port p.  Without a row to claim the transaction is rolled back
\* and the next port is tried, until none is left in rest.
ClaimOn(w, p, rest) ==
    /\ \/ \E j \in Claimable(p) :
             /\ jobs' = [jobs EXCEPT ![j] = Claimed(jobs[j], w, p)]
             /\ worker' = [worker EXCEPT
                             ![w] = [Idle EXCEPT !.pc = "claimed", !.job = j,
                                                 !.claim = jobs[j].createdAt,
                                                 !.until = LeaseTicks]]
       \/ /\ Claimable(p) = {}
          /\ UNCHANGED jobs
          /\ IF rest = {}
             THEN BackToIdle(w)
             ELSE worker' = [worker EXCEPT ![w].pc = "claim", ![w].ports = rest]
    /\ UNCHANGED <<users, pending, enabled, created, faults>>

\* With nothing to recover the updates of recover_stale_jobs leave their
\* transaction, and its write lock, open until the first claim ends it.
RecoverNothing(w) ==
    /\ InClaimJob(w)
    /\ enabled
    /\ Stale = {}
    /\ \E p \in Port : ClaimOn(w, p, Port \ {p})

ClaimNext(w) ==
    /\ worker[w].pc = "claim"
    /\ \E p \in worker[w].ports : ClaimOn(w, p, worker[w].ports \ {p})

\* session.get after the commit, in a transaction of its own: the row may be
\* gone, or no longer what the claim made it.
LoadClaimed(w) ==
    LET row == jobs[worker[w].job] IN
    /\ worker[w].pc = "claimed"
    /\ IF row.status = "absent"
       THEN BackToIdle(w)
       ELSE worker' = [worker EXCEPT
                         ![w].pc = IF row.port = None THEN "save" ELSE "start",
                         ![w].port = row.port,
                         ![w].loaded = row.status,
                         ![w].outcome = IF row.port = None THEN "failed"
                                                           ELSE "none"]
    /\ UNCHANGED <<jobs, users, pending, enabled, created, faults>>

-----------------------------------------------------------------------------
(* run_job_on_device.                                                      *)

\* The upload is missing, the port does not open, XMODEM gives up, or any
\* other exception: each is caught and sets the status to failed.
RunFails(w) ==
    /\ worker[w].pc \in Executing
    /\ Return(w, "failed")
    /\ UNCHANGED <<jobs, users, pending, enabled, created, faults>>

\* The first cancellation check.  A job that was not loaded as running keeps
\* the status it was loaded with.
StartJob(w) ==
    /\ worker[w].pc = "start"
    /\ IF CancelSeen(worker[w].job)
       THEN Return(w, IF worker[w].loaded = "running" THEN "canceled"
                                                      ELSE worker[w].loaded)
       ELSE Goto(w, "open")
    /\ UNCHANGED <<jobs, users, pending, enabled, created, faults>>

OpenPort(w) ==
    /\ worker[w].pc = "open"
    /\ Goto(w, "transfer")
    /\ UNCHANGED <<jobs, users, pending, enabled, created, faults>>

\* The transfer polls for cancellation once in sixteen reads and writes: it
\* may see a request or finish before it does.
TransferCanceled(w) ==
    /\ worker[w].pc = "transfer"
    /\ CancelSeen(worker[w].job)
    /\ Return(w, "canceled")
    /\ UNCHANGED <<jobs, users, pending, enabled, created, faults>>

FirstBeat_Zero == 0
FirstBeat == StartEpoch

TransferDone(w) ==
    /\ worker[w].pc = "transfer"
    /\ worker' = [worker EXCEPT ![w].pc = "capture", ![w].elapsed = 0,
                                ![w].beat = FirstBeat]
    /\ UNCHANGED <<jobs, users, pending, enabled, created, faults>>

\* elapsed is a duration; last_heartbeat starts as a wall-clock time.
HeartbeatDue(w) == worker[w].elapsed - worker[w].beat >= HeartbeatInterval

\* One turn of the capture loop that is within max_runtime: the heartbeat, the
\* cancellation check, the read.  It goes on, or the loop ends because a
\* cancellation is seen, the read fails or the port has been idle too long.
CaptureTurn(w) ==
    LET j == worker[w].job IN
    /\ worker[w].pc = "capture"
    /\ worker[w].elapsed <= MaxRuntime
    /\ jobs' = IF HeartbeatDue(w) /\ Present(j)
               THEN [jobs EXCEPT ![j].lease = LeaseTicks] ELSE jobs
    /\ \E next \in IF CancelSeen(j) THEN {"final"} ELSE {"capture", "final"} :
          worker' = [worker EXCEPT
                       ![w].pc = next,
                       ![w].beat = IF HeartbeatDue(w) THEN worker[w].elapsed
                                                      ELSE @]
    /\ UNCHANGED <<users, pending, enabled, created, faults>>

CaptureTimeout(w) ==
    /\ worker[w].pc = "capture"
    /\ worker[w].elapsed > MaxRuntime
    /\ Goto(w, "final")
    /\ UNCHANGED <<jobs, users, pending, enabled, created, faults>>

FinalCheck(w) ==
    /\ worker[w].pc = "final"
    /\ Return(w, IF CancelSeen(worker[w].job) THEN "canceled" ELSE "completed")
    /\ UNCHANGED <<jobs, users, pending, enabled, created, faults>>

\* session.add(job); session.commit(): an UPDATE by id of the attributes that
\* changed since the load.  A row that is gone raises and the result is lost.
Save(w) ==
    LET me == worker[w] IN
    /\ me.pc = "save"
    /\ jobs' = IF Present(me.job) /\ me.outcome # me.loaded
               THEN [jobs EXCEPT ![me.job].status = me.outcome] ELSE jobs
    /\ BackToIdle(w)
    /\ UNCHANGED <<users, pending, enabled, created, faults>>

\* The process dies (its supervisor starts it again), or, outside
\* run_job_on_device, a transaction fails and the loop rolls it back: either
\* way the worker is at the top of its loop and nothing was written.
Interrupt(w) ==
    /\ worker[w].pc # "idle"
    /\ faults < MaxFaults
    /\ faults' = faults + 1
    /\ BackToIdle(w)
    /\ UNCHANGED <<jobs, users, pending, enabled, created>>

-----------------------------------------------------------------------------
(* Time.                                                                   *)

Elapse_PastZero(n) == n - 1
Elapse(n) == IF n > 0 THEN n - 1 ELSE n

TimeMatters ==
    \/ \E j \in JobId : jobs[j].lease > 0
    \/ \E w \in Worker : \/ worker[w].until > 0
                         \/ /\ worker[w].pc = "capture"
                            /\ worker[w].elapsed <= MaxRuntime

\* A tick runs every lease down and every capture clock up.  elapsed stops
\* counting once it has passed MaxRuntime.
Tick ==
    /\ TimeMatters
    /\ jobs' = [j \in JobId |-> [jobs[j] EXCEPT !.lease = Elapse(@)]]
    /\ worker' = [w \in Worker |->
                    [worker[w] EXCEPT
                       !.until = Elapse(@),
                       !.elapsed = IF worker[w].pc = "capture"
                                      /\ worker[w].elapsed <= MaxRuntime
                                   THEN @ + 1 ELSE @]]
    /\ UNCHANGED <<users, pending, enabled, created, faults>>

-----------------------------------------------------------------------------
Init ==
    /\ jobs = [j \in JobId |-> NoRow]
    /\ users = User
    /\ worker = [w \in Worker |-> Idle]
    /\ pending = [r \in Request |-> [j \in JobId |-> "none"]]
    /\ enabled = TRUE
    /\ created = 0
    /\ faults = 0

\* What a worker does when it is scheduled.
WorkerStep(w) ==
    \/ BeginCycle(w)
    \/ \E j \in JobId : CancelOrphan(w, j)
    \/ FindDisabled(w)
    \/ RecoverCanceled(w)
    \/ RecoverQueued(w)
    \/ RecoverNothing(w)
    \/ ClaimNext(w)
    \/ LoadClaimed(w)
    \/ RunFails(w)
    \/ StartJob(w)
    \/ OpenPort(w)
    \/ TransferCanceled(w)
    \/ TransferDone(w)
    \/ CaptureTurn(w)
    \/ CaptureTimeout(w)
    \/ FinalCheck(w)
    \/ Save(w)

Web ==
    \/ \E u \in User, j \in JobId, p \in Priority : CreateJob(u, j, p)
    \/ \E u \in User : DeleteUser(u)
    \/ ToggleDevice
    \/ \E r \in Request, j \in JobId : CancelRead(r, j)
    \/ \E r \in Request : CancelCommit(r)

Next ==
    \/ Web
    \/ \E w \in Worker : WorkerStep(w) \/ Interrupt(w)
    \/ Tick

Spec == Init /\ [][Next]_vars

\* A worker process keeps running and time keeps passing; nobody has to submit
\* or cancel, and no fault has to happen.
FairSpec == Spec /\ (\A w \in Worker : WF_vars(WorkerStep(w))) /\ WF_vars(Tick)

-----------------------------------------------------------------------------
(* The abstract queue this one implements.                                 *)

StageOf(row) ==
    IF row.status = "queued" THEN "waiting"
    ELSE IF row.status \in Terminal THEN "over"
    ELSE row.status

PlaceOf(row) == IF row.status = "running" THEN row.port ELSE None

Board == INSTANCE JobBoard WITH
    Job       <- JobId,
    Slots     <- MaxConcurrent,
    Nowhere   <- None,
    stage     <- [j \in JobId |-> StageOf(jobs[j])],
    at        <- [j \in JobId |-> PlaceOf(jobs[j])],
    withdrawn <- {j \in JobId : jobs[j].cancel}

-----------------------------------------------------------------------------
(* Properties.                                                             *)

\* Every variable ranges over the values the code can give it.
TypeOK ==
    /\ jobs \in [JobId -> Row]
    /\ users \subseteq User
    /\ worker \in [Worker -> WorkerState]
    /\ pending \in [Request -> [JobId -> {"none", "queued", "running"}]]
    /\ enabled \in BOOLEAN
    /\ created \in CreatedAt
    /\ faults \in 0 .. MaxFaults

\* claim_job never lets the rows running on a port exceed its
\* max_concurrent_jobs, whatever order workers, cancellations, recoveries and
\* late writes come in.
PortConcurrency ==
    \A p \in Port : Cardinality(RunningOn(p)) <= MaxConcurrent[p]

\* A queued row carries nothing of an earlier claim (recover_stale_jobs clears
\* it all), and a running row says who runs it, where and until when: a row
\* without a lease could never be recovered.
RowShape ==
    \A j \in JobId :
       /\ jobs[j].status = "queued" =>
             /\ jobs[j].port = None /\ jobs[j].claimedBy = None
             /\ jobs[j].lease = NoLease
       /\ jobs[j].status = "running" =>
             /\ jobs[j].port \in Port /\ jobs[j].claimedBy \in Worker
             /\ jobs[j].lease >= 0

\* The lease a worker took protects its claim: until it runs out, the row is
\* still that worker's, or has reached a final status; it is not back in the
\* queue and no other worker has it.
LeaseProtects ==
    \A w \in Worker :
       LET me == worker[w]  row == jobs[me.job] IN
       me.until > 0 /\ row.createdAt = me.claim =>
          \/ row.status \in Terminal
          \/ row.status = "running" /\ row.claimedBy = w /\ row.lease >= me.until

\* The workers that have port p open under a lease that has not run out, for a
\* job that is still running.
RightfulDrivers(p) ==
    {w \in Worker :
       LET me == worker[w]  row == jobs[me.job] IN
       /\ me.pc \in Driving /\ me.port = p /\ me.until > 0
       /\ row.createdAt = me.claim /\ row.status = "running"}

\* As long as leases are respected and running jobs are not canceled, the
\* limit holds of the devices and not only of the table: no more workers drive
\* a port than max_concurrent_jobs allows.
DriversWithinLimit ==
    \A p \in Port : Cardinality(RightfulDrivers(p)) <= MaxConcurrent[p]

\* No account ever has more queued and running jobs than its quota, although
\* recovery puts running jobs back in the queue.
QuotaRespected ==
    \A u \in User : Cardinality(ActiveJobs(u)) <= MaxQueued

\* Once a job has a final status, or its cancellation has been requested, it
\* never goes back to the queue and is never started again: neither a claim,
\* nor a recovery, nor the late write of a worker that lost the job does that.
NoResurrection ==
    [][\A j \in JobId :
          /\ Present(j) /\ jobs'[j].createdAt = jobs[j].createdAt
          /\ jobs[j].status \in Terminal \/ jobs[j].cancel
          => jobs'[j].status \in Terminal \cup {jobs[j].status}]_vars

\* Claims, recoveries, cancellations, deletions and late writes of workers that
\* lost their job, in any order, amount to what the abstract queue allows.
ImplementsBoard == Board!Spec

\* Every submitted job leaves the queue for good: it ends, is canceled or is
\* deleted, even when workers crash and transactions fail.
EveryJobEnds ==
    \A j \in JobId :
       jobs[j].status \in Active ~> jobs[j].status \notin Active

\* SDD.md 5.5, the state machine: completed, failed and canceled have no
\* outgoing transition.
FinalStatusIsFinal ==
    [][\A j \in JobId :
          /\ jobs[j].status \in Terminal
          /\ jobs'[j].createdAt = jobs[j].createdAt
          => jobs'[j].status = jobs[j].status]_vars

\* _send_heartbeat, called from the capture loop: a turn of the loop that goes
\* on HeartbeatInterval or more into the capture, by the worker that holds the
\* claim, leaves a lease that has been renewed within the interval.
HeartbeatRenewsLease ==
    [][\A w \in Worker :
          /\ CaptureTurn(w) /\ worker[w].elapsed >= HeartbeatInterval
          /\ jobs[worker[w].job].claimedBy = w
          /\ jobs[worker[w].job].createdAt = worker[w].claim
          => jobs'[worker[w].job].lease > LeaseTicks - HeartbeatInterval]_vars
=============================================================================
