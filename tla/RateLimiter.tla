----------------------------- MODULE RateLimiter -----------------------------
(* The request filter of security.py with its SQLite store, which all web  *)
(* processes share.  A request takes the time first, may sweep the table,  *)
(* and then waits for the write lock: it deletes, counts and inserts with  *)
(* a time that may be old by then.                                         *)
EXTENDS Integers, FiniteSets, Sequences

CONSTANTS
    Process,        \* threads that serve requests
    Request,        \* records [endpoint, socket, remote, forwarded, app]
    Endpoint,
    BlueprintOf,    \* the blueprint of each endpoint
    Limits,         \* RATE_LIMITS: name of endpoint or blueprint -> [max, window]
    Trusted,        \* TRUSTED_PROXIES
    BusyTimeout,    \* longest wait for the lock of the database
    MaxAge,         \* MAX_AGE
    SweepInterval,  \* SWEEP_INTERVAL
    MaxClock,       \* bound of the runs: time
    MaxAdmitted     \* bound of the runs: requests admitted

VARIABLES
    clock,      \* time.time(), the same for all processes of the machine
    call,       \* per process: phase and request, its local variable now
                \* (stamp), and when it began to wait for the lock (since)
    lastSweep,  \* _last_sweep of each process
    rows,       \* table rate_limits: the admissions that still have their row
    log         \* history: every admission with its key, time and commit time

vars == <<clock, call, lastSweep, rows, log>>

-----------------------------------------------------------------------------
(* The filter.                                                             *)

ExemptBlueprint == {"health"}
ExemptEndpoint  == {"static"}

IsExempt(r) == \/ r.endpoint \in ExemptEndpoint
               \/ BlueprintOf[r.endpoint] \in ExemptBlueprint
               \/ r.socket

ResolveLimits(e) ==
    IF e \in DOMAIN Limits THEN Limits[e]
    ELSE IF BlueprintOf[e] \in DOMAIN Limits THEN Limits[BlueprintOf[e]]
    ELSE IF "default" \in DOMAIN Limits THEN Limits["default"]
    ELSE [max |-> 0, window |-> 60]

\* The list is read from request.app, which Flask's requests do not have.
TrustedBy(r) == IF r.app THEN Trusted ELSE {}

\* The rightmost forwarded address that is not a trusted proxy.
ClientIp(r) ==
    LET strangers == {i \in DOMAIN r.forwarded : r.forwarded[i] \notin TrustedBy(r)}
    IN  IF r.remote \notin TrustedBy(r) \/ strangers = {} THEN r.remote
        ELSE r.forwarded[CHOOSE i \in strangers : \A j \in strangers : j <= i]

KeyOf(r) == [ip |-> ClientIp(r), endpoint |-> r.endpoint]
Key == {KeyOf(r) : r \in Request}

Max(k)    == ResolveLimits(k.endpoint).max
Window(k) == ResolveLimits(k.endpoint).window

Limited(r) == ~IsExempt(r) /\ Max(KeyOf(r)) > 0

\* The longest time from taking the time to committing: one wait to sweep and
\* one to insert.
Delay == 2 * BusyTimeout

-----------------------------------------------------------------------------
(* The store.                                                              *)

NoCall == [phase |-> "idle", req |-> CHOOSE r \in Request : TRUE, stamp |-> 0, since |-> 0]

Init == /\ clock = 0
        /\ call = [p \in Process |-> NoCall]
        /\ lastSweep = [p \in Process |-> 0 - SweepInterval]
        /\ rows = {}
        /\ log = << >>

SweepDue(p) == clock - lastSweep[p] >= SweepInterval

\* A request that is subject to a limit reads the clock.
Arrive(p, r) ==
    /\ call[p].phase = "idle"
    /\ Limited(r)
    /\ call' = [call EXCEPT ![p] =
                   [phase |-> IF SweepDue(p) THEN "sweep" ELSE "begin",
                    req |-> r, stamp |-> clock, since |-> clock]]
    /\ lastSweep' = IF SweepDue(p) THEN [lastSweep EXCEPT ![p] = clock] ELSE lastSweep
    /\ UNCHANGED <<clock, rows, log>>

\* Mutant: the sweep forgets MAX_AGE.
Ancient_AnyAge(now) == {i \in rows : log[i].stamp < now}

Ancient(now) == {i \in rows : log[i].stamp < now - MaxAge}

\* The sweep, in a transaction of its own; its failure is only logged.
Sweep(p) ==
    /\ call[p].phase = "sweep"
    /\ call' = [call EXCEPT ![p].phase = "begin", ![p].since = clock]
    /\ \/ rows' = rows \ Ancient(call[p].stamp)
       \/ rows' = rows
    /\ UNCHANGED <<clock, lastSweep, log>>

\* Mutant: the delete forgets the time.
Outdated_Never(k, now) == {i \in rows : log[i].key = k /\ log[i].stamp < 0}

Outdated(k, now) == {i \in rows : log[i].key = k /\ log[i].stamp < now - Window(k)}

\* What the immediate transaction counts, after its delete.
Counted(k, now) == {i \in rows : log[i].key = k} \ Outdated(k, now)

\* It inserts, or refuses.
Admit(p) ==
    LET k == KeyOf(call[p].req)
        now == call[p].stamp
    IN  /\ call[p].phase = "begin"
        /\ Len(log) < MaxAdmitted
        /\ Cardinality(Counted(k, now)) < Max(k)
        /\ log' = Append(log, [key |-> k, stamp |-> now, at |-> clock])
        /\ rows' = (rows \ Outdated(k, now)) \cup {Len(log) + 1}
        /\ call' = [call EXCEPT ![p] = NoCall]
        /\ UNCHANGED <<clock, lastSweep>>

Refuse(p) ==
    LET k == KeyOf(call[p].req)
        now == call[p].stamp
    IN  /\ call[p].phase = "begin"
        /\ Cardinality(Counted(k, now)) >= Max(k)
        /\ rows' = rows \ Outdated(k, now)
        /\ call' = [call EXCEPT ![p].phase = "refused"]
        /\ UNCHANGED <<clock, lastSweep, log>>

\* The answer 429, or the database stays locked: rolled back and raised.
Return(p) == /\ call[p].phase \in {"refused", "begin"}
             /\ call' = [call EXCEPT ![p] = NoCall]
             /\ UNCHANGED <<clock, lastSweep, rows, log>>

\* Nobody waits for the lock longer than the busy timeout.
Tick == /\ clock < MaxClock
        /\ \A p \in Process :
              call[p].phase \in {"sweep", "begin"} => clock < call[p].since + BusyTimeout
        /\ clock' = clock + 1
        /\ UNCHANGED <<call, lastSweep, rows, log>>

Next == \/ Tick
        \/ \E p \in Process : \/ \E r \in Request : Arrive(p, r)
                              \/ Sweep(p) \/ Admit(p) \/ Refuse(p) \/ Return(p)

Spec == Init /\ [][Next]_vars

-----------------------------------------------------------------------------
(* Properties.                                                             *)

Admission == [key : Key, stamp : Nat, at : Nat]

Call == [phase : {"idle", "sweep", "begin", "refused"}, req : Request,
         stamp : Nat, since : Nat]

\* Types; a row belongs to an admission (rate_limits, security.py:104-112).
TypeOK == /\ clock \in Nat
          /\ call \in [Process -> Call]
          /\ lastSweep \in [Process -> Int]
          /\ log \in Seq(Admission)
          /\ rows \subseteq DOMAIN log

AdmittedIn(k, first, last) ==
    {i \in DOMAIN log : log[i].key = k /\ log[i].at \in first .. last}

\* In any stretch of time shorter than the window by the longest wait for the
\* lock, a client gets at most its limit of requests through, however many
\* processes serve it, although each inserts a time taken before it had the
\* lock and deletes by it (check, security.py:128-158).
WindowBound ==
    \A k \in Key : Max(k) > 0 =>
        \A t \in 0 .. clock :
            Cardinality(AdmittedIn(k, t, t + Window(k) - Delay)) <= Max(k)

\* The client of p has had its whole limit of requests admitted, each with a
\* time inside the window of its present one.
HadItsLimit(p) ==
    LET k == KeyOf(call[p].req)
        inside == {i \in DOMAIN log : /\ log[i].key = k
                                      /\ log[i].stamp >= call[p].stamp - Window(k)}
    IN  Cardinality(inside) >= Max(k)

\* A request is refused only if its client has had its whole limit admitted:
\* rows of other clients or of an earlier window never count (check, 137-147).
RefusedOverLimit ==
    \A p \in Process :
       call[p].phase = "begin" /\ call'[p].phase = "refused" => HadItsLimit(p)

RefusalJustified == [][RefusedOverLimit]_vars
=============================================================================
