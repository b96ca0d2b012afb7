-------------------------------- MODULE Login --------------------------------
(* Logging in (auth/routes.py): the throttle is asked, the password checked *)
(* and the attempt recorded in separate transactions, by requests that run *)
(* side by side in the threads of the web processes.                       *)
EXTENDS Integers, FiniteSets, Sequences

CONSTANTS
    Thread,
    Ip,
    Username,       \* the accounts, and names that have none
    Account,        \* those of them that exist
    MaxFailed,      \* MAX_FAILED_ATTEMPTS
    ThrottleWindow,         \* THROTTLE_WINDOW_MINUTES
    MaxClock,       \* bounds of the runs: time, attempts recorded
    MaxAttempts

VARIABLES
    clock,
    login,      \* per thread: phase, ip, name and cutoff of its request
    attempts,   \* every login attempt that was recorded, in order
    present,    \* table login_attempts: those of them that have a row
    notices,    \* history: <<name, ip>> whose owner was told of a new address
    parallel    \* history: <<name, ip>> that logged in twice at a time

vars == <<clock, login, attempts, present, notices, parallel>>

NoLogin == [phase |-> "idle", ip |-> CHOOSE i \in Ip : TRUE,
            name |-> CHOOSE u \in Username : TRUE, cutoff |-> 0]

Init == /\ clock = 0
        /\ login = [t \in Thread |-> NoLogin]
        /\ attempts = << >>
        /\ present = {}
        /\ notices = {}
        /\ parallel = {}

At(t, phase) == login[t].phase = phase
Go(t, phase) == login' = [login EXCEPT ![t].phase = phase]
Leave(t)     == login' = [login EXCEPT ![t] = NoLogin]

\* Rows of the table, by their columns.
RowsWith(name, success) ==
    {i \in present : attempts[i].name = name /\ attempts[i].success = success}
RowsFrom(ip, name, success) == {i \in RowsWith(name, success) : attempts[i].ip = ip}
Since(rows, cutoff) == {i \in rows : attempts[i].at >= cutoff}

\* A login form is posted: _is_throttled takes the time.
Post(t, ip, name) ==
    /\ At(t, "idle")
    /\ Len(attempts) < MaxAttempts
    /\ login' = [login EXCEPT ![t] = [phase |-> "pair", ip |-> ip, name |-> name,
                                      cutoff |-> clock - ThrottleWindow]]
    /\ UNCHANGED <<clock, attempts, present, notices>>

TooMany(rows, cutoff) == Cardinality(Since(rows, cutoff)) >= MaxFailed

\* Its first query, by address and name; then by name alone.
CheckPair(t) ==
    /\ At(t, "pair")
    /\ IF TooMany(RowsFrom(login[t].ip, login[t].name, FALSE), login[t].cutoff)
       THEN Leave(t) ELSE Go(t, "name")
    /\ UNCHANGED <<clock, attempts, present, notices>>

\* Mutant: the throttle looks at the pair only.
CheckName_NoCount(t) == /\ At(t, "name")
                        /\ Go(t, "verify")
                        /\ UNCHANGED <<clock, attempts, present, notices>>

CheckName(t) ==
    /\ At(t, "name")
    /\ IF TooMany(RowsWith(login[t].name, FALSE), login[t].cutoff)
       THEN Leave(t) ELSE Go(t, "verify")
    /\ UNCHANGED <<clock, attempts, present, notices>>

\* The account is read and the password checked.
Verify(t) ==
    /\ At(t, "verify")
    /\ \/ login[t].name \in Account /\ Go(t, "clear")
       \/ Go(t, "failed")
    /\ UNCHANGED <<clock, attempts, present, notices>>

Record(t, success) ==
    /\ attempts' = Append(attempts, [ip |-> login[t].ip, name |-> login[t].name,
                                     success |-> success, at |-> clock])
    /\ present' = present \cup {Len(attempts) + 1}

RecordFailure(t) ==
    /\ At(t, "failed")
    /\ Record(t, FALSE)
    /\ Leave(t)
    /\ UNCHANGED <<clock, notices>>

\* _clear_failed_attempts: the failures of this address, not those of others.
Clearable(t) == Since(RowsFrom(login[t].ip, login[t].name, FALSE), clock - ThrottleWindow)

ClearFailures(t) ==
    /\ At(t, "clear")
    /\ present' = present \ Clearable(t)
    /\ Go(t, "success")
    /\ UNCHANGED <<clock, attempts, notices>>

RecordSuccess(t) ==
    /\ At(t, "success")
    /\ Record(t, TRUE)
    /\ Go(t, "notify")
    /\ UNCHANGED <<clock, notices>>

\* Mutant: the count forgets that it includes the login itself.
IsNewAddress_None(t) == RowsFrom(login[t].ip, login[t].name, TRUE) = {}

\* The owner is told of the first login from an address.
IsNewAddress(t) == Cardinality(RowsFrom(login[t].ip, login[t].name, TRUE)) <= 1

Notify(t) ==
    /\ At(t, "notify")
    /\ notices' = IF IsNewAddress(t) THEN notices \cup {<<login[t].name, login[t].ip>>}
                  ELSE notices
    /\ Leave(t)
    /\ UNCHANGED <<clock, attempts, present>>

\* A transaction fails (the database is locked), and the request with it.
Fail(t) == /\ login[t].phase \in {"failed", "clear", "success"}
           /\ Leave(t)
           /\ UNCHANGED <<clock, attempts, present, notices>>

Tick == /\ clock < MaxClock
        /\ clock' = clock + 1
        /\ UNCHANGED <<login, attempts, present, notices>>

Step == \/ Tick
        \/ \E t \in Thread :
              \/ \E ip \in Ip, name \in Username : Post(t, ip, name)
              \/ CheckPair(t) \/ CheckName(t) \/ Verify(t)
              \/ RecordFailure(t) \/ ClearFailures(t) \/ RecordSuccess(t)
              \/ Notify(t) \/ Fail(t)

Pair(t) == <<login[t].name, login[t].ip>>
Notifying(p) == {t \in Thread : At(t, "notify") /\ Pair(t) = p}

Next == /\ Step
        /\ parallel' = parallel \cup
              {p \in Username \X Ip : Cardinality(Notifying(p)') > 1}

Spec == Init /\ [][Next]_vars

-----------------------------------------------------------------------------
(* Properties.                                                             *)

\* However requests for an account, from one address or many, run side by
\* side: in any window the failures it has on record exceed the limit by at
\* most the requests that passed the check before the last of them was
\* recorded (login, auth/routes.py:111-156).
ThrottleBound ==
    \A name \in Username, t \in 0 .. clock :
        Cardinality({i \in RowsWith(name, FALSE) : attempts[i].at \in t .. t + ThrottleWindow})
            <= MaxFailed + Cardinality(Thread) - 1

\* The owner of an account is told of every address it is used from, unless
\* two logins from that address counted each other (137-148).
NewAddressTold ==
    \A name \in Username, ip \in Ip :
        /\ RowsFrom(ip, name, TRUE) # {}
        /\ Notifying(<<name, ip>>) = {}
        /\ <<name, ip>> \notin parallel
        => <<name, ip>> \in notices
=============================================================================
