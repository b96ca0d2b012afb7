-------------------------- MODULE RateLimiterProofs --------------------------
(* Theorems about the two stores of request counts.  RateLimiter: for any   *)
(* number of processes, requests and admissions and any limits whose windows *)
(* the assumption allows.  MemoryStore: for any threads, keys, limit, window *)
(* and longest time of a check.                                            *)
EXTENDS Web, FiniteSetTheorems, SequenceTheorems, TLAPS

-----------------------------------------------------------------------------
(* The inductive invariant.  TypeOK is not inductive by itself: a request   *)
(* under way is one that is subject to a limit, so that its window is a     *)
(* number.                                                                  *)

\* The keys whose requests are counted.
LimitedKey == {k \in Limiter!Key : Limiter!Max(k) > 0}

\* A request under way waits for the lock since it began to wait, and took its
\* time at most one wait earlier.
CallsInTime ==
    \A p \in Process :
       LET c == call[p] IN
       /\ c.stamp <= c.since /\ c.since <= clock
       /\ c.phase # "idle" => Limiter!Limited(c.req)
       /\ c.phase = "sweep" => c.since = c.stamp
       /\ c.phase \in {"sweep", "begin"} => clock <= c.since + BusyTimeout
       /\ c.phase = "begin" => c.since <= c.stamp + BusyTimeout

\* An admission commits at most two waits after its time.
LogInTime ==
    \A i \in DOMAIN log : /\ log[i].key \in LimitedKey
                          /\ log[i].at <= clock
                          /\ log[i].at <= log[i].stamp + Limiter!Delay

\* Nothing has deleted the row of an admission before its window, less the
\* longest delay, has passed.
RowsKept == \A i \in DOMAIN log :
               clock <= log[i].at + Limiter!Window(log[i].key) - Limiter!Delay => i \in rows

IInv == Limiter!TypeOK /\ CallsInTime /\ LogInTime /\ RowsKept

\* The instance counts as this module does.
LEMMA LimiterCardinality == \A S : Limiter!Cardinality(S) = Cardinality(S)
  BY DEF Limiter!Cardinality, Cardinality

LEMMA DelayType == Limiter!Delay \in Nat /\ Limiter!Delay = BusyTimeout + BusyTimeout
  BY LimiterAssumption DEF Limiter!Delay

LEMMA KeyFacts ==
    /\ \A k \in LimitedKey : Limiter!Max(k) \in Nat /\ Limiter!Window(k) \in Nat
                             /\ Limiter!Delay <= Limiter!Window(k) /\ Limiter!Window(k) <= MaxAge
    /\ \A r \in Request : Limiter!Limited(r) => Limiter!KeyOf(r) \in LimitedKey
    /\ \A r \in Request : Limiter!KeyOf(r) \in Limiter!Key
    /\ \A k \in Limiter!Key : Limiter!Max(k) \in Nat
<1>1. \A k \in Limiter!Key : /\ Limiter!Max(k) \in Nat
                             /\ Limiter!Max(k) > 0 => Limiter!Window(k) \in Limiter!Delay .. MaxAge
  BY LimiterAssumption DEF Limiter!Key
<1>2. \A r \in Request : Limiter!KeyOf(r) \in Limiter!Key
  BY DEF Limiter!Key
<1>3. \A r \in Request : Limiter!Limited(r) => Limiter!Max(Limiter!KeyOf(r)) > 0
  BY DEF Limiter!Limited
<1>4. \A k \in LimitedKey : k \in Limiter!Key /\ Limiter!Max(k) > 0
  BY DEF LimitedKey
<1>5. \A k \in LimitedKey : Limiter!Window(k) \in Limiter!Delay .. MaxAge /\ Limiter!Max(k) \in Nat
  BY <1>1, <1>4
<1>6. \A k \in LimitedKey : /\ Limiter!Window(k) \in Nat
                            /\ Limiter!Delay <= Limiter!Window(k) /\ Limiter!Window(k) <= MaxAge
  BY <1>5, DelayType, LimiterAssumption
<1>7. \A r \in Request : Limiter!Limited(r) => Limiter!KeyOf(r) \in LimitedKey
  BY <1>2, <1>3 DEF LimitedKey
<1> QED
  BY <1>1, <1>2, <1>5, <1>6, <1>7

LEMMA NoCallIsCall == Limiter!NoCall \in Limiter!Call /\ Limiter!NoCall.phase = "idle"
                      /\ Limiter!NoCall.stamp = 0 /\ Limiter!NoCall.since = 0
  BY LimiterAssumption DEF Limiter!NoCall, Limiter!Call

LEMMA LogTypes ==
    ASSUME Limiter!TypeOK
    PROVE  /\ DOMAIN log = 1 .. Len(log) /\ Len(log) \in Nat /\ IsFiniteSet(DOMAIN log)
           /\ \A i \in DOMAIN log : /\ log[i] \in Limiter!Admission
                                    /\ log[i].at \in Nat /\ log[i].stamp \in Nat
<1>1. log \in Seq(Limiter!Admission) /\ DOMAIN log = 1 .. Len(log) /\ Len(log) \in Nat
  BY DEF Limiter!TypeOK
<1>2. \A i \in DOMAIN log : log[i] \in Limiter!Admission
  BY <1>1
<1>3. \A i \in DOMAIN log : log[i].at \in Nat /\ log[i].stamp \in Nat
  BY <1>2 DEF Limiter!Admission
<1>4. IsFiniteSet(DOMAIN log)
  BY <1>1, FS_Interval
<1> QED
  BY <1>1, <1>2, <1>3, <1>4

-----------------------------------------------------------------------------
(* The rows a step may delete are those whose window has passed.            *)

\* A deleting transaction whose time is not after the clock spares every row
\* that RowsKept protects.
LEMMA DeletesOnlyPast ==
    ASSUME IInv, NEW now \in Nat, now <= clock, NEW i \in DOMAIN log,
           clock <= log[i].at + Limiter!Window(log[i].key) - Limiter!Delay
    PROVE  /\ i \in rows
           /\ i \notin Limiter!Ancient(now)
           /\ \A k \in LimitedKey : i \notin Limiter!Outdated(k, now)
<1>1. log[i] \in Limiter!Admission
  BY DEF IInv, Limiter!TypeOK
<1>2. log[i].key \in LimitedKey /\ log[i].at <= log[i].stamp + Limiter!Delay
  BY DEF IInv, LogInTime
<1>3. Limiter!Window(log[i].key) \in Nat /\ Limiter!Window(log[i].key) <= MaxAge
  BY <1>2, KeyFacts
<1>4. log[i].stamp \in Nat /\ log[i].at \in Nat
  BY <1>1 DEF Limiter!Admission
<1>5. clock \in Nat /\ MaxAge \in Nat
  BY LimiterAssumption DEF IInv, Limiter!TypeOK
<1>6. log[i].stamp >= now - Limiter!Window(log[i].key) /\ log[i].stamp >= now - MaxAge
  BY <1>2, <1>3, <1>4, <1>5, DelayType
<1>7. i \in rows
  BY DEF IInv, RowsKept
<1>8. i \notin Limiter!Ancient(now)
  BY <1>3, <1>4, <1>5, <1>6 DEF Limiter!Ancient
<1>9. \A k \in LimitedKey : i \notin Limiter!Outdated(k, now)
  BY <1>3, <1>4, <1>5, <1>6 DEF Limiter!Outdated
<1> QED
  BY <1>7, <1>8, <1>9

LEMMA InitInv == Limiter!Init => IInv
<1> SUFFICES ASSUME Limiter!Init PROVE IInv
  OBVIOUS
<1>1. Limiter!TypeOK
  BY NoCallIsCall, LimiterAssumption DEF Limiter!Init, Limiter!TypeOK
<1>2. CallsInTime
  BY NoCallIsCall, LimiterAssumption DEF Limiter!Init, CallsInTime
<1>3. LogInTime /\ RowsKept
  BY DEF Limiter!Init, LogInTime, RowsKept
<1> QED
  BY <1>1, <1>2, <1>3 DEF IInv

LEMMA NextInv == IInv /\ [Limiter!Next]_Limiter!vars => IInv'
<1> SUFFICES ASSUME IInv, [Limiter!Next]_Limiter!vars PROVE IInv'
  OBVIOUS
<1> USE DEF IInv
<1>0. /\ clock \in Nat /\ call \in [Process -> Limiter!Call] /\ log \in Seq(Limiter!Admission)
      /\ BusyTimeout \in Nat
  BY LimiterAssumption DEF Limiter!TypeOK
<1>1. CASE Limiter!Tick
  <2>1. clock' = clock + 1 /\ UNCHANGED <<call, lastSweep, rows, log>>
    BY <1>1 DEF Limiter!Tick
  <2>2. Limiter!TypeOK'
    BY <2>1 DEF Limiter!TypeOK
  <2>3. CallsInTime'
    <3> SUFFICES ASSUME NEW p \in Process
                 PROVE  LET c == call[p] IN
                        /\ c.stamp <= c.since /\ c.since <= clock + 1
                        /\ c.phase # "idle" => Limiter!Limited(c.req)
                        /\ c.phase = "sweep" => c.since = c.stamp
                        /\ c.phase \in {"sweep", "begin"} => clock + 1 <= c.since + BusyTimeout
                        /\ c.phase = "begin" => c.since <= c.stamp + BusyTimeout
      BY <2>1 DEF CallsInTime
    <3>1. call[p].stamp \in Nat /\ call[p].since \in Nat
      BY <1>0 DEF Limiter!Call
    <3>2. call[p].phase \in {"sweep", "begin"} => clock < call[p].since + BusyTimeout
      BY <1>1 DEF Limiter!Tick
    <3> QED
      BY <1>0, <3>1, <3>2 DEF CallsInTime
  <2>4. \A i \in DOMAIN log : log[i].at \in Nat /\ log[i].stamp \in Nat
    BY LogTypes
  <2>5. LogInTime'
    BY <1>0, <2>1, <2>4 DEF LogInTime
  <2>6. RowsKept'
    <3> SUFFICES ASSUME NEW i \in DOMAIN log,
                        clock + 1 <= log[i].at + Limiter!Window(log[i].key) - Limiter!Delay
                 PROVE  i \in rows
      BY <2>1 DEF RowsKept
    <3>1. log[i].key \in LimitedKey
      BY DEF LogInTime
    <3>2. Limiter!Window(log[i].key) \in Nat
      BY <3>1, KeyFacts
    <3> QED
      BY <1>0, <2>4, <3>2, DelayType DEF RowsKept
  <2> QED
    BY <2>2, <2>3, <2>5, <2>6
<1>2. ASSUME NEW p \in Process, NEW r \in Request, Limiter!Arrive(p, r) PROVE IInv'
  <2>1. UNCHANGED <<clock, rows, log>>
    BY <1>2 DEF Limiter!Arrive
  <2> DEFINE c == [phase |-> IF Limiter!SweepDue(p) THEN "sweep" ELSE "begin",
                   req |-> r, stamp |-> clock, since |-> clock]
  <2>2. call' = [call EXCEPT ![p] = c] /\ c \in Limiter!Call /\ Limiter!Limited(r)
    BY <1>0, <1>2 DEF Limiter!Arrive, Limiter!Call
  <2>3. lastSweep' \in [Process -> Int]
    BY <1>0, <1>2 DEF Limiter!Arrive, Limiter!TypeOK
  <2>4. Limiter!TypeOK'
    BY <1>0, <2>1, <2>2, <2>3 DEF Limiter!TypeOK
  <2>5. /\ c.stamp = clock /\ c.since = clock /\ c.req = r
        /\ c.phase \in {"sweep", "begin"}
    OBVIOUS
  <2>6. CallsInTime'
    <3> HIDE DEF c
    <3>1. \A q \in Process : call'[q] = IF q = p THEN c ELSE call[q]
      BY <1>0, <2>2
    <3> QED
      BY <1>0, <2>1, <2>2, <2>5, <3>1 DEF CallsInTime
  <2>7. LogInTime' /\ RowsKept'
    BY <2>1 DEF LogInTime, RowsKept
  <2> QED
    BY <2>4, <2>6, <2>7
<1>3. ASSUME NEW p \in Process, Limiter!Sweep(p) PROVE IInv'
  <2>1. UNCHANGED <<clock, lastSweep, log>> /\ call[p].phase = "sweep"
    BY <1>3 DEF Limiter!Sweep
  <2> DEFINE c == [call[p] EXCEPT !.phase = "begin", !.since = clock]
  <2>2. call' = [call EXCEPT ![p] = c]
    BY <1>0, <1>3 DEF Limiter!Sweep
  <2>3. call[p] \in Limiter!Call /\ Limiter!Limited(call[p].req) /\ call[p].stamp \in Nat
        /\ call[p].stamp <= clock /\ clock <= call[p].stamp + BusyTimeout
    <3>1. call[p] \in Limiter!Call /\ call[p].stamp \in Nat /\ call[p].since \in Nat
      BY <1>0 DEF Limiter!Call
    <3> QED
      BY <1>0, <2>1, <3>1 DEF CallsInTime
  <2>4. c \in Limiter!Call /\ c.stamp = call[p].stamp /\ c.since = clock /\ c.phase = "begin"
        /\ c.req = call[p].req
    BY <1>0, <2>3 DEF Limiter!Call
  <2>5. rows' = rows \/ rows' = rows \ Limiter!Ancient(call[p].stamp)
    BY <1>3 DEF Limiter!Sweep
  <2> HIDE DEF c
  <2>6. Limiter!TypeOK'
    BY <1>0, <2>1, <2>2, <2>4, <2>5 DEF Limiter!TypeOK
  <2>7. CallsInTime'
    <3>1. \A q \in Process : call'[q] = IF q = p THEN c ELSE call[q]
      BY <1>0, <2>2
    <3> QED
      BY <1>0, <2>1, <2>3, <2>4, <3>1 DEF CallsInTime
  <2>8. LogInTime'
    BY <2>1 DEF LogInTime
  <2>9. RowsKept'
    <3> SUFFICES ASSUME NEW i \in DOMAIN log,
                        clock <= log[i].at + Limiter!Window(log[i].key) - Limiter!Delay
                 PROVE  i \in rows'
      BY <2>1 DEF RowsKept
    <3> QED
      BY <2>3, <2>5, DeletesOnlyPast
  <2> QED
    BY <2>6, <2>7, <2>8, <2>9
<1>4. ASSUME NEW p \in Process, Limiter!Admit(p) PROVE IInv'
  <2> DEFINE k == Limiter!KeyOf(call[p].req)
             now == call[p].stamp
             e == [key |-> k, stamp |-> now, at |-> clock]
             n == Len(log) + 1
  <2>1. /\ call[p].phase = "begin"
        /\ log' = Append(log, e)
        /\ rows' = (rows \ Limiter!Outdated(k, now)) \cup {n}
        /\ call' = [call EXCEPT ![p] = Limiter!NoCall]
        /\ UNCHANGED <<clock, lastSweep>>
    BY <1>4 DEF Limiter!Admit
  <2>2. call[p] \in Limiter!Call /\ now \in Nat /\ call[p].since \in Nat /\ call[p].req \in Request
    BY <1>0 DEF Limiter!Call
  <2>3. Limiter!Limited(call[p].req) /\ now <= clock /\ clock <= now + Limiter!Delay
    BY <1>0, <2>1, <2>2, DelayType DEF CallsInTime
  <2>4. k \in LimitedKey /\ k \in Limiter!Key
    BY <2>2, <2>3, KeyFacts
  <2>5. e \in Limiter!Admission
    BY <1>0, <2>2, <2>4 DEF Limiter!Admission
  <2> HIDE DEF k, now, e
  <2>6. /\ log' \in Seq(Limiter!Admission) /\ DOMAIN log' = DOMAIN log \cup {n}
        /\ n \notin DOMAIN log /\ log'[n] = e
        /\ \A i \in DOMAIN log : log'[i] = log[i]
    BY <1>0, <2>1, <2>5
  <2>7. Limiter!TypeOK'
    BY <1>0, <2>1, <2>6, NoCallIsCall DEF Limiter!TypeOK
  <2>8. CallsInTime'
    <3>1. \A q \in Process : call'[q] = IF q = p THEN Limiter!NoCall ELSE call[q]
      BY <1>0, <2>1
    <3> QED
      BY <1>0, <2>1, <3>1, NoCallIsCall DEF CallsInTime
  <2>9. e.key = k /\ e.stamp = now /\ e.at = clock
    BY DEF e
  <2>10. LogInTime'
    BY <1>0, <2>1, <2>3, <2>4, <2>6, <2>9 DEF LogInTime
  <2>11. RowsKept'
    <3> SUFFICES ASSUME NEW i \in DOMAIN log, i # n,
                        clock <= log[i].at + Limiter!Window(log[i].key) - Limiter!Delay
                 PROVE  i \in rows'
      BY <2>1, <2>6 DEF RowsKept
    <3> QED
      BY <2>1, <2>2, <2>3, <2>4, DeletesOnlyPast DEF now
  <2> QED
    BY <2>7, <2>8, <2>10, <2>11
<1>5. ASSUME NEW p \in Process, Limiter!Refuse(p) PROVE IInv'
  <2> DEFINE k == Limiter!KeyOf(call[p].req)
             now == call[p].stamp
             c == [call[p] EXCEPT !.phase = "refused"]
  <2>1. /\ call[p].phase = "begin"
        /\ rows' = rows \ Limiter!Outdated(k, now)
        /\ call' = [call EXCEPT ![p] = c]
        /\ UNCHANGED <<clock, lastSweep, log>>
    BY <1>0, <1>5 DEF Limiter!Refuse
  <2>2. call[p] \in Limiter!Call /\ now \in Nat /\ call[p].since \in Nat /\ call[p].req \in Request
    BY <1>0 DEF Limiter!Call
  <2>3. Limiter!Limited(call[p].req) /\ now <= clock
    BY <1>0, <2>1, <2>2 DEF CallsInTime
  <2>4. k \in LimitedKey
    BY <2>2, <2>3, KeyFacts
  <2>5. c \in Limiter!Call /\ c.stamp = now /\ c.since = call[p].since /\ c.phase = "refused"
        /\ c.req = call[p].req
    BY <2>2 DEF Limiter!Call
  <2> HIDE DEF c, k
  <2>6. Limiter!TypeOK'
    BY <1>0, <2>1, <2>5 DEF Limiter!TypeOK
  <2>7. CallsInTime'
    <3>1. \A q \in Process : call'[q] = IF q = p THEN c ELSE call[q]
      BY <1>0, <2>1
    <3> QED
      BY <1>0, <2>1, <2>3, <2>5, <3>1 DEF CallsInTime
  <2>8. LogInTime'
    BY <2>1 DEF LogInTime
  <2>9. RowsKept'
    <3> SUFFICES ASSUME NEW i \in DOMAIN log,
                        clock <= log[i].at + Limiter!Window(log[i].key) - Limiter!Delay
                 PROVE  i \in rows'
      BY <2>1 DEF RowsKept
    <3> QED
      BY <2>1, <2>2, <2>3, <2>4, DeletesOnlyPast
  <2> QED
    BY <2>6, <2>7, <2>8, <2>9
<1>6. ASSUME NEW p \in Process, Limiter!Return(p) PROVE IInv'
  <2>1. /\ call' = [call EXCEPT ![p] = Limiter!NoCall]
        /\ UNCHANGED <<clock, lastSweep, rows, log>>
    BY <1>6 DEF Limiter!Return
  <2>2. Limiter!TypeOK'
    BY <1>0, <2>1, NoCallIsCall DEF Limiter!TypeOK
  <2>3. CallsInTime'
    <3>1. \A q \in Process : call'[q] = IF q = p THEN Limiter!NoCall ELSE call[q]
      BY <1>0, <2>1
    <3> QED
      BY <1>0, <2>1, <3>1, NoCallIsCall DEF CallsInTime
  <2>4. LogInTime' /\ RowsKept'
    BY <2>1 DEF LogInTime, RowsKept
  <2> QED
    BY <2>2, <2>3, <2>4
<1>7. CASE UNCHANGED Limiter!vars
  BY <1>7 DEF Limiter!vars, Limiter!TypeOK, CallsInTime, LogInTime, RowsKept
<1> QED
  BY <1>1, <1>2, <1>3, <1>4, <1>5, <1>6, <1>7 DEF Limiter!Next

\* The part of Web that RateLimiter is.
LEMMA LimiterStart == Init /\ part = "limiter" => Limiter!Init
  BY DEF Init

LEMMA LimiterStep ==
    ASSUME [Next]_allVars, part = "limiter"
    PROVE  part' = "limiter" /\ [Limiter!Next]_Limiter!vars
  BY DEF Next, allVars, limiterVars, Limiter!vars

\* The database, the requests and their waits keep their types and times
\* (rate_limits and the connections of security.py:90-126).
THEOREM LimiterInvariant == Spec => [](part = "limiter" => IInv)
<1> DEFINE Inv == part = "limiter" => IInv
<1>1. Init => Inv
  BY InitInv, LimiterStart
<1>2. Inv /\ [Next]_allVars => Inv'
  <2>1. [Next]_allVars => part' = part
    BY DEF Next, allVars
  <2> QED
    BY <2>1, NextInv, LimiterStep
<1> QED
  BY <1>1, <1>2, PTL DEF Spec

\* Every variable keeps its type (security.py:90-158).
THEOREM TypeCorrectness == Spec => []LimiterTypeOK
<1>1. (part = "limiter" => IInv) => LimiterTypeOK
  BY DEF IInv, LimiterTypeOK
<1> QED
  BY <1>1, LimiterInvariant, PTL

-----------------------------------------------------------------------------
(* The bound.                                                               *)

LEMMA Finiteness ==
    ASSUME Limiter!TypeOK
    PROVE  /\ IsFiniteSet(rows)
           /\ \A k, first, last : IsFiniteSet(Limiter!AdmittedIn(k, first, last))
<1>1. IsFiniteSet(DOMAIN log) /\ rows \in SUBSET DOMAIN log
  BY LogTypes DEF Limiter!TypeOK
<1>2. \A k, first, last : Limiter!AdmittedIn(k, first, last) \in SUBSET DOMAIN log
  BY DEF Limiter!AdmittedIn
<1> QED
  BY <1>1, <1>2, FS_Subset

\* What the immediate transaction counts includes every admission of a stretch
\* that is not over.
LEMMA StretchIsCounted ==
    ASSUME IInv, NEW k \in LimitedKey, NEW t \in Nat, NEW now \in Nat,
           now <= clock, clock <= t + Limiter!Window(k) - Limiter!Delay
    PROVE  Limiter!AdmittedIn(k, t, t + Limiter!Window(k) - Limiter!Delay)
              \subseteq Limiter!Counted(k, now)
<1> SUFFICES ASSUME NEW i \in Limiter!AdmittedIn(k, t, t + Limiter!Window(k) - Limiter!Delay)
             PROVE  i \in Limiter!Counted(k, now)
  OBVIOUS
<1>1. i \in DOMAIN log /\ log[i].key = k /\ t <= log[i].at /\ log[i].at \in Nat
  BY DEF Limiter!AdmittedIn, IInv, Limiter!TypeOK, Limiter!Admission
<1>2. Limiter!Window(k) \in Nat /\ clock \in Nat
  BY KeyFacts DEF IInv, Limiter!TypeOK
<1>3. clock <= log[i].at + Limiter!Window(log[i].key) - Limiter!Delay
  BY <1>1, <1>2, DelayType
<1>4. i \in rows /\ i \notin Limiter!Outdated(k, now)
  BY <1>1, <1>3, DeletesOnlyPast
<1> QED
  BY <1>1, <1>4 DEF Limiter!Counted

LEMMA BoundInit == Limiter!Init => Limiter!WindowBound
<1> SUFFICES ASSUME Limiter!Init, NEW k \in Limiter!Key, Limiter!Max(k) > 0, NEW t \in 0 .. clock
             PROVE  Cardinality(Limiter!AdmittedIn(k, t, t + Limiter!Window(k) - Limiter!Delay))
                       <= Limiter!Max(k)
  BY LimiterCardinality DEF Limiter!WindowBound
<1>1. Limiter!AdmittedIn(k, t, t + Limiter!Window(k) - Limiter!Delay) = {}
  BY DEF Limiter!Init, Limiter!AdmittedIn
<1> QED
  BY <1>1, FS_EmptySet, KeyFacts

LEMMA BoundNext ==
    IInv /\ IInv' /\ Limiter!WindowBound /\ [Limiter!Next]_Limiter!vars => Limiter!WindowBound'
<1> SUFFICES ASSUME IInv, IInv', Limiter!WindowBound, [Limiter!Next]_Limiter!vars,
                    NEW k \in Limiter!Key, Limiter!Max(k) > 0, NEW t \in 0 .. clock'
             PROVE  Cardinality(Limiter!AdmittedIn(k, t, t + Limiter!Window(k) - Limiter!Delay)')
                       <= Limiter!Max(k)
  BY LimiterCardinality DEF Limiter!WindowBound
<1>0. /\ k \in LimitedKey /\ Limiter!Max(k) \in Nat
      /\ Limiter!Window(k) \in Nat /\ Limiter!Delay <= Limiter!Window(k)
      /\ clock \in Nat /\ clock' \in Nat /\ log \in Seq(Limiter!Admission) /\ t \in Nat
  BY KeyFacts DEF LimitedKey, IInv, Limiter!TypeOK
<1> DEFINE S == Limiter!AdmittedIn(k, t, t + Limiter!Window(k) - Limiter!Delay)
<1>1. t <= clock => Cardinality(S) <= Limiter!Max(k)
  BY <1>0, LimiterCardinality DEF Limiter!WindowBound
<1>2. CASE UNCHANGED log
  <2>1. S' = S
    BY <1>2 DEF Limiter!AdmittedIn
  <2>2. CASE t <= clock
    BY <1>1, <2>1, <2>2
  <2>3. CASE t > clock
    <3>1. \A i \in DOMAIN log : log[i].at < t /\ log[i].at \in Nat
      BY <1>0, <2>3, LogTypes DEF IInv, LogInTime
    <3>2. S = {}
      BY <1>0, <3>1 DEF Limiter!AdmittedIn
    <3>3. Cardinality(S) = 0
      BY <3>2, FS_EmptySet
    <3> QED
      BY <1>0, <2>1, <3>3
  <2> QED
    BY <1>0, <2>2, <2>3
<1>3. ASSUME NEW p \in Process, Limiter!Admit(p) PROVE Cardinality(S') <= Limiter!Max(k)
  <2> DEFINE l == Limiter!KeyOf(call[p].req)
             now == call[p].stamp
             n == Len(log) + 1
  <2>1. /\ call[p].phase = "begin" /\ Cardinality(Limiter!Counted(l, now)) < Limiter!Max(l)
        /\ log' = Append(log, [key |-> l, stamp |-> now, at |-> clock])
        /\ clock' = clock
    BY <1>3, LimiterCardinality DEF Limiter!Admit
  <2>2. now \in Nat /\ now <= clock
    <3>1. call[p].stamp \in Nat /\ call[p].since \in Nat
      BY DEF IInv, Limiter!TypeOK, Limiter!Call
    <3> QED
      BY <1>0, <3>1 DEF IInv, CallsInTime
  <2>3. /\ DOMAIN log' = DOMAIN log \cup {n} /\ n \notin DOMAIN log
        /\ log'[n].key = l /\ log'[n].at = clock
        /\ \A i \in DOMAIN log : log'[i] = log[i]
    BY <1>0, <2>1
  <2>4. IsFiniteSet(S)
    BY Finiteness DEF IInv
  <2> HIDE DEF l, now, n
  <2>5. CASE l = k /\ clock <= t + Limiter!Window(k) - Limiter!Delay
    <3>1. S \subseteq Limiter!Counted(k, now)
      BY <1>0, <2>2, <2>5, StretchIsCounted
    <3>2. IsFiniteSet(Limiter!Counted(k, now))
      BY Finiteness, FS_Subset DEF Limiter!Counted, IInv
    <3>3. Cardinality(S) <= Cardinality(Limiter!Counted(k, now))
      BY <3>1, <3>2, FS_Subset
    <3>4. Cardinality(S) < Limiter!Max(k) /\ Cardinality(S) \in Nat
      BY <1>0, <2>1, <2>4, <2>5, <3>2, <3>3, FS_CardinalityType
    <3>5. S' \subseteq S \cup {n}
      BY <2>3 DEF Limiter!AdmittedIn
    <3>6. IsFiniteSet(S \cup {n}) /\ Cardinality(S \cup {n}) <= Cardinality(S) + 1
      <4> HIDE DEF S
      <4>1. /\ IsFiniteSet(S \cup {n})
            /\ Cardinality(S \cup {n})
                 = IF n \in S THEN Cardinality(S) ELSE Cardinality(S) + 1
        BY <2>4, FS_AddElement, Zenon
      <4> QED
        BY <3>4, <4>1
    <3>7. Cardinality(S') <= Cardinality(S \cup {n}) /\ IsFiniteSet(S')
      BY <3>5, <3>6, FS_Subset
    <3>8. Cardinality(S') \in Nat /\ Cardinality(S \cup {n}) \in Nat
      BY <3>6, <3>7, FS_CardinalityType
    <3> HIDE DEF S
    <3> QED
      BY <1>0, <3>4, <3>6, <3>7, <3>8
  <2>6. CASE ~(l = k /\ clock <= t + Limiter!Window(k) - Limiter!Delay)
    <3>1. S' = S
      BY <1>0, <2>3, <2>6, DelayType DEF Limiter!AdmittedIn
    <3> QED
      BY <1>0, <1>1, <2>1, <3>1
  <2> QED
    BY <2>5, <2>6
<1>4. UNCHANGED log \/ \E p \in Process : Limiter!Admit(p)
  BY DEF Limiter!Next, Limiter!Tick, Limiter!Arrive, Limiter!Sweep, Limiter!Refuse,
     Limiter!Return, Limiter!vars
<1> QED
  BY <1>2, <1>3, <1>4

\* However many processes admit requests, and however long each waits for the
\* lock, a client never gets more than its limit through in a stretch of time
\* shorter than the window by the longest wait (check, security.py:128-158).
THEOREM WindowBoundHolds == Spec => []WindowBound
<1> DEFINE Inv == part = "limiter" => IInv
<1>1. Init => WindowBound
  BY BoundInit, LimiterStart DEF WindowBound
<1>2. Inv /\ Inv' /\ WindowBound /\ [Next]_allVars => WindowBound'
  <2>1. [Next]_allVars => part' = part
    BY DEF Next, allVars
  <2> QED
    BY <2>1, BoundNext, LimiterStep DEF WindowBound
<1> QED
  BY <1>1, <1>2, LimiterInvariant, PTL DEF Spec

-----------------------------------------------------------------------------
(* The refusals.                                                            *)

\* Who is refused has had the whole limit admitted with times inside the window
\* (check, security.py:137-147).
THEOREM RefusalJustifiedHolds == Spec => RefusalJustified
<1>1. IInv /\ [Limiter!Next]_Limiter!vars => Limiter!RefusedOverLimit
  <2> SUFFICES ASSUME IInv, [Limiter!Next]_Limiter!vars, NEW p \in Process,
                      call[p].phase = "begin", call'[p].phase = "refused"
               PROVE  Limiter!HadItsLimit(p)
    BY DEF Limiter!RefusedOverLimit
  <2>1. Limiter!Refuse(p)
    <3>1. call \in [Process -> Limiter!Call] /\ Limiter!NoCall.phase = "idle"
      BY NoCallIsCall DEF IInv, Limiter!TypeOK
    <3>2. CASE \E q \in Process : Limiter!Refuse(q)
      BY <3>1, <3>2 DEF Limiter!Refuse
    <3>3. CASE Limiter!Tick \/ UNCHANGED Limiter!vars
      BY <3>3 DEF Limiter!Tick, Limiter!vars
    <3>4. ASSUME NEW q \in Process, NEW r \in Request, Limiter!Arrive(q, r) PROVE FALSE
      BY <3>1, <3>4 DEF Limiter!Arrive
    <3>5. ASSUME NEW q \in Process,
                 Limiter!Sweep(q) \/ Limiter!Admit(q) \/ Limiter!Return(q)
          PROVE  FALSE
      BY <3>1, <3>5 DEF Limiter!Sweep, Limiter!Admit, Limiter!Return
    <3> QED
      BY <3>2, <3>3, <3>4, <3>5 DEF Limiter!Next
  <2> DEFINE k == Limiter!KeyOf(call[p].req)
             now == call[p].stamp
             Inside == {i \in DOMAIN log : /\ log[i].key = k
                                           /\ log[i].stamp >= now - Limiter!Window(k)}
  <2>2. Cardinality(Limiter!Counted(k, now)) >= Limiter!Max(k)
    BY <2>1, LimiterCardinality DEF Limiter!Refuse
  <2>3. k \in LimitedKey /\ now \in Nat
    BY KeyFacts DEF IInv, Limiter!TypeOK, Limiter!Call, CallsInTime
  <2>4. Limiter!Max(k) \in Nat /\ Limiter!Window(k) \in Nat
    BY <2>3, KeyFacts
  <2> HIDE DEF k, now
  <2>5. Limiter!Counted(k, now) \subseteq Inside
    <3> SUFFICES ASSUME NEW i \in Limiter!Counted(k, now) PROVE i \in Inside
      OBVIOUS
    <3>1. i \in rows /\ log[i].key = k /\ ~(log[i].stamp < now - Limiter!Window(k))
      BY DEF Limiter!Counted, Limiter!Outdated
    <3>2. i \in DOMAIN log /\ log[i].stamp \in Nat
      BY <3>1, LogTypes DEF IInv, Limiter!TypeOK
    <3> QED
      BY <2>3, <2>4, <3>1, <3>2
  <2>6. IsFiniteSet(Inside)
    <3>1. IsFiniteSet(DOMAIN log) /\ Inside \in SUBSET DOMAIN log
      BY LogTypes DEF IInv
    <3> QED
      BY <3>1, FS_Subset
  <2>7. /\ Cardinality(Limiter!Counted(k, now)) <= Cardinality(Inside)
        /\ Cardinality(Limiter!Counted(k, now)) \in Nat /\ Cardinality(Inside) \in Nat
    BY <2>5, <2>6, FS_Subset, FS_CardinalityType
  <2> HIDE DEF Inside
  <2>8. Cardinality(Inside) >= Limiter!Max(k)
    BY <2>2, <2>4, <2>7
  <2> QED
    BY <2>8, LimiterCardinality DEF Limiter!HadItsLimit, Inside, k, now
<1>2. (part = "limiter" => IInv) /\ [Next]_allVars
        => [part = "limiter" => Limiter!RefusedOverLimit]_<<clock, limiterVars>>
  BY <1>1, LimiterStep
<1> QED
  BY <1>2, LimiterInvariant, PTL DEF Spec, RefusalJustified

-----------------------------------------------------------------------------
(* The store in memory.  A list is in use for one key.  Its timestamps are  *)
(* those of requests let through, each its own, and if it is the one of the *)
(* dictionary then all that came after the last race are among them, or too *)
(* old for whatever check comes.                                           *)

Active(t) == check[t].phase # "idle"

Uses(l, k) == \/ l # 0 /\ dict[k] = l
              \/ \E t \in Thread : Active(t) /\ check[t].list = l /\ check[t].key = k

Recent(i) == granted[i].now > raced

Past(i) == /\ granted[i].now < clock - Span
           /\ \A t \in Thread : Active(t) => granted[i].now < check[t].now - Span

\* The requests that the timestamps of a list are of.
Traces(s, times, k, g) ==
    /\ Len(s) = Len(times)
    /\ \A i \in 1 .. Len(s) : /\ s[i] \in 1 .. Len(g)
                              /\ g[s[i]].key = k /\ g[s[i]].now = times[i]
    /\ \A i, j \in 1 .. Len(s) : s[i] = s[j] => i = j

Covers(s, k) ==
    \A i \in 1 .. Len(granted) :
       granted[i].key = k /\ Recent(i) => (\E j \in 1 .. Len(s) : s[j] = i) \/ Past(i)

Listed(l, k) == \E s \in Seq(Nat) : /\ Traces(s, heap[l], k, granted)
                                    /\ dict[k] = l => Covers(s, k)

Fields == {"phase", "key", "now", "list"}

StoreTyped ==
    /\ clock \in Nat /\ raced \in Int
    /\ heap \in Seq(Seq(Nat))
    /\ granted \in Seq([key : Client, now : Nat])
    /\ DOMAIN dict = Client
    /\ DOMAIN check = Thread
    /\ \A t \in Thread : DOMAIN check[t] = Fields
    /\ \A t \in Thread : Active(t) => check[t].key \in Client /\ check[t].now \in Nat

StoreLists ==
    /\ \A l, k : k \in Client /\ Uses(l, k) => l \in 1 .. Len(heap) /\ Listed(l, k)
    /\ \A l : \A k1, k2 \in Client : Uses(l, k1) /\ Uses(l, k2) => k1 = k2
    /\ \A i \in 1 .. Len(granted) : Recent(i) => dict[granted[i].key] # 0

\* A list is in order but for the time that a check may take.
InOrder(times) ==
    \A i, j \in 1 .. Len(times) : i < j => times[i] <= times[j] + Stall

StoreTimes ==
    /\ raced <= clock
    /\ \A t \in Thread : Active(t) => check[t].now <= clock /\ clock <= check[t].now + Stall
    /\ \A i \in 1 .. Len(granted) : granted[i].now <= clock
    /\ \A l \in 1 .. Len(heap) : /\ \A i \in 1 .. Len(heap[l]) : heap[l][i] <= clock
                                 /\ InOrder(heap[l])

\* What is left to count is within the window, but for the time of a check.
Trimmed(t) ==
    check[t].phase = "count" =>
       \A i \in 1 .. Len(Store!List(t)) : Store!List(t)[i] >= check[t].now - Span - Stall

\* A check that no other has met knows its list.
Unmet(t) ==
    /\ \/ dict[check[t].key] = check[t].list
       \/ dict[check[t].key] = 0 /\ Store!List(t) = << >> /\ check[t].phase # "append"
    /\ check[t].phase = "pop" =>
          Store!List(t) # << >> /\ Head(Store!List(t)) < check[t].now - Span
    /\ check[t].phase \in {"file", "append"} => Len(Store!List(t)) < Limit

StoreSerial ==
    /\ \A t, u \in Thread : Active(t) /\ Active(u) /\ t # u => raced = clock
    /\ \A t \in Thread : Active(t) =>
          check[t].now > raced \/ \A i \in 1 .. Len(granted) : ~Recent(i)
    /\ \A t \in Thread : Active(t) /\ check[t].now > raced => Unmet(t)

StoreInv == /\ StoreTyped /\ StoreLists /\ StoreTimes /\ StoreSerial
            /\ \A t \in Thread : Trimmed(t)

\* The bound, for windows that begin at any time.
Within(k, w) == {i \in 1 .. Len(granted) : granted[i].key = k /\ granted[i].now \in w .. w + Span}

StoreBound == \A k \in Client : \A w \in Int : w > raced => Cardinality(Within(k, w)) <= Limit

-----------------------------------------------------------------------------
(* The requests of a list.                                                 *)

LEMMA TracesTail ==
    ASSUME NEW s \in Seq(Nat), NEW times \in Seq(Nat), NEW k, NEW g,
           Traces(s, times, k, g), times # << >>
    PROVE  /\ Tail(s) \in Seq(Nat) /\ Traces(Tail(s), Tail(times), k, g)
           /\ 1 \in 1 .. Len(s) /\ g[s[1]].now = Head(times)
           /\ \A i : (\E j \in 1 .. Len(s) : s[j] = i)
                       => i = s[1] \/ \E j \in 1 .. Len(Tail(s)) : Tail(s)[j] = i
<1>1. /\ Len(s) = Len(times) /\ Len(times) \in Nat /\ Len(times) >= 1
      /\ Head(times) = times[1] /\ s # << >>
  BY EmptySeq, LenProperties DEF Traces
<1>2. PICK n : n = Len(s) /\ n \in Nat /\ n >= 1 /\ n = Len(times)
  BY <1>1
<1>3. PICK u : u = Tail(s) /\ u \in Seq(Nat) /\ Len(u) = n - 1
               /\ \A i \in 1 .. n - 1 : u[i] = s[i + 1]
  <2>1. /\ Tail(s) \in Seq(Nat) /\ Len(Tail(s)) = Len(s) - 1
        /\ \A i \in 1 .. Len(Tail(s)) : Tail(s)[i] = s[i + 1]
    BY <1>1, HeadTailProperties
  <2>2. PICK u : u = Tail(s)
    OBVIOUS
  <2>3. Len(u) = n - 1 /\ \A i \in 1 .. Len(u) : u[i] = s[i + 1]
    BY <1>2, <2>1, <2>2
  <2> QED
    BY <2>1, <2>2, <2>3
<1>4. PICK later : later = Tail(times) /\ Len(later) = n - 1
                   /\ \A i \in 1 .. n - 1 : later[i] = times[i + 1]
  <2>1. /\ Len(Tail(times)) = Len(times) - 1
        /\ \A i \in 1 .. Len(Tail(times)) : Tail(times)[i] = times[i + 1]
    BY HeadTailProperties
  <2>2. PICK later : later = Tail(times)
    OBVIOUS
  <2>3. Len(later) = n - 1 /\ \A i \in 1 .. Len(later) : later[i] = times[i + 1]
    BY <1>2, <2>1, <2>2
  <2> QED
    BY <2>2, <2>3
<1>5. \A i \in 1 .. n - 1 : i + 1 \in 1 .. n
  BY <1>2
<1>6. /\ \A i \in 1 .. n : s[i] \in 1 .. Len(g) /\ g[s[i]].key = k /\ g[s[i]].now = times[i]
      /\ \A i, j \in 1 .. n : s[i] = s[j] => i = j
  BY <1>2 DEF Traces
<1>7. Traces(u, later, k, g)
  <2>1. \A i \in 1 .. n - 1 : u[i] \in 1 .. Len(g) /\ g[u[i]].key = k /\ g[u[i]].now = later[i]
    <3> SUFFICES ASSUME NEW i \in 1 .. n - 1
                 PROVE  u[i] \in 1 .. Len(g) /\ g[u[i]].key = k /\ g[u[i]].now = later[i]
      OBVIOUS
    <3>1. i + 1 \in 1 .. n /\ u[i] = s[i + 1] /\ later[i] = times[i + 1]
      BY <1>3, <1>4, <1>5
    <3> QED
      BY <1>6, <3>1
  <2>2. ASSUME NEW i \in 1 .. n - 1, NEW j \in 1 .. n - 1, u[i] = u[j] PROVE i = j
    <3>1. s[i + 1] = s[j + 1]
      BY <1>3, <2>2
    <3>2. i + 1 = j + 1
      BY <1>5, <1>6, <3>1
    <3> QED
      BY <3>2
  <2> QED
    BY <1>3, <1>4, <2>1, <2>2 DEF Traces
<1>8. ASSUME NEW i, NEW j \in 1 .. n, s[j] = i, j # 1
      PROVE  \E m \in 1 .. n - 1 : u[m] = i
  <2>1. j - 1 \in 1 .. n - 1 /\ (j - 1) + 1 = j
    BY <1>2, <1>8
  <2> QED
    BY <1>3, <1>8, <2>1
<1>9. \A i : (\E j \in 1 .. n : s[j] = i) => i = s[1] \/ \E m \in 1 .. n - 1 : u[m] = i
  BY <1>8
<1>10. 1 \in 1 .. n
  BY <1>2
<1> QED
  BY <1>1, <1>2, <1>3, <1>4, <1>6, <1>7, <1>9, <1>10

LEMMA TracesGrown ==
    ASSUME NEW s \in Seq(Nat), NEW times, NEW k, NEW S, NEW g \in Seq(S), NEW e \in S,
           Traces(s, times, k, g)
    PROVE  Traces(s, times, k, Append(g, e))
<1>1. /\ Len(g) \in Nat /\ Len(Append(g, e)) = Len(g) + 1
      /\ \A i \in 1 .. Len(g) : Append(g, e)[i] = g[i]
  BY LenProperties, AppendProperties
<1>2. \A i \in 1 .. Len(g) : i \in 1 .. Len(g) + 1
  BY <1>1
<1> QED
  BY <1>1, <1>2 DEF Traces

\* The list with one more timestamp, of the request that now joins those granted.
OneMore(s, times, k, g, e) ==
    /\ Append(s, Len(g) + 1) \in Seq(Nat)
    /\ Traces(Append(s, Len(g) + 1), Append(times, e.now), k, Append(g, e))
    /\ \A i : (\E j \in 1 .. Len(s) : s[j] = i) \/ i = Len(g) + 1
          => \E j \in 1 .. Len(Append(s, Len(g) + 1)) : Append(s, Len(g) + 1)[j] = i

LEMMA TracesAppended ==
    ASSUME NEW s \in Seq(Nat), NEW times \in Seq(Nat), NEW k, NEW S, NEW g \in Seq(S),
           NEW e \in S, e.key = k, e.now \in Nat, Traces(s, times, k, g)
    PROVE  OneMore(s, times, k, g, e)
<1>1. PICK n : n = Len(s) /\ n \in Nat /\ n = Len(times)
  BY LenProperties DEF Traces
<1>2. PICK m : m = Len(g) + 1 /\ m \in Nat /\ m = Len(Append(g, e)) /\ Append(g, e)[m] = e
               /\ \A i \in 1 .. Len(g) : i \in 1 .. m /\ i # m /\ Append(g, e)[i] = g[i]
  BY LenProperties, AppendProperties
<1>3. PICK u : u = Append(s, m) /\ u \in Seq(Nat) /\ Len(u) = n + 1 /\ u[n + 1] = m
               /\ \A i \in 1 .. n : u[i] = s[i]
  <2>1. /\ Append(s, m) \in Seq(Nat) /\ Len(Append(s, m)) = Len(s) + 1
        /\ \A i \in 1 .. Len(s) : Append(s, m)[i] = s[i]
        /\ Append(s, m)[Len(s) + 1] = m
    BY <1>2, AppendProperties
  <2>2. PICK u : u = Append(s, m)
    OBVIOUS
  <2> QED
    BY <1>1, <2>1, <2>2
<1>4. PICK more : more = Append(times, e.now) /\ Len(more) = n + 1 /\ more[n + 1] = e.now
                  /\ \A i \in 1 .. n : more[i] = times[i]
  <2>1. /\ Len(Append(times, e.now)) = Len(times) + 1
        /\ \A i \in 1 .. Len(times) : Append(times, e.now)[i] = times[i]
        /\ Append(times, e.now)[Len(times) + 1] = e.now
    BY AppendProperties
  <2>2. PICK more : more = Append(times, e.now)
    OBVIOUS
  <2> QED
    BY <1>1, <2>1, <2>2
<1>5. /\ \A i \in 1 .. n : s[i] \in 1 .. Len(g) /\ g[s[i]].key = k /\ g[s[i]].now = times[i]
      /\ \A i, j \in 1 .. n : s[i] = s[j] => i = j
  BY <1>1 DEF Traces
<1>6. PICK h : h = Append(g, e)
  OBVIOUS
<1>7. ASSUME NEW i \in 1 .. n + 1
      PROVE  i \in 1 .. n \/ i = n + 1
  <2>1. n \in Nat
    BY <1>1
  <2> QED
    BY <2>1
<1>8. ASSUME NEW i \in 1 .. n
      PROVE  u[i] \in 1 .. m /\ u[i] # m /\ h[u[i]].key = k /\ h[u[i]].now = more[i]
  <2>1. u[i] = s[i] /\ more[i] = times[i] /\ s[i] \in 1 .. Len(g)
    BY <1>3, <1>4, <1>5
  <2>2. s[i] \in 1 .. m /\ s[i] # m /\ h[s[i]] = g[s[i]]
    BY <1>2, <1>6, <2>1
  <2> QED
    BY <1>5, <2>1, <2>2
<1>9. m \in 1 .. m /\ h[m].key = k /\ h[m].now = e.now
  BY <1>2, <1>6
<1>10. Traces(u, more, k, h)
  <2>1. \A i \in 1 .. n + 1 : u[i] \in 1 .. m /\ h[u[i]].key = k /\ h[u[i]].now = more[i]
    BY <1>3, <1>4, <1>7, <1>8, <1>9
  <2>2. \A i, j \in 1 .. n + 1 : u[i] = u[j] => i = j
    BY <1>3, <1>5, <1>7, <1>8
  <2> QED
    BY <1>2, <1>3, <1>4, <1>6, <2>1, <2>2 DEF Traces
<1>11. ASSUME NEW i, (\E j \in 1 .. n : s[j] = i) \/ i = m
       PROVE  \E j \in 1 .. n + 1 : u[j] = i
  <2>1. n + 1 \in 1 .. n + 1 /\ \A j \in 1 .. n : j \in 1 .. n + 1
    BY <1>1
  <2> QED
    BY <1>3, <1>11, <2>1
<1> QED
  BY <1>1, <1>2, <1>3, <1>4, <1>6, <1>10, <1>11 DEF OneMore

-----------------------------------------------------------------------------
(* A step of a thread that is in a check.                                  *)

Moved(t) ==
    /\ Active(t)
    /\ DOMAIN check' = Thread /\ DOMAIN check'[t] = Fields
    /\ \A u \in Thread \ {t} : check'[u] = check[u]
    /\ check'[t].phase # "idle" => /\ check'[t].key = check[t].key
                                   /\ check'[t].now = check[t].now
                                   /\ check'[t].list = check[t].list

LEMMA GrantedTypes ==
    ASSUME StoreTyped
    PROVE  /\ Len(granted) \in Nat /\ DOMAIN granted = 1 .. Len(granted)
           /\ \A i \in 1 .. Len(granted) : granted[i].key \in Client /\ granted[i].now \in Nat
<1>1. granted \in Seq([key : Client, now : Nat])
  BY DEF StoreTyped
<1>2. Len(granted) \in Nat /\ DOMAIN granted = 1 .. Len(granted)
  BY <1>1, LenProperties
<1>3. \A i \in 1 .. Len(granted) : granted[i] \in [key : Client, now : Nat]
  BY <1>1, ElementOfSeq
<1> QED
  BY <1>2, <1>3

LEMMA PhaseSet ==
    ASSUME StoreTyped, NEW t \in Thread, Active(t), NEW phase,
           check' = [check EXCEPT ![t].phase = phase]
    PROVE  Moved(t) /\ check'[t].phase = phase
  BY DEF StoreTyped, Moved, Fields

LEMMA IdleSet ==
    ASSUME StoreTyped, NEW t \in Thread, Active(t),
           check' = [check EXCEPT ![t] = Store!NoCheck]
    PROVE  Moved(t) /\ check'[t].phase = "idle"
<1>1. DOMAIN Store!NoCheck = Fields /\ Store!NoCheck.phase = "idle"
  BY DEF Store!NoCheck, Fields
<1> QED
  BY <1>1 DEF StoreTyped, Moved

\* Two threads that are in a check at once are a race.
RacedRule ==
    /\ raced' \in {raced, clock'}
    /\ \A t, u \in Thread :
          check'[t].phase # "idle" /\ check'[u].phase # "idle" /\ t # u => raced' = clock'

LEMMA StoreCardinality == \A S : Store!Cardinality(S) = Cardinality(S)
  BY DEF Store!Cardinality, Cardinality

LEMMA RacedStep ==
    ASSUME Store!Next
    PROVE  RacedRule
<1>1. PICK busy : busy = {t \in Thread : check'[t].phase # "idle"}
  OBVIOUS
<1>2. raced' = IF Cardinality(busy) > 1 THEN clock' ELSE raced
  BY <1>1, StoreCardinality DEF Store!Next, Store!Busy
<1>3. IsFiniteSet(busy) /\ Cardinality(busy) \in Nat
  <2>1. busy \in SUBSET Thread /\ IsFiniteSet(Thread)
    BY <1>1, DoorAssumption
  <2> QED
    BY <2>1, FS_Subset, FS_CardinalityType
<1>4. ASSUME NEW t \in busy, NEW u \in busy, t # u
      PROVE  Cardinality(busy) > 1
  <2>1. Cardinality(busy) # 0
    BY <1>3, FS_EmptySet
  <2>2. Cardinality(busy) # 1
    <3> SUFFICES ASSUME Cardinality(busy) = 1 PROVE FALSE
      OBVIOUS
    <3>1. PICK x : busy = {x}
      BY <1>3, FS_Singleton
    <3> QED
      BY <1>4, <3>1
  <2> QED
    BY <1>3, <2>1, <2>2
<1> QED
  BY <1>1, <1>2, <1>4 DEF RacedRule

\* Whether a check has met another, and which of the requests are too old.
LEMMA MovedSerial ==
    ASSUME StoreInv, NEW t \in Thread, Moved(t), clock' = clock, RacedRule,
           \A i \in 1 .. Len(granted) : i \in 1 .. Len(granted') /\ granted'[i] = granted[i],
           \A i \in 1 .. Len(granted') :
              \/ i \in 1 .. Len(granted)
              \/ granted'[i].now = check[t].now /\ check'[t].phase = "idle",
           check'[t].phase # "idle" /\ check[t].now > raced => Unmet(t)'
    PROVE  /\ StoreSerial' /\ raced' \in Int /\ raced <= raced' /\ raced' <= clock
           /\ \A u \in Thread : Active(u)' =>
                 Active(u) /\ check'[u].key = check[u].key /\ check'[u].now = check[u].now
                           /\ check'[u].list = check[u].list
           /\ \A i \in 1 .. Len(granted) : (Past(i) => Past(i)') /\ (Recent(i)' => Recent(i))
<1>1. /\ clock \in Nat /\ raced \in Int /\ raced <= clock
      /\ raced' \in {raced, clock}
      /\ \A u \in Thread : Active(u) => check[u].now \in Nat /\ check[u].now <= clock
      /\ \A i \in 1 .. Len(granted) : granted[i].now \in Nat /\ granted[i].now <= clock
  BY GrantedTypes DEF StoreInv, StoreTyped, StoreTimes, RacedRule
<1>2. raced' \in Int /\ raced <= raced' /\ raced' <= clock
  BY <1>1
<1>3. ASSUME NEW u \in Thread, check'[u].phase # "idle"
      PROVE  Active(u) /\ check'[u].key = check[u].key /\ check'[u].now = check[u].now
                       /\ check'[u].list = check[u].list
  <2>1. CASE u = t
    BY <1>3, <2>1 DEF Moved
  <2>2. CASE u # t
    BY <1>3, <2>2 DEF Moved, Active
  <2> QED
    BY <2>1, <2>2
<1>4. \A i \in 1 .. Len(granted) : (Past(i) => Past(i)') /\ (Recent(i)' => Recent(i))
  BY <1>1, <1>2, <1>3 DEF Past, Recent, Active
<1>5. Active(t)
  BY DEF Moved
<1>6. \A i \in 1 .. Len(granted') : granted'[i].now \in Nat /\ granted'[i].now <= clock
  BY <1>1, <1>5
<1>7. \A u \in Thread \ {t} : check'[u].phase # "idle" => raced = clock
  BY <1>3, <1>5 DEF StoreInv, StoreSerial
<1>8. ASSUME NEW u \in Thread, Active(u)'
      PROVE  check'[u].now > raced' \/ \A i \in 1 .. Len(granted') : ~Recent(i)'
  <2>1. CASE raced' = clock
    BY <1>1, <1>6, <2>1 DEF Recent
  <2>2. CASE raced' = raced /\ raced # clock
    <3>1. u = t
      BY <1>7, <1>8, <2>2 DEF Active
    <3>2. check'[t].phase # "idle" /\ check'[t].now = check[t].now
      BY <1>3, <1>8, <3>1 DEF Active
    <3>3. check[t].now > raced \/ \A i \in 1 .. Len(granted) : ~Recent(i)
      BY <1>5 DEF StoreInv, StoreSerial
    <3>4. \A i \in 1 .. Len(granted') : i \in 1 .. Len(granted)
      BY <3>2
    <3> QED
      BY <1>4, <2>2, <3>1, <3>2, <3>3, <3>4
  <2> QED
    BY <1>1, <2>1, <2>2
<1>9. ASSUME NEW u \in Thread, Active(u)', check'[u].now > raced'
      PROVE  Unmet(u)'
  <2>1. CASE u = t
    BY <1>1, <1>2, <1>3, <1>5, <1>9, <2>1 DEF Active
  <2>2. CASE u # t
    <3>1. raced = clock /\ check'[u].now <= clock
      BY <1>1, <1>3, <1>7, <1>9, <2>2 DEF Active
    <3>2. check'[u].now \in Nat
      BY <1>1, <1>3, <1>9 DEF Active
    <3> QED
      BY <1>1, <1>2, <1>9, <3>1, <3>2
  <2> QED
    BY <2>1, <2>2
<1>10. \A v, u \in Thread : Active(v)' /\ Active(u)' /\ v # u => raced' = clock'
  BY DEF RacedRule, Active
<1>11. StoreSerial'
  BY <1>8, <1>9, <1>10 DEF StoreSerial
<1> QED
  BY <1>2, <1>3, <1>4, <1>11 DEF Active

LEMMA MovedUses ==
    ASSUME StoreInv, NEW t \in Thread, Moved(t),
           \A k \in Client : \/ dict'[k] = dict[k]
                             \/ k = check[t].key /\ dict'[k] = check[t].list,
           NEW l, NEW k \in Client, Uses(l, k)'
    PROVE  Uses(l, k)
<1>1. CASE \E u \in Thread : Active(u)' /\ check'[u].list = l /\ check'[u].key = k
  <2>1. PICK u \in Thread : Active(u)' /\ check'[u].list = l /\ check'[u].key = k
    BY <1>1
  <2>2. CASE u = t
    BY <2>1, <2>2 DEF Moved, Active, Uses
  <2>3. CASE u # t
    BY <2>1, <2>3 DEF Moved, Active, Uses
  <2> QED
    BY <2>2, <2>3
<1>2. CASE l # 0 /\ dict'[k] = l
  BY <1>2 DEF Moved, Uses
<1> QED
  BY <1>1, <1>2 DEF Uses

\* A step that changes no list and lets nobody through.
LEMMA QuietStep ==
    ASSUME StoreInv, NEW t \in Thread, Moved(t), UNCHANGED <<clock, heap, granted>>, RacedRule,
           DOMAIN dict' = Client,
           \A k \in Client : \/ dict'[k] = dict[k]
                             \/ k = check[t].key /\ dict'[k] = check[t].list,
           check'[t].phase # "idle" /\ check[t].now > raced => Unmet(t)',
           Trimmed(t)'
    PROVE  StoreInv' /\ (StoreBound => StoreBound')
<1>1. /\ StoreSerial' /\ raced' \in Int /\ raced <= raced' /\ raced' <= clock
      /\ \A u \in Thread : Active(u)' =>
            Active(u) /\ check'[u].key = check[u].key /\ check'[u].now = check[u].now
                      /\ check'[u].list = check[u].list
      /\ \A i \in 1 .. Len(granted) : (Past(i) => Past(i)') /\ (Recent(i)' => Recent(i))
  BY MovedSerial
<1>2. StoreTyped'
  <2>1. \A u \in Thread : DOMAIN check'[u] = Fields
    BY DEF Moved, StoreInv, StoreTyped
  <2> QED
    BY <1>1, <2>1 DEF Moved, StoreInv, StoreTyped
<1>3. StoreTimes'
  BY <1>1 DEF StoreInv, StoreTimes, InOrder
<1>4. \A u \in Thread : Trimmed(u)'
  <2>1. \A u \in Thread \ {t} : Trimmed(u)'
    BY DEF Moved, StoreInv, Trimmed, Store!List
  <2> QED
    BY <2>1
<1>5. \A l : \A k1, k2 \in Client : Uses(l, k1)' /\ Uses(l, k2)' => k1 = k2
  BY MovedUses DEF StoreInv, StoreLists
<1>6. ASSUME NEW i \in 1 .. Len(granted), Recent(i)'
      PROVE  /\ dict[granted[i].key] # 0 /\ dict'[granted[i].key] # 0
             /\ check[t].now > raced /\ granted[i].key \in Client
             /\ granted[i].key = check[t].key => dict[check[t].key] = check[t].list
  <2>1. Recent(i) /\ granted[i].key \in Client /\ Active(t)
    BY <1>1, <1>6, GrantedTypes DEF StoreInv, Moved
  <2>2. dict[granted[i].key] # 0 /\ check[t].now > raced
    BY <2>1 DEF StoreInv, StoreLists, StoreSerial
  <2>3. Unmet(t) /\ check[t].key \in Client
    BY <2>1, <2>2 DEF StoreInv, StoreSerial, StoreTyped
  <2> QED
    BY <2>1, <2>2, <2>3 DEF Unmet
<1>7. ASSUME NEW l, NEW k \in Client, Uses(l, k)'
      PROVE  l \in 1 .. Len(heap) /\ Listed(l, k)'
  <2>1. l \in 1 .. Len(heap) /\ Listed(l, k)
    BY <1>7, MovedUses DEF StoreInv, StoreLists
  <2>2. PICK s \in Seq(Nat) : Traces(s, heap[l], k, granted) /\ (dict[k] = l => Covers(s, k))
    BY <2>1 DEF Listed
  <2>3. ASSUME dict'[k] = l, NEW i \in 1 .. Len(granted), granted[i].key = k, Recent(i)'
        PROVE  (\E j \in 1 .. Len(s) : s[j] = i) \/ Past(i)'
    <3>1. dict[k] = l
      BY <1>6, <2>3
    <3>2. Recent(i)
      BY <1>1, <2>3
    <3> QED
      BY <1>1, <2>2, <2>3, <3>1, <3>2 DEF Covers
  <2>4. dict'[k] = l => Covers(s, k)'
    BY <2>3 DEF Covers
  <2>5. Traces(s, heap'[l], k, granted')
    BY <2>2
  <2> QED
    BY <2>1, <2>4, <2>5 DEF Listed
<1>8. StoreLists'
  <2>1. \A i \in 1 .. Len(granted') : Recent(i)' => dict'[granted'[i].key] # 0
    BY <1>6
  <2> QED
    BY <1>5, <1>7, <2>1 DEF StoreLists
<1>9. StoreBound => StoreBound'
  <2>1. \A k \in Client : \A w \in Int : Within(k, w)' = Within(k, w)
    BY DEF Within
  <2>2. raced \in Int
    BY DEF StoreInv, StoreTyped
  <2> QED
    BY <1>1, <2>1, <2>2 DEF StoreBound
<1> QED
  BY <1>1, <1>2, <1>3, <1>4, <1>8, <1>9 DEF StoreInv

-----------------------------------------------------------------------------
(* The steps of a check.                                                   *)

LEMMA ListFacts ==
    ASSUME StoreInv, NEW t \in Thread, Active(t)
    PROVE  /\ check[t].list \in 1 .. Len(heap) /\ Len(heap) \in Nat
           /\ Store!List(t) = heap[check[t].list] /\ Store!List(t) \in Seq(Nat)
           /\ Len(Store!List(t)) \in Nat
           /\ \A i \in 1 .. Len(Store!List(t)) : Store!List(t)[i] \in Nat
           /\ check[t].key \in Client /\ check[t].now \in Nat
           /\ Listed(check[t].list, check[t].key)
<1>1. check[t].key \in Client /\ check[t].now \in Nat /\ heap \in Seq(Seq(Nat))
  BY DEF StoreInv, StoreTyped
<1>2. Uses(check[t].list, check[t].key)
  BY DEF Uses
<1>3. check[t].list \in 1 .. Len(heap) /\ Listed(check[t].list, check[t].key)
  BY <1>1, <1>2 DEF StoreInv, StoreLists
<1>4. Len(heap) \in Nat /\ heap[check[t].list] \in Seq(Nat)
  BY <1>1, <1>3, LenProperties, ElementOfSeq
<1>5. Store!List(t) = heap[check[t].list]
  BY DEF Store!List
<1>6. Len(Store!List(t)) \in Nat /\ \A i \in 1 .. Len(Store!List(t)) : Store!List(t)[i] \in Nat
  BY <1>4, <1>5, LenProperties, ElementOfSeq
<1> QED
  BY <1>1, <1>3, <1>4, <1>5, <1>6

LEMMA LookStep ==
    ASSUME StoreInv, RacedRule, NEW t \in Thread, Store!Look(t)
    PROVE  StoreInv' /\ (StoreBound => StoreBound')
<1>1. /\ check[t].phase = "trim" /\ Active(t)
      /\ check' = [check EXCEPT ![t].phase = IF Store!Stale(t) THEN "pop" ELSE "count"]
      /\ UNCHANGED <<clock, dict, heap, granted>>
  BY DEF Store!Look, Active
<1>2. Moved(t) /\ check'[t].phase = IF Store!Stale(t) THEN "pop" ELSE "count"
  BY <1>1, PhaseSet DEF StoreInv
<1>3. /\ check'[t].key = check[t].key /\ check'[t].now = check[t].now
      /\ check'[t].list = check[t].list
  BY <1>2 DEF Moved
<1>4. PICK times : /\ times = Store!List(t) /\ times = heap[check[t].list]
                   /\ Len(times) \in Nat /\ InOrder(times)
                   /\ \A i \in 1 .. Len(times) : times[i] \in Nat
                   /\ check[t].now \in Nat /\ times \in Seq(Nat)
  BY <1>1, ListFacts DEF StoreInv, StoreTimes
<1>5. heap'[check'[t].list] = times
  BY <1>1, <1>3, <1>4
<1>6. check[t].now > raced => Unmet(t)'
  <2>1. check[t].now > raced => Unmet(t)
    BY <1>1 DEF StoreInv, StoreSerial
  <2>2. Store!Stale(t) => times # << >> /\ Head(times) < check[t].now - Span
    BY <1>4 DEF Store!Stale
  <2> QED
    BY <1>1, <1>2, <1>3, <1>4, <1>5, <2>1, <2>2 DEF Unmet, Store!List
<1>7. Trimmed(t)'
  <2> SUFFICES ASSUME ~Store!Stale(t), NEW i \in 1 .. Len(times)
               PROVE  times[i] >= check[t].now - Span - Stall
    BY <1>2, <1>3, <1>5 DEF Trimmed, Store!List
  <2>1. Span \in Nat /\ Stall \in Nat
    BY StoreAssumption
  <2>2. 1 \in 1 .. Len(times) /\ times # << >>
    <3>1. PICK n : n = Len(times) /\ n \in Nat
      BY <1>4
    <3>2. i \in 1 .. n
      BY <3>1
    <3>3. n >= 1
      BY <3>1, <3>2
    <3>4. times # << >>
      BY <3>1, <3>3, EmptySeq
    <3> QED
      BY <3>1, <3>3, <3>4
  <2>3. times[1] >= check[t].now - Span
    <3>1. PICK head : head = Head(times) /\ head = times[1] /\ head \in Nat
      BY <1>4, <2>2
    <3>2. ~(head < check[t].now - Span)
      BY <1>4, <2>2, <3>1 DEF Store!Stale
    <3> QED
      BY <1>4, <2>1, <3>1, <3>2
  <2>4. i # 1 => times[1] <= times[i] + Stall
    BY <1>4, <2>2 DEF InOrder
  <2>5. times[1] \in Nat /\ times[i] \in Nat /\ check[t].now \in Nat
    BY <1>4, <2>2
  <2> QED
    BY <2>1, <2>3, <2>4, <2>5
<1> QED
  BY <1>1, <1>2, <1>6, <1>7, QuietStep DEF StoreInv, StoreTyped

LEMMA CountStep ==
    ASSUME StoreInv, RacedRule, NEW t \in Thread, Store!Count(t)
    PROVE  StoreInv' /\ (StoreBound => StoreBound')
<1>1. /\ Active(t) /\ check[t].phase = "count"
      /\ check' = [check EXCEPT ![t].phase = IF Store!Full(t) THEN "refused"
                            ELSE IF Store!List(t) = << >> THEN "file" ELSE "append"]
      /\ UNCHANGED <<clock, dict, heap, granted>>
  BY DEF Store!Count, Active
<1>2. Moved(t) /\ check'[t].phase = IF Store!Full(t) THEN "refused"
                            ELSE IF Store!List(t) = << >> THEN "file" ELSE "append"
  BY <1>1, PhaseSet DEF StoreInv
<1>3. /\ check'[t].key = check[t].key /\ check'[t].now = check[t].now
      /\ check'[t].list = check[t].list
  BY <1>2 DEF Moved
<1>4. heap'[check'[t].list] = heap[check[t].list] /\ Store!List(t) = heap[check[t].list]
  BY <1>1, <1>3 DEF Store!List
<1>5. check[t].now > raced => Unmet(t)'
  <2>1. check[t].now > raced => Unmet(t)
    BY <1>1 DEF StoreInv, StoreSerial
  <2>2. ~Store!Full(t) => Len(Store!List(t)) < Limit
    BY <1>1, ListFacts, StoreAssumption DEF Store!Full
  <2> QED
    BY <1>1, <1>2, <1>3, <1>4, <2>1, <2>2 DEF Unmet, Store!List
<1>6. Trimmed(t)'
  BY <1>2 DEF Trimmed
<1> QED
  BY <1>1, <1>2, <1>5, <1>6, QuietStep DEF StoreInv, StoreTyped

LEMMA FileStep ==
    ASSUME StoreInv, RacedRule, NEW t \in Thread, Store!File(t)
    PROVE  StoreInv' /\ (StoreBound => StoreBound')
<1>1. /\ Active(t) /\ check[t].phase = "file"
      /\ check' = [check EXCEPT ![t].phase = "append"]
      /\ dict' = [dict EXCEPT ![check[t].key] = check[t].list]
      /\ UNCHANGED <<clock, heap, granted>>
  BY DEF Store!File, Active
<1>2. Moved(t) /\ check'[t].phase = "append"
  BY <1>1, PhaseSet DEF StoreInv
<1>3. /\ check'[t].key = check[t].key /\ check'[t].now = check[t].now
      /\ check'[t].list = check[t].list
  BY <1>2 DEF Moved
<1>4. /\ DOMAIN dict' = Client /\ check[t].key \in Client
      /\ dict'[check[t].key] = check[t].list
      /\ \A k \in Client \ {check[t].key} : dict'[k] = dict[k]
  BY <1>1 DEF StoreInv, StoreTyped
<1>5. heap'[check'[t].list] = heap[check[t].list] /\ Store!List(t) = heap[check[t].list]
  BY <1>1, <1>3 DEF Store!List
<1>6. check[t].now > raced => Unmet(t)'
  <2>1. check[t].now > raced => Unmet(t)
    BY <1>1 DEF StoreInv, StoreSerial
  <2> QED
    BY <1>1, <1>2, <1>3, <1>4, <1>5, <2>1 DEF Unmet, Store!List
<1>7. Trimmed(t)'
  BY <1>2 DEF Trimmed
<1> QED
  BY <1>1, <1>2, <1>4, <1>6, <1>7, QuietStep

LEMMA AnswerStep ==
    ASSUME StoreInv, RacedRule, NEW t \in Thread,
           \/ Store!Answer(t)
           \/ Store!Pop(t) /\ Store!List(t) = << >>
    PROVE  StoreInv' /\ (StoreBound => StoreBound')
<1>1. /\ Active(t) /\ check' = [check EXCEPT ![t] = Store!NoCheck]
      /\ UNCHANGED <<clock, dict, heap, granted>>
  BY DEF Store!Answer, Store!Pop, Active
<1>2. Moved(t) /\ check'[t].phase = "idle"
  BY <1>1, IdleSet DEF StoreInv
<1>3. Trimmed(t)'
  BY <1>2 DEF Trimmed
<1> QED
  BY <1>1, <1>2, <1>3, QuietStep DEF StoreInv, StoreTyped

LEMMA TickStep ==
    ASSUME StoreInv, RacedRule, Store!Tick
    PROVE  StoreInv' /\ (StoreBound => StoreBound')
<1>1. /\ clock' = clock + 1 /\ UNCHANGED <<check, dict, heap, granted>>
      /\ \A t \in Thread : Active(t) => clock < check[t].now + Stall
  BY DEF Store!Tick, Active
<1>2. /\ clock \in Nat /\ raced \in Int /\ raced <= clock
      /\ raced' \in {raced, clock + 1}
      /\ \A t \in Thread : Active(t) => check[t].now \in Nat /\ check[t].now <= clock
      /\ \A i \in 1 .. Len(granted) : granted[i].now \in Nat /\ granted[i].now <= clock
      /\ Span \in Nat /\ Stall \in Nat
  BY <1>1, GrantedTypes, StoreAssumption DEF StoreInv, StoreTyped, StoreTimes, RacedRule
<1>3. raced' \in Int /\ raced <= raced' /\ raced' <= clock'
  BY <1>1, <1>2
<1>4. \A i \in 1 .. Len(granted) : (Past(i) => Past(i)') /\ (Recent(i)' => Recent(i))
  BY <1>1, <1>2, <1>3 DEF Past, Recent, Active
<1>5. StoreTyped'
  BY <1>1, <1>2, <1>3 DEF StoreInv, StoreTyped, Active
<1>6. StoreTimes'
  <2>1. \A t \in Thread : Active(t)' => check'[t].now <= clock' /\ clock' <= check'[t].now + Stall
    BY <1>1, <1>2 DEF Active
  <2>2. \A l \in 1 .. Len(heap) : \A i \in 1 .. Len(heap[l]) : heap[l][i] <= clock'
    <3> SUFFICES ASSUME NEW l \in 1 .. Len(heap), NEW i \in 1 .. Len(heap[l])
                 PROVE  heap[l][i] <= clock'
      OBVIOUS
    <3>1. heap[l] \in Seq(Nat)
      BY ElementOfSeq DEF StoreInv, StoreTyped
    <3>2. heap[l][i] \in Nat /\ heap[l][i] <= clock
      BY <3>1, ElementOfSeq DEF StoreInv, StoreTimes
    <3> QED
      BY <1>1, <1>2, <3>2
  <2> QED
    BY <1>1, <1>2, <1>3, <2>1, <2>2 DEF StoreInv, StoreTimes, InOrder
<1>7. StoreSerial'
  <2>1. \A t, u \in Thread : Active(t)' /\ Active(u)' /\ t # u => raced' = clock'
    BY DEF RacedRule, Active
  <2>2. ASSUME NEW t \in Thread, Active(t)'
        PROVE  check'[t].now > raced' \/ \A i \in 1 .. Len(granted') : ~Recent(i)'
    <3>1. CASE raced' = raced
      BY <1>1, <2>2, <3>1 DEF StoreInv, StoreSerial, Active, Recent
    <3>2. CASE raced' = clock + 1
      BY <1>1, <1>2, <3>2 DEF Recent
    <3> QED
      BY <1>2, <3>1, <3>2
  <2>3. ASSUME NEW t \in Thread, Active(t)', check'[t].now > raced'
        PROVE  Unmet(t)'
    <3>1. Active(t) /\ check[t].now > raced
      BY <1>1, <1>2, <1>3, <2>3 DEF Active
    <3>2. Unmet(t)
      BY <3>1 DEF StoreInv, StoreSerial
    <3> QED
      BY <1>1, <3>2 DEF Unmet, Store!List
  <2> QED
    BY <2>1, <2>2, <2>3 DEF StoreSerial
<1>8. \A t \in Thread : Trimmed(t)'
  BY <1>1 DEF StoreInv, Trimmed, Store!List
<1>9. \A l, k : Uses(l, k)' <=> Uses(l, k)
  BY <1>1 DEF Uses, Active
<1>10. ASSUME NEW l, NEW k \in Client, Listed(l, k)
       PROVE  Listed(l, k)'
  <2>1. PICK s \in Seq(Nat) : Traces(s, heap[l], k, granted) /\ (dict[k] = l => Covers(s, k))
    BY <1>10 DEF Listed
  <2>2. Covers(s, k) => Covers(s, k)'
    BY <1>1, <1>4 DEF Covers
  <2>3. Traces(s, heap'[l], k, granted') /\ (dict'[k] = l => dict[k] = l)
    BY <1>1, <2>1
  <2> QED
    BY <2>1, <2>2, <2>3 DEF Listed
<1>11. StoreLists'
  BY <1>1, <1>4, <1>9, <1>10 DEF StoreInv, StoreLists
<1>12. StoreBound => StoreBound'
  <2>1. \A k \in Client : \A w \in Int : Within(k, w)' = Within(k, w)
    BY <1>1 DEF Within
  <2> QED
    BY <1>2, <1>3, <2>1 DEF StoreBound
<1> QED
  BY <1>5, <1>6, <1>7, <1>8, <1>11, <1>12 DEF StoreInv

\* What a list keeps, if it and the requests let through stay as they are.
LEMMA ListedKept ==
    ASSUME NEW l, NEW k \in Client, Listed(l, k), heap'[l] = heap[l], granted' = granted,
           dict'[k] = dict[k],
           \A i \in 1 .. Len(granted) : (Past(i) => Past(i)') /\ (Recent(i)' => Recent(i))
    PROVE  Listed(l, k)'
<1>1. PICK s \in Seq(Nat) : Traces(s, heap[l], k, granted) /\ (dict[k] = l => Covers(s, k))
  BY DEF Listed
<1>2. Covers(s, k) => Covers(s, k)'
  BY DEF Covers
<1>3. Traces(s, heap'[l], k, granted') /\ (dict'[k] = l => dict[k] = l)
  BY <1>1
<1> QED
  BY <1>1, <1>2, <1>3 DEF Listed

LEMMA HeapTypes ==
    ASSUME StoreInv
    PROVE  /\ Len(heap) \in Nat /\ heap \in Seq(Seq(Nat))
           /\ \A l \in 1 .. Len(heap) :
                 /\ heap[l] \in Seq(Nat) /\ Len(heap[l]) \in Nat /\ InOrder(heap[l])
                 /\ \A i \in 1 .. Len(heap[l]) : heap[l][i] \in Nat /\ heap[l][i] <= clock
<1>1. heap \in Seq(Seq(Nat))
  BY DEF StoreInv, StoreTyped
<1>2. Len(heap) \in Nat /\ \A l \in 1 .. Len(heap) : heap[l] \in Seq(Nat)
  BY <1>1, LenProperties, ElementOfSeq
<1>3. \A l \in 1 .. Len(heap) :
         Len(heap[l]) \in Nat /\ \A i \in 1 .. Len(heap[l]) : heap[l][i] \in Nat
  BY <1>2, LenProperties, ElementOfSeq
<1> QED
  BY <1>1, <1>2, <1>3 DEF StoreInv, StoreTimes

LEMMA GetStep ==
    ASSUME StoreInv, RacedRule, NEW t \in Thread, NEW k \in Client, Store!Get(t, k)
    PROVE  StoreInv' /\ (StoreBound => StoreBound')
<1>1. /\ check[t].phase = "idle" /\ UNCHANGED <<clock, dict, granted>>
      /\ heap' = IF dict[k] = 0 THEN Append(heap, << >>) ELSE heap
  BY DEF Store!Get
<1>2. PICK l : /\ l = IF dict[k] = 0 THEN Len(heap) + 1 ELSE dict[k]
               /\ check' = [check EXCEPT ![t] =
                               [phase |-> "trim", key |-> k, now |-> clock, list |-> l]]
  BY DEF Store!Get
<1>3. /\ check'[t].phase = "trim" /\ check'[t].key = k /\ check'[t].now = clock
      /\ check'[t].list = l /\ DOMAIN check'[t] = Fields
      /\ DOMAIN check' = Thread /\ \A u \in Thread \ {t} : check'[u] = check[u]
  BY <1>2 DEF StoreInv, StoreTyped, Fields
<1>4. /\ clock \in Nat /\ raced \in Int /\ raced <= clock
      /\ raced' \in {raced, clock}
      /\ \A i \in 1 .. Len(granted) : granted[i].now \in Nat /\ granted[i].now <= clock
      /\ Span \in Nat /\ Stall \in Nat
  BY <1>1, GrantedTypes, StoreAssumption DEF StoreInv, StoreTyped, StoreTimes, RacedRule
<1>5. raced' \in Int /\ raced <= raced' /\ raced' <= clock'
  BY <1>1, <1>4
<1>6. \A i \in 1 .. Len(granted) : (Past(i) => Past(i)') /\ (Recent(i)' => Recent(i))
  BY <1>1, <1>3, <1>4, <1>5 DEF Past, Recent, Active
<1>7. /\ heap' \in Seq(Seq(Nat)) /\ Len(heap') \in Nat /\ Len(heap') >= Len(heap)
      /\ \A m \in 1 .. Len(heap) : m \in 1 .. Len(heap') /\ heap'[m] = heap[m]
      /\ \A m \in 1 .. Len(heap') :
            m \in 1 .. Len(heap) \/ (dict[k] = 0 /\ m = l /\ heap'[m] = << >>)
      /\ dict[k] = 0 => l \in 1 .. Len(heap') /\ l \notin 1 .. Len(heap) /\ heap'[l] = << >>
  <2>1. << >> \in Seq(Nat) /\ heap \in Seq(Seq(Nat)) /\ Len(heap) \in Nat
    BY EmptySeq, HeapTypes
  <2>2. CASE dict[k] = 0
    <3>1. /\ heap' \in Seq(Seq(Nat)) /\ Len(heap') = Len(heap) + 1
          /\ \A m \in 1 .. Len(heap) : heap'[m] = heap[m]
          /\ heap'[Len(heap) + 1] = << >>
      BY <1>1, <2>1, <2>2, AppendProperties
    <3>2. PICK n : n = Len(heap) /\ n \in Nat /\ l = n + 1
      BY <1>2, <2>1, <2>2
    <3>3. \A m \in 1 .. n : m \in 1 .. n + 1
      BY <3>2
    <3>4. \A m \in 1 .. n + 1 : m \in 1 .. n \/ m = n + 1
      BY <3>2
    <3>5. n + 1 \in 1 .. n + 1 /\ n + 1 \notin 1 .. n /\ n + 1 \in Nat /\ n + 1 >= n
      BY <3>2
    <3> QED
      BY <2>2, <3>1, <3>2, <3>3, <3>4, <3>5
  <2>3. CASE dict[k] # 0
    BY <1>1, <2>1, <2>3
  <2> QED
    BY <2>2, <2>3
<1>8. StoreTyped'
  BY <1>1, <1>3, <1>5, <1>7 DEF StoreInv, StoreTyped, Active
<1>9. StoreTimes'
  <2>1. \A u \in Thread : Active(u)' => check'[u].now <= clock' /\ clock' <= check'[u].now + Stall
    BY <1>1, <1>3, <1>4 DEF StoreInv, StoreTimes, Active
  <2>2. ASSUME NEW m \in 1 .. Len(heap')
        PROVE  /\ \A i \in 1 .. Len(heap'[m]) : heap'[m][i] <= clock'
               /\ InOrder(heap'[m])
    <3>1. CASE m \in 1 .. Len(heap)
      BY <1>1, <1>7, <3>1 DEF StoreInv, StoreTimes
    <3>2. CASE heap'[m] = << >>
      <4>1. Len(heap'[m]) = 0
        BY <3>2
      <4> QED
        BY <4>1 DEF InOrder
    <3> QED
      BY <1>7, <3>1, <3>2
  <2>3. \A m \in 1 .. Len(heap') : InOrder(heap[m])' <=> InOrder(heap'[m])
    BY DEF InOrder
  <2> QED
    BY <1>1, <1>4, <1>5, <2>1, <2>2, <2>3 DEF StoreTimes
<1>10. StoreSerial'
  <2>1. \A v, u \in Thread : Active(v)' /\ Active(u)' /\ v # u => raced' = clock'
    BY DEF RacedRule, Active
  <2>2. ASSUME NEW u \in Thread, Active(u)'
        PROVE  check'[u].now > raced' \/ \A i \in 1 .. Len(granted') : ~Recent(i)'
    <3>1. CASE raced' = clock
      BY <1>1, <1>4, <3>1 DEF Recent
    <3>2. CASE raced' # clock
      <4>1. u = t
        BY <1>1, <1>3, <2>1, <2>2, <3>2 DEF Active
      <4> QED
        BY <1>1, <1>3, <1>4, <1>5, <3>2, <4>1
    <3> QED
      BY <3>1, <3>2
  <2>3. ASSUME NEW u \in Thread, Active(u)', check'[u].now > raced'
        PROVE  Unmet(u)'
    <3>1. CASE u = t
      <4>1. dict[k] # 0 => dict'[check'[t].key] = check'[t].list
        BY <1>1, <1>2, <1>3
      <4>2. dict[k] = 0 => dict'[check'[t].key] = 0 /\ heap'[check'[t].list] = << >>
        BY <1>1, <1>3, <1>7
      <4> QED
        BY <1>3, <3>1, <4>1, <4>2 DEF Unmet, Store!List
    <3>2. CASE u # t
      <4>1. Active(u) /\ check'[u].now = check[u].now /\ raced' = clock
        BY <1>1, <1>3, <2>1, <2>3, <3>2 DEF Active
      <4>2. check[u].now \in Nat /\ check[u].now <= clock
        BY <4>1 DEF StoreInv, StoreTyped, StoreTimes
      <4> QED
        BY <1>4, <2>3, <4>1, <4>2
    <3> QED
      BY <3>1, <3>2
  <2> QED
    BY <2>1, <2>2, <2>3 DEF StoreSerial
<1>11. ASSUME NEW u \in Thread
       PROVE  Trimmed(u)'
  <2>1. CASE u = t
    BY <1>3, <2>1 DEF Trimmed
  <2>2. CASE u # t /\ check[u].phase = "count"
    <3>1. check'[u] = check[u] /\ check[u].list \in 1 .. Len(heap)
      BY <1>3, <2>2, ListFacts DEF Active
    <3>2. heap'[check'[u].list] = heap[check[u].list]
      BY <1>7, <3>1
    <3> QED
      BY <3>1, <3>2 DEF StoreInv, Trimmed, Store!List
  <2>3. CASE u # t /\ check[u].phase # "count"
    BY <1>3, <2>3 DEF Trimmed
  <2> QED
    BY <2>1, <2>2, <2>3
<1>12. ASSUME NEW m, NEW k2 \in Client, Uses(m, k2)'
       PROVE  Uses(m, k2) \/ (dict[k] = 0 /\ m = l /\ k2 = k)
  <2>1. CASE m # 0 /\ dict'[k2] = m
    BY <1>1, <2>1 DEF Uses
  <2>2. CASE \E u \in Thread : Active(u)' /\ check'[u].list = m /\ check'[u].key = k2
    <3>1. PICK u \in Thread : Active(u)' /\ check'[u].list = m /\ check'[u].key = k2
      BY <2>2
    <3>2. CASE u = t
      BY <1>2, <1>3, <3>1, <3>2 DEF Uses
    <3>3. CASE u # t
      BY <1>3, <3>1, <3>3 DEF Active, Uses
    <3> QED
      BY <3>2, <3>3
  <2> QED
    BY <1>12, <2>1, <2>2 DEF Uses
<1>13. \A m, k2 : k2 \in Client /\ Uses(m, k2) => m \in 1 .. Len(heap) /\ Listed(m, k2)
  BY DEF StoreInv, StoreLists
<1>14. ASSUME NEW m, NEW k2 \in Client, Uses(m, k2)'
       PROVE  m \in 1 .. Len(heap') /\ Listed(m, k2)'
  <2>1. CASE Uses(m, k2)
    <3>1. m \in 1 .. Len(heap) /\ Listed(m, k2)
      BY <1>13, <2>1
    <3> QED
      BY <1>1, <1>6, <1>7, <3>1, ListedKept
  <2>2. CASE dict[k] = 0 /\ m = l /\ k2 = k
    <3>1. << >> \in Seq(Nat) /\ Len(<< >>) = 0
      BY EmptySeq
    <3>2. Traces(<< >>, heap'[m], k2, granted')
      BY <1>7, <2>2, <3>1 DEF Traces
    <3>3. dict'[k2] # m
      BY <1>1, <1>7, <2>2, HeapTypes
    <3> QED
      BY <1>7, <2>2, <3>1, <3>2, <3>3 DEF Listed
  <2> QED
    BY <1>12, <1>14, <2>1, <2>2
<1>15. StoreLists'
  <2>1. ASSUME NEW m, NEW k1 \in Client, NEW k2 \in Client, Uses(m, k1)', Uses(m, k2)'
        PROVE  k1 = k2
    BY <1>7, <1>12, <1>13, <2>1 DEF StoreInv, StoreLists
  <2>2. \A i \in 1 .. Len(granted') : Recent(i)' => dict'[granted'[i].key] # 0
    BY <1>1, <1>6 DEF StoreInv, StoreLists
  <2> QED
    BY <1>14, <2>1, <2>2 DEF StoreLists
<1>16. StoreBound => StoreBound'
  <2>1. \A k2 \in Client : \A w \in Int : Within(k2, w)' = Within(k2, w)
    BY <1>1 DEF Within
  <2> QED
    BY <1>4, <1>5, <2>1 DEF StoreBound
<1> QED
  BY <1>8, <1>9, <1>10, <1>11, <1>15, <1>16 DEF StoreInv

LEMMA PopStep ==
    ASSUME StoreInv, RacedRule, NEW t \in Thread, Store!Pop(t), Store!List(t) # << >>
    PROVE  StoreInv' /\ (StoreBound => StoreBound')
<1>1. /\ Active(t) /\ check[t].phase = "pop"
      /\ check' = [check EXCEPT ![t].phase = "trim"]
      /\ heap' = [heap EXCEPT ![check[t].list] = Tail(@)]
      /\ UNCHANGED <<clock, dict, granted>>
  BY DEF Store!Pop, Active
<1>2. PICK l, times : /\ l = check[t].list /\ times = heap[l] /\ times = Store!List(t)
                      /\ times # << >> /\ times \in Seq(Nat) /\ l \in 1 .. Len(heap)
  BY <1>1, ListFacts
<1>3. Moved(t) /\ check'[t].phase = "trim"
  BY <1>1, PhaseSet DEF StoreInv
<1>4. PICK left : left = Tail(times)
  OBVIOUS
<1>5. /\ left \in Seq(Nat) /\ Len(left) = Len(times) - 1 /\ Len(times) \in Nat
      /\ \A i \in 1 .. Len(left) : i + 1 \in 1 .. Len(times) /\ left[i] = times[i + 1]
  <2>1. /\ left \in Seq(Nat) /\ Len(left) = Len(times) - 1 /\ Len(times) \in Nat
        /\ \A i \in 1 .. Len(left) : left[i] = times[i + 1]
    BY <1>2, <1>4, HeadTailProperties, LenProperties
  <2> QED
    BY <2>1
<1>6. /\ heap' \in Seq(Seq(Nat)) /\ Len(heap') = Len(heap)
      /\ heap'[l] = left /\ \A m \in 1 .. Len(heap) : m # l => heap'[m] = heap[m]
  <2>1. heap' = [heap EXCEPT ![l] = left]
    BY <1>1, <1>2, <1>4
  <2> QED
    BY <1>2, <1>5, <2>1, HeapTypes, ExceptSeq
<1>7. check[t].now > raced => Unmet(t) /\ Unmet(t)'
  <2>1. check[t].now > raced => Unmet(t)
    BY <1>1 DEF StoreInv, StoreSerial
  <2> QED
    BY <1>1, <1>2, <1>3, <2>1 DEF Moved, Unmet, Store!List
<1>8. /\ StoreSerial' /\ raced' \in Int /\ raced <= raced' /\ raced' <= clock
      /\ \A u \in Thread : Active(u)' =>
            Active(u) /\ check'[u].key = check[u].key /\ check'[u].now = check[u].now
                      /\ check'[u].list = check[u].list
      /\ \A i \in 1 .. Len(granted) : (Past(i) => Past(i)') /\ (Recent(i)' => Recent(i))
  BY <1>1, <1>3, <1>7, MovedSerial
<1>9. StoreTyped'
  <2>1. \A u \in Thread : DOMAIN check'[u] = Fields
    BY <1>3 DEF Moved, StoreInv, StoreTyped
  <2> QED
    BY <1>1, <1>3, <1>6, <1>8, <2>1 DEF Moved, StoreInv, StoreTyped
<1>10. \A i \in 1 .. Len(left) : left[i] \in Nat /\ left[i] <= clock
  BY <1>2, <1>5, HeapTypes
<1>11. InOrder(left)
  <2>1. InOrder(times)
    BY <1>2, HeapTypes
  <2> SUFFICES ASSUME NEW i \in 1 .. Len(left), NEW j \in 1 .. Len(left), i < j
               PROVE  left[i] <= left[j] + Stall
    BY DEF InOrder
  <2>2. i + 1 \in 1 .. Len(times) /\ j + 1 \in 1 .. Len(times) /\ i + 1 < j + 1
    BY <1>5
  <2>3. times[i + 1] <= times[j + 1] + Stall
    BY <2>1, <2>2 DEF InOrder
  <2> QED
    BY <1>5, <2>3
<1>12. StoreTimes'
  <2>1. ASSUME NEW m \in 1 .. Len(heap')
        PROVE  /\ \A i \in 1 .. Len(heap'[m]) : heap'[m][i] <= clock'
               /\ InOrder(heap'[m])
    <3>1. CASE m = l
      BY <1>1, <1>6, <1>10, <1>11, <3>1
    <3>2. CASE m # l
      BY <1>1, <1>6, <2>1, <3>2, HeapTypes
    <3> QED
      BY <3>1, <3>2
  <2>2. \A m \in 1 .. Len(heap') : InOrder(heap[m])' <=> InOrder(heap'[m])
    BY DEF InOrder
  <2> QED
    BY <1>1, <1>8, <2>1, <2>2 DEF StoreInv, StoreTimes
<1>13. ASSUME NEW u \in Thread
       PROVE  Trimmed(u)'
  <2>1. CASE u = t
    BY <1>3, <2>1 DEF Trimmed
  <2>2. CASE u # t /\ check[u].phase = "count"
    <3>1. check'[u] = check[u] /\ check[u].list \in 1 .. Len(heap)
      BY <1>3, <2>2, ListFacts DEF Active, Moved
    <3>2. CASE check[u].list # l
      BY <1>6, <3>1, <3>2 DEF StoreInv, Trimmed, Store!List
    <3>3. CASE check[u].list = l
      <4>1. \A i \in 1 .. Len(times) : times[i] >= check[u].now - Span - Stall
        BY <1>2, <2>2, <3>3 DEF StoreInv, Trimmed, Store!List
      <4>2. \A i \in 1 .. Len(left) : left[i] >= check[u].now - Span - Stall
        BY <1>5, <4>1
      <4> QED
        BY <1>6, <3>1, <3>3, <4>2 DEF Trimmed, Store!List
    <3> QED
      BY <3>2, <3>3
  <2>3. CASE u # t /\ check[u].phase # "count"
    BY <1>3, <2>3 DEF Trimmed, Moved
  <2> QED
    BY <2>1, <2>2, <2>3
<1>14. \A m : \A k \in Client : Uses(m, k)' => Uses(m, k)
  BY <1>1, <1>3, MovedUses
<1>15. ASSUME NEW m, NEW k \in Client, Uses(m, k)'
       PROVE  m \in 1 .. Len(heap') /\ Listed(m, k)'
  <2>1. Uses(m, k) /\ m \in 1 .. Len(heap) /\ Listed(m, k)
    BY <1>14, <1>15 DEF StoreInv, StoreLists
  <2>2. CASE m # l
    BY <1>1, <1>6, <1>8, <2>1, <2>2, ListedKept
  <2>3. CASE m = l
    <3>1. PICK s \in Seq(Nat) : Traces(s, times, k, granted) /\ (dict[k] = l => Covers(s, k))
      BY <1>2, <2>1, <2>3 DEF Listed
    <3>2. PICK u : /\ u \in Seq(Nat) /\ Traces(u, left, k, granted)
                   /\ 1 \in 1 .. Len(s) /\ granted[s[1]].now = Head(times)
                   /\ \A i : (\E j \in 1 .. Len(s) : s[j] = i)
                                => i = s[1] \/ \E j \in 1 .. Len(u) : u[j] = i
      <4>1. /\ Tail(s) \in Seq(Nat) /\ Traces(Tail(s), Tail(times), k, granted)
            /\ 1 \in 1 .. Len(s) /\ granted[s[1]].now = Head(times)
            /\ \A i : (\E j \in 1 .. Len(s) : s[j] = i)
                         => i = s[1] \/ \E j \in 1 .. Len(Tail(s)) : Tail(s)[j] = i
        BY <1>2, <3>1, TracesTail
      <4> QED
        BY <1>4, <4>1
    <3>3. ASSUME dict[k] = l, NEW i \in 1 .. Len(granted), granted[i].key = k, Recent(i)'
          PROVE  (\E j \in 1 .. Len(u) : u[j] = i) \/ Past(i)'
      <4>1. Recent(i)
        BY <1>8, <3>3
      <4>2. (\E j \in 1 .. Len(s) : s[j] = i) \/ Past(i)
        BY <3>1, <3>3, <4>1 DEF Covers
      <4>3. CASE i = s[1]
        <5>1. check[t].now > raced
          BY <1>1, <4>1 DEF StoreInv, StoreSerial
        <5>2. granted[i].now < check[t].now - Span
          BY <1>1, <1>2, <1>7, <3>2, <4>3, <5>1 DEF Unmet
        <5>3. \A v \in Thread : Active(v) => v = t
          <6>1. raced # clock
            BY <4>1, GrantedTypes DEF Recent, StoreInv, StoreTyped, StoreTimes
          <6> QED
            BY <1>1, <6>1 DEF StoreInv, StoreSerial
        <5>4. check[t].now \in Nat /\ check[t].now <= clock /\ granted[i].now \in Nat
              /\ Span \in Nat /\ clock \in Nat
          BY <1>1, GrantedTypes, StoreAssumption DEF StoreInv, StoreTyped, StoreTimes
        <5>5. Past(i)
          BY <5>2, <5>3, <5>4 DEF Past
        <5> QED
          BY <1>8, <5>5
      <4> QED
        BY <1>8, <3>2, <4>2, <4>3
    <3>4. dict'[k] = l => Covers(u, k)'
      BY <1>1, <3>3 DEF Covers
    <3>5. Traces(u, heap'[m], k, granted')
      BY <1>1, <1>6, <2>3, <3>2
    <3> QED
      BY <1>6, <2>1, <2>3, <3>2, <3>4, <3>5 DEF Listed
  <2> QED
    BY <2>2, <2>3
<1>16. StoreLists'
  <2>1. \A m : \A k1, k2 \in Client : Uses(m, k1)' /\ Uses(m, k2)' => k1 = k2
    BY <1>14 DEF StoreInv, StoreLists
  <2>2. \A i \in 1 .. Len(granted') : Recent(i)' => dict'[granted'[i].key] # 0
    BY <1>1, <1>8 DEF StoreInv, StoreLists
  <2> QED
    BY <1>15, <2>1, <2>2 DEF StoreLists
<1>17. StoreBound => StoreBound'
  <2>1. \A k \in Client : \A w \in Int : Within(k, w)' = Within(k, w)
    BY <1>1 DEF Within
  <2>2. raced \in Int
    BY DEF StoreInv, StoreTyped
  <2> QED
    BY <1>8, <2>1, <2>2 DEF StoreBound
<1> QED
  BY <1>8, <1>9, <1>12, <1>13, <1>16, <1>17 DEF StoreInv

\* What a list has requests of, it has as many of.
LEMMA AsManyAs ==
    ASSUME NEW s \in Seq(Nat), NEW S, \A x \in S : \E j \in 1 .. Len(s) : s[j] = x
    PROVE  IsFiniteSet(S) /\ Cardinality(S) \in Nat /\ Cardinality(S) <= Len(s)
<1>1. PICK n : n = Len(s) /\ n \in Nat
  BY LenProperties
<1>2. IsFiniteSet(1 .. n) /\ Cardinality(1 .. n) = n
  <2>1. /\ IsFiniteSet(1 .. n)
        /\ Cardinality(1 .. n) = IF 1 > n THEN 0 ELSE n - 1 + 1
    BY <1>1, 1 \in Int, n \in Int, FS_Interval
  <2> QED
    BY <1>1, <2>1
<1>3. PICK place : place = [x \in S |-> CHOOSE j \in 1 .. n : s[j] = x]
  OBVIOUS
<1>4. \A x \in S : place[x] \in 1 .. n /\ s[place[x]] = x
  BY <1>1, <1>3
<1>5. place \in [S -> 1 .. n]
  BY <1>3, <1>4
<1>6. \A x, y \in S : place[x] = place[y] => x = y
  BY <1>4
<1>7. place \in Injection(S, 1 .. n)
  BY <1>5, <1>6 DEF Injection, IsInjective
<1>8. IsFiniteSet(S) /\ Cardinality(S) <= Cardinality(1 .. n)
  BY <1>2, <1>7, FS_Injection
<1> QED
  BY <1>1, <1>2, <1>8, FS_CardinalityType

LEMMA GrantStep ==
    ASSUME StoreInv, RacedRule, NEW t \in Thread, Store!Grant(t)
    PROVE  StoreInv' /\ (StoreBound => StoreBound')
<1>1. /\ Active(t) /\ check[t].phase = "append"
      /\ check' = [check EXCEPT ![t] = Store!NoCheck]
      /\ heap' = [heap EXCEPT ![check[t].list] = Append(@, check[t].now)]
      /\ granted' = Append(granted, [key |-> check[t].key, now |-> check[t].now])
      /\ UNCHANGED <<clock, dict>>
  BY DEF Store!Grant, Active
<1>2. PICK l, times : /\ l = check[t].list /\ times = heap[l] /\ times = Store!List(t)
                      /\ times \in Seq(Nat) /\ Len(times) \in Nat /\ l \in 1 .. Len(heap)
  BY <1>1, ListFacts
<1>3. PICK key, now : /\ key = check[t].key /\ now = check[t].now
                      /\ key \in Client /\ now \in Nat /\ now <= clock /\ clock <= now + Stall
  BY <1>1 DEF StoreInv, StoreTyped, StoreTimes
<1>4. PICK e : e = [key |-> key, now |-> now]
  OBVIOUS
<1>5. e \in [key : Client, now : Nat] /\ e.key = key /\ e.now = now
  BY <1>3, <1>4
<1>6. Moved(t) /\ check'[t].phase = "idle"
  BY <1>1, IdleSet DEF StoreInv
<1>7. PICK more : more = Append(times, now)
  OBVIOUS
<1>8. /\ more \in Seq(Nat) /\ Len(more) = Len(times) + 1
      /\ more[Len(times) + 1] = now
      /\ \A i \in 1 .. Len(times) : more[i] = times[i]
  BY <1>2, <1>3, <1>7, AppendProperties
<1>9. \A i \in 1 .. Len(more) : i \in 1 .. Len(times) \/ i = Len(times) + 1
  BY <1>2, <1>8
<1>10. /\ heap' \in Seq(Seq(Nat)) /\ Len(heap') = Len(heap)
       /\ heap'[l] = more /\ \A m \in 1 .. Len(heap) : m # l => heap'[m] = heap[m]
  <2>1. heap' = [heap EXCEPT ![l] = more]
    BY <1>1, <1>2, <1>3, <1>7
  <2> QED
    BY <1>2, <1>8, <2>1, HeapTypes, ExceptSeq
<1>11. PICK n : n = Len(granted) /\ n \in Nat
  BY GrantedTypes DEF StoreInv
<1>12. /\ granted' = Append(granted, e) /\ granted' \in Seq([key : Client, now : Nat])
       /\ Len(granted') = n + 1 /\ granted'[n + 1] = e
       /\ \A i \in 1 .. n : granted'[i] = granted[i]
  <2>1. granted' = Append(granted, e)
    BY <1>1, <1>3, <1>4
  <2>2. granted \in Seq([key : Client, now : Nat])
    BY DEF StoreInv, StoreTyped
  <2> QED
    BY <1>5, <1>11, <2>1, <2>2, AppendProperties
<1>13. \A i \in 1 .. n : i \in 1 .. n + 1
  BY <1>11
<1>14. \A i \in 1 .. n + 1 : i \in 1 .. n \/ i = n + 1
  BY <1>11
<1>15. /\ StoreSerial' /\ raced' \in Int /\ raced <= raced' /\ raced' <= clock
       /\ \A u \in Thread : Active(u)' =>
             Active(u) /\ check'[u].key = check[u].key /\ check'[u].now = check[u].now
                       /\ check'[u].list = check[u].list
       /\ \A i \in 1 .. n : (Past(i) => Past(i)') /\ (Recent(i)' => Recent(i))
  <2>1. \A i \in 1 .. Len(granted') :
           \/ i \in 1 .. Len(granted)
           \/ granted'[i].now = check[t].now /\ check'[t].phase = "idle"
    BY <1>3, <1>5, <1>6, <1>11, <1>12, <1>14
  <2>2. \A i \in 1 .. Len(granted) : i \in 1 .. Len(granted') /\ granted'[i] = granted[i]
    BY <1>11, <1>12, <1>13
  <2> QED
    BY <1>1, <1>6, <1>11, <2>1, <2>2, MovedSerial
<1>16. now > raced => dict[key] = l /\ Len(times) < Limit
  <2>1. now > raced => Unmet(t)
    BY <1>1, <1>3 DEF StoreInv, StoreSerial
  <2> QED
    BY <1>1, <1>2, <1>3, <2>1 DEF Unmet
<1>17. Recent(n + 1)' => now > raced
  <2>1. raced \in Int
    BY DEF StoreInv, StoreTyped
  <2> QED
    BY <1>3, <1>5, <1>12, <1>15, <2>1 DEF Recent
<1>18. StoreTyped'
  <2>1. \A u \in Thread : DOMAIN check'[u] = Fields
    BY <1>6 DEF Moved, StoreInv, StoreTyped
  <2> QED
    BY <1>1, <1>6, <1>10, <1>12, <1>15, <2>1 DEF Moved, StoreInv, StoreTyped
<1>19. \A i \in 1 .. Len(more) : more[i] \in Nat /\ more[i] <= clock
  BY <1>2, <1>3, <1>8, <1>9, HeapTypes
<1>20. InOrder(more)
  <2>1. InOrder(times) /\ \A i \in 1 .. Len(times) : times[i] \in Nat /\ times[i] <= clock
    BY <1>2, HeapTypes
  <2> SUFFICES ASSUME NEW i \in 1 .. Len(more), NEW j \in 1 .. Len(more), i < j
               PROVE  more[i] <= more[j] + Stall
    BY DEF InOrder
  <2>2. i \in 1 .. Len(times)
    BY <1>2, <1>8
  <2>3. CASE j \in 1 .. Len(times)
    BY <1>8, <2>1, <2>2, <2>3 DEF InOrder
  <2>4. CASE j = Len(times) + 1
    <3>1. clock \in Nat /\ Stall \in Nat
      BY StoreAssumption DEF StoreInv, StoreTyped
    <3>2. more[i] = times[i] /\ more[j] = now
      BY <1>8, <2>2, <2>4
    <3>3. times[i] \in Nat /\ times[i] <= clock
      BY <2>1, <2>2
    <3>4. times[i] <= now + Stall
      BY <1>3, <3>1, <3>3
    <3> QED
      BY <3>2, <3>4
  <2> QED
    BY <1>9, <2>3, <2>4
<1>21. StoreTimes'
  <2>1. ASSUME NEW m \in 1 .. Len(heap')
        PROVE  /\ \A i \in 1 .. Len(heap'[m]) : heap'[m][i] <= clock'
               /\ InOrder(heap'[m])
    <3>1. CASE m = l
      BY <1>1, <1>10, <1>19, <1>20, <3>1
    <3>2. CASE m # l
      BY <1>1, <1>10, <2>1, <3>2, HeapTypes
    <3> QED
      BY <3>1, <3>2
  <2>2. \A m \in 1 .. Len(heap') : InOrder(heap[m])' <=> InOrder(heap'[m])
    BY DEF InOrder
  <2>3. \A i \in 1 .. Len(granted') : granted'[i].now <= clock'
    BY <1>1, <1>3, <1>5, <1>11, <1>12, <1>14 DEF StoreInv, StoreTimes
  <2> QED
    BY <1>1, <1>15, <2>1, <2>2, <2>3 DEF StoreInv, StoreTimes
<1>22. ASSUME NEW u \in Thread
       PROVE  Trimmed(u)'
  <2>1. CASE u = t
    BY <1>6, <2>1 DEF Trimmed
  <2>2. CASE u # t /\ check[u].phase = "count"
    <3>1. check'[u] = check[u] /\ check[u].list \in 1 .. Len(heap) /\ Active(u)
      BY <1>6, <2>2, ListFacts DEF Active, Moved
    <3>2. CASE check[u].list # l
      BY <1>10, <3>1, <3>2 DEF StoreInv, Trimmed, Store!List
    <3>3. CASE check[u].list = l
      <4>1. \A i \in 1 .. Len(times) : times[i] >= check[u].now - Span - Stall
        BY <1>2, <2>2, <3>3 DEF StoreInv, Trimmed, Store!List
      <4>2. now >= check[u].now - Span - Stall
        <5>1. check[u].now \in Nat /\ check[u].now <= clock /\ clock \in Nat
              /\ Span \in Nat /\ Stall \in Nat
          BY <3>1, StoreAssumption DEF StoreInv, StoreTyped, StoreTimes
        <5> QED
          BY <1>3, <5>1
      <4>3. \A i \in 1 .. Len(more) : more[i] >= check[u].now - Span - Stall
        BY <1>8, <1>9, <4>1, <4>2
      <4> QED
        BY <1>10, <3>1, <3>3, <4>3 DEF Trimmed, Store!List
    <3> QED
      BY <3>2, <3>3
  <2>3. CASE u # t /\ check[u].phase # "count"
    BY <1>6, <2>3 DEF Trimmed, Moved
  <2> QED
    BY <2>1, <2>2, <2>3
<1>23. \A m : \A k \in Client : Uses(m, k)' => Uses(m, k)
  BY <1>1, <1>6, MovedUses
<1>24. Uses(l, key)
  BY <1>1, <1>2, <1>3 DEF Uses
<1>25. ASSUME NEW m, NEW k \in Client, Uses(m, k)'
       PROVE  m \in 1 .. Len(heap') /\ Listed(m, k)'
  <2>1. Uses(m, k) /\ m \in 1 .. Len(heap) /\ Listed(m, k)
    BY <1>23, <1>25 DEF StoreInv, StoreLists
  <2>2. PICK s \in Seq(Nat) : /\ Traces(s, heap[m], k, granted)
                              /\ dict[k] = m => Covers(s, k)
    BY <2>1 DEF Listed
  <2>3. granted \in Seq([key : Client, now : Nat])
    BY DEF StoreInv, StoreTyped
  <2>4. ASSUME dict[k] = m, NEW i \in 1 .. n, granted'[i].key = k, Recent(i)'
        PROVE  (\E j \in 1 .. Len(s) : s[j] = i) \/ Past(i)'
    <3>1. Recent(i) /\ granted[i].key = k
      BY <1>12, <1>15, <2>4
    <3> QED
      BY <1>11, <1>15, <2>2, <2>4, <3>1 DEF Covers
  <2>5. CASE m # l
    <3>1. Traces(s, heap'[m], k, granted')
      <4>1. Traces(s, heap[m], k, Append(granted, e))
        BY <1>5, <2>2, <2>3, TracesGrown
      <4> QED
        BY <1>10, <1>12, <2>1, <2>5, <4>1
    <3>2. ASSUME dict[k] = m, granted'[n + 1].key = k
          PROVE  ~Recent(n + 1)'
      BY <1>5, <1>12, <1>16, <1>17, <2>5, <3>2
    <3>3. dict'[k] = m => Covers(s, k)'
      BY <1>1, <1>12, <1>14, <2>4, <3>2 DEF Covers
    <3> QED
      BY <1>10, <2>1, <3>1, <3>3 DEF Listed
  <2>6. CASE m = l
    <3>1. k = key
      BY <1>3, <1>24, <2>1, <2>6 DEF StoreInv, StoreLists
    <3>2. PICK u : u = Append(s, n + 1)
      OBVIOUS
    <3>3. /\ u \in Seq(Nat) /\ Traces(u, more, k, granted')
          /\ \A i : (\E j \in 1 .. Len(s) : s[j] = i) \/ i = n + 1
                => \E j \in 1 .. Len(u) : u[j] = i
      <4>1. Traces(s, times, k, granted) /\ e.key = k /\ e.now \in Nat
        BY <1>2, <1>3, <1>5, <2>2, <2>6, <3>1
      <4>2. PICK Kinds : granted \in Seq(Kinds) /\ e \in Kinds
        BY <1>5, <2>3
      <4>3. /\ Append(s, Len(granted) + 1) \in Seq(Nat)
            /\ Traces(Append(s, Len(granted) + 1), Append(times, e.now), k, Append(granted, e))
            /\ \A i : (\E j \in 1 .. Len(s) : s[j] = i) \/ i = Len(granted) + 1
                  => \E j \in 1 .. Len(Append(s, Len(granted) + 1)) :
                        Append(s, Len(granted) + 1)[j] = i
        <5>1. OneMore(s, times, k, granted, e)
          BY <1>2, <2>2, <4>1, <4>2, TracesAppended
        <5> QED
          BY <5>1 DEF OneMore
      <4> QED
        BY <1>5, <1>7, <1>11, <1>12, <3>2, <4>3
    <3>4. dict'[k] = l => Covers(u, k)'
      BY <1>1, <1>12, <1>14, <2>4, <2>6, <3>3 DEF Covers
    <3> QED
      BY <1>2, <1>10, <2>6, <3>3, <3>4 DEF Listed
  <2> QED
    BY <2>5, <2>6
<1>26. StoreLists'
  <2>1. \A m : \A k1, k2 \in Client : Uses(m, k1)' /\ Uses(m, k2)' => k1 = k2
    BY <1>23 DEF StoreInv, StoreLists
  <2>2. ASSUME NEW i \in 1 .. n + 1, Recent(i)'
        PROVE  dict'[granted'[i].key] # 0
    <3>1. CASE i \in 1 .. n
      BY <1>1, <1>11, <1>12, <1>15, <2>2, <3>1 DEF StoreInv, StoreLists
    <3>2. CASE i = n + 1
      <4>1. dict[key] = l /\ l # 0
        BY <1>2, <1>16, <1>17, <2>2, <3>2, HeapTypes
      <4> QED
        BY <1>1, <1>5, <1>12, <3>2, <4>1
    <3> QED
      BY <1>14, <3>1, <3>2
  <2> QED
    BY <1>12, <1>25, <2>1, <2>2 DEF StoreLists
<1>27. ASSUME StoreBound, NEW k \in Client, NEW w \in Int, w > raced'
       PROVE  Cardinality(Within(k, w)') <= Limit
  <2>1. PICK old, all : old = Within(k, w) /\ all = Within(k, w)'
    OBVIOUS
  <2>2. /\ \A i \in old : i \in 1 .. n /\ granted[i].key = k /\ granted[i].now \in w .. w + Span
        /\ \A i \in all : \/ i \in old
                          \/ i = n + 1 /\ k = key /\ now \in w .. w + Span
        /\ old \subseteq all
    BY <1>5, <1>11, <1>12, <1>13, <1>14, <2>1 DEF Within
  <2>3. w > raced
    <3>1. raced \in Int
      BY DEF StoreInv, StoreTyped
    <3> QED
      BY <1>15, <1>27, <3>1
  <2>4. Cardinality(old) <= Limit
    BY <1>27, <2>1, <2>3 DEF StoreBound
  <2>5. CASE all = old
    BY <2>1, <2>4, <2>5
  <2>6. CASE all # old
    <3>1. k = key /\ now \in w .. w + Span
      BY <2>2, <2>6
    <3>2. raced \in Int /\ Span \in Nat /\ clock \in Nat
      BY StoreAssumption DEF StoreInv, StoreTyped
    <3>3. now > raced
      BY <1>3, <2>3, <3>1, <3>2
    <3>4. dict[key] = l /\ Len(times) < Limit
      BY <1>16, <3>3
    <3>5. Listed(l, key)
      BY <1>3, <1>24 DEF StoreInv, StoreLists
    <3>6. PICK s \in Seq(Nat) : Traces(s, times, key, granted) /\ Covers(s, key)
      BY <1>2, <3>4, <3>5 DEF Listed
    <3>7. ASSUME NEW i \in old
          PROVE  \E j \in 1 .. Len(s) : s[j] = i
      <4>1. i \in 1 .. n /\ granted[i].key = key /\ granted[i].now \in w .. w + Span
        BY <2>2, <3>1
      <4>2. granted[i].now \in Int
        BY <4>1
      <4>3. Recent(i)
        BY <2>3, <3>2, <4>1, <4>2 DEF Recent
      <4>4. (\E j \in 1 .. Len(s) : s[j] = i) \/ Past(i)
        BY <1>11, <3>6, <4>1, <4>3 DEF Covers
      <4>5. ~Past(i)
        <5>1. ~(granted[i].now < now - Span)
          BY <1>3, <3>1, <3>2, <4>1, <4>2
        <5> QED
          BY <1>1, <1>3, <5>1 DEF Past
      <4> QED
        BY <4>4, <4>5
    <3>8. IsFiniteSet(old) /\ Cardinality(old) \in Nat /\ Cardinality(old) <= Len(s)
      BY <3>7, AsManyAs
    <3>9. all = old \cup {n + 1}
      BY <2>2, <2>6
    <3>10. Cardinality(all) \in Nat /\ Cardinality(all) <= Cardinality(old) + 1
      <4>1. PICK x : x = n + 1
        OBVIOUS
      <4>2. Cardinality(old \cup {x}) = IF x \in old THEN Cardinality(old) ELSE Cardinality(old) + 1
        BY <3>8, FS_AddElement
      <4>3. Cardinality(all) = Cardinality(old \cup {x})
        BY <3>9, <4>1
      <4> QED
        BY <3>8, <4>2, <4>3
    <3>11. Len(s) = Len(times)
      BY <3>6 DEF Traces
    <3> QED
      BY <1>2, <2>1, <3>4, <3>8, <3>10, <3>11, StoreAssumption
  <2> QED
    BY <2>5, <2>6
<1>28. StoreBound => StoreBound'
  BY <1>27 DEF StoreBound
<1> QED
  BY <1>15, <1>18, <1>21, <1>22, <1>26, <1>28 DEF StoreInv

-----------------------------------------------------------------------------
(* The theorems about the store in memory.                                 *)

LEMMA StoreStep ==
    ASSUME StoreInv, [Store!Next]_Store!vars
    PROVE  StoreInv' /\ (StoreBound => StoreBound')
<1>1. CASE UNCHANGED Store!vars
  <2>1. UNCHANGED <<clock, check, dict, heap, granted, raced>>
    BY <1>1 DEF Store!vars
  <2>2. /\ \A t : Active(t)' <=> Active(t)
        /\ \A i : (Recent(i)' <=> Recent(i)) /\ (Past(i)' <=> Past(i))
    BY <2>1 DEF Active, Recent, Past
  <2>3. /\ \A l, k : (Uses(l, k)' <=> Uses(l, k)) /\ (Listed(l, k)' <=> Listed(l, k))
        /\ \A t : (Trimmed(t)' <=> Trimmed(t)) /\ (Unmet(t)' <=> Unmet(t))
    BY <2>1, <2>2 DEF Uses, Listed, Covers, Trimmed, Unmet, Store!List
  <2>4. StoreTyped' /\ StoreLists' /\ StoreTimes' /\ StoreSerial'
    BY <2>1, <2>2, <2>3 DEF StoreInv, StoreTyped, StoreLists, StoreTimes, StoreSerial
  <2>5. StoreBound => StoreBound'
    BY <2>1 DEF StoreBound, Within
  <2> QED
    BY <2>3, <2>4, <2>5 DEF StoreInv
<1>2. CASE Store!Next
  <2>1. RacedRule
    BY <1>2, RacedStep
  <2>2. CASE Store!Tick
    BY <2>1, <2>2, TickStep
  <2>3. ASSUME NEW t \in Thread, NEW k \in Client, Store!Get(t, k)
        PROVE  StoreInv' /\ (StoreBound => StoreBound')
    BY <2>1, <2>3, GetStep
  <2>4. ASSUME NEW t \in Thread,
               \/ Store!Look(t) \/ Store!Pop(t) \/ Store!Count(t)
               \/ Store!File(t) \/ Store!Grant(t) \/ Store!Answer(t)
        PROVE  StoreInv' /\ (StoreBound => StoreBound')
    <3>1. CASE Store!Look(t)
      BY <2>1, <3>1, LookStep
    <3>2. CASE Store!Pop(t) /\ Store!List(t) = << >>
      BY <2>1, <3>2, AnswerStep
    <3>3. CASE Store!Pop(t) /\ Store!List(t) # << >>
      BY <2>1, <3>3, PopStep
    <3>4. CASE Store!Count(t)
      BY <2>1, <3>4, CountStep
    <3>5. CASE Store!File(t)
      BY <2>1, <3>5, FileStep
    <3>6. CASE Store!Grant(t)
      BY <2>1, <3>6, GrantStep
    <3>7. CASE Store!Answer(t)
      BY <2>1, <3>7, AnswerStep
    <3> QED
      BY <2>4, <3>1, <3>2, <3>3, <3>4, <3>5, <3>6, <3>7
  <2> QED
    BY <1>2, <2>2, <2>3, <2>4 DEF Store!Next, Store!Step
<1> QED
  BY <1>1, <1>2

LEMMA StoreInit == Store!Init => StoreInv /\ StoreBound
<1> SUFFICES ASSUME Store!Init
             PROVE  StoreInv /\ StoreBound
  OBVIOUS
<1>1. /\ clock = 0 /\ raced = 0 - 1 /\ heap = << >> /\ granted = << >>
      /\ dict = [k \in Client |-> 0] /\ check = [t \in Thread |-> Store!NoCheck]
  BY DEF Store!Init
<1>2. \A t \in Thread : ~Active(t) /\ check[t].phase = "idle" /\ DOMAIN check[t] = Fields
  BY <1>1 DEF Active, Store!NoCheck, Fields
<1>3. Len(heap) = 0 /\ Len(granted) = 0
  BY <1>1, EmptySeq
<1>4. \A i : i \notin 1 .. 0
  OBVIOUS
<1>5. StoreTyped
  <2>1. heap \in Seq(Seq(Nat)) /\ granted \in Seq([key : Client, now : Nat])
    BY <1>1, EmptySeq
  <2>2. clock \in Nat /\ raced \in Int
    BY <1>1
  <2> QED
    BY <1>1, <1>2, <2>1, <2>2 DEF StoreTyped
<1>6. \A l, k : k \in Client => ~Uses(l, k)
  BY <1>1, <1>2 DEF Uses
<1>7. StoreLists
  BY <1>3, <1>4, <1>6 DEF StoreLists
<1>8. StoreTimes
  <2>1. raced <= clock
    BY <1>1
  <2> QED
    BY <1>2, <1>3, <1>4, <2>1 DEF StoreTimes
<1>9. StoreSerial
  BY <1>2 DEF StoreSerial
<1>10. \A t \in Thread : Trimmed(t)
  BY <1>2 DEF Trimmed
<1>11. StoreBound
  <2>1. \A k, w : Within(k, w) = {}
    BY <1>3, <1>4 DEF Within
  <2>2. Cardinality({}) <= Limit
    BY FS_EmptySet, StoreAssumption
  <2> QED
    BY <2>1, <2>2 DEF StoreBound
<1> QED
  BY <1>5, <1>7, <1>8, <1>9, <1>10, <1>11 DEF StoreInv

LEMMA StorePartStart == Init /\ part = "store" => Store!Init
  BY DEF Init

LEMMA StorePartStep ==
    ASSUME [Next]_allVars, part = "store"
    PROVE  part' = "store" /\ [Store!Next]_Store!vars
  BY DEF Next, allVars, storeVars, Store!vars

\* The inductive invariant of the store, and with it the bound, hold in every
\* behaviour: whatever a race does, a list stays with one key, its timestamps stay
\* those of requests let through, and later checks are exact (security.py:66-78).
THEOREM StoreInvariant == Spec => [](part = "store" => StoreInv /\ StoreBound)
<1> DEFINE Inv == part = "store" => StoreInv /\ StoreBound
<1>1. Init => Inv
  BY StoreInit, StorePartStart
<1>2. Inv /\ [Next]_allVars => Inv'
  <2>1. [Next]_allVars => part' = part
    BY DEF Next, allVars
  <2> QED
    BY <2>1, StoreStep, StorePartStep
<1> QED
  BY <1>1, <1>2, PTL DEF Spec

\* Of the requests of a key that come after the last race, no window holds more
\* than the limit: a race does no lasting harm (security.py:66-78).
THEOREM BoundBetweenRacesHolds == Spec => []BoundBetweenRaces
<1>1. StoreInv /\ StoreBound => Store!BoundBetweenRaces
  <2> SUFFICES ASSUME StoreInv, StoreBound, NEW k \in Client, NEW w \in (raced + 1) .. clock
               PROVE  Store!Cardinality(Store!GrantedIn(k, w .. w + Span)) <= Limit
    BY DEF Store!BoundBetweenRaces
  <2>1. w \in Int /\ w > raced
    <3>1. raced \in Int /\ clock \in Nat
      BY DEF StoreInv, StoreTyped
    <3> QED
      BY <3>1
  <2>2. Store!GrantedIn(k, w .. w + Span) = Within(k, w)
    BY GrantedTypes DEF Store!GrantedIn, Within, StoreInv
  <2> QED
    BY <2>1, <2>2, StoreCardinality DEF StoreBound
<1> QED
  BY <1>1, StoreInvariant, PTL DEF BoundBetweenRaces

\* Among any races, a client is refused only if its whole limit was let through
\* in its window, or before it by no more than a check may take (66-72).
THEOREM NeverRefusedEarlyHolds == Spec => NeverRefusedEarly
<1>1. StoreInv /\ [Store!Next]_Store!vars => Store!RefusedInTime
  <2> SUFFICES ASSUME StoreInv, [Store!Next]_Store!vars, NEW t \in Thread,
                      check[t].phase = "count", check'[t].phase = "refused"
               PROVE  Store!Cardinality(Store!GrantedIn(check[t].key,
                          check[t].now - Span - Stall .. clock)) >= Limit
    BY DEF Store!RefusedInTime
  <2>1. Active(t) /\ DOMAIN check = Thread /\ DOMAIN check[t] = Fields
    BY DEF Active, StoreInv, StoreTyped
  <2>2. Store!Full(t)
    <3>1. CASE \E u \in Thread : Store!Count(u)
      BY <2>1, <3>1 DEF Store!Count, Fields
    <3>2. CASE Store!Tick \/ UNCHANGED Store!vars
      BY <3>2 DEF Store!Tick, Store!vars
    <3>3. ASSUME NEW u \in Thread, NEW k \in Client, Store!Get(u, k) PROVE FALSE
      BY <2>1, <3>3 DEF Store!Get
    <3>4. ASSUME NEW u \in Thread, Store!Look(u) \/ Store!File(u)
          PROVE  FALSE
      BY <2>1, <3>4 DEF Store!Look, Store!File, Fields
    <3>5. ASSUME NEW u \in Thread, Store!Pop(u) PROVE FALSE
      BY <2>1, <3>5, IdleSet DEF Store!Pop, Store!NoCheck, Fields
    <3>6. ASSUME NEW u \in Thread, Store!Grant(u) \/ Store!Answer(u) PROVE FALSE
      BY <2>1, <3>6 DEF Store!Grant, Store!Answer, Store!NoCheck
    <3> QED
      BY <3>1, <3>2, <3>3, <3>4, <3>5, <3>6 DEF Store!Next, Store!Step
  <2>3. PICK key, now : /\ key = check[t].key /\ now = check[t].now
                        /\ key \in Client /\ now \in Nat
    BY <2>1, ListFacts
  <2>4. PICK l, times : /\ l = check[t].list /\ times = heap[l] /\ times = Store!List(t)
                        /\ times \in Seq(Nat) /\ l \in 1 .. Len(heap)
                        /\ Len(times) \in Nat /\ Len(times) >= Limit
    BY <2>1, <2>2, ListFacts DEF Store!Full
  <2>5. \A i \in 1 .. Len(times) : /\ times[i] \in Nat /\ times[i] <= clock
                                   /\ times[i] >= now - Span - Stall
    BY <2>3, <2>4, HeapTypes DEF StoreInv, Trimmed
  <2>6. Listed(l, key)
    BY <2>1, <2>3, <2>4 DEF Uses, StoreInv, StoreLists
  <2>7. PICK s \in Seq(Nat) : Traces(s, times, key, granted)
    BY <2>4, <2>6 DEF Listed
  <2>8. PICK n : n = Len(times) /\ n \in Nat /\ n >= Limit
    BY <2>4
  <2>9. /\ \A i \in 1 .. n : /\ s[i] \in 1 .. Len(granted)
                             /\ granted[s[i]].key = key /\ granted[s[i]].now = times[i]
        /\ \A i, j \in 1 .. n : s[i] = s[j] => i = j
    BY <2>7, <2>8 DEF Traces
  <2>10. PICK Hits : Hits = {i \in 1 .. Len(granted) : /\ granted[i].key = key
                                /\ granted[i].now \in now - Span - Stall .. clock}
    OBVIOUS
  <2>11. IsFiniteSet(Hits)
    <3>1. IsFiniteSet(1 .. Len(granted)) /\ Hits \subseteq 1 .. Len(granted)
      BY <2>10, 1 \in Int, FS_Interval, GrantedTypes DEF StoreInv
    <3> QED
      BY <3>1, FS_Subset
  <2>12. ASSUME NEW i \in 1 .. n
         PROVE  s[i] \in Hits
    <3>1. times[i] \in now - Span - Stall .. clock
      <4>1. clock \in Nat /\ Span \in Nat /\ Stall \in Nat
        BY StoreAssumption DEF StoreInv, StoreTyped
      <4> QED
        BY <2>3, <2>5, <2>8, <4>1
    <3> QED
      BY <2>9, <2>10, <3>1
  <2>13. PICK place : place = [i \in 1 .. n |-> s[i]]
    OBVIOUS
  <2>14. place \in Injection(1 .. n, Hits)
    BY <2>9, <2>12, <2>13 DEF Injection, IsInjective
  <2>15. Cardinality(1 .. n) <= Cardinality(Hits)
    BY <2>11, <2>14, FS_Injection
  <2>16. Cardinality(1 .. n) = n
    <3>1. Cardinality(1 .. n) = IF 1 > n THEN 0 ELSE n - 1 + 1
      BY <2>8, 1 \in Int, n \in Int, FS_Interval
    <3> QED
      BY <2>8, <3>1
  <2>17. Cardinality(Hits) \in Nat
    BY <2>11, FS_CardinalityType
  <2>18. Cardinality(Hits) >= Limit
    BY <2>8, <2>15, <2>16, <2>17, StoreAssumption
  <2>19. Store!GrantedIn(key, now - Span - Stall .. clock) = Hits
    BY <2>10, GrantedTypes DEF Store!GrantedIn, StoreInv
  <2> QED
    BY <2>3, <2>18, <2>19, StoreCardinality
<1>2. (part = "store" => StoreInv) /\ [Next]_allVars
        => [part = "store" => Store!RefusedInTime]_storeVars
  BY <1>1, StorePartStep
<1>3. (part = "store" => StoreInv /\ StoreBound) => (part = "store" => StoreInv)
  OBVIOUS
<1> QED
  BY <1>2, <1>3, StoreInvariant, PTL DEF Spec, NeverRefusedEarly
=============================================================================
