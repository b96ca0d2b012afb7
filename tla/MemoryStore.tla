----------------------------- MODULE MemoryStore -----------------------------
(* The in-memory store of the request filter (security.py).  The threads of *)
(* one process share a dictionary of lists and take no lock, so a check is *)
(* as many steps as it has reads and writes, and a thread may go on with a *)
(* list that the dictionary no longer holds.                               *)
EXTENDS Integers, FiniteSets, Sequences

CONSTANTS
    Thread,
    Client,      \* the keys, ip and endpoint
    Limit,       \* max_req
    Span,        \* window
    Stall,       \* longest time a thread needs for a check
    MaxClock,    \* bounds of the runs
    MaxGranted

VARIABLES
    clock,
    check,       \* per thread: phase, key, now, and the list it works on
    dict,        \* _store: the list of each key, 0 where there is none
    heap,        \* the list objects
    granted,     \* history: the requests let through, with key and now
    raced        \* history: the last time at which two threads were in a check

vars == <<clock, check, dict, heap, granted, raced>>

NoCheck == [phase |-> "idle", key |-> CHOOSE k \in Client : TRUE, now |-> 0, list |-> 0]

Init == /\ clock = 0
        /\ check = [t \in Thread |-> NoCheck]
        /\ dict = [k \in Client |-> 0]
        /\ heap = << >>
        /\ granted = << >>
        /\ raced = 0 - 1

List(t) == heap[check[t].list]

\* The time, and the list of the key or a new one.
Get(t, k) ==
    /\ check[t].phase = "idle"
    /\ Len(granted) < MaxGranted
    /\ \E l \in {IF dict[k] = 0 THEN Len(heap) + 1 ELSE dict[k]} :
          check' = [check EXCEPT ![t] = [phase |-> "trim", key |-> k, now |-> clock, list |-> l]]
    /\ heap' = IF dict[k] = 0 THEN Append(heap, << >>) ELSE heap
    /\ UNCHANGED <<clock, dict, granted>>

\* Mutant: the trimming stops short of the cutoff.
Stale_OffByOne(t) == List(t) # << >> /\ Head(List(t)) <= check[t].now - Span + 1

\* Mutant: old timestamps stay.
Stale_Never(t) == List(t) # << >> /\ Head(List(t)) < 0

Stale(t) == List(t) # << >> /\ Head(List(t)) < check[t].now - Span

\* The loop's condition, and its body.
Look(t) == /\ check[t].phase = "trim"
           /\ check' = [check EXCEPT ![t].phase = IF Stale(t) THEN "pop" ELSE "count"]
           /\ UNCHANGED <<clock, dict, heap, granted>>

Pop(t) == /\ check[t].phase = "pop"
          /\ IF List(t) = << >>  \* IndexError
             THEN /\ check' = [check EXCEPT ![t] = NoCheck]
                  /\ UNCHANGED heap
             ELSE /\ check' = [check EXCEPT ![t].phase = "trim"]
                  /\ heap' = [heap EXCEPT ![check[t].list] = Tail(@)]
          /\ UNCHANGED <<clock, dict, granted>>

Full(t) == Len(List(t)) >= Limit

Count(t) == /\ check[t].phase = "count"
            /\ check' = [check EXCEPT ![t].phase =
                            IF Full(t) THEN "refused"
                            ELSE IF List(t) = << >> THEN "file" ELSE "append"]
            /\ UNCHANGED <<clock, dict, heap, granted>>

File(t) == /\ check[t].phase = "file"
           /\ dict' = [dict EXCEPT ![check[t].key] = check[t].list]
           /\ check' = [check EXCEPT ![t].phase = "append"]
           /\ UNCHANGED <<clock, heap, granted>>

Grant(t) == /\ check[t].phase = "append"
            /\ heap' = [heap EXCEPT ![check[t].list] = Append(@, check[t].now)]
            /\ granted' = Append(granted, [key |-> check[t].key, now |-> check[t].now])
            /\ check' = [check EXCEPT ![t] = NoCheck]
            /\ UNCHANGED <<clock, dict>>

Answer(t) == /\ check[t].phase = "refused"
             /\ check' = [check EXCEPT ![t] = NoCheck]
             /\ UNCHANGED <<clock, dict, heap, granted>>

Tick == /\ clock < MaxClock
        /\ \A t \in Thread : check[t].phase # "idle" => clock < check[t].now + Stall
        /\ clock' = clock + 1
        /\ UNCHANGED <<check, dict, heap, granted>>

Busy == {t \in Thread : check[t].phase # "idle"}

Step == \/ Tick
        \/ \E t \in Thread : \/ \E k \in Client : Get(t, k)
                             \/ Look(t) \/ Pop(t) \/ Count(t)
                             \/ File(t) \/ Grant(t) \/ Answer(t)

Next == Step /\ raced' = IF Cardinality(Busy') > 1 THEN clock' ELSE raced

Spec == Init /\ [][Next]_vars

-----------------------------------------------------------------------------
(* Properties.                                                             *)

GrantedIn(k, times) == {i \in DOMAIN granted : granted[i].key = k /\ granted[i].now \in times}

\* Without a lock a thread may put an empty list in place of one that others
\* have filled, or pop a timestamp it did not look at.  But of the requests
\* that come after two threads were last in a check at once, at most the limit
\* gets through in a window: what a race lost does no lasting harm
\* (security.py:66-78).
BoundBetweenRaces ==
    \A k \in Client, t \in (raced + 1) .. clock :
        Cardinality(GrantedIn(k, t .. t + Span)) <= Limit

\* Lost timestamps only ever help the client: even among races it is refused
\* only if its whole limit was granted within its window, or before it by no
\* more than a check may take, for a list need not be in order (66-72).
RefusedInTime ==
    \A t \in Thread : check[t].phase = "count" /\ check'[t].phase = "refused" =>
        Cardinality(GrantedIn(check[t].key, check[t].now - Span - Stall .. clock)) >= Limit

NeverRefusedEarly == [][RefusedInTime]_vars
=============================================================================
