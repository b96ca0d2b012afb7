------------------------------- MODULE JobBoard -------------------------------
(***************************************************************************)
(* What the job queue promises, whatever its workers, leases and cancel    *)
(* requests do: a job waits, runs on one port, and is over; a port never   *)
(* runs more jobs than it has slots; a job that is over, or withdrawn, is  *)
(* never handed out again.                                                 *)
(*                                                                         *)
(* JobQueue implements this: see Board there.                              *)
(***************************************************************************)
EXTENDS Integers, FiniteSets

CONSTANTS
    Job,     \* places for a job
    Port,    \* where jobs run
    Slots,   \* how many at once, a function on Port
    Nowhere  \* the place of a job that is not running

VARIABLES
    stage,     \* of each job: absent, waiting, running or over
    at,        \* the port a running job is on
    withdrawn  \* jobs whose cancellation has been requested

vars == <<stage, at, withdrawn>>

Stage == {"absent", "waiting", "running", "over"}

On(p) == {j \in Job : stage[j] = "running" /\ at[j] = p}

\* The jobs of S move to stage s and are nowhere.
Move(S, s) ==
    /\ stage' = [j \in Job |-> IF j \in S THEN s ELSE stage[j]]
    /\ at' = [j \in Job |-> IF j \in S THEN Nowhere ELSE at[j]]

Submit(j) ==
    /\ stage[j] = "absent"
    /\ Move({j}, "waiting")
    /\ UNCHANGED withdrawn

Start(j, p) ==
    /\ stage[j] = "waiting"
    /\ j \notin withdrawn
    /\ Cardinality(On(p)) < Slots[p]
    /\ stage' = [stage EXCEPT ![j] = "running"]
    /\ at' = [at EXCEPT ![j] = p]
    /\ UNCHANGED withdrawn

\* Running jobs nobody has asked to withdraw are put back in the queue.
GiveBack(S) ==
    /\ \A j \in S : stage[j] = "running" /\ j \notin withdrawn
    /\ Move(S, "waiting")
    /\ UNCHANGED withdrawn

\* Jobs end, one that is over with another result included.
Finish(S) ==
    /\ \A j \in S : stage[j] # "absent"
    /\ Move(S, "over")
    /\ UNCHANGED withdrawn

\* The jobs of S are withdrawn, and those of E among them end at once.
Withdraw(S, E) ==
    /\ E \subseteq S
    /\ \A j \in S : stage[j] # "absent"
    /\ Move(E, "over")
    /\ withdrawn' = withdrawn \cup S

Delete(S) ==
    /\ Move(S, "absent")
    /\ withdrawn' = withdrawn \ S

Init ==
    /\ stage = [j \in Job |-> "absent"]
    /\ at = [j \in Job |-> Nowhere]
    /\ withdrawn = {}

Next ==
    \/ \E j \in Job : Submit(j)
    \/ \E j \in Job, p \in Port : Start(j, p)
    \/ \E S \in SUBSET Job : GiveBack(S) \/ Finish(S) \/ Delete(S)
    \/ \E S, E \in SUBSET Job : Withdraw(S, E)

Spec == Init /\ [][Next]_vars
=============================================================================
