------------------------------- MODULE PortLock -------------------------------
(***************************************************************************)
(* What terminal sessions promise about ports, whatever connections,       *)
(* threads, administrators, restarts and the database do: a session asks   *)
(* for one port and is refused or gets it, it holds the port alone, and    *)
(* what it has lost or given up it never gets back.                        *)
(*                                                                         *)
(* A session that others have ended, or whose lease has lapsed, may keep   *)
(* the port open for a while: it is stray, and excludes nobody.            *)
(*                                                                         *)
(* TerminalSessions implements this: see Lock there.                       *)
(***************************************************************************)
CONSTANTS
    Session,  \* places for a session
    Port,
    Nowhere   \* the port of a session that is absent

VARIABLES
    stage,    \* of each session: absent, asking, holding, stray or over
    at        \* the port it asked for

vars == <<stage, at>>

Stage == {"absent", "asking", "holding", "stray", "over"}

HoldersOf(p) == {s \in Session : stage[s] = "holding" /\ at[s] = p}

Becomes(s, new) == stage' = [stage EXCEPT ![s] = new]

Ask(s, p) ==
    /\ stage[s] = "absent"
    /\ Becomes(s, "asking")
    /\ at' = [at EXCEPT ![s] = p]

\* A session that is refused has never been: its place is free again.
Refuse(s) ==
    /\ stage[s] = "asking"
    /\ Becomes(s, "absent")
    /\ at' = [at EXCEPT ![s] = Nowhere]

Grant(s) ==
    /\ stage[s] = "asking"
    /\ HoldersOf(at[s]) = {}
    /\ Becomes(s, "holding")
    /\ UNCHANGED at

\* A session that was ended while it asked opens its port all the same.
OpenLate(s) ==
    /\ stage[s] = "asking"
    /\ Becomes(s, "stray")
    /\ UNCHANGED at

\* Others disturb sessions that hold their port, and sessions are over for good.
Lose ==
    /\ stage' \in [Session -> Stage]
    /\ \A s \in Session :
          \/ stage'[s] = stage[s]
          \/ stage[s] = "holding" /\ stage'[s] = "stray"
          \/ stage[s] \in {"asking", "holding", "stray"} /\ stage'[s] = "over"
    /\ UNCHANGED at

Init ==
    /\ stage = [s \in Session |-> "absent"]
    /\ at = [s \in Session |-> Nowhere]

Next ==
    \/ Lose
    \/ \E s \in Session, p \in Port : Ask(s, p)
    \/ \E s \in Session : Refuse(s) \/ Grant(s) \/ OpenLate(s)

Spec == Init /\ [][Next]_vars
=============================================================================
