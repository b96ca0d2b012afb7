-------------------------- MODULE MCTerminalSessions --------------------------
(* Small topologies for TLC: who is connected to which process.            *)
EXTENDS TerminalSessions, TLC

CONSTANTS web, other, owner

\* Every connection has an account of its own, or all belong to one owner.
OwnAccounts == [c \in Conn |-> c]
OneOwner    == [c \in Conn |-> owner]

\* All connections are served by one web process.
OneProcess == [c \in Conn |-> web]

\* Exchanging connections, with their accounts, or ports changes nothing.
Exchange == Permutations(Conn) \cup Permutations(Port)
=============================================================================
