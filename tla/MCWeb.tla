-------------------------------- MODULE MCWeb --------------------------------
(* A small instance of Web: two threads or processes, two clients or users. *)
EXTENDS Web, TLC

CONSTANTS a, b

\* Requests: two clients, an endpoint with a limit of its own and one that is exempt.
Endpoints  == {"auth.login", "health.health"}
Blueprints == [e \in Endpoints |-> IF e = "auth.login" THEN "auth" ELSE "health"]
Requests   == [endpoint : Endpoints, socket : {FALSE}, remote : {"c1", "c2"},
               forwarded : {<< >>}, app : {FALSE}]
RateLimits == [n \in {"auth"} |-> [max |-> 1, window |-> 3]]

\* Options and data in any order, an escaped IAC, a subnegotiation with an IAC in
\* it, an unknown command, and plain data.
Dialogues == { <<"a", "IAC", "WILL", "b", "c">>, <<"IAC", "DO", "b", "IAC", "IAC", "a">>,
               <<"IAC", "SB", "a", "IAC", "SE", "b">>, <<"IAC", "SB", "IAC", "IAC", "SE", "b">>,
               <<"IAC", "IAC", "a", "IAC", "NOP", "b">>, <<"IAC", "DONT", "a", "IAC">>,
               <<"a", "b", "c">> }

\* Threads and processes differ in nothing but their names.
Exchange == Permutations({a, b})
=============================================================================
