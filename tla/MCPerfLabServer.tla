--------------------------- MODULE MCPerfLabServer ---------------------------
(* An instance of PerfLabServer for TLC: a request for 1 kb, that is 3 ticks  *)
(* of work, one no route takes, and upstream requests with 2 calls to the     *)
(* default target, 1 call to the own disk route and 1 call elsewhere.  Any    *)
(* two of the five are sent.                                                  *)
EXTENDS PerfLabServer, TLC

CONSTANTS d, m, u, v, w

Five == {d, m, u, v, w}
Asks == d :> "disk" @@ m :> "missing" @@ u :> "upstream" @@ v :> "upstream" @@ w :> "upstream"
OneKb == [num |-> 1, unit |-> "kb"]
FiftyMs == [num |-> 1, unit |-> "bare"]
Asked == [r \in Five |-> IF r = d THEN OneKb ELSE NoNumber]

TwoByDefault == [r \in Five |-> IF r = u THEN 2 ELSE 1]
OneByDefault == [r \in Five |-> IF r = u THEN 1 ELSE 2]
Named == [r \in Five |-> IF r = v THEN "disk" ELSE IF r = w THEN "elsewhere" ELSE "sleep"]
NamedQuery == [r \in Five |-> IF r = v THEN OneKb ELSE FiftyMs]

OneEach == [rt \in Limited |-> 1]
FourEach == [rt \in Limited |-> 4]

Sent == {r \in External : client[r] # "idle"}

TwoCome == Init /\ [][Next /\ Cardinality(Sent') <= 2]_vars /\ Fairness
==============================================================================
