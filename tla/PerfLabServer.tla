---------------------------- MODULE PerfLabServer ----------------------------
(***************************************************************************)
(* workloads/perf-lab: requests passing the telemetry middleware and their *)
(* route's rate limiter, the scenario handlers, the upstream scenario that *)
(* calls a route of the server itself or a server elsewhere, and the       *)
(* graceful shutdown of main.                                              *)
(*                                                                         *)
(* Clients, connections, time and the servers elsewhere are external.      *)
(* Handlers take ticks only where they wait or compute; everything between *)
(* takes none.                                                             *)
(***************************************************************************)
EXTENDS QueryParams, FiniteSets

CONSTANTS
    External,          \* requests of clients outside the server
    RouteOf,           \* the route each asks for
    Query,             \* the raw number in its query
    Default, Least, Most,  \* of each limited route: what its handler takes for
                       \* no number, and the bounds of its clamp, in ticks
    N, Timeout,        \* of an upstream request: how many calls it makes, and
                       \* their http.Client.Timeout in ticks, both clamped
    Target,            \* the route they go to, or "elsewhere"
    TargetQuery,       \* the raw number in the query of its target
    Burst, Rate,       \* of each limited route
    DisableRateLimit,
    ShutdownTimeout,   \* 10 s, in ticks
    None

Limited == {"sleep", "cpu", "upstream", "disk", "fanout"}
Routes == Limited \cup {"health", "metrics", "missing"}
Statuses == {200, 404, 405, 429, 500}

\* Of the routes, a target is none that fans out again or streams its answer.
Targets == (Routes \ {"upstream", "metrics"}) \cup {"elsewhere"}

ASSUME ServerAssumption ==
    /\ IsFiniteSet(External) /\ RouteOf \in [External -> Routes]
    /\ Query \in [External -> Numbers \cup {NoNumber}]
    /\ Default \in [Limited -> Nat] /\ Least \in [Limited -> Nat] /\ Most \in [Limited -> Nat]
    /\ N \in [External -> Nat] /\ Timeout \in [External -> Nat] /\ ShutdownTimeout \in Nat \ {0}
    /\ Target \in [External -> Targets]
    /\ TargetQuery \in [External -> Numbers \cup {NoNumber}]
    /\ Burst \in [Limited -> Nat] /\ Rate \in [Limited -> Nat]
    /\ DisableRateLimit \in BOOLEAN /\ None \notin Statuses \cup Nat

Upstreams == {r \in External : RouteOf[r] = "upstream"}
CallsOf(u) == {u} \X (1 .. N[u])
Calls == UNION {CallsOf(u) : u \in Upstreams}
Requests == External \cup Calls
Route(r) == IF r \in Calls THEN Target[r[1]] ELSE RouteOf[r]
Raw(r) == IF r \in Calls THEN TargetQuery[r[1]] ELSE Query[r]
Elsewhere(r) == Route(r) = "elsewhere"

ASSUME CallsAssumption == External \cap Calls = {}

VARIABLES
    client,      \* what the sender of each request knows of it
    server,      \* how far this server is with it
    status,      \* the status its server wrote, None before
    param,       \* what the handler made of the query, None before
    left,        \* ticks of work still to do
    waited,      \* ticks a call has waited
    tokens,      \* rate.Limiter of each route
    inFlight,    \* http_requests_in_flight
    total,       \* http_requests_total
    calls,       \* scenario_upstream_calls_total
    phase,       \* main
    drain        \* ticks since server.Shutdown

clientVars == <<client, waited>>
metrics == <<inFlight, total, calls>>
mainVars == <<phase, drain>>
vars == <<clientVars, server, status, param, left, tokens, metrics, mainVars>>

TypeOK ==
    /\ client \in [Requests -> {"idle", "waiting", "answered", "failed"}]
    /\ server \in [Requests -> {"none", "connected", "running", "ending", "left"}]
    /\ status \in [Requests -> Statuses \cup {None}]
    /\ param \in [Requests -> Nat \cup {None}]
    /\ left \in [Requests -> Nat] /\ waited \in [Requests -> Nat]
    /\ \A c \in Calls : waited[c] <= Timeout[c[1]]
    /\ tokens \in [Limited -> Nat] /\ \A rt \in Limited : tokens[rt] <= Burst[rt]
    /\ inFlight \in 0 .. Cardinality(Requests)
    /\ total \in [Routes \X Statuses -> Nat]
    /\ calls \in [{"ok", "error"} -> Nat]
    /\ phase \in {"serving", "draining", "drained", "forced", "exited"}
    /\ drain \in 0 .. ShutdownTimeout

Up == phase # "exited"
------------------------------------------------------------------------------
(***************************************************************************)
(* Clients.  A call is sent by its upstream handler, and its context is    *)
(* that of the request the handler serves.                                 *)
(***************************************************************************)
MaySend(r) == client[r] = "idle" /\ (r \in Calls => Up /\ server[r[1]] = "running")

Connect(r) ==
    /\ MaySend(r)
    /\ client' = [client EXCEPT ![r] = "waiting"]
    /\ \/ ~ Elsewhere(r) /\ phase = "serving" /\ server' = [server EXCEPT ![r] = "connected"]
       \/ Elsewhere(r) /\ UNCHANGED server
    /\ UNCHANGED <<waited, status, param, left, tokens, metrics, mainVars>>

\* Shutdown has closed the listener, or there is none elsewhere.
Refused(r) ==
    /\ MaySend(r) /\ (phase # "serving" \/ Elsewhere(r))
    /\ client' = [client EXCEPT ![r] = "failed"]
    /\ UNCHANGED <<waited, server, status, param, left, tokens, metrics, mainVars>>

\* http.Client without its Timeout
NeverTimesOut(r) ==
    /\ \/ r \in External /\ client[r] = "waiting"
       \/ r \in Calls /\ (client[r] = "waiting" \/ MaySend(r)) /\ client[r[1]] = "failed"
    /\ client' = [client EXCEPT ![r] = "failed"]
    /\ waited' = [waited EXCEPT ![r] = 0]
    /\ UNCHANGED <<server, status, param, left, tokens, metrics, mainVars>>

\* A client hangs up; a call does when it times out or its context is cancelled.
HangUp(r) ==
    /\ \/ r \in External /\ client[r] = "waiting"
       \/ r \in Calls /\ client[r] = "waiting" /\ waited[r] = Timeout[r[1]]
       \/ r \in Calls /\ (client[r] = "waiting" \/ MaySend(r)) /\ client[r[1]] = "failed"
    /\ client' = [client EXCEPT ![r] = "failed"]
    /\ waited' = [waited EXCEPT ![r] = 0]
    /\ UNCHANGED <<server, status, param, left, tokens, metrics, mainVars>>

\* net/http flushes the small response after the middlewares have returned.
Answer(r) ==
    /\ server[r] = "left" /\ client[r] = "waiting"
    /\ client' = [client EXCEPT ![r] = "answered"]
    /\ waited' = [waited EXCEPT ![r] = 0]
    /\ UNCHANGED <<server, status, param, left, tokens, metrics, mainVars>>

\* A server elsewhere answers with any status, or breaks off before it has.
ElsewhereEnds(r) ==
    /\ Up /\ Elsewhere(r) /\ client[r] = "waiting"
    /\ \/ /\ client' = [client EXCEPT ![r] = "answered"]
          /\ \E s \in Statuses : status' = [status EXCEPT ![r] = s]
       \/ client' = [client EXCEPT ![r] = "failed"] /\ UNCHANGED status
    /\ waited' = [waited EXCEPT ![r] = 0]
    /\ UNCHANGED <<server, param, left, tokens, metrics, mainVars>>
------------------------------------------------------------------------------
(***************************************************************************)
(* The server                                                              *)
(***************************************************************************)
Goes(r, where) == server' = [server EXCEPT ![r] = where]
Writes(r, s) == status' = [status EXCEPT ![r] = s]

AllowedAlways(rt) == rt \in Routes

\* limiter.Allow
Allowed(rt) == rt \notin Limited \/ DisableRateLimit \/ tokens[rt] > 0

\* The work the handler makes of the query: a duration, of disk the size.  The
\* number and the timeout of the calls of upstream are N and Timeout.
Clamped(n, rt) == Clamp(n, Least[rt], Most[rt])

Params(r) ==
    LET rt == Route(r) IN
    CASE rt = "disk" -> {Clamped(n, rt) : n \in ParseSize(Raw(r), Default[rt])}
      [] rt \in {"sleep", "cpu", "fanout"} -> {Clamped(ParseNumber(Raw(r), Default[rt]), rt)}
      [] OTHER -> {0}

\* No such path; a path there is, but not for the method.  A call is a GET.
Unrouted(r) == IF r \in Calls THEN {404} ELSE {404, 405}

\* The telemetry middleware, the router and the limiter, up to the handler.
Enter(r) ==
    /\ Up /\ server[r] = "connected"
    /\ inFlight' = inFlight + 1
    /\ LET rt == Route(r) IN
       \/ /\ rt = "missing" /\ Goes(r, "ending") /\ \E s \in Unrouted(r) : Writes(r, s)
          /\ UNCHANGED <<param, left, tokens>>
       \/ rt # "missing" /\ ~ Allowed(rt)
          /\ Goes(r, "ending") /\ Writes(r, 429) /\ UNCHANGED <<param, left, tokens>>
       \/ /\ rt # "missing" /\ Allowed(rt)
          /\ Goes(r, "running")
          /\ \E n \in Params(r) :
                param' = [param EXCEPT ![r] = n] /\ left' = [left EXCEPT ![r] = n]
          /\ tokens' = IF rt \in Limited /\ ~ DisableRateLimit
                       THEN [tokens EXCEPT ![rt] = @ - 1] ELSE tokens
          /\ UNCHANGED status
    /\ UNCHANGED <<clientVars, total, calls, mainVars>>

\* resp.StatusCode is not looked at
AnsweredOk(c) == client[c] = "answered"

CallOk(c) == client[c] = "answered" /\ status[c] < 400
CallDone(c) == client[c] \in {"answered", "failed"}

\* sleep ends early when its context is cancelled.
SleepEnds(r) ==
    /\ Route(r) = "sleep"
    /\ left[r] = 0 \/ client[r] = "failed"
    /\ Writes(r, 200) /\ UNCHANGED calls

\* a file operation of disk may fail
Outcomes(rt) == IF rt = "disk" THEN {200, 500} ELSE {200}

\* The workers of cpu and fanout look at their deadlines only, and disk not at its
\* context either; health and /metrics have no work.
WorkEnds(r) ==
    /\ Route(r) \in {"cpu", "fanout", "health", "metrics", "disk"}
    /\ left[r] = 0
    /\ \E s \in Outcomes(Route(r)) : Writes(r, s)
    /\ UNCHANGED calls

\* wg.Done is left out of the early returns
JoinsOnlyOk(r) ==
    /\ Route(r) = "upstream"
    /\ \A c \in CallsOf(r) : CallOk(c)
    /\ calls' = [calls EXCEPT !["ok"] = @ + N[r]]
    /\ Writes(r, 200)

\* wg.Wait, then the two sums
UpstreamEnds(r) ==
    /\ Route(r) = "upstream"
    /\ \A c \in CallsOf(r) : CallDone(c)
    /\ LET ok == Cardinality({c \in CallsOf(r) : CallOk(c)}) IN
       calls' = [calls EXCEPT !["ok"] = @ + ok, !["error"] = @ + (N[r] - ok)]
    /\ Writes(r, 200)

Finish(r) ==
    /\ Up /\ server[r] = "running"
    /\ SleepEnds(r) \/ WorkEnds(r) \/ UpstreamEnds(r)
    /\ Goes(r, "ending")
    /\ left' = [left EXCEPT ![r] = 0]
    /\ UNCHANGED <<clientVars, param, tokens, inFlight, total, mainVars>>

\* the middleware's deferred block
Leave(r) ==
    /\ Up /\ server[r] = "ending"
    /\ Goes(r, "left")
    /\ inFlight' = inFlight - 1
    /\ total' = [total EXCEPT ![<<Route(r), status[r]>>] = @ + 1]
    /\ UNCHANGED <<clientVars, status, param, left, tokens, calls, mainVars>>
------------------------------------------------------------------------------
(***************************************************************************)
(* main                                                                    *)
(***************************************************************************)
Signal ==
    /\ phase = "serving"
    /\ phase' = "draining"
    /\ UNCHANGED <<clientVars, server, status, param, left, tokens, metrics, drain>>

Active(r) ==
    \/ server[r] \in {"connected", "running", "ending"}
    \/ server[r] = "left" /\ client[r] = "waiting"

\* server.Close instead of server.Shutdown
ClosedAtOnce ==
    /\ phase = "draining"
    /\ phase' = "drained"
    /\ UNCHANGED <<clientVars, server, status, param, left, tokens, metrics, drain>>

\* Shutdown returns when no connection is active ...
Drained ==
    /\ phase = "draining"
    /\ \A r \in Requests : ~ Active(r)
    /\ phase' = "drained"
    /\ UNCHANGED <<clientVars, server, status, param, left, tokens, metrics, drain>>

\* ... or when its context expires; the handlers go on.
Forced ==
    /\ phase = "draining" /\ drain = ShutdownTimeout
    /\ phase' = "forced"
    /\ UNCHANGED <<clientVars, server, status, param, left, tokens, metrics, drain>>

Cut == {r \in Requests : client[r] = "waiting"}

\* main returns, and whoever is still waiting is cut off.
Exit ==
    /\ phase \in {"drained", "forced"}
    /\ phase' = "exited"
    /\ client' = [r \in Requests |-> IF r \in Cut THEN "failed" ELSE client[r]]
    /\ UNCHANGED <<waited, server, status, param, left, tokens, metrics, drain>>
------------------------------------------------------------------------------
Serve(r) == Enter(r) \/ Finish(r) \/ Leave(r) \/ Answer(r)

\* The server has something to do for r now.
Urgent(r) ==
    \/ server[r] \in {"connected", "ending"}
    \/ server[r] = "left" /\ client[r] = "waiting"
    \/ server[r] = "running" /\ IF Route(r) = "upstream" THEN \A c \in CallsOf(r) : CallDone(c)
                               ELSE left[r] = 0 \/ (Route(r) = "sleep" /\ client[r] = "failed")

\* A call is to be sent, or its client to give it up.
UrgentCall(c) ==
    \/ MaySend(c)
    \/ client[c] = "waiting" /\ (waited[c] = Timeout[c[1]] \/ client[c[1]] = "failed")

AtLeast0(n) == IF n = 0 THEN 0 ELSE n - 1
AtMost(n, max) == IF n > max THEN max ELSE n

\* Time passes when the server is only waiting: for work, for calls, for clients.
Tick ==
    /\ phase \in {"serving", "draining"}
    /\ drain < ShutdownTimeout
    /\ \A r \in Requests : ~ Urgent(r)
    /\ \A c \in Calls : ~ UrgentCall(c)
    /\ left' = [r \in Requests |-> AtLeast0(left[r])]
    /\ waited' = [r \in Requests |-> IF r \in Calls /\ client[r] = "waiting"
                                     THEN AtMost(waited[r] + 1, Timeout[r[1]]) ELSE waited[r]]
    /\ tokens' = [rt \in Limited |-> AtMost(tokens[rt] + Rate[rt], Burst[rt])]
    /\ drain' = IF phase = "draining" THEN drain + 1 ELSE drain
    /\ UNCHANGED <<client, server, status, param, metrics, phase>>

Init ==
    /\ client = [r \in Requests |-> "idle"] /\ server = [r \in Requests |-> "none"]
    /\ status = [r \in Requests |-> None]
    /\ param = [r \in Requests |-> None]
    /\ left = [r \in Requests |-> 0] /\ waited = [r \in Requests |-> 0]
    /\ tokens = Burst
    /\ inFlight = 0 /\ total = [k \in Routes \X Statuses |-> 0]
    /\ calls = [o \in {"ok", "error"} |-> 0]
    /\ phase = "serving" /\ drain = 0

Next ==
    \/ \E r \in Requests : Connect(r) \/ Refused(r) \/ HangUp(r) \/ ElsewhereEnds(r) \/ Serve(r)
    \/ Signal \/ Drained \/ Forced \/ Exit
    \/ Tick

Spec == Init /\ [][Next]_vars

\* Time passes, and the Go scheduler and the network serve everyone in the end;
\* external clients, servers elsewhere and the signal need not come.
Fairness ==
    /\ WF_vars(Tick)
    /\ \A r \in Requests : WF_vars(Serve(r))
    /\ \A c \in Calls : WF_vars(Connect(c) \/ Refused(c) \/ HangUp(c))
    /\ WF_vars(Drained \/ Forced \/ Exit)

LiveSpec == Spec /\ Fairness
------------------------------------------------------------------------------
\* The metrics of the two layers agree: whatever route upstream calls go to, one
\* that came back ok was counted by the middleware before, as a 200 of its route,
\* however timeouts race answers; every call of a finished upstream request was
\* counted once, and as what it came to; and http_requests_in_flight is the number
\* of requests inside.
MetricsAgree ==
    /\ \A rt \in Routes :
          Cardinality({c \in Calls : Route(c) = rt /\ CallOk(c)}) <= total[<<rt, 200>>]
    /\ LET Counted == {c \in Calls : server[c[1]] \in {"ending", "left"} /\ status[c[1]] = 200} IN
       /\ calls["ok"] = Cardinality({c \in Counted : CallOk(c)})
       /\ calls["error"] = Cardinality({c \in Counted : ~ CallOk(c)})
    /\ inFlight = Cardinality({r \in Requests : server[r] \in {"running", "ending"}})

\* r's own work lasts for t, or a call of an upstream request holds it up for so long.
WorksFor(r, t) == t <= IF param[r] = None THEN 0 ELSE param[r]
HeldFor(c, t) == t <= Timeout[c[1]] /\ (Elsewhere(c) \/ WorksFor(c, t))
Lasts(r, t) ==
    IF Route(r) = "upstream" THEN \E c \in CallsOf(r) : HeldFor(c, t) ELSE WorksFor(r, t)

\* The shutdown is graceful: whoever is cut off needs no less than the shutdown's
\* 10 s for its work, or waits for a call that does and may.
CutOnlyTheLong == [][Exit => \A r \in Cut \cap External : Lasts(r, ShutdownTimeout)]_vars

\* An upstream request always comes to an end, although its calls, to its own server
\* or another, may be limited, refused, unanswered, timed out or cancelled: nobody
\* waits for himself.
UpstreamComesBack ==
    \A u \in Upstreams : server[u] = "running" ~> server[u] = "left" \/ phase = "exited"

\* "parseSize parses a human-readable byte size (e.g. "4mb", "512kb", "1024")": a
\* disk request writes as much as it was asked to, within the clamp.
SizeAsAsked ==
    \A r \in External :
        Route(r) = "disk" /\ Query[r] # NoNumber /\ param[r] # None =>
            param[r] = Clamped(Query[r].num * Mult(Query[r].unit), "disk")
==============================================================================
