-------------------------- MODULE PerfLabServerProofs --------------------------
(***************************************************************************)
(* Proofs about PerfLabServer for every set of requests, every rate limit  *)
(* and every duration.                                                     *)
(*                                                                         *)
(*   ServerTypeCorrect       Spec => []TypeOK                              *)
(*   LayersAgree             Spec => []MetricsAgree                        *)
(*   GracefulShutdown        Spec => CutOnlyTheLong                        *)
(***************************************************************************)
EXTENDS PerfLabServer, FiniteSetTheorems, TLAPS

(***************************************************************************)
(* Requests, calls and their parameters                                    *)
(***************************************************************************)
LEMMA CallsOfUpstream ==
    ASSUME NEW u \in Upstreams
    PROVE  /\ IsFiniteSet(CallsOf(u)) /\ Cardinality(CallsOf(u)) = N[u] /\ N[u] \in Nat
           /\ \A c \in CallsOf(u) : c \in Calls /\ c[1] = u
           /\ \A c \in Calls : c[1] = u => c \in CallsOf(u)
<1>1. N[u] \in Nat
  BY ServerAssumption DEF Upstreams
<1>2. IsFiniteSet({u}) /\ Cardinality({u}) = 1
  BY FS_Singleton
<1>3. IsFiniteSet(1 .. N[u]) /\ Cardinality(1 .. N[u]) = N[u]
  <2>1. 1 \in Int /\ N[u] \in Int
    BY <1>1
  <2> QED  BY <1>1, <2>1, FS_Interval
<1>4. IsFiniteSet(CallsOf(u)) /\ Cardinality(CallsOf(u)) = 1 * N[u]
  BY <1>2, <1>3, FS_Product DEF CallsOf
<1>5. 1 * N[u] = N[u]
  BY <1>1
<1>6. \A c \in CallsOf(u) : c \in Calls /\ c[1] = u
  BY DEF CallsOf, Calls
<1>7. \A c \in Calls : c[1] = u => c \in CallsOf(u)
  BY DEF CallsOf, Calls
<1> QED  BY <1>1, <1>4, <1>5, <1>6, <1>7

LEMMA RequestFacts ==
    /\ IsFiniteSet(Requests) /\ IsFiniteSet(Calls) /\ IsFiniteSet(Upstreams)
    /\ Upstreams \subseteq External /\ External \subseteq Requests /\ Calls \subseteq Requests
    /\ \A r \in Requests : Route(r) \in Routes \/ (Elsewhere(r) /\ r \in Calls)
    /\ \A c \in Calls : Route(c) # "upstream" /\ c[1] \in Upstreams /\ c \notin External
    /\ \A u \in Upstreams : Route(u) = "upstream" /\ u \notin Calls
    /\ \A r \in Requests : Route(r) = "upstream" => r \in Upstreams
<1>1. Upstreams \in SUBSET External
  BY DEF Upstreams
<1>2. IsFiniteSet(Upstreams)
  BY <1>1, ServerAssumption, FS_Subset
<1>3. IsFiniteSet(Calls)
  <2> DEFINE f == [u \in Upstreams |-> CallsOf(u)]
             S == {f[u] : u \in Upstreams}
  <2>1. IsFiniteSet(S)
    <3>1. f \in Surjection(Upstreams, S)
      BY DEF Surjection
    <3> HIDE DEF f, S
    <3> QED  BY <1>2, <3>1, FS_Surjection
  <2>2. \A T \in S : IsFiniteSet(T)
    BY CallsOfUpstream
  <2>3. Calls = UNION S
    BY DEF Calls
  <2> HIDE DEF S
  <2> QED  BY <2>1, <2>2, <2>3, FS_UNION
<1>4. IsFiniteSet(Requests)
  BY <1>3, ServerAssumption, FS_Union DEF Requests
<1>5. \A c \in Calls : c[1] \in Upstreams /\ c[1] \in External /\ c \notin External
  BY <1>1, CallsAssumption DEF Calls, CallsOf
<1>6. \A c \in Calls : Route(c) \in Targets
  BY <1>5, ServerAssumption DEF Route
<1>7. \A r \in External : r \notin Calls /\ Route(r) = RouteOf[r] /\ Route(r) \in Routes
  BY CallsAssumption, ServerAssumption DEF Route
<1>8. "elsewhere" # "upstream"
  OBVIOUS
<1> QED
  BY <1>1, <1>2, <1>3, <1>4, <1>5, <1>6, <1>7, <1>8
  DEF Requests, Targets, Upstreams, Elsewhere

\* What a clamp returns is in range, whatever the query said.
LEMMA ClampType ==
    ASSUME NEW n \in Int, NEW min \in Nat, NEW max \in Nat
    PROVE  Clamp(n, min, max) \in Nat
BY DEF Clamp

LEMMA ParseType ==
    ASSUME NEW v \in Numbers \cup {NoNumber}, NEW def \in Nat
    PROVE  ParseNumber(v, def) \in Int /\ ParseSize(v, def) \subseteq Int
<1>1. \A unit \in Units \cup {"bare"} : Mult(unit) \in Int
  <2>1. Kilo * Kilo * Kilo \in Int /\ Kilo * Kilo \in Int /\ Kilo \in Int
    BY QueryAssumption
  <2> QED  BY <2>1 DEF Mult
<1>2. Int64 \div 2 \in Int
  BY QueryAssumption
<1>3. v # NoNumber => v.num \in Int /\ v.unit \in Units \cup {"bare"}
  BY <1>2 DEF Numbers
<1>4. v # NoNumber => v.num * Mult(v.unit) \in Int
  BY <1>1, <1>3
<1>5. \A n \in Int : Wrap(n) \in Int
  BY <1>2, QueryAssumption DEF Wrap
<1>6. v # NoNumber => \A suffix : Sized(v, suffix, def) \in Int
  BY <1>4, <1>5 DEF Sized
<1> QED  BY <1>3, <1>6 DEF ParseNumber, ParseSize

LEMMA ParamsType ==
    ASSUME NEW r \in Requests
    PROVE  Params(r) \subseteq Nat
<1>1. Raw(r) \in Numbers \cup {NoNumber}
  <2>1. CASE r \in Calls
    <3>1. r[1] \in External
      BY <2>1, RequestFacts
    <3> QED  BY <2>1, <3>1, ServerAssumption DEF Raw
  <2>2. CASE r \notin Calls
    BY <2>2, ServerAssumption DEF Raw, Requests
  <2> QED  BY <2>1, <2>2
<1>2. \A rt \in Limited : Default[rt] \in Nat /\ Least[rt] \in Nat /\ Most[rt] \in Nat
  BY ServerAssumption
<1>3. ASSUME NEW rt \in Limited
      PROVE  /\ \A n \in ParseSize(Raw(r), Default[rt]) : Clamped(n, rt) \in Nat
             /\ Clamped(ParseNumber(Raw(r), Default[rt]), rt) \in Nat
  BY <1>1, <1>2, ParseType, ClampType DEF Clamped
<1>4. CASE Route(r) = "disk"
  BY <1>3, <1>4 DEF Params, Limited
<1>5. CASE Route(r) \in {"sleep", "cpu", "fanout"}
  BY <1>3, <1>5 DEF Params, Limited
<1>6. CASE Route(r) \notin {"disk", "sleep", "cpu", "fanout"}
  BY <1>6 DEF Params
<1> QED  BY <1>4, <1>5, <1>6
------------------------------------------------------------------------------
(***************************************************************************)
(* The life of a request, on the client's side and on the server's         *)
(***************************************************************************)
RequestOK(r) ==
    /\ client[r] = "idle" => server[r] = "none"
    /\ client[r] = "waiting" => server[r] # "none" \/ Elsewhere(r)
    /\ client[r] = "answered" => server[r] = "left" \/ Elsewhere(r)
    /\ Elsewhere(r) => server[r] = "none"
    /\ server[r] \in {"none", "connected"} => param[r] = None
    /\ server[r] = "running" => param[r] # None
    /\ status[r] # None <=> server[r] \in {"ending", "left"} \/ (Elsewhere(r) /\ client[r] = "answered")

\* An upstream request that has come to its end, not turned away by the limiter:
\* then its calls are settled.
Over(u) == server[u] \in {"ending", "left"} /\ status[u] = 200

LifeOK ==
    /\ \A r \in Requests : RequestOK(r)
    /\ \A u \in Upstreams : Over(u) => \A c \in CallsOf(u) : CallDone(c)

\* What a step does to one request.
LEMMA RequestNext ==
    ASSUME TypeOK, LifeOK, [Next]_vars, NEW r \in Requests
    PROVE  RequestOK(r)'
<1> USE DEF TypeOK, RequestOK
<1>0. RequestOK(r)
  BY DEF LifeOK
<1>1. CASE UNCHANGED <<client, server, status, param>>
  BY <1>0, <1>1
<1>2. ASSUME NEW q \in Requests, Connect(q) PROVE RequestOK(r)'
  BY <1>0, <1>2 DEF Connect, MaySend
<1>3. ASSUME NEW q \in Requests, Refused(q) \/ HangUp(q) PROVE RequestOK(r)'
  BY <1>0, <1>3 DEF Refused, HangUp, MaySend
<1>9. ASSUME NEW q \in Requests, ElsewhereEnds(q) PROVE RequestOK(r)'
  BY <1>0, <1>9, ServerAssumption DEF ElsewhereEnds
<1>4. ASSUME NEW q \in Requests, Enter(q) PROVE RequestOK(r)'
  <2>1. server[q] = "connected" /\ UNCHANGED client
    BY <1>4 DEF Enter, clientVars
  <2>2. CASE \E s \in {404, 405, 429} : Goes(q, "ending") /\ Writes(q, s) /\ UNCHANGED param
    <3>1. 404 # None /\ 405 # None /\ 429 # None
      BY ServerAssumption DEF Statuses
    <3> QED  BY <1>0, <2>1, <2>2, <3>1 DEF Goes, Writes
  <2>3. CASE /\ Goes(q, "running") /\ UNCHANGED status
             /\ \E n \in Params(q) : param' = [param EXCEPT ![q] = n]
    <3>1. PICK n \in Params(q) : param' = [param EXCEPT ![q] = n]
      BY <2>3
    <3>2. n # None
      BY <3>1, ParamsType, ServerAssumption
    <3> QED  BY <1>0, <2>1, <2>3, <3>1, <3>2 DEF Goes
  <2> QED  BY <1>4, <2>2, <2>3 DEF Enter, Unrouted
<1>5. ASSUME NEW q \in Requests, Finish(q) PROVE RequestOK(r)'
  <2>1. server[q] = "running" /\ UNCHANGED <<client, param>> /\ Goes(q, "ending")
    BY <1>5 DEF Finish, clientVars
  <2>2. PICK s \in {200, 500} : Writes(q, s)
    BY <1>5 DEF Finish, SleepEnds, WorkEnds, Outcomes, UpstreamEnds
  <2>3. s # None
    BY <2>2, ServerAssumption DEF Statuses
  <2> QED  BY <1>0, <2>1, <2>2, <2>3 DEF Goes, Writes
<1>6. ASSUME NEW q \in Requests, Leave(q) PROVE RequestOK(r)'
  BY <1>0, <1>6 DEF Leave, Goes, clientVars
<1>7. ASSUME NEW q \in Requests, Answer(q) PROVE RequestOK(r)'
  BY <1>0, <1>7 DEF Answer
<1>8. CASE Exit
  <2>1. UNCHANGED <<server, param, status>>
    BY <1>8 DEF Exit
  <2>2. client'[r] = client[r] \/ (client[r] = "waiting" /\ client'[r] = "failed")
    BY <1>8 DEF Exit, Cut
  <2> QED  BY <1>0, <2>1, <2>2
<1> QED
  BY <1>1, <1>2, <1>3, <1>4, <1>5, <1>6, <1>7, <1>8, <1>9
  DEF Next, Serve, Signal, Drained, Forced, Tick, vars, clientVars

\* What is settled stays settled, and what it came to stays the same.
LEMMA CallsStay ==
    ASSUME TypeOK, LifeOK, [Next]_vars, NEW c \in Calls, CallDone(c)
    PROVE  CallDone(c)' /\ (CallOk(c)' <=> CallOk(c))
<1> USE DEF TypeOK, CallDone, CallOk
<1>0. c \in Requests /\ RequestOK(c) /\ client[c] \in {"answered", "failed"}
  BY RequestFacts DEF LifeOK
<1>1. client'[c] = client[c]
  <2>1. ASSUME NEW q \in Requests, Connect(q) \/ Refused(q) \/ HangUp(q) \/ ElsewhereEnds(q) \/ Answer(q)
        PROVE  client'[c] = client[c] \/ client[c] = "failed"
    BY <1>0, <2>1 DEF Connect, Refused, HangUp, ElsewhereEnds, Answer, MaySend
  <2>2. ASSUME NEW q \in Requests, Connect(q) \/ Refused(q) \/ HangUp(q) \/ ElsewhereEnds(q) \/ Answer(q),
               client[c] = "failed"
        PROVE  client'[c] = client[c]
    BY <1>0, <2>2 DEF Connect, Refused, HangUp, ElsewhereEnds, Answer, MaySend
  <2>3. CASE UNCHANGED client \/ Exit
    BY <1>0, <2>3 DEF Exit, Cut
  <2> QED
    BY <2>1, <2>2, <2>3
    DEF Next, Serve, Enter, Finish, Leave, Signal, Drained, Forced, Tick, vars, clientVars
<1>2. client[c] = "answered" => status'[c] = status[c]
  <2>1. client[c] = "answered" => server[c] \in {"left", "none"}
    BY <1>0 DEF RequestOK
  <2>2. ASSUME NEW q \in Requests, Enter(q) \/ Finish(q), server[c] \in {"left", "none"}
        PROVE  status'[c] = status[c]
    BY <1>0, <2>2
    DEF Enter, Finish, SleepEnds, WorkEnds, UpstreamEnds, Writes
  <2>3. ASSUME NEW q \in Requests, ElsewhereEnds(q), client[c] = "answered"
        PROVE  status'[c] = status[c]
    BY <1>0, <2>3 DEF ElsewhereEnds
  <2> QED
    BY <2>1, <2>2, <2>3
    DEF Next, Connect, Refused, HangUp, Serve, Leave, Answer, Signal, Drained, Forced,
        Exit, Tick, vars
<1> QED  BY <1>0, <1>1, <1>2

\* An upstream request comes to its end only when its handler has joined its calls.
LEMMA OverNext ==
    ASSUME TypeOK, LifeOK, [Next]_vars, NEW u \in Upstreams
    PROVE  /\ Over(u) => Over(u)'
           /\ Over(u)' /\ ~ Over(u) => Finish(u) /\ UpstreamEnds(u)
<1> USE DEF TypeOK, Over
<1>0. u \in Requests /\ RequestOK(u) /\ Route(u) = "upstream"
  BY RequestFacts DEF LifeOK
<1>1. ASSUME NEW q \in Requests, Connect(q) PROVE Over(u)' <=> Over(u)
  BY <1>0, <1>1 DEF Connect, MaySend, RequestOK, LifeOK
<1>2. ASSUME NEW q \in Requests, Enter(q) PROVE Over(u)' <=> Over(u)
  BY <1>0, <1>2 DEF Enter, Goes, Writes
<1>3. ASSUME NEW q \in Requests, Finish(q), q # u PROVE Over(u)' <=> Over(u)
  BY <1>0, <1>3 DEF Finish, SleepEnds, WorkEnds, UpstreamEnds, Goes, Writes
<1>4. CASE Finish(u)
  <2>1. UpstreamEnds(u) /\ server[u] = "running"
    BY <1>0, <1>4 DEF Finish, SleepEnds, WorkEnds
  <2> QED  BY <1>4, <2>1
<1>5. ASSUME NEW q \in Requests, Leave(q) PROVE Over(u)' <=> Over(u)
  BY <1>0, <1>5 DEF Leave, Goes
<1>6. CASE UNCHANGED <<server, status>>
  BY <1>6
<1>7. ASSUME NEW q \in Requests, ElsewhereEnds(q) PROVE Over(u)' <=> Over(u)
  <2>1. q # u
    BY <1>0, <1>7 DEF ElsewhereEnds, Elsewhere
  <2> QED  BY <1>0, <1>7, <2>1 DEF ElsewhereEnds
<1> QED
  BY <1>1, <1>2, <1>3, <1>4, <1>5, <1>6, <1>7
  DEF Next, Refused, HangUp, Serve, Answer, Signal, Drained, Forced, Exit, Tick, vars

LEMMA LifeNext ==
    ASSUME TypeOK, LifeOK, [Next]_vars
    PROVE  LifeOK'
<1>1. ASSUME NEW u \in Upstreams, Over(u)', NEW c \in CallsOf(u)
      PROVE  CallDone(c)'
  <2>1. c \in Calls
    BY CallsOfUpstream
  <2>2. CASE Over(u)
    BY <2>1, <2>2, CallsStay DEF LifeOK
  <2>3. CASE ~ Over(u)
    <3>1. CallDone(c)
      BY <1>1, <2>3, OverNext DEF UpstreamEnds
    <3> QED  BY <2>1, <3>1, CallsStay
  <2> QED  BY <2>2, <2>3
<1> QED  BY <1>1, RequestNext DEF LifeOK
------------------------------------------------------------------------------
(***************************************************************************)
(* What the counters of the two layers count                               *)
(***************************************************************************)
Inside == {r \in Requests : server[r] \in {"running", "ending"}}
Returned(rt) == {r \in Requests : Route(r) = rt /\ server[r] = "left" /\ status[r] = 200}
OkCalls == {c \in Calls : Over(c[1]) /\ CallOk(c)}
ErrorCalls == {c \in Calls : Over(c[1]) /\ ~ CallOk(c)}

GaugeOK == inFlight = Cardinality(Inside)
ReturnedOK == \A rt \in Routes : total[<<rt, 200>>] = Cardinality(Returned(rt))
CallsOK ==
    /\ calls["ok"] = Cardinality(OkCalls)
    /\ calls["error"] = Cardinality(ErrorCalls)

CountsOK == GaugeOK /\ ReturnedOK /\ CallsOK

LEMMA GaugeNext ==
    ASSUME TypeOK, LifeOK, GaugeOK, [Next]_vars
    PROVE  GaugeOK'
<1> USE DEF TypeOK, GaugeOK
<1>0. Inside \in SUBSET Requests /\ IsFiniteSet(Inside) /\ Cardinality(Inside) \in Nat
  <2>1. Inside \in SUBSET Requests
    BY DEF Inside
  <2> QED  BY <2>1, RequestFacts, FS_Subset, FS_CardinalityType
<1>1. ASSUME NEW q \in Requests, Enter(q) PROVE GaugeOK'
  <2>1. Inside' = Inside \cup {q} /\ q \notin Inside
    BY <1>1 DEF Enter, Goes, Inside
  <2> QED  BY <1>0, <1>1, <2>1, FS_AddElement DEF Enter
<1>2. ASSUME NEW q \in Requests, Leave(q) PROVE GaugeOK'
  <2>1. Inside' = Inside \ {q} /\ q \in Inside
    BY <1>2 DEF Leave, Goes, Inside
  <2> QED  BY <1>0, <1>2, <2>1, FS_RemoveElement DEF Leave
<1>3. ASSUME NEW q \in Requests, Finish(q) PROVE GaugeOK'
  <2>1. Inside' = Inside
    BY <1>3 DEF Finish, Goes, Inside
  <2> QED  BY <1>3, <2>1 DEF Finish
<1>4. ASSUME NEW q \in Requests, Connect(q) PROVE GaugeOK'
  <2>1. server[q] = "none"
    BY <1>4 DEF Connect, MaySend, LifeOK, RequestOK
  <2>2. Inside' = Inside
    BY <1>4, <2>1 DEF Connect, Inside
  <2> QED  BY <1>4, <2>2 DEF Connect, metrics
<1>5. CASE UNCHANGED <<server, inFlight>>
  BY <1>5 DEF Inside
<1> QED
  BY <1>1, <1>2, <1>3, <1>4, <1>5
  DEF Next, Refused, HangUp, ElsewhereEnds, Serve, Answer, Signal, Drained, Forced, Exit, Tick, vars, metrics

\* A 200 of a route is counted when its request leaves, once.
LEMMA ReturnedNext ==
    ASSUME TypeOK, LifeOK, ReturnedOK, [Next]_vars, NEW rt \in Routes
    PROVE  total'[<<rt, 200>>] = Cardinality(Returned(rt))'
<1> USE DEF TypeOK, ReturnedOK
<1>0. /\ Returned(rt) \in SUBSET Requests /\ IsFiniteSet(Returned(rt))
      /\ Cardinality(Returned(rt)) \in Nat
      /\ rt # "elsewhere"
  <2>1. Returned(rt) \in SUBSET Requests /\ rt # "elsewhere"
    BY DEF Returned, Routes, Limited
  <2> QED  BY <2>1, RequestFacts, FS_Subset, FS_CardinalityType
<1>1. ASSUME NEW q \in Requests, Leave(q)
      PROVE  total'[<<rt, 200>>] = Cardinality(Returned(rt))'
  <2>0. /\ <<rt, 200>> \in Routes \X Statuses
        /\ <<Route(q), status[q]>> \in Routes \X Statuses
    <3>1. status[q] \in Statuses /\ Route(q) \in Routes
      BY <1>1, RequestFacts DEF Leave, LifeOK, RequestOK
    <3> QED  BY <3>1 DEF Statuses
  <2>1. CASE Route(q) = rt /\ status[q] = 200
    <3>1. Returned(rt)' = Returned(rt) \cup {q} /\ q \notin Returned(rt)
      BY <1>1, <2>1 DEF Leave, Goes, Returned
    <3>2. total'[<<rt, 200>>] = total[<<rt, 200>>] + 1
      BY <1>1, <2>0, <2>1 DEF Leave
    <3>3. Cardinality(Returned(rt) \cup {q}) = Cardinality(Returned(rt)) + 1
      BY <1>0, <3>1, FS_AddElement
    <3> QED  BY <3>1, <3>2, <3>3
  <2>2. CASE ~ (Route(q) = rt /\ status[q] = 200)
    <3>1. Returned(rt)' = Returned(rt)
      BY <1>1, <2>2 DEF Leave, Goes, Returned
    <3>2. total'[<<rt, 200>>] = total[<<rt, 200>>]
      BY <1>1, <2>0, <2>2 DEF Leave
    <3> QED  BY <3>1, <3>2
  <2> QED  BY <2>1, <2>2
<1>2. CASE total' = total /\ Returned(rt)' = Returned(rt)
  BY <1>2
<1>3. ASSUME NEW q \in Requests, Enter(q) \/ Finish(q)
      PROVE  total' = total /\ Returned(rt)' = Returned(rt)
  <2>1. Returned(rt)' = Returned(rt)
    BY <1>3 DEF Enter, Finish, SleepEnds, WorkEnds, UpstreamEnds, Goes, Writes, Returned
  <2> QED  BY <1>3, <2>1 DEF Enter, Finish
<1>4. ASSUME NEW q \in Requests, Connect(q)
      PROVE  total' = total /\ Returned(rt)' = Returned(rt)
  <2>1. server[q] = "none"
    BY <1>4 DEF Connect, MaySend, LifeOK, RequestOK
  <2>2. Returned(rt)' = Returned(rt)
    BY <1>4, <2>1 DEF Connect, Returned
  <2> QED  BY <1>4, <2>2 DEF Connect, metrics
<1>5. ASSUME NEW q \in Requests, ElsewhereEnds(q)
      PROVE  total' = total /\ Returned(rt)' = Returned(rt)
  <2>1. Returned(rt)' = Returned(rt)
    BY <1>0, <1>5 DEF ElsewhereEnds, Elsewhere, Returned
  <2> QED  BY <1>5, <2>1 DEF ElsewhereEnds, metrics
<1>6. CASE UNCHANGED <<server, status, total>>
  BY <1>2, <1>6 DEF Returned
<1> QED
  BY <1>1, <1>2, <1>3, <1>4, <1>5, <1>6
  DEF Next, Refused, HangUp, Serve, Answer, Signal, Drained, Forced, Exit, Tick, vars, metrics

\* An upstream request counts each of its calls once, by what it came to; what it
\* came to does not change afterwards.
LEMMA CallsNext ==
    ASSUME TypeOK, LifeOK, CallsOK, [Next]_vars
    PROVE  CallsOK'
<1> USE DEF CallsOK
<1>0. /\ OkCalls \in SUBSET Calls /\ IsFiniteSet(OkCalls) /\ Cardinality(OkCalls) \in Nat
      /\ ErrorCalls \in SUBSET Calls /\ IsFiniteSet(ErrorCalls)
      /\ Cardinality(ErrorCalls) \in Nat
  <2>1. OkCalls \in SUBSET Calls /\ ErrorCalls \in SUBSET Calls
    BY DEF OkCalls, ErrorCalls
  <2> QED  BY <2>1, RequestFacts, FS_Subset, FS_CardinalityType
\* The settled calls of finished requests stay what they are.
<1>1. ASSUME NEW c \in Calls, Over(c[1])
      PROVE  Over(c[1])' /\ (CallOk(c)' <=> CallOk(c))
  <2>1. c[1] \in Upstreams
    BY RequestFacts
  <2>2. CallDone(c)
    BY <1>1, <2>1, CallsOfUpstream DEF LifeOK
  <2> QED  BY <1>1, <2>1, <2>2, CallsStay, OverNext
<1>2. ASSUME NEW u \in Upstreams, Finish(u) PROVE CallsOK'
  <2> DEFINE Joined == {c \in CallsOf(u) : CallOk(c)}
             Missed == {c \in CallsOf(u) : ~ CallOk(c)}
  <2>1. /\ Route(u) = "upstream" /\ server[u] = "running" /\ u \in Requests
    BY <1>2, RequestFacts DEF Finish
  <2>2. UpstreamEnds(u)
    BY <1>2, <2>1 DEF Finish, SleepEnds, WorkEnds
  <2>3. ~ Over(u) /\ Over(u)'
    BY <1>2, <2>1, <2>2 DEF Over, Finish, UpstreamEnds, Goes, Writes, TypeOK
  <2>4. \A v \in Upstreams : v # u => (Over(v)' <=> Over(v))
    BY <1>2, <2>1, <2>2 DEF Over, Finish, UpstreamEnds, Goes, Writes, TypeOK
  <2>5. \A c \in CallsOf(u) : CallOk(c)' <=> CallOk(c)
    BY <2>2, CallsOfUpstream, CallsStay DEF UpstreamEnds
  <2>6. \A c \in Calls :
           /\ c \in OkCalls' <=> c \in OkCalls \cup Joined
           /\ c \in ErrorCalls' <=> c \in ErrorCalls \cup Missed
    <3> TAKE c \in Calls
    <3>1. c[1] \in Upstreams
      BY RequestFacts
    <3>2. CASE c[1] = u
      BY <2>3, <2>5, <3>2, CallsOfUpstream DEF OkCalls, ErrorCalls
    <3>3. CASE c[1] # u
      <4>1. c \notin Joined /\ c \notin Missed
        BY <3>3, CallsOfUpstream
      <4> QED  BY <1>1, <2>4, <3>1, <3>3, <4>1 DEF OkCalls, ErrorCalls
    <3> QED  BY <3>2, <3>3
  <2>7. /\ OkCalls' = OkCalls \cup Joined /\ OkCalls \cap Joined = {}
        /\ ErrorCalls' = ErrorCalls \cup Missed /\ ErrorCalls \cap Missed = {}
    <3>1. \A c \in CallsOf(u) : c \in Calls /\ ~ Over(c[1])
      BY <2>3, CallsOfUpstream
    <3>2. Joined \in SUBSET Calls /\ Missed \in SUBSET Calls
      BY <3>1
    <3>3. OkCalls' \in SUBSET Calls /\ ErrorCalls' \in SUBSET Calls
      BY DEF OkCalls, ErrorCalls
    <3>4. OkCalls' = OkCalls \cup Joined /\ ErrorCalls' = ErrorCalls \cup Missed
      <4>1. /\ OkCalls' = {c \in Calls : c \in OkCalls'}
            /\ ErrorCalls' = {c \in Calls : c \in ErrorCalls'}
        BY DEF OkCalls, ErrorCalls
      <4>2. /\ OkCalls \cup Joined = {c \in Calls : c \in OkCalls \cup Joined}
            /\ ErrorCalls \cup Missed = {c \in Calls : c \in ErrorCalls \cup Missed}
        BY <1>0, <3>2
      <4> HIDE DEF Joined, Missed
      <4>3. /\ {c \in Calls : c \in OkCalls'} = {c \in Calls : c \in OkCalls \cup Joined}
            /\ {c \in Calls : c \in ErrorCalls'} = {c \in Calls : c \in ErrorCalls \cup Missed}
        BY <2>6
      <4> QED  BY <4>1, <4>2, <4>3
    <3>5. OkCalls \cap Joined = {} /\ ErrorCalls \cap Missed = {}
      BY <3>1 DEF OkCalls, ErrorCalls
    <3> QED  BY <3>4, <3>5
  <2>8. /\ IsFiniteSet(Joined) /\ Cardinality(Joined) \in Nat
        /\ IsFiniteSet(Missed) /\ Cardinality(Missed) \in Nat
        /\ Cardinality(Missed) = N[u] - Cardinality(Joined)
    <3>1. /\ Joined \in SUBSET CallsOf(u) /\ Missed = CallsOf(u) \ Joined
          /\ CallsOf(u) \cap Joined = Joined
      OBVIOUS
    <3> HIDE DEF Joined, Missed
    <3>2. IsFiniteSet(CallsOf(u)) /\ Cardinality(CallsOf(u)) = N[u]
      BY CallsOfUpstream
    <3>3. IsFiniteSet(Joined) /\ Cardinality(Joined) \in Nat
      BY <3>1, <3>2, FS_Subset, FS_CardinalityType
    <3>4. /\ IsFiniteSet(CallsOf(u) \ Joined)
          /\ Cardinality(CallsOf(u) \ Joined)
               = Cardinality(CallsOf(u)) - Cardinality(CallsOf(u) \cap Joined)
      BY <3>2, FS_Difference
    <3>5. IsFiniteSet(Missed) /\ Cardinality(Missed) = N[u] - Cardinality(Joined)
      BY <3>1, <3>2, <3>4
    <3> QED  BY <3>3, <3>5, FS_CardinalityType
  <2>9. /\ Cardinality(OkCalls') = Cardinality(OkCalls) + Cardinality(Joined)
        /\ Cardinality(ErrorCalls') = Cardinality(ErrorCalls) + Cardinality(Missed)
    <3>1. ASSUME NEW S, NEW T, IsFiniteSet(S), IsFiniteSet(T), S \cap T = {},
                 Cardinality(S) \in Nat, Cardinality(T) \in Nat
          PROVE  Cardinality(S \cup T) = Cardinality(S) + Cardinality(T)
      <4>1. Cardinality(S \cup T) = Cardinality(S) + Cardinality(T) - Cardinality(S \cap T)
        BY <3>1, FS_Union
      <4>2. Cardinality(S \cap T) = 0
        BY <3>1, FS_EmptySet
      <4> QED  BY <3>1, <4>1, <4>2
    <3> HIDE DEF Joined, Missed
    <3> QED  BY <1>0, <2>7, <2>8, <3>1
  <2>10. /\ calls'["ok"] = calls["ok"] + Cardinality(Joined)
         /\ calls'["error"] = calls["error"] + (N[u] - Cardinality(Joined))
    BY <2>2 DEF UpstreamEnds, TypeOK
  <2> HIDE DEF Joined, Missed
  <2> QED  BY <1>0, <2>8, <2>9, <2>10
<1>3. CASE \A u \in Upstreams : ~ Finish(u)
  <2>1. \A u \in Upstreams : Over(u)' <=> Over(u)
    BY <1>3, OverNext
  <2>2. UNCHANGED calls
    <3>1. ASSUME NEW q \in Requests, Finish(q) PROVE UNCHANGED calls
      <4>1. Route(q) # "upstream"
        BY <1>3, <3>1, RequestFacts
      <4> QED  BY <3>1, <4>1 DEF Finish, SleepEnds, WorkEnds, UpstreamEnds
    <3> QED
      BY <3>1
      DEF Next, Connect, Refused, HangUp, ElsewhereEnds, Serve, Enter, Leave, Answer, Signal, Drained,
          Forced, Exit, Tick, vars, metrics
  <2>3. OkCalls' = OkCalls /\ ErrorCalls' = ErrorCalls
    <3>1. \A c \in Calls : c[1] \in Upstreams
      BY RequestFacts
    <3> QED  BY <1>1, <2>1, <3>1 DEF OkCalls, ErrorCalls
  <2> QED  BY <2>2, <2>3
<1> QED  BY <1>2, <1>3
------------------------------------------------------------------------------
(***************************************************************************)
(* The inductive invariant.  The types lean on it: the gauge stays within  *)
(* the number of requests because it counts those inside, and a request    *)
(* that leaves has a status.                                               *)
(***************************************************************************)
ServerInv == TypeOK /\ LifeOK /\ CountsOK

LEMMA CallsHaveTimeouts == \A c \in Calls : c \in Requests /\ Timeout[c[1]] \in Nat
BY RequestFacts, ServerAssumption

LEMMA PartOfRequests ==
    ASSUME NEW S \in SUBSET Requests
    PROVE  Cardinality(S) \in 0 .. Cardinality(Requests)
<1>1. /\ Cardinality(S) \in Nat /\ Cardinality(Requests) \in Nat
      /\ Cardinality(S) <= Cardinality(Requests)
  BY RequestFacts, FS_Subset, FS_CardinalityType
<1> QED  BY <1>1

LEMMA TypeNext ==
    ASSUME ServerInv, [Next]_vars
    PROVE  TypeOK'
<1> USE DEF TypeOK
<1>0. TypeOK /\ LifeOK /\ CountsOK /\ inFlight' \in 0 .. Cardinality(Requests)
  <2>1. TypeOK /\ LifeOK /\ CountsOK /\ inFlight' = Cardinality(Inside')
    BY GaugeNext DEF ServerInv, CountsOK, GaugeOK
  <2>2. Inside' \in SUBSET Requests
    BY DEF Inside
  <2> QED  BY <2>1, <2>2, PartOfRequests
<1>1. ASSUME NEW q \in Requests, Connect(q) PROVE TypeOK'
  BY <1>0, <1>1 DEF Connect, metrics, mainVars
<1>2. ASSUME NEW q \in Requests, Refused(q) PROVE TypeOK'
  BY <1>0, <1>2 DEF Refused, metrics, mainVars
<1>3. ASSUME NEW q \in Requests, HangUp(q) \/ Answer(q) \/ ElsewhereEnds(q) PROVE TypeOK'
  <2>1. /\ client' \in [Requests -> {"idle", "waiting", "answered", "failed"}]
        /\ status' \in [Requests -> Statuses \cup {None}]
    BY <1>0, <1>3 DEF HangUp, Answer, ElsewhereEnds
  <2>2. waited' \in [Requests -> Nat] /\ \A c \in Calls : waited'[c] <= Timeout[c[1]]
    <3>1. waited' = [waited EXCEPT ![q] = 0]
      BY <1>3 DEF HangUp, Answer, ElsewhereEnds
    <3> QED  BY <1>0, <3>1, CallsHaveTimeouts
  <2>3. UNCHANGED <<server, param, left, tokens, metrics, mainVars>>
    BY <1>3 DEF HangUp, Answer, ElsewhereEnds
  <2> QED  BY <1>0, <2>1, <2>2, <2>3 DEF metrics, mainVars
<1>4. ASSUME NEW q \in Requests, Enter(q) PROVE TypeOK'
  <2>1. /\ server' \in [Requests -> {"none", "connected", "running", "ending", "left"}]
        /\ status' \in [Requests -> Statuses \cup {None}]
    BY <1>0, <1>4 DEF Enter, Goes, Writes, Statuses, Unrouted
  <2>2. param' \in [Requests -> Nat \cup {None}] /\ left' \in [Requests -> Nat]
    BY <1>0, <1>4, ParamsType DEF Enter
  <2>3. tokens' \in [Limited -> Nat] /\ \A rt \in Limited : tokens'[rt] <= Burst[rt]
    <3>1. CASE tokens' = tokens
      BY <1>0, <3>1
    <3>2. CASE /\ Route(q) \in Limited /\ tokens[Route(q)] > 0
               /\ tokens' = [tokens EXCEPT ![Route(q)] = @ - 1]
      <4>1. tokens[Route(q)] - 1 \in Nat /\ tokens[Route(q)] - 1 <= Burst[Route(q)]
        <5>1. /\ tokens[Route(q)] \in Nat /\ Burst[Route(q)] \in Nat
              /\ tokens[Route(q)] > 0 /\ tokens[Route(q)] <= Burst[Route(q)]
          BY <1>0, <3>2, ServerAssumption
        <5> QED  BY <5>1
      <4>2. tokens' \in [Limited -> Nat]
        BY <1>0, <3>2, <4>1
      <4>3. ASSUME NEW rt \in Limited PROVE tokens'[rt] <= Burst[rt]
        BY <1>0, <3>2, <4>1
      <4> QED  BY <4>2, <4>3
    <3> QED  BY <1>4, <3>1, <3>2 DEF Enter, Allowed
  <2> QED  BY <1>0, <1>4, <2>1, <2>2, <2>3 DEF Enter, clientVars, mainVars
<1>5. ASSUME NEW q \in Requests, Finish(q) PROVE TypeOK'
  <2>1. /\ server' \in [Requests -> {"none", "connected", "running", "ending", "left"}]
        /\ left' \in [Requests -> Nat]
    BY <1>0, <1>5 DEF Finish, Goes
  <2>2. /\ status' \in [Requests -> Statuses \cup {None}]
        /\ calls' \in [{"ok", "error"} -> Nat]
    <3>1. CASE UNCHANGED calls /\ \E st \in {200, 500} : Writes(q, st)
      BY <1>0, <3>1 DEF Writes, Statuses
    <3>2. CASE UpstreamEnds(q)
      <4> DEFINE ok == Cardinality({c \in CallsOf(q) : CallOk(c)})
      <4>1. q \in Upstreams /\ {c \in CallsOf(q) : CallOk(c)} \in SUBSET CallsOf(q)
        BY <3>2, RequestFacts DEF UpstreamEnds
      <4>2. ok \in Nat /\ N[q] - ok \in Nat
        BY <4>1, CallsOfUpstream, FS_Subset, FS_CardinalityType, ServerAssumption
      <4>3. calls' = [calls EXCEPT !["ok"] = @ + ok, !["error"] = @ + (N[q] - ok)]
        BY <3>2 DEF UpstreamEnds
      <4> HIDE DEF ok
      <4>4. calls' \in [{"ok", "error"} -> Nat]
        BY <1>0, <4>2, <4>3
      <4>5. status' = [status EXCEPT ![q] = 200]
        BY <3>2 DEF UpstreamEnds, Writes
      <4> QED  BY <1>0, <4>4, <4>5 DEF Statuses
    <3> QED  BY <1>5, <3>1, <3>2 DEF Finish, SleepEnds, WorkEnds, Outcomes
  <2> QED  BY <1>0, <1>5, <2>1, <2>2 DEF Finish, clientVars, mainVars
<1>6. ASSUME NEW q \in Requests, Leave(q) PROVE TypeOK'
  <2>1. <<Route(q), status[q]>> \in Routes \X Statuses
    BY <1>0, <1>6, RequestFacts DEF Leave, LifeOK, RequestOK
  <2> QED  BY <1>0, <1>6, <2>1 DEF Leave, Goes, clientVars, mainVars
<1>7. CASE Signal \/ Drained \/ Forced
  BY <1>0, <1>7 DEF Signal, Drained, Forced, clientVars, metrics
<1>8. CASE Exit
  BY <1>0, <1>8 DEF Exit, metrics
<1>9. CASE Tick
  <2>1. left' \in [Requests -> Nat]
    <3>1. \A n \in Nat : AtLeast0(n) \in Nat
      BY DEF AtLeast0
    <3> QED  BY <1>0, <1>9, <3>1 DEF Tick
  <2>2. waited' \in [Requests -> Nat] /\ \A c \in Calls : waited'[c] <= Timeout[c[1]]
    BY <1>0, <1>9, RequestFacts, CallsHaveTimeouts DEF Tick, AtMost
  <2>3. tokens' \in [Limited -> Nat] /\ \A rt \in Limited : tokens'[rt] <= Burst[rt]
    BY <1>0, <1>9, ServerAssumption DEF Tick, AtMost
  <2>4. drain' \in 0 .. ShutdownTimeout
    BY <1>0, <1>9, ServerAssumption DEF Tick
  <2> QED  BY <1>0, <1>9, <2>1, <2>2, <2>3, <2>4 DEF Tick, metrics
<1>10. CASE UNCHANGED vars
  BY <1>0, <1>10 DEF vars, clientVars, metrics, mainVars
<1> QED
  BY <1>1, <1>2, <1>3, <1>4, <1>5, <1>6, <1>7, <1>8, <1>9, <1>10 DEF Next, Serve

LEMMA ServerInit == Init => ServerInv
<1> SUFFICES ASSUME Init PROVE ServerInv
  OBVIOUS
<1> USE DEF Init
<1>1. TypeOK
  <2>1. Cardinality(Requests) \in Nat
    BY RequestFacts, FS_CardinalityType
  <2> QED  BY <2>1, ServerAssumption, CallsHaveTimeouts DEF TypeOK
<1>2. \A r \in Requests : server[r] = "none" /\ status[r] = None
  OBVIOUS
<1>3. LifeOK
  BY <1>2, RequestFacts DEF LifeOK, RequestOK, Over
<1>4. /\ Inside = {} /\ OkCalls = {} /\ ErrorCalls = {}
      /\ \A rt \in Routes : Returned(rt) = {}
  BY <1>2, RequestFacts DEF Inside, Returned, OkCalls, ErrorCalls, Over
<1>5. Cardinality({}) = 0
  BY FS_EmptySet
<1>6. \A rt \in Routes : <<rt, 200>> \in Routes \X Statuses
  BY DEF Statuses
<1> QED
  BY <1>1, <1>3, <1>4, <1>5, <1>6 DEF ServerInv, CountsOK, GaugeOK, ReturnedOK, CallsOK

LEMMA ServerNext == ServerInv /\ [Next]_vars => ServerInv'
<1> SUFFICES ASSUME ServerInv, [Next]_vars PROVE ServerInv'
  OBVIOUS
<1>1. TypeOK /\ LifeOK /\ GaugeOK /\ ReturnedOK /\ CallsOK
  BY DEF ServerInv, CountsOK
<1>2. Routes' = Routes /\ ReturnedOK'
  BY <1>1, ReturnedNext DEF ReturnedOK
<1> QED  BY <1>1, <1>2, TypeNext, LifeNext, GaugeNext, CallsNext DEF ServerInv, CountsOK

LEMMA ServerInvariant == Spec => []ServerInv
BY ServerInit, ServerNext, PTL DEF Spec

\* Every variable keeps its type: http_requests_in_flight never goes below 0 or above
\* the number of requests, the limiters never hand out what they do not have, and
\* the upstream handler never counts a negative number of errors.
THEOREM ServerTypeCorrect == Spec => []TypeOK
<1>1. ServerInv => TypeOK
  BY DEF ServerInv
<1> QED  BY <1>1, ServerInvariant, PTL

\* The counters of the scenarios and those of the middleware agree, however many
\* clients, calls, limits and timeouts there are and whatever the targets: a call an
\* upstream request counts as ok, if it went to a route of the server itself, has
\* passed the middleware's deferred block as a 200 of that route, and each call is
\* counted once, as what it came to.
THEOREM LayersAgree == Spec => []MetricsAgree
<1>1. ServerInv => MetricsAgree
  <2> SUFFICES ASSUME ServerInv PROVE MetricsAgree
    OBVIOUS
  <2>0. TypeOK /\ LifeOK /\ CountsOK
    BY DEF ServerInv
  <2>1. ASSUME NEW rt \in Routes
        PROVE  Cardinality({c \in Calls : Route(c) = rt /\ CallOk(c)}) <= total[<<rt, 200>>]
    <3> DEFINE Ok == {c \in Calls : Route(c) = rt /\ CallOk(c)}
    <3>1. ASSUME NEW c \in Ok PROVE c \in Returned(rt)
      <4>1. c \in Calls /\ c \in Requests /\ Route(c) = rt /\ CallOk(c) /\ ~ Elsewhere(c)
        BY RequestFacts DEF Elsewhere, Routes, Limited
      <4>2. server[c] = "left" /\ status[c] \in Statuses /\ status[c] < 400
        BY <2>0, <4>1 DEF LifeOK, RequestOK, TypeOK, CallOk
      <4> QED  BY <4>1, <4>2 DEF Returned, Statuses
    <3>2. Ok \in SUBSET Returned(rt) /\ Returned(rt) \in SUBSET Requests
      BY <3>1 DEF Returned
    <3> HIDE DEF Ok
    <3>3. Cardinality(Ok) <= Cardinality(Returned(rt))
      BY <3>2, RequestFacts, FS_Subset
    <3>4. total[<<rt, 200>>] = Cardinality(Returned(rt))
      BY <2>0 DEF CountsOK, ReturnedOK
    <3> QED  BY <3>3, <3>4 DEF Ok
  <2> DEFINE Counted ==
        {c \in Calls : server[c[1]] \in {"ending", "left"} /\ status[c[1]] = 200}
  <2>2. /\ OkCalls = {c \in Counted : CallOk(c)}
        /\ ErrorCalls = {c \in Counted : ~ CallOk(c)}
    BY DEF OkCalls, ErrorCalls, Over
  <2>3. /\ calls["ok"] = Cardinality({c \in Counted : CallOk(c)})
        /\ calls["error"] = Cardinality({c \in Counted : ~ CallOk(c)})
    <3> HIDE DEF Counted
    <3> QED  BY <2>0, <2>2 DEF CountsOK, CallsOK
  <2>4. inFlight = Cardinality({r \in Requests : server[r] \in {"running", "ending"}})
    BY <2>0 DEF CountsOK, GaugeOK, Inside
  <2> QED  BY <2>1, <2>3, <2>4 DEF MetricsAgree
<1> QED  BY <1>1, ServerInvariant, PTL
------------------------------------------------------------------------------
(***************************************************************************)
(* The shutdown.  Whoever waits was accepted before it began, so whatever  *)
(* is left of his work and the time it has lasted fit into what he needs;  *)
(* a call has waited at least as long, and an upstream request is held up  *)
(* by one of its calls.                                                    *)
(***************************************************************************)
Lasted(r) == drain = 0 \/ Lasts(r, drain)

Paced(r) ==
    /\ server[r] = "connected" => drain = 0
    /\ client[r] = "waiting" =>
        /\ server[r] = "running" =>
              IF Route(r) = "upstream" THEN Lasted(r) ELSE WorksFor(r, left[r] + drain)
        /\ server[r] \in {"ending", "left"} => Lasted(r)

CallPaced(c) ==
    /\ client[c] = "idle" /\ server[c[1]] = "running" => drain = 0
    /\ client[c] = "waiting" => server[c[1]] = "running" /\ drain <= waited[c]

ShutdownOK ==
    /\ phase = "serving" => drain = 0
    /\ phase = "forced" => drain = ShutdownTimeout
    /\ phase = "drained" =>
          \A r \in Requests : client[r] # "waiting" /\ server[r] \notin {"connected", "running"}
    /\ \A r \in Requests : Paced(r)
    /\ \A c \in Calls : CallPaced(c)

\* Who needs so long goes on needing it: what the handler made of the query stays.
LEMMA LastsStay ==
    ASSUME ServerInv, [Next]_vars, NEW t \in Nat, NEW r \in Requests
    PROVE  /\ WorksFor(r, t) => WorksFor(r, t)'
           /\ Lasts(r, t) => Lasts(r, t)'
<1>0. TypeOK /\ LifeOK /\ TypeOK'
  BY TypeNext DEF ServerInv
<1>1. \A q \in Requests : param'[q] = param[q] \/ param[q] = None
  <2>1. ASSUME NEW p \in Requests, Enter(p), NEW q \in Requests
        PROVE  param'[q] = param[q] \/ param[q] = None
    <3>1. param[p] = None
      BY <1>0, <2>1 DEF Enter, LifeOK, RequestOK
    <3> QED  BY <1>0, <2>1, <3>1 DEF Enter, TypeOK
  <2> QED
    BY <2>1
    DEF Next, Connect, Refused, HangUp, ElsewhereEnds, Serve, Finish, Leave, Answer, Signal,
        Drained, Forced, Exit, Tick, vars
<1>2. ASSUME NEW q \in Requests, WorksFor(q, t) PROVE WorksFor(q, t)'
  <2>1. param'[q] \in Nat \cup {None}
    BY <1>0 DEF TypeOK
  <2>2. CASE param[q] = None
    BY <1>2, <2>1, <2>2 DEF WorksFor
  <2>3. CASE param'[q] = param[q]
    BY <1>2, <2>3 DEF WorksFor
  <2> QED  BY <1>1, <2>2, <2>3
<1>3. ASSUME Lasts(r, t) PROVE Lasts(r, t)'
  <2>1. CASE Route(r) = "upstream"
    <3>1. r \in Upstreams
      BY <2>1, RequestFacts
    <3>2. PICK c \in CallsOf(r) : HeldFor(c, t)
      BY <1>3, <2>1 DEF Lasts
    <3>3. c \in Requests
      BY <3>1, <3>2, CallsOfUpstream, RequestFacts
    <3>4. HeldFor(c, t)'
      BY <1>2, <3>2, <3>3 DEF HeldFor
    <3> QED  BY <2>1, <3>2, <3>4 DEF Lasts
  <2>2. CASE Route(r) # "upstream"
    BY <1>2, <1>3, <2>2 DEF Lasts
  <2> QED  BY <2>1, <2>2
<1> QED  BY <1>2, <1>3

\* Time passes only while somebody's work does.
LEMMA PacedTick ==
    ASSUME ServerInv, ShutdownOK, Tick
    PROVE  /\ \A r \in Requests : Paced(r)'
           /\ \A c \in Calls : CallPaced(c)'
<1> USE DEF TypeOK
<1>0. /\ TypeOK /\ LifeOK /\ TypeOK' /\ drain \in Nat /\ drain' \in Nat
  BY TypeNext, ServerAssumption DEF ServerInv, Next
<1>1. UNCHANGED <<client, server, param>> /\ phase # "exited"
  BY DEF Tick
<1>2. drain' = drain \/ drain' = drain + 1
  BY DEF Tick
\* Whoever waits for this server has a handler that is waiting or working.
<1>3. ASSUME NEW q \in Requests, client[q] = "waiting"
      PROVE  /\ server[q] = "running" \/ (Elsewhere(q) /\ server[q] = "none")
             /\ server[q] = "running" /\ Route(q) # "upstream" => left[q] # 0
  <2>1. ~ Urgent(q) /\ RequestOK(q)
    BY <1>0 DEF Tick, LifeOK
  <2> QED  BY <1>0, <1>3, <2>1 DEF Urgent, RequestOK
\* Handlers at work have worked for a tick.
<1>4. ASSUME NEW q \in Requests, client[q] = "waiting", server[q] = "running",
             Route(q) # "upstream"
      PROVE  WorksFor(q, left[q] + drain)' /\ WorksFor(q, drain')
  <2>1. left'[q] = left[q] - 1 /\ left[q] \in Nat /\ left[q] # 0
    BY <1>0, <1>3, <1>4 DEF Tick, AtLeast0
  <2>2. WorksFor(q, left[q] + drain)
    BY <1>4 DEF ShutdownOK, Paced
  <2>3. left'[q] + drain' <= left[q] + drain /\ drain' <= left[q] + drain
    BY <1>0, <1>2, <2>1
  <2> QED  BY <1>0, <1>1, <2>1, <2>2, <2>3 DEF WorksFor
\* Calls have waited for a tick, and none is to be sent.
<1>5. ASSUME NEW c \in Calls, client[c] = "waiting"
      PROVE  drain' <= waited'[c] /\ waited'[c] <= Timeout[c[1]] /\ waited'[c] \in Nat
  <2>1. c \in Requests /\ Timeout[c[1]] \in Nat /\ ~ UrgentCall(c) /\ drain <= waited[c]
    BY <1>5, CallsHaveTimeouts DEF Tick, ShutdownOK, CallPaced
  <2>2. waited[c] \in Nat /\ waited[c] <= Timeout[c[1]] /\ waited[c] # Timeout[c[1]]
    BY <1>0, <1>5, <2>1 DEF UrgentCall
  <2>3. waited'[c] = waited[c] + 1
    BY <1>5, <2>1, <2>2 DEF Tick, AtMost
  <2> QED  BY <1>0, <1>2, <2>1, <2>2, <2>3
<1>6. ASSUME NEW c \in Calls PROVE ~ (client[c] = "idle" /\ server[c[1]] = "running")
  BY <1>1 DEF Tick, UrgentCall, MaySend, Up
<1>7. ASSUME NEW r \in Requests, client[r] = "waiting", server[r] = "running",
             Route(r) = "upstream"
      PROVE  Lasts(r, drain)'
  <2>1. r \in Upstreams
    BY <1>7, RequestFacts
  <2>2. PICK c \in CallsOf(r) : ~ CallDone(c)
    <3>1. ~ Urgent(r)
      BY DEF Tick
    <3> QED  BY <1>7, <3>1 DEF Urgent
  <2>3. c \in Calls /\ c \in Requests /\ c[1] = r /\ Route(c) # "upstream"
    BY <2>1, <2>2, CallsOfUpstream, RequestFacts
  <2>4. client[c] = "waiting"
    BY <1>0, <1>6, <1>7, <2>2, <2>3 DEF CallDone
  <2>5. drain' <= Timeout[c[1]]
    <3>1. Timeout[c[1]] \in Nat
      BY <2>3, CallsHaveTimeouts
    <3> QED  BY <1>0, <1>5, <2>3, <2>4, <3>1
  <2>6. Elsewhere(c) \/ WorksFor(c, drain)'
    BY <1>1, <1>3, <1>4, <2>3, <2>4 DEF WorksFor
  <2>7. HeldFor(c, drain)'
    BY <2>5, <2>6 DEF HeldFor
  <2> QED  BY <1>7, <2>2, <2>7 DEF Lasts
<1>8. ASSUME NEW r \in Requests PROVE Paced(r)'
  <2>1. server[r] # "connected" /\ ~ (client[r] = "waiting" /\ server[r] \in {"ending", "left"})
    BY <1>8 DEF Tick, Urgent
  <2>2. client[r] = "waiting" /\ server[r] = "running" =>
           IF Route(r) = "upstream" THEN Lasts(r, drain)' ELSE WorksFor(r, left[r] + drain)'
    BY <1>4, <1>7, <1>8
  <2> QED  BY <1>1, <2>1, <2>2 DEF Paced, Lasted
<1>9. ASSUME NEW c \in Calls PROVE CallPaced(c)'
  <2>1. client[c] = "waiting" => server[c[1]] = "running"
    BY <1>9 DEF ShutdownOK, CallPaced
  <2> QED  BY <1>1, <1>5, <1>6, <1>9, <2>1 DEF CallPaced
<1> QED  BY <1>8, <1>9

LEMMA PacedNext ==
    ASSUME ServerInv, ShutdownOK, [Next]_vars
    PROVE  /\ \A r \in Requests : Paced(r)'
           /\ \A c \in Calls : CallPaced(c)'
<1> USE DEF TypeOK
<1>0. TypeOK /\ LifeOK /\ TypeOK' /\ drain \in Nat
  BY TypeNext, ServerAssumption DEF ServerInv
<1>1. ASSUME NEW r \in Requests
      PROVE  RequestOK(r) /\ Paced(r) /\ (drain' = drain /\ Lasted(r) => Lasted(r)')
  <2>1. PICK t \in Nat : t = drain
    BY <1>0
  <2>2. ASSUME drain' = drain, Lasts(r, drain) PROVE Lasts(r, drain)'
    <3>1. Lasts(r, t)
      BY <2>1, <2>2
    <3>2. Lasts(r, t)'
      BY <3>1, LastsStay
    <3>3. t = drain'
      BY <2>1, <2>2
    <3> QED  BY <3>2, <3>3 DEF Lasts, HeldFor, WorksFor
  <2>3. RequestOK(r) /\ Paced(r)
    BY <1>0 DEF ShutdownOK, LifeOK
  <2>4. ASSUME drain' = drain, Lasted(r) PROVE Lasted(r)'
    BY <2>2, <2>4 DEF Lasted
  <2> QED  BY <2>3, <2>4
<1>2. ASSUME NEW c \in Calls
      PROVE  /\ c \in Requests /\ c[1] \in Upstreams /\ c[1] \in Requests /\ c[1] # c
             /\ c \in CallsOf(c[1]) /\ CallPaced(c) /\ RequestOK(c[1])
             /\ Route(c[1]) = "upstream"
  BY <1>2, <1>1, RequestFacts, CallsOfUpstream DEF ShutdownOK
<1>3. ASSUME NEW q \in Requests, Connect(q)
      PROVE  /\ \A r \in Requests : Paced(r)'
             /\ \A c \in Calls : CallPaced(c)'
  <2>1. /\ drain' = drain /\ UNCHANGED <<left, waited, param>>
        /\ client[q] = "idle" /\ server[q] = "none"
        /\ client' = [client EXCEPT ![q] = "waiting"]
    BY <1>1, <1>3 DEF Connect, MaySend, RequestOK, mainVars
  <2>2. (server' = [server EXCEPT ![q] = "connected"] /\ drain = 0) \/ server' = server
    BY <1>3 DEF Connect, ShutdownOK
  <2>3. ASSUME NEW r \in Requests PROVE Paced(r)'
    BY <1>0, <1>1, <2>1, <2>2 DEF Paced, WorksFor
  <2>4. ASSUME NEW c \in Calls PROVE CallPaced(c)'
    <3>1. CASE c = q
      <4>1. drain = 0 /\ server[c[1]] = "running" /\ server'[c[1]] = "running"
        BY <1>0, <1>2, <1>3, <2>2, <3>1 DEF Connect, MaySend, CallPaced
      <4> QED  BY <1>0, <1>2, <2>1, <3>1, <4>1 DEF CallPaced
    <3>2. CASE c # q
      BY <1>0, <1>2, <2>1, <2>2, <3>2 DEF CallPaced
    <3> QED  BY <3>1, <3>2
  <2> QED  BY <2>3, <2>4
<1>4. ASSUME NEW q \in Requests, Refused(q) \/ HangUp(q) \/ Answer(q) \/ ElsewhereEnds(q)
      PROVE  /\ \A r \in Requests : Paced(r)'
             /\ \A c \in Calls : CallPaced(c)'
  <2>1. UNCHANGED <<server, drain, left, param>>
    BY <1>4 DEF Refused, HangUp, Answer, ElsewhereEnds, mainVars
  <2>2. ASSUME NEW r \in Requests
        PROVE  /\ client'[r] = "waiting" => client[r] = "waiting" /\ waited'[r] = waited[r]
               /\ client'[r] = "idle" => client[r] = "idle"
    BY <1>0, <1>4 DEF Refused, HangUp, Answer, ElsewhereEnds
  <2> QED  BY <1>1, <1>2, <2>1, <2>2 DEF Paced, CallPaced, WorksFor
<1>5. ASSUME NEW q \in Requests, Enter(q)
      PROVE  /\ \A r \in Requests : Paced(r)'
             /\ \A c \in Calls : CallPaced(c)'
  <2>1. /\ UNCHANGED <<client, waited, drain>> /\ server[q] = "connected" /\ drain = 0
        /\ server' = [server EXCEPT ![q] = "running"] \/ server' = [server EXCEPT ![q] = "ending"]
    BY <1>1, <1>5 DEF Enter, Goes, clientVars, mainVars, Paced
  <2>2. ASSUME NEW r \in Requests, client[r] = "waiting", server'[r] = "running",
               Route(r) # "upstream"
        PROVE  WorksFor(r, left[r] + drain)'
    <3>1. CASE r # q
      <4>1. server[r] = "running" /\ left'[r] = left[r] /\ param'[r] = param[r]
        BY <1>0, <1>5, <2>1, <2>2, <3>1 DEF Enter
      <4> QED  BY <1>1, <2>1, <2>2, <4>1 DEF Paced, WorksFor
    <3>2. CASE r = q
      <4>1. PICK n \in Params(q) :
                    param' = [param EXCEPT ![q] = n] /\ left' = [left EXCEPT ![q] = n]
        BY <1>0, <1>5, <2>2, <3>2 DEF Enter, Goes
      <4>2. n \in Nat /\ n # None
        BY <4>1, ParamsType, ServerAssumption
      <4> QED  BY <1>0, <2>1, <3>2, <4>1, <4>2 DEF WorksFor
    <3> QED  BY <3>1, <3>2
  <2>3. ASSUME NEW r \in Requests PROVE Paced(r)'
    BY <2>1, <2>2 DEF Paced, Lasted
  <2>4. ASSUME NEW c \in Calls PROVE CallPaced(c)'
    BY <1>0, <1>2, <2>1 DEF CallPaced
  <2> QED  BY <2>3, <2>4
<1>6. ASSUME NEW q \in Requests, Finish(q)
      PROVE  /\ \A r \in Requests : Paced(r)'
             /\ \A c \in Calls : CallPaced(c)'
  <2>1. /\ UNCHANGED <<client, waited, param, drain>> /\ server[q] = "running"
        /\ server' = [server EXCEPT ![q] = "ending"] /\ left' = [left EXCEPT ![q] = 0]
    BY <1>6 DEF Finish, Goes, clientVars, mainVars
  <2>2. client[q] = "waiting" => Lasted(q)
    <3>1. CASE Route(q) = "upstream"
      BY <1>1, <2>1, <3>1 DEF Paced
    <3>2. CASE Route(q) # "upstream"
      <4>1. client[q] = "waiting" => WorksFor(q, left[q] + drain)
        BY <1>1, <2>1, <3>2 DEF Paced
      <4>2. left[q] \in Nat /\ param[q] \in Nat \cup {None}
        BY <1>0
      <4>3. client[q] = "waiting" => WorksFor(q, drain)
        BY <1>0, <4>1, <4>2 DEF WorksFor
      <4> QED  BY <3>2, <4>3 DEF Lasted, Lasts
    <3> QED  BY <3>1, <3>2
  <2>3. ASSUME NEW r \in Requests PROVE Paced(r)'
    <3>1. CASE r = q
      BY <1>0, <1>1, <2>1, <2>2, <3>1 DEF Paced
    <3>2. CASE r # q
      BY <1>0, <1>1, <2>1, <3>2 DEF Paced, WorksFor
    <3> QED  BY <3>1, <3>2
  <2>4. ASSUME NEW c \in Calls PROVE CallPaced(c)'
    <3>1. CASE c[1] = q
      <4>1. UpstreamEnds(q)
        BY <1>2, <1>6, <3>1 DEF Finish, SleepEnds, WorkEnds
      <4>2. client[c] # "waiting"
        BY <1>2, <3>1, <4>1 DEF UpstreamEnds, CallDone
      <4> QED  BY <1>0, <1>2, <2>1, <3>1, <4>2 DEF CallPaced
    <3>2. CASE c[1] # q
      BY <1>0, <1>2, <2>1, <3>2 DEF CallPaced
    <3> QED  BY <3>1, <3>2
  <2> QED  BY <2>3, <2>4
<1>7. ASSUME NEW q \in Requests, Leave(q)
      PROVE  /\ \A r \in Requests : Paced(r)'
             /\ \A c \in Calls : CallPaced(c)'
  <2>1. /\ UNCHANGED <<client, waited, param, drain, left>> /\ server[q] = "ending"
        /\ server' = [server EXCEPT ![q] = "left"]
    BY <1>7 DEF Leave, Goes, clientVars, mainVars
  <2>2. ASSUME NEW r \in Requests PROVE Paced(r)'
    BY <1>0, <1>1, <2>1 DEF Paced, WorksFor
  <2>3. ASSUME NEW c \in Calls PROVE CallPaced(c)'
    BY <1>0, <1>2, <2>1 DEF CallPaced
  <2> QED  BY <2>2, <2>3
<1>8. CASE Exit
  <2>1. UNCHANGED <<server, waited, param, drain, left>>
    BY <1>8 DEF Exit
  <2>2. ASSUME NEW r \in Requests
        PROVE  client'[r] # "waiting" /\ (client'[r] = "idle" => client[r] = "idle")
    BY <1>0, <1>8 DEF Exit, Cut
  <2> QED  BY <1>1, <1>2, <2>1, <2>2 DEF Paced, CallPaced
<1>9. CASE Tick
  BY <1>9, PacedTick
<1>10. CASE UNCHANGED <<client, server, param, left, waited, drain>>
  BY <1>1, <1>2, <1>10 DEF Paced, CallPaced, WorksFor
<1> QED
  BY <1>3, <1>4, <1>5, <1>6, <1>7, <1>8, <1>9, <1>10
  DEF Next, Serve, Signal, Drained, Forced, vars, clientVars, mainVars

LEMMA ShutdownNext ==
    ASSUME ServerInv, ShutdownOK, [Next]_vars
    PROVE  ShutdownOK'
<1>0. /\ TypeOK /\ LifeOK
      /\ \A r \in Requests : Paced(r)'
      /\ \A c \in Calls : CallPaced(c)'
  BY PacedNext DEF ServerInv
<1>1. phase' = "serving" => drain' = 0
  <2>1. phase' = "serving" => phase = "serving"
    BY DEF Next, Connect, Refused, HangUp, ElsewhereEnds, Serve, Enter, Finish, Leave, Answer, Signal,
           Drained, Forced, Exit, Tick, vars, mainVars
  <2>2. phase = "serving" => drain' = drain \/ phase' # "serving"
    BY DEF Next, Connect, Refused, HangUp, ElsewhereEnds, Serve, Enter, Finish, Leave, Answer, Signal,
           Drained, Forced, Exit, Tick, vars, mainVars
  <2> QED  BY <2>1, <2>2 DEF ShutdownOK
<1>2. phase' = "forced" => drain' = ShutdownTimeout
  BY DEF ShutdownOK, Next, Connect, Refused, HangUp, ElsewhereEnds, Serve, Enter, Finish, Leave, Answer,
         Signal, Drained, Forced, Exit, Tick, vars, mainVars
\* Nobody is left to be served, and no handler to call anybody.
<1>3. ASSUME phase' = "drained", NEW r \in Requests
      PROVE  client'[r] # "waiting" /\ server'[r] \notin {"connected", "running"}
  <2>1. CASE Drained
    <3>1. ~ Active(r) /\ RequestOK(r) /\ UNCHANGED <<client, server>>
      BY <1>0, <2>1 DEF Drained, LifeOK, clientVars
    <3>2. CASE ~ Elsewhere(r)
      BY <1>0, <3>1, <3>2 DEF Active, RequestOK, TypeOK
    <3>3. CASE Elsewhere(r)
      <4>1. r \in Calls /\ r[1] \in Requests
        BY <3>3, RequestFacts DEF Elsewhere, Routes, Limited
      <4>2. CallPaced(r) /\ ~ Active(r[1])
        BY <2>1, <4>1 DEF Drained, ShutdownOK
      <4> QED  BY <3>1, <4>2 DEF CallPaced, Active
    <3> QED  BY <3>2, <3>3
  <2>2. CASE phase = "drained"
    <3>1. \A q \in Requests : client[q] # "waiting" /\ server[q] \notin {"connected", "running"}
      BY <2>2 DEF ShutdownOK
    <3>2. ASSUME NEW q \in Requests, Connect(q) PROVE FALSE
      <4>1. Elsewhere(q) /\ MaySend(q)
        BY <2>2, <3>2 DEF Connect
      <4>2. q \in Calls /\ q[1] \in Requests
        BY <4>1, RequestFacts DEF Elsewhere, Routes, Limited
      <4> QED  BY <3>1, <4>1, <4>2 DEF MaySend
    <3>3. ASSUME NEW q \in Requests,
                 Refused(q) \/ HangUp(q) \/ ElsewhereEnds(q) \/ Leave(q) \/ Answer(q)
          PROVE  client'[r] # "waiting" /\ server'[r] \notin {"connected", "running"}
      BY <1>0, <3>1, <3>3
      DEF TypeOK, Refused, HangUp, ElsewhereEnds, Leave, Answer, Goes, clientVars
    <3>4. ASSUME NEW q \in Requests, Enter(q) \/ Finish(q) PROVE FALSE
      BY <3>1, <3>4 DEF Enter, Finish
    <3> QED
      BY <1>3, <2>2, <3>1, <3>2, <3>3, <3>4
      DEF Next, Serve, Signal, Drained, Forced, Exit, Tick, vars, clientVars
  <2>3. phase = "drained" \/ Drained
    BY <1>3
    DEF Next, Connect, Refused, HangUp, ElsewhereEnds, Serve, Enter, Finish, Leave, Answer,
        Signal, Forced, Exit, Tick, vars, mainVars
  <2> QED  BY <2>1, <2>2, <2>3
<1> QED  BY <1>0, <1>1, <1>2, <1>3 DEF ShutdownOK

\* The shutdown is graceful at every load: a client that main's return cuts off needs
\* more than the shutdown's 10 s for its work, or waits for a call that does and may.
THEOREM GracefulShutdown == Spec => CutOnlyTheLong
<1>1. Init => ShutdownOK
  <2> SUFFICES ASSUME Init PROVE ShutdownOK
    OBVIOUS
  <2>1. /\ phase = "serving" /\ drain = 0
        /\ \A r \in Requests : client[r] = "idle" /\ server[r] = "none"
    BY DEF Init
  <2> QED  BY <2>1, RequestFacts DEF ShutdownOK, Paced, CallPaced
<1>2. ServerInv /\ ShutdownOK /\ [Next]_vars => ShutdownOK'
  BY ShutdownNext
<1>3. ServerInv /\ ShutdownOK
        => [Exit => \A r \in Cut \cap External : Lasts(r, ShutdownTimeout)]_vars
  <2> SUFFICES ASSUME ServerInv, ShutdownOK, Exit, NEW r \in Cut \cap External
               PROVE  Lasts(r, ShutdownTimeout)
    OBVIOUS
  <2>0. r \in Requests /\ client[r] = "waiting"
    BY DEF Cut
  <2>1. /\ r \in Requests /\ client[r] = "waiting" /\ Paced(r) /\ RequestOK(r)
        /\ TypeOK /\ drain = ShutdownTimeout /\ drain # 0 /\ drain \in Nat
    <3>1. Paced(r) /\ RequestOK(r) /\ TypeOK
      BY <2>0 DEF ServerInv, LifeOK, ShutdownOK
    <3>2. phase = "forced"
      BY <2>0 DEF Exit, ShutdownOK
    <3> QED  BY <2>0, <3>1, <3>2, ServerAssumption DEF ShutdownOK
  <2>2. ~ Elsewhere(r)
    BY RequestFacts DEF Elsewhere, Requests, Routes, Limited
  <2>3. server[r] \in {"running", "ending", "left"}
    BY <2>1, <2>2 DEF TypeOK, RequestOK, Paced
  <2>4. CASE Lasted(r)
    BY <2>1, <2>4 DEF Lasted
  <2>5. CASE Route(r) # "upstream" /\ WorksFor(r, left[r] + drain)
    <3>1. left[r] \in Nat /\ param[r] \in Nat \cup {None}
      BY <2>1 DEF TypeOK
    <3>2. WorksFor(r, drain)
      BY <2>1, <2>5, <3>1 DEF WorksFor
    <3> QED  BY <2>1, <2>5, <3>2 DEF Lasts
  <2> QED  BY <2>1, <2>3, <2>4, <2>5 DEF Paced
<1> QED  BY <1>1, <1>2, <1>3, ServerInvariant, PTL DEF Spec, CutOnlyTheLong
================================================================================
