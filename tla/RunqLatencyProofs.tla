-------------------------- MODULE RunqLatencyProofs --------------------------
(***************************************************************************)
(* Proofs about RunqLatency for every number of CPUs, pids and cgroups,    *)
(* every size of the maps and every clock bound.                           *)
(*                                                                         *)
(*   TypeCorrect                Spec => []TypeOK                           *)
(*   TimestampsGenuine          no faults: Spec => []EnqueuedIsGenuine     *)
(*   InsertRaceBounded          Spec => []InsertRaceLossBounded            *)
(*   WaitsAccounted             no faults, no skew: EveryWaitAccounted    *)
(*   HistogramImplementsLedger  no faults, no skew: ImplementsLedger      *)
(***************************************************************************)
EXTENDS RunqLatency, FiniteSetTheorems, TLAPS

USE DEF Buckets

USE DEF Handlers

(***************************************************************************)
(* Induction, and functions defined by recursion                           *)
(***************************************************************************)
LEMMA Induction ==
    ASSUME NEW S, 0 \in S, \A n \in Nat : n \in S => n + 1 \in S
    PROVE  \A n \in Nat : n \in S
<1> SUFFICES ASSUME NEW m \in Nat, m \notin S PROVE FALSE
  OBVIOUS
<1> DEFINE T == {n \in Nat : n \notin S}
           R == OpToRel(<, Nat)
<1>1. PICK n \in T : \A k \in T : <<k, n>> \notin R
  <2>1. T \subseteq Nat /\ T # {}  OBVIOUS
  <2>2. IsWellFoundedOn(R, Nat)
    BY NatLessThanWellFounded
  <2> HIDE DEF T, R
  <2> QED  BY <2>1, <2>2, WFMin
<1>2. n # 0 /\ n - 1 \in Nat /\ n - 1 < n
  OBVIOUS
<1>3. <<n - 1, n>> \in R
  BY <1>2 DEF OpToRel
<1>4. n - 1 \in S
  BY <1>1, <1>2, <1>3
<1> QED  BY <1>2, <1>4

LEMMA BucketInduction ==
    ASSUME NEW S, 0 \in S, \A b \in Buckets \ {0} : b - 1 \in S => b \in S
    PROVE  \A b \in Buckets : b \in S
<1> DEFINE U == {b \in Nat : b \in Buckets => b \in S}
<1>0. Buckets = 0 .. NUM_BUCKETS - 1 /\ NUM_BUCKETS - 1 \in Nat
  BY NumbersAssumption DEF Buckets
<1>1. 0 \in U
  OBVIOUS
<1>2. ASSUME NEW n \in Nat, n \in U PROVE n + 1 \in U
  <2>1. n + 1 \in Buckets => n \in Buckets /\ n + 1 \in Buckets \ {0} /\ n + 1 - 1 = n
    BY <1>0
  <2> QED  BY <1>2, <2>1
<1>3. \A n \in Nat : n \in U
  <2> HIDE DEF U
  <2> QED  BY <1>1, <1>2, Induction
<1> QED  BY <1>0, <1>3

\* f starts with base, and step says what follows from the number and the value
\* at the number before, up to N.
IsRecursion(f, T, base, step, N) ==
    /\ f \in [0 .. N -> T]
    /\ f[0] = base
    /\ \A m \in 1 .. N : f[m] = step[m][f[m - 1]]

LEMMA Recursion ==
    ASSUME NEW T, NEW base \in T, NEW step \in [Nat -> [T -> T]], NEW N \in Nat
    PROVE  \E f : IsRecursion(f, T, base, step, N)
<1> DEFINE Good(n, f) == f[0] = base /\ \A m \in 1 .. n : f[m] = step[m][f[m - 1]]
           S == {n \in Nat : \E f \in [0 .. n -> T] : Good(n, f)}
<1>1. 0 \in S
  <2>1. [m \in 0 .. 0 |-> base] \in [0 .. 0 -> T] /\ Good(0, [m \in 0 .. 0 |-> base])
    OBVIOUS
  <2> QED  BY <2>1
<1>2. ASSUME NEW n \in Nat, n \in S PROVE n + 1 \in S
  <2>1. PICK f \in [0 .. n -> T] : Good(n, f)
    BY <1>2
  <2> DEFINE g == [m \in 0 .. n + 1 |-> IF m = n + 1 THEN step[n + 1][f[n]] ELSE f[m]]
  <2>2. step[n + 1][f[n]] \in T
    OBVIOUS
  <2>3. g \in [0 .. n + 1 -> T]
    BY <2>2
  <2>4. Good(n + 1, g)
    BY <2>1
  <2>5. \E h \in [0 .. n + 1 -> T] : Good(n + 1, h)
    <3> HIDE DEF g, Good
    <3> QED  BY <2>3, <2>4
  <2> QED  BY <2>5
<1>3. N \in S
  <2> HIDE DEF S
  <2> QED  BY <1>1, <1>2, Induction
<1> QED  BY <1>3 DEF IsRecursion
------------------------------------------------------------------------------
(***************************************************************************)
(* The bucket of a latency                                                 *)
(***************************************************************************)
\* What Shifted computes.
LEMMA ShiftedStep ==
    ASSUME NEW lat \in Nat
    PROVE  /\ Shifted(lat) \in [Buckets -> Nat]
           /\ Shifted(lat)[0] = lat \div NsPerUs
           /\ \A b \in Buckets \ {0} : Shifted(lat)[b] = Shifted(lat)[b - 1] \div 2
<1> DEFINE Def(v) ==
        [b \in Buckets |-> IF b = 0 THEN lat \div NsPerUs ELSE v[b - 1] \div 2]
           halve == [m \in Nat |-> [v \in Nat |-> v \div 2]]
<1>0. NUM_BUCKETS - 1 \in Nat /\ lat \div NsPerUs \in Nat /\ Buckets = 0 .. NUM_BUCKETS - 1
  BY NumbersAssumption DEF Buckets
<1>1. PICK f \in [0 .. NUM_BUCKETS - 1 -> Nat] :
          /\ f[0] = lat \div NsPerUs
          /\ \A m \in 1 .. NUM_BUCKETS - 1 : f[m] = f[m - 1] \div 2
  <2> DEFINE last == NUM_BUCKETS - 1
             base == lat \div NsPerUs
  <2>1. halve \in [Nat -> [Nat -> Nat]]
    OBVIOUS
  <2>2. PICK f \in [0 .. last -> Nat] :
            f[0] = base /\ \A m \in 1 .. last : f[m] = halve[m][f[m - 1]]
    <3>1. last \in Nat /\ base \in Nat
      BY <1>0
    <3> HIDE DEF halve, last, base
    <3>2. \E f : IsRecursion(f, Nat, base, halve, last)
      BY <2>1, <3>1, Recursion
    <3> QED  BY <3>2 DEF IsRecursion
  <2>3. \A m \in 1 .. last : f[m - 1] \in Nat /\ m \in Nat
    BY <1>0, <2>2
  <2>4. \A m \in 1 .. last : f[m] = f[m - 1] \div 2
    BY <2>2, <2>3
  <2> QED  BY <2>2, <2>4
<1>2. f = Def(f)
  BY <1>0, <1>1
<1>3. Shifted(lat) = Def(Shifted(lat))
  <2>1. Shifted(lat) = CHOOSE v : v = Def(v)
    BY DEF Shifted
  <2> HIDE DEF Def
  <2> QED  BY <1>2, <2>1
<1> DEFINE w == Shifted(lat)
<1>4. w = Def(w)
  BY <1>3
<1> HIDE DEF w
<1>5. w[0] = lat \div NsPerUs /\ \A b \in Buckets \ {0} : w[b] = w[b - 1] \div 2
  BY <1>0, <1>4
<1>6. w \in [Buckets -> Nat]
  <2> DEFINE S == {b \in Buckets : w[b] \in Nat}
  <2>1. 0 \in S
    BY <1>0, <1>5
  <2>2. ASSUME NEW b \in Buckets \ {0}, b - 1 \in S PROVE b \in S
    BY <1>5, <2>2
  <2>3. \A b \in Buckets : b \in S
    <3> HIDE DEF S
    <3> QED  BY <2>1, <2>2, BucketInduction
  <2> QED  BY <1>4, <2>3
<1> QED  BY <1>5, <1>6 DEF w

\* get_hist_bucket never leaves the array of NUM_BUCKETS counters that Collect
\* indexes with it.
LEMMA BucketType ==
    ASSUME NEW lat
    PROVE  get_hist_bucket(lat) \in Buckets
<1> DEFINE Turns == {b \in 1 .. NUM_BUCKETS - 1 : Shifted(lat)[b - 1] > 1}
<1>1. /\ IsFiniteSet(1 .. NUM_BUCKETS - 1)
      /\ Cardinality(1 .. NUM_BUCKETS - 1) = NUM_BUCKETS - 1
  <2>1. 1 \in Int /\ NUM_BUCKETS - 1 \in Int /\ NUM_BUCKETS - 1 >= 0
    BY NumbersAssumption
  <2> QED  BY <2>1, FS_Interval
<1>2. Turns \in SUBSET (1 .. NUM_BUCKETS - 1)  OBVIOUS
<1>3. IsFiniteSet(Turns) /\ Cardinality(Turns) <= NUM_BUCKETS - 1
  BY <1>1, <1>2, FS_Subset
<1>4. Cardinality(Turns) \in Nat
  BY <1>3, FS_CardinalityType
<1>5. Cardinality(Turns) \in Buckets
  BY <1>3, <1>4, NumbersAssumption DEF Buckets
<1> QED  BY <1>5 DEF get_hist_bucket

------------------------------------------------------------------------------
(***************************************************************************)
(* Types                                                                   *)
(***************************************************************************)
LEMMA KeyType ==
    ASSUME cgroup \in [Pids -> Cgroups],
           NEW next \in Pids, NEW prev \in Pids \cup {Idle}, NEW lat
    PROVE  HistKey(next, prev, lat) \in Keys
BY BucketType, SetsAssumption DEF HistKey, CgroupOf, Keys

\* The value handler[c] holds after each step of a handler.
LEMMA HandlerType ==
    ASSUME TypeOK, NEW c \in CPUs, handler[c] # None
    PROVE  /\ handler[c] \in Handlers
           /\ \A pc \in PCs : GoTo(c, pc) => handler' \in [CPUs -> Handlers \cup {None}]
           /\ Return(c) => handler' \in [CPUs -> Handlers \cup {None}]
BY DEF TypeOK, GoTo, Return

LEMMA SwitchType ==
    ASSUME TypeOK, NEW c \in CPUs, NEW prev \in Pids \cup {Idle}, NEW next \in Pids,
           tp_sched_switch(c, prev, next)
    PROVE  /\ runq_enqueued' \in [Pids -> Nat \cup {None}]
           /\ handler' \in [CPUs -> Handlers \cup {None}]
<1>1. CASE UNCHANGED <<runq_enqueued, handler>>
  BY <1>1 DEF TypeOK
<1>2. CASE /\ runq_enqueued[next] # None
           /\ \E now \in bpf_ktime_get_ns :
                RecordLatency(c, prev, next, RunqLat(now, runq_enqueued[next]))
           /\ runq_enqueued' = [runq_enqueued EXCEPT ![next] = None]
  <2>1. PICK now \in bpf_ktime_get_ns :
                RecordLatency(c, prev, next, RunqLat(now, runq_enqueued[next]))
    BY <1>2
  <2> DEFINE lat == RunqLat(now, runq_enqueued[next])
  <2>2. lat \in Int
    BY <1>2, WrapAssumption DEF TypeOK, RunqLat, bpf_ktime_get_ns
  <2>3. Plausible(lat) => lat \in Nat
    BY <2>2, NumbersAssumption DEF Plausible
  <2>4. HistKey(next, prev, lat) \in Keys
    BY KeyType DEF TypeOK
  <2>5. Plausible(lat) =>
            [pc |-> "max_compare", key |-> HistKey(next, prev, lat), lat |-> lat]
                \in Handlers
    BY <2>3, <2>4 DEF PCs
  <2>6. handler' \in [CPUs -> Handlers \cup {None}]
    BY <2>1, <2>5 DEF RecordLatency, TypeOK
  <2> QED  BY <1>2, <2>6 DEF TypeOK
<1> QED  BY <1>1, <1>2 DEF tp_sched_switch

LEMMA EnqueueType ==
    ASSUME TypeOK, NEW p \in Pids, tp_sched_wakeup(p)
    PROVE  runq_enqueued' \in [Pids -> Nat \cup {None}]
BY DEF tp_sched_wakeup, bpf_ktime_get_ns, TypeOK

LEMMA EndWaitType ==
    ASSUME TypeOK, NEW prev \in Pids \cup {Idle}, NEW next \in Pids,
           NEW missed \in BOOLEAN, EndWait(next, prev, missed)
    PROVE  /\ wokeAt' \in [Pids -> Nat \cup {None}]
           /\ refused' \subseteq Pids
           /\ due' \in [Keys -> Nat]
           /\ lost' \in [Reasons -> [Keys -> Nat]]
<1>1. HistKey(next, prev, clock - wokeAt[next]) \in Keys
  BY KeyType DEF TypeOK
<1>2. wokeAt' \in [Pids -> Nat \cup {None}] /\ refused' \subseteq Pids
  BY DEF EndWait, TypeOK
<1>3. due' \in [Keys -> Nat]
  BY <1>1 DEF EndWait, TypeOK, Bump
<1>4. ASSUME NEW r \in Reasons, NEW k \in Keys, Lose(r, k)
      PROVE  lost' \in [Reasons -> [Keys -> Nat]]
  BY <1>4 DEF Lose, TypeOK
<1>5. lost' \in [Reasons -> [Keys -> Nat]]
  BY <1>1, <1>4 DEF EndWait, Reasons, TypeOK
<1> QED  BY <1>2, <1>3, <1>5

LEMMA ContextSwitchType ==
    ASSUME TypeOK, NEW c \in CPUs, NEW prev \in Pids \cup {Idle},
           NEW next \in Pids \cup {Idle}, ContextSwitch(c, prev, next)
    PROVE  /\ task' \in [Pids -> {"free", "sleeping", "runnable", "running"}]
           /\ running' \in [CPUs -> Pids \cup {Idle}]
           /\ UNCHANGED <<clock, cgroup, exitedAt, runq_histograms, runq_lat_max>>
BY DEF ContextSwitch, TypeOK

LEMMA InitType == Init => TypeOK
BY NumbersAssumption, SetsAssumption DEF Init, TypeOK

LEMMA NextType == TypeOK /\ [Next]_vars => TypeOK'
<1> SUFFICES ASSUME TypeOK, [Next]_vars PROVE TypeOK'
  OBVIOUS
<1>1. CASE UNCHANGED vars
  BY <1>1 DEF vars, schedVars, mapVars, TypeOK
<1>2. CASE Tick
  BY <1>2, NumbersAssumption DEF Tick, schedVars, mapVars, TypeOK
<1>3. ASSUME NEW p \in Pids, NEW g \in Cgroups, Fork(p, g) PROVE TypeOK'
  BY <1>3 DEF Fork, mapVars, TypeOK
<1>4. ASSUME NEW p \in Pids, Wakeup(p) PROVE TypeOK'
  BY <1>4, EnqueueType DEF Wakeup, TypeOK
<1>5. ASSUME NEW p \in Pids, SpuriousWakeup(p) PROVE TypeOK'
  BY <1>5, EnqueueType DEF SpuriousWakeup, schedVars, TypeOK
<1>6. ASSUME NEW c \in CPUs, NEW prev \in Pids \cup {Idle}, NEW next \in Pids,
             Switch(c, prev, next)
      PROVE  TypeOK'
  <2>1. ContextSwitch(c, prev, next) /\ EndWait(next, prev, FALSE)
           /\ tp_sched_switch(c, prev, next)
    BY <1>6 DEF Switch
  <2> QED  BY <2>1, ContextSwitchType, EndWaitType, SwitchType DEF TypeOK
<1>7. ASSUME NEW c \in CPUs, NEW prev \in Pids \cup {Idle}, NEW next \in Pids,
             MissedSwitch(c, prev, next)
      PROVE  TypeOK'
  <2>1. ContextSwitch(c, prev, next) /\ EndWait(next, prev, TRUE)
           /\ UNCHANGED <<runq_enqueued, handler>>
    BY <1>7 DEF MissedSwitch
  <2> QED  BY <2>1, ContextSwitchType, EndWaitType DEF TypeOK
<1>8. ASSUME NEW c \in CPUs, NEW p \in Pids, SwitchToIdle(c, p) PROVE TypeOK'
  BY <1>8, ContextSwitchType DEF SwitchToIdle, TypeOK
<1>9. ASSUME NEW c \in CPUs, NEW p \in Pids, Exit(c, p) PROVE TypeOK'
  BY <1>9 DEF Exit, tp_sched_process_exit, TypeOK
<1>10. ASSUME NEW c \in CPUs, Handler(c) PROVE TypeOK'
  <2> USE HandlerType DEF At, PCs, schedVars, mapVars
  <2>1. CASE MaxCompare(c)
    BY <2>1 DEF MaxCompare, TypeOK
  <2>2. CASE MaxStore(c)
    BY <2>2 DEF MaxStore, TypeOK
  <2>3. CASE HistLookup(c)
    BY <2>3 DEF HistLookup, TypeOK
  <2>4. CASE HistAdd(c)
    BY <2>4 DEF HistAdd, Bump, TypeOK
  <2>5. CASE HistInsert(c)
    BY <2>5 DEF HistInsert, Lose, Reasons, TypeOK
  <2> QED  BY <1>10, <2>1, <2>2, <2>3, <2>4, <2>5 DEF Handler
<1> QED
  BY <1>1, <1>2, <1>3, <1>4, <1>5, <1>6, <1>7, <1>8, <1>9, <1>10 DEF Next

\* Every variable keeps its type: in particular every key that reaches the
\* histogram has a bucket below NUM_BUCKETS, which Collect relies on to index its
\* array, and no latency in flight is negative.
THEOREM TypeCorrect == Spec => []TypeOK
BY InitType, NextType, PTL DEF Spec
------------------------------------------------------------------------------
(***************************************************************************)
(* Genuine timestamps                                                      *)
(*                                                                         *)
(* A timestamp is only made for a sleeping task and a context switch only  *)
(* touches the task it puts away and the one it puts on.  The first is     *)
(* running and so has no timestamp; the second loses it.  That the task    *)
(* put away is running, on that CPU alone, is SchedOK.                     *)
(***************************************************************************)
SchedOK ==
    /\ \A c \in CPUs : running[c] \in Pids => task[running[c]] = "running"
    /\ \A c, d \in CPUs : running[c] \in Pids /\ running[c] = running[d] => c = d

WaitsBegan == \A p \in Pids : wokeAt[p] # None => wokeAt[p] <= clock

GenuineInv == TypeOK /\ SchedOK /\ WaitsBegan /\ EnqueuedIsGenuine

LEMMA SchedOKNext ==
    ASSUME TypeOK, SchedOK, [Next]_vars
    PROVE  SchedOK'
<1> USE DEF SchedOK, TypeOK
<1>1. ASSUME NEW c \in CPUs, NEW prev \in Pids \cup {Idle},
             NEW next \in Pids \cup {Idle}, ContextSwitch(c, prev, next),
             next \in Pids => task[next] = "runnable"
      PROVE  SchedOK'
  <2>1. \A d \in CPUs : running'[d] = IF d = c THEN next ELSE running[d]
    BY <1>1 DEF ContextSwitch
  <2>2. next \in Pids => task'[next] = "running"
    BY <1>1 DEF ContextSwitch
  <2>3. \A p \in Pids : p # prev /\ p # next => task'[p] = task[p]
    BY <1>1 DEF ContextSwitch
  <2>4. \A d \in CPUs : d # c /\ running[d] \in Pids => running[d] # prev /\ running[d] # next
    BY <1>1 DEF ContextSwitch
  <2>5. ASSUME NEW d \in CPUs, running'[d] \in Pids
        PROVE  task'[running'[d]] = "running"
    BY <2>1, <2>2, <2>3, <2>4, <2>5
  <2>6. ASSUME NEW d \in CPUs, NEW e \in CPUs,
               running'[d] \in Pids, running'[d] = running'[e]
        PROVE  d = e
    BY <2>1, <2>4, <2>6, SetsAssumption
  <2> QED  BY <2>5, <2>6
<1>2. CASE \E c \in CPUs, prev \in Pids \cup {Idle}, next \in Pids :
              Switch(c, prev, next) \/ MissedSwitch(c, prev, next)
  BY <1>2, <1>1 DEF Switch, MissedSwitch
<1>3. CASE \E c \in CPUs, p \in Pids : SwitchToIdle(c, p)
  BY <1>3, <1>1, SetsAssumption DEF SwitchToIdle
<1>4. CASE \E p \in Pids, g \in Cgroups : Fork(p, g)
  BY <1>4 DEF Fork
<1>5. CASE \E p \in Pids : Wakeup(p) \/ SpuriousWakeup(p)
  BY <1>5 DEF Wakeup, SpuriousWakeup, schedVars
<1>6. CASE UNCHANGED <<task, running>>
  BY <1>6
<1>7. ASSUME NEW c \in CPUs, Handler(c) PROVE UNCHANGED <<task, running>>
  BY <1>7 DEF Handler, MaxCompare, MaxStore, HistLookup, HistAdd, HistInsert, schedVars
<1> QED
  BY <1>2, <1>3, <1>4, <1>5, <1>6, <1>7 DEF Next, Tick, Exit, vars, schedVars

LEMMA WaitsBeganNext ==
    ASSUME TypeOK, WaitsBegan, [Next]_vars
    PROVE  WaitsBegan'
<1> USE DEF TypeOK, WaitsBegan
<1>1. ASSUME NEW p \in Pids, Wakeup(p) PROVE WaitsBegan'
  BY <1>1 DEF Wakeup
<1>2. ASSUME NEW prev \in Pids \cup {Idle}, NEW next \in Pids,
             NEW missed \in BOOLEAN, EndWait(next, prev, missed), UNCHANGED clock
      PROVE  WaitsBegan'
  BY <1>2 DEF EndWait
<1>3. CASE UNCHANGED wokeAt /\ clock' \in {clock, clock + 1}
  BY <1>3
<1>4. ASSUME NEW c \in CPUs, Handler(c) PROVE UNCHANGED <<wokeAt, clock>>
  BY <1>4 DEF Handler, MaxCompare, MaxStore, HistLookup, HistAdd, HistInsert, schedVars
<1> QED
  BY <1>1, <1>2, <1>3, <1>4
  DEF Next, Tick, Fork, SpuriousWakeup, Switch, MissedSwitch, ContextSwitch,
      SwitchToIdle, Exit, vars, schedVars

\* Only a task that is runnable is in a wait, whatever the tracepoints do.
WaitersRunnable == \A p \in Pids : wokeAt[p] # None => task[p] = "runnable"

LEMMA WaitersRunnableNext ==
    ASSUME TypeOK, SchedOK, WaitersRunnable, [Next]_vars
    PROVE  WaitersRunnable'
<1> USE DEF WaitersRunnable, TypeOK
<1>1. ASSUME NEW c \in CPUs, NEW prev \in Pids \cup {Idle}, NEW next \in Pids,
             NEW missed \in BOOLEAN, ContextSwitch(c, prev, next),
             EndWait(next, prev, missed)
      PROVE  WaitersRunnable'
  <2>1. wokeAt'[next] = None /\ \A p \in Pids : p # next => wokeAt'[p] = wokeAt[p]
    BY <1>1 DEF EndWait
  <2>2. prev \in Pids => wokeAt[prev] = None
    BY <1>1 DEF ContextSwitch, SchedOK
  <2>3. \A p \in Pids : p # prev /\ p # next => task'[p] = task[p]
    BY <1>1 DEF ContextSwitch
  <2> QED  BY <2>1, <2>2, <2>3
<1>2. ASSUME NEW c \in CPUs, NEW prev \in Pids, SwitchToIdle(c, prev)
      PROVE  WaitersRunnable'
  <2>1. ContextSwitch(c, prev, Idle) /\ UNCHANGED wokeAt
    BY <1>2 DEF SwitchToIdle
  <2>2. wokeAt[prev] = None
    BY <2>1 DEF ContextSwitch, SchedOK
  <2>3. \A p \in Pids : p # prev => task'[p] = task[p]
    BY <2>1, SetsAssumption DEF ContextSwitch
  <2> QED  BY <2>1, <2>2, <2>3
<1>3. ASSUME NEW p \in Pids, Wakeup(p) PROVE WaitersRunnable'
  BY <1>3 DEF Wakeup
<1>4. ASSUME NEW p \in Pids, NEW g \in Cgroups, Fork(p, g) PROVE WaitersRunnable'
  BY <1>4 DEF Fork
<1>5. CASE UNCHANGED <<task, wokeAt>>
  BY <1>5
<1>6. ASSUME NEW c \in CPUs, Handler(c) PROVE UNCHANGED <<task, wokeAt>>
  BY <1>6 DEF Handler, MaxCompare, MaxStore, HistLookup, HistAdd, HistInsert, schedVars
<1> QED
  BY <1>1, <1>2, <1>3, <1>4, <1>5, <1>6
  DEF Next, Tick, SpuriousWakeup, Switch, MissedSwitch, Exit, vars, schedVars

LEMMA GenuineNext ==
    ASSUME Faults = {}, TypeOK, SchedOK, EnqueuedIsGenuine, [Next]_vars
    PROVE  EnqueuedIsGenuine'
<1> USE DEF EnqueuedIsGenuine, TypeOK
<1>1. ASSUME NEW c \in CPUs, NEW prev \in Pids \cup {Idle}, NEW next \in Pids,
             Switch(c, prev, next)
      PROVE  EnqueuedIsGenuine'
  <2>1. ContextSwitch(c, prev, next) /\ EndWait(next, prev, FALSE)
           /\ tp_sched_switch(c, prev, next)
    BY <1>1 DEF Switch
  <2>2. runq_enqueued'[next] = None
    BY <2>1 DEF tp_sched_switch
  <2>3. \A p \in Pids : p # next => /\ runq_enqueued'[p] = runq_enqueued[p]
                                    /\ wokeAt'[p] = wokeAt[p]
    BY <2>1 DEF tp_sched_switch, EndWait
  <2>4. prev \in Pids => runq_enqueued[prev] = None
    BY <2>1 DEF ContextSwitch, SchedOK
  <2>5. \A p \in Pids : p # prev /\ p # next => task'[p] = task[p]
    BY <2>1 DEF ContextSwitch
  <2> QED  BY <2>2, <2>3, <2>4, <2>5
<1>2. ASSUME NEW c \in CPUs, NEW prev \in Pids, SwitchToIdle(c, prev)
      PROVE  EnqueuedIsGenuine'
  <2>1. ContextSwitch(c, prev, Idle) /\ UNCHANGED <<wokeAt, runq_enqueued>>
    BY <1>2 DEF SwitchToIdle
  <2>2. runq_enqueued[prev] = None
    BY <2>1 DEF ContextSwitch, SchedOK
  <2>3. \A p \in Pids : p # prev => task'[p] = task[p]
    BY <2>1, SetsAssumption DEF ContextSwitch
  <2> QED  BY <2>1, <2>2, <2>3
<1>3. ASSUME NEW p \in Pids, Wakeup(p) PROVE EnqueuedIsGenuine'
  <2>1. PICK ts \in bpf_ktime_get_ns :
           runq_enqueued' = IF runq_enqueued[p] = None /\ Cardinality(Enqueued) < MAX_TASK_ENTRIES
                            THEN [runq_enqueued EXCEPT ![p] = ts]
                            ELSE runq_enqueued
    BY <1>3 DEF Wakeup, tp_sched_wakeup
  <2>2. runq_enqueued[p] = None
    BY <1>3 DEF Wakeup
  <2>3. ts \in clock - Skew .. clock
    BY NumbersAssumption DEF bpf_ktime_get_ns
  <2>4. clock # None
    BY SetsAssumption
  <2> QED  BY <1>3, <2>1, <2>2, <2>3, <2>4 DEF Wakeup
<1>4. ASSUME NEW p \in Pids, NEW g \in Cgroups, Fork(p, g) PROVE EnqueuedIsGenuine'
  BY <1>4 DEF Fork, mapVars
<1>5. ASSUME NEW c \in CPUs, NEW p \in Pids, Exit(c, p) PROVE EnqueuedIsGenuine'
  BY <1>5 DEF Exit, tp_sched_process_exit
<1>6. CASE UNCHANGED <<task, wokeAt, runq_enqueued>>
  BY <1>6
<1>7. ASSUME NEW c \in CPUs, Handler(c) PROVE UNCHANGED <<task, wokeAt, runq_enqueued>>
  BY <1>7 DEF Handler, MaxCompare, MaxStore, HistLookup, HistAdd, HistInsert,
              schedVars, mapVars
<1> QED
  BY <1>1, <1>2, <1>3, <1>4, <1>5, <1>6, <1>7
  DEF Next, Tick, SpuriousWakeup, MissedSwitch, vars, schedVars, mapVars

LEMMA GenuineInit == Init => GenuineInv
<1> SUFFICES ASSUME Init PROVE SchedOK /\ WaitsBegan /\ EnqueuedIsGenuine
  BY InitType DEF GenuineInv
<1> QED  BY SetsAssumption DEF Init, SchedOK, WaitsBegan, EnqueuedIsGenuine

\* When no tracepoint is missed or spurious, a timestamp always belongs to the
\* current wait of the task that owns the pid: pid reuse inherits nothing, so no
\* latency is fabricated and the exit hook has nothing to mop up.
THEOREM TimestampsGenuine ==
    ASSUME Faults = {}
    PROVE  Spec => []EnqueuedIsGenuine
<1>1. GenuineInv /\ [Next]_vars => GenuineInv'
  BY NextType, SchedOKNext, WaitsBeganNext, GenuineNext DEF GenuineInv
<1>2. GenuineInv => EnqueuedIsGenuine
  BY DEF GenuineInv
<1> QED  BY GenuineInit, <1>1, <1>2, PTL DEF Spec
------------------------------------------------------------------------------
(***************************************************************************)
(* The insert race                                                         *)
(*                                                                         *)
(* While a key is absent nothing has lost the race for it.  The first      *)
(* insert leaves at most the other CPUs on their way to insert, and from   *)
(* then on every lookup finds the key, so that their number only falls:    *)
(* each loss is one of them.                                               *)
(***************************************************************************)
AddSeesEntry == \A c \in CPUs : At(c, "add") => runq_histograms[handler[c].key] > 0

RaceInv == TypeOK /\ AddSeesEntry /\ InsertRaceLossBounded

LEMMA InsertersCardinality ==
    ASSUME NEW k
    PROVE  /\ IsFiniteSet(Inserters(k))
           /\ Cardinality(Inserters(k)) \in Nat
           /\ Cardinality(Inserters(k)) <= Cardinality(CPUs)
           /\ Cardinality(CPUs) \in Nat
<1>1. Inserters(k) \in SUBSET CPUs
  BY DEF Inserters, InFlight
<1> QED  BY <1>1, SetsAssumption, FS_Subset, FS_CardinalityType

\* A step that moves no handler into "insert" for k and takes no count away
\* from k keeps the bound for k.
LEMMA RaceKept ==
    ASSUME InsertRaceLossBounded, NEW k \in Keys,
           Inserters(k)' = Inserters(k) \/ runq_histograms[k] = 0,
           runq_histograms'[k] = 0 <=> runq_histograms[k] = 0,
           lost'["insert_race"][k] = lost["insert_race"][k]
    PROVE  IF runq_histograms'[k] = 0
           THEN lost'["insert_race"][k] = 0
           ELSE lost'["insert_race"][k] + Cardinality(Inserters(k)') < Cardinality(CPUs)
BY DEF InsertRaceLossBounded

LEMMA RaceNextHandler ==
    ASSUME RaceInv, NEW c \in CPUs, Handler(c)
    PROVE  AddSeesEntry' /\ InsertRaceLossBounded'
<1> USE DEF RaceInv, AddSeesEntry, At
<1>0. handler[c] # None /\ handler[c] \in Handlers
  BY HandlerType DEF Handler, MaxCompare, MaxStore, HistLookup, HistAdd, HistInsert
<1>k. PICK k \in Keys : k = handler[c].key
  BY <1>0
<1>1. ASSUME NEW pc \in PCs \ {"add", "insert"}, GoTo(c, pc),
             ~ At(c, "insert"), UNCHANGED <<runq_histograms, lost>>
      PROVE  AddSeesEntry' /\ InsertRaceLossBounded'
  <2>1. handler' = [handler EXCEPT ![c] = [handler[c] EXCEPT !.pc = pc]]
    BY <1>0, <1>1 DEF GoTo, TypeOK
  <2>2. \A j \in Keys : Inserters(j)' = Inserters(j)
    BY <1>0, <1>1, <2>1 DEF Inserters, InFlight, TypeOK, PCs
  <2>3. AddSeesEntry'
    BY <1>0, <1>1, <2>1 DEF TypeOK, PCs
  <2> QED  BY <1>1, <2>2, <2>3 DEF InsertRaceLossBounded
<1>2. CASE MaxCompare(c)
  BY <1>2, <1>1 DEF MaxCompare, mapVars, PCs
<1>3. CASE MaxStore(c)
  BY <1>3, <1>1 DEF MaxStore, PCs
<1>4. CASE HistLookup(c)
  <2> DEFINE pc == IF runq_histograms[k] > 0 THEN "add" ELSE "insert"
  <2>1. handler' = [handler EXCEPT ![c] = [handler[c] EXCEPT !.pc = pc]]
    BY <1>k, <1>0, <1>4 DEF HistLookup, GoTo, TypeOK
  <2>2. UNCHANGED <<runq_histograms, lost>>
    BY <1>4 DEF HistLookup, mapVars
  <2>3. \A j \in Keys : Inserters(j)' = Inserters(j) \/ runq_histograms[j] = 0
    BY <1>k, <1>0, <1>4, <2>1 DEF HistLookup, Inserters, InFlight, TypeOK, PCs
  <2>4. AddSeesEntry'
    BY <1>k, <1>0, <2>1, <2>2 DEF TypeOK
  <2> QED  BY <2>2, <2>3, <2>4, RaceKept DEF InsertRaceLossBounded
<1>5. CASE HistAdd(c)
  <2>1. /\ handler' = [handler EXCEPT ![c] = None]
        /\ runq_histograms' = [runq_histograms EXCEPT ![k] = @ + 1]
        /\ UNCHANGED lost
    BY <1>k, <1>5 DEF HistAdd, Return, Bump
  <2>2. \A j \in Keys : Inserters(j)' = Inserters(j)
    BY <1>5, <2>1 DEF HistAdd, Inserters, InFlight, TypeOK
  <2>3. \A j \in Keys : runq_histograms'[j] = 0 <=> runq_histograms[j] = 0
    BY <1>5, <1>k, <2>1 DEF HistAdd, TypeOK
  <2>4. AddSeesEntry'
    BY <1>k, <2>1 DEF TypeOK
  <2> QED  BY <2>1, <2>2, <2>3, <2>4, RaceKept DEF InsertRaceLossBounded
<1>6. CASE HistInsert(c)
  <2>1. handler' = [handler EXCEPT ![c] = None] /\ At(c, "insert")
    BY <1>6 DEF HistInsert, Return
  <2>2. c \in Inserters(k)
    BY <1>k, <1>0, <2>1 DEF Inserters, InFlight
  <2>3. \A j \in Keys : Inserters(j)' = IF j = k THEN Inserters(j) \ {c} ELSE Inserters(j)
    BY <1>k, <2>1 DEF Inserters, InFlight, TypeOK
  <2>4. Cardinality(Inserters(k)') = Cardinality(Inserters(k)) - 1
    BY <1>k, <2>2, <2>3, InsertersCardinality, FS_RemoveElement
  <2>5. Cardinality(Inserters(k)) - 1 < Cardinality(CPUs)
    BY InsertersCardinality
  <2>6. \A j \in Keys : runq_histograms[j] > 0 => runq_histograms'[j] > 0
    BY <1>6, <1>k DEF HistInsert, TypeOK
  <2>7. AddSeesEntry'
    BY <2>1, <2>6 DEF TypeOK
  <2>8. ASSUME NEW j \in Keys, j # k
        PROVE  IF runq_histograms'[j] = 0
               THEN lost'["insert_race"][j] = 0
               ELSE lost'["insert_race"][j] + Cardinality(Inserters(j)') < Cardinality(CPUs)
    <3>1. runq_histograms'[j] = runq_histograms[j]
      BY <1>k, <1>6, <2>8 DEF HistInsert, TypeOK
    <3>2. lost'["insert_race"][j] = lost["insert_race"][j]
      BY <1>k, <1>6, <2>8 DEF HistInsert, Lose, TypeOK, Reasons
    <3> QED  BY <2>3, <2>8, <3>1, <3>2, RaceKept
  <2>9. IF runq_histograms'[k] = 0
        THEN lost'["insert_race"][k] = 0
        ELSE lost'["insert_race"][k] + Cardinality(Inserters(k)') < Cardinality(CPUs)
    <3>1. CASE runq_histograms[k] > 0 /\ Lose("insert_race", k) /\ UNCHANGED runq_histograms
      <4>1. lost'["insert_race"][k] = lost["insert_race"][k] + 1
        BY <1>k, <3>1 DEF Lose, TypeOK, Reasons
      <4>2. lost["insert_race"][k] \in Nat
        BY <1>k DEF TypeOK, Reasons
      <4> QED  BY <1>k, <2>4, <3>1, <4>1, <4>2, InsertersCardinality DEF InsertRaceLossBounded
    <3>2. CASE runq_histograms[k] = 0 /\ Lose("histogram_full", k) /\ UNCHANGED runq_histograms
      BY <1>k, <3>2 DEF Lose, TypeOK, Reasons, InsertRaceLossBounded
    <3>3. CASE /\ runq_histograms[k] = 0
               /\ runq_histograms' = [runq_histograms EXCEPT ![k] = 1]
               /\ UNCHANGED lost
      BY <1>k, <2>4, <2>5, <3>3, InsertersCardinality DEF TypeOK, InsertRaceLossBounded
    <3> QED  BY <1>k, <1>6, <3>1, <3>2, <3>3 DEF HistInsert
  <2> QED  BY <2>7, <2>8, <2>9 DEF InsertRaceLossBounded
<1> QED  BY <1>2, <1>3, <1>4, <1>5, <1>6 DEF Handler

LEMMA RaceNext == RaceInv /\ [Next]_vars => RaceInv'
<1> SUFFICES ASSUME RaceInv, [Next]_vars PROVE AddSeesEntry' /\ InsertRaceLossBounded'
  BY NextType DEF RaceInv
<1>1. ASSUME UNCHANGED runq_histograms,
             \A c \in CPUs : handler'[c] # handler[c] =>
                 ~ (handler'[c] # None /\ handler'[c].pc \in {"add", "insert"})
                 /\ handler[c] = None,
             \A k \in Keys : lost'["insert_race"][k] = lost["insert_race"][k]
      PROVE  AddSeesEntry' /\ InsertRaceLossBounded'
  <2>1. \A k \in Keys : Inserters(k)' = Inserters(k)
    BY <1>1 DEF Inserters, InFlight
  <2>2. AddSeesEntry'
    BY <1>1 DEF RaceInv, AddSeesEntry, At
  <2> QED  BY <1>1, <2>1, <2>2 DEF RaceInv, InsertRaceLossBounded
<1>2. ASSUME NEW prev \in Pids \cup {Idle}, NEW next \in Pids,
             NEW missed \in BOOLEAN, EndWait(next, prev, missed)
      PROVE  \A k \in Keys : lost'["insert_race"][k] = lost["insert_race"][k]
  BY <1>2 DEF EndWait, Lose, RaceInv, TypeOK, Reasons
<1>3. ASSUME NEW c \in CPUs, NEW prev \in Pids \cup {Idle}, NEW next \in Pids,
             Switch(c, prev, next)
      PROVE  AddSeesEntry' /\ InsertRaceLossBounded'
  <2>1. UNCHANGED runq_histograms /\ handler[c] = None /\ EndWait(next, prev, FALSE)
    BY <1>3 DEF Switch, ContextSwitch
  <2>2. \/ UNCHANGED handler
        \/ \E lat : RecordLatency(c, prev, next, lat)
    BY <1>3 DEF Switch, tp_sched_switch
  <2>3. \A d \in CPUs : handler'[d] # handler[d] =>
            ~ (handler'[d] # None /\ handler'[d].pc \in {"add", "insert"})
            /\ handler[d] = None
    BY <2>1, <2>2 DEF RecordLatency, RaceInv, TypeOK
  <2> QED  BY <1>1, <1>2, <2>1, <2>3
<1>4. ASSUME NEW c \in CPUs, NEW prev \in Pids \cup {Idle}, NEW next \in Pids,
             MissedSwitch(c, prev, next)
      PROVE  AddSeesEntry' /\ InsertRaceLossBounded'
  BY <1>1, <1>2, <1>4 DEF MissedSwitch, ContextSwitch
<1>5. CASE UNCHANGED <<runq_histograms, handler, lost>>
  BY <1>1, <1>5
<1>6. ASSUME NEW c \in CPUs, NEW p \in Pids, SwitchToIdle(c, p)
      PROVE  UNCHANGED <<runq_histograms, handler, lost>>
  BY <1>6 DEF SwitchToIdle, ContextSwitch
<1> QED
  BY <1>3, <1>4, <1>5, <1>6, RaceNextHandler
  DEF Next, Tick, Fork, Wakeup, SpuriousWakeup, Exit, vars, mapVars

LEMMA RaceInit == Init => RaceInv
<1> SUFFICES ASSUME Init PROVE AddSeesEntry /\ InsertRaceLossBounded
  BY InitType DEF RaceInv
<1> QED  BY DEF Init, AddSeesEntry, At, InsertRaceLossBounded, Reasons

\* Whatever the tracepoints miss, the race between the lookup of a key and its
\* BPF_NOEXIST insert loses at most one sample per other CPU and key, once.
THEOREM InsertRaceBounded == Spec => []InsertRaceLossBounded
<1>1. RaceInv => InsertRaceLossBounded
  BY DEF RaceInv
<1> QED  BY RaceInit, RaceNext, <1>1, PTL DEF Spec
------------------------------------------------------------------------------
(***************************************************************************)
(* Accounting, and the ledger                                              *)
(*                                                                         *)
(* With genuine timestamps and clocks that agree, the latency the program  *)
(* computes is the wait itself: a handler starts for a key exactly when a  *)
(* wait becomes due for that key, unless the timestamp was never stored.   *)
(* From then on the handler carries that one sample to the histogram or to *)
(* one of the losses.                                                      *)
(***************************************************************************)
Accounted(k) ==
    due[k] = runq_histograms[k] + Cardinality(InFlight(k))
             + lost["insert_race"][k] + lost["histogram_full"][k]
             + lost["enqueued_full"][k]

\* A wait has no timestamp if and only if its wakeup found the map full.
RefusedWaits ==
    \A p \in Pids : p \in refused <=> wokeAt[p] # None /\ runq_enqueued[p] = None

AccountInv == GenuineInv /\ WaitersRunnable /\ RefusedWaits /\ EveryWaitAccounted

LEMMA RefusedWaitsNext ==
    ASSUME Faults = {}, AccountInv, [Next]_vars
    PROVE  RefusedWaits'
<1>0. TypeOK /\ SchedOK /\ EnqueuedIsGenuine /\ WaitersRunnable /\ RefusedWaits
  BY DEF AccountInv, GenuineInv
<1> USE DEF RefusedWaits
<1>1. ASSUME NEW c \in CPUs, NEW prev \in Pids \cup {Idle}, NEW next \in Pids,
             Switch(c, prev, next)
      PROVE  RefusedWaits'
  <2>1. EndWait(next, prev, FALSE) /\ tp_sched_switch(c, prev, next)
    BY <1>1 DEF Switch
  <2>2. wokeAt'[next] = None /\ next \notin refused'
    BY <1>0, <2>1 DEF EndWait, TypeOK
  <2>3. \A p \in Pids : p # next => /\ runq_enqueued'[p] = runq_enqueued[p]
                                    /\ wokeAt'[p] = wokeAt[p]
                                    /\ p \in refused' <=> p \in refused
    BY <1>0, <2>1 DEF tp_sched_switch, EndWait, TypeOK
  <2> QED  BY <1>0, <2>2, <2>3
<1>2. ASSUME NEW p \in Pids, Wakeup(p) PROVE RefusedWaits'
  <2>1. Cardinality(Enqueued) \in Nat /\ MAX_TASK_ENTRIES \in Nat
    <3>1. Enqueued \in SUBSET Pids
      BY DEF Enqueued
    <3> QED  BY <3>1, SetsAssumption, NumbersAssumption, FS_Subset, FS_CardinalityType
  <2>2. runq_enqueued[p] = None /\ p \notin refused
    BY <1>0, <1>2 DEF Wakeup, EnqueuedIsGenuine, WaitersRunnable
  <2>3. wokeAt' = [wokeAt EXCEPT ![p] = clock] /\ clock # None
    BY <1>0, <1>2, SetsAssumption DEF Wakeup, TypeOK
  <2>4. PICK ts \in bpf_ktime_get_ns :
           runq_enqueued' = IF Cardinality(Enqueued) < MAX_TASK_ENTRIES
                            THEN [runq_enqueued EXCEPT ![p] = ts]
                            ELSE runq_enqueued
    BY <1>2, <2>2 DEF Wakeup, tp_sched_wakeup
  <2>5. ts # None
    BY <1>0, SetsAssumption, NumbersAssumption DEF bpf_ktime_get_ns, TypeOK
  <2>6. refused' = IF Cardinality(Enqueued) < MAX_TASK_ENTRIES THEN refused ELSE refused \cup {p}
    BY <1>2, <2>1, <2>2 DEF Wakeup
  <2> QED  BY <1>0, <2>2, <2>3, <2>4, <2>5, <2>6 DEF TypeOK
<1>3. ASSUME NEW c \in CPUs, NEW p \in Pids, Exit(c, p) PROVE RefusedWaits'
  <2>1. wokeAt[p] = None
    BY <1>0, <1>3 DEF Exit, SchedOK, WaitersRunnable
  <2> QED  BY <1>0, <1>3, <2>1 DEF Exit, tp_sched_process_exit, TypeOK
<1>4. CASE UNCHANGED <<wokeAt, refused, runq_enqueued>>
  BY <1>0, <1>4
<1>5. ASSUME NEW c \in CPUs, Handler(c) PROVE UNCHANGED <<wokeAt, refused, runq_enqueued>>
  BY <1>5 DEF Handler, MaxCompare, MaxStore, HistLookup, HistAdd, HistInsert,
              schedVars, mapVars
<1> QED
  BY <1>1, <1>2, <1>3, <1>4, <1>5
  DEF Next, Tick, Fork, SpuriousWakeup, MissedSwitch, SwitchToIdle, vars, schedVars, mapVars

LEMMA InFlightCardinality ==
    ASSUME NEW k
    PROVE  /\ IsFiniteSet(InFlight(k))
           /\ Cardinality(InFlight(k)) \in Nat
<1>1. InFlight(k) \in SUBSET CPUs
  BY DEF InFlight
<1> QED  BY <1>1, SetsAssumption, FS_Subset, FS_CardinalityType

LEMMA CountersAreNat ==
    ASSUME TypeOK, NEW k \in Keys
    PROVE  /\ due[k] \in Nat /\ runq_histograms[k] \in Nat
           /\ lost["insert_race"][k] \in Nat
           /\ lost["histogram_full"][k] \in Nat
           /\ lost["enqueued_full"][k] \in Nat
           /\ Cardinality(InFlight(k)) \in Nat
BY InFlightCardinality DEF TypeOK, Reasons

\* One handler starts, with key k.
LEMMA HandlerStarts ==
    ASSUME TypeOK, NEW c \in CPUs, handler[c] = None, NEW h, h # None,
           NEW k \in Keys, h.key = k, handler' = [handler EXCEPT ![c] = h]
    PROVE  /\ Cardinality(InFlight(k)') = Cardinality(InFlight(k)) + 1
           /\ \A j \in Keys : j # k => InFlight(j)' = InFlight(j)
<1>1. InFlight(k)' = InFlight(k) \cup {c} /\ c \notin InFlight(k)
  BY DEF InFlight, TypeOK
<1>2. \A j \in Keys : j # k => InFlight(j)' = InFlight(j)
  BY DEF InFlight, TypeOK
<1> QED  BY <1>1, <1>2, InFlightCardinality, FS_AddElement

\* One handler, with key k, ends.
LEMMA HandlerEnds ==
    ASSUME TypeOK, NEW c \in CPUs, handler[c] # None,
           NEW k \in Keys, handler[c].key = k, Return(c)
    PROVE  /\ Cardinality(InFlight(k)') = Cardinality(InFlight(k)) - 1
           /\ Cardinality(InFlight(k)) > 0
           /\ \A j \in Keys : j # k => InFlight(j)' = InFlight(j)
<1>1. InFlight(k)' = InFlight(k) \ {c} /\ c \in InFlight(k)
  BY DEF InFlight, TypeOK, Return
<1>2. \A j \in Keys : j # k => InFlight(j)' = InFlight(j)
  BY DEF InFlight, TypeOK, Return
<1>3. Cardinality(InFlight(k)) # 0
  BY <1>1, InFlightCardinality, FS_EmptySet
<1>4. Cardinality(InFlight(k) \ {c}) = Cardinality(InFlight(k)) - 1
  BY <1>1, InFlightCardinality, FS_RemoveElement
<1> QED  BY <1>1, <1>2, <1>3, <1>4, InFlightCardinality

\* What is recorded is the wait itself.
LEMMA TrueLatency ==
    ASSUME Skew = 0, GenuineInv,
           NEW c \in CPUs, NEW prev \in Pids \cup {Idle}, NEW next \in Pids,
           tp_sched_switch(c, prev, next), runq_enqueued[next] # None
    PROVE  /\ wokeAt[next] \in Nat /\ wokeAt[next] # None /\ wokeAt[next] <= clock
           /\ RecordLatency(c, prev, next, clock - wokeAt[next])
<1>1. /\ wokeAt[next] # None /\ wokeAt[next] \in Nat /\ wokeAt[next] <= clock
      /\ runq_enqueued[next] \in wokeAt[next] - Skew .. wokeAt[next]
  BY DEF GenuineInv, EnqueuedIsGenuine, WaitsBegan, TypeOK
<1>2. runq_enqueued[next] = wokeAt[next]
  BY <1>1
<1>3. bpf_ktime_get_ns = {clock}
  <2>1. clock \in Nat
    BY NumbersAssumption DEF GenuineInv, TypeOK
  <2>2. \A t : t \in bpf_ktime_get_ns <=> t = clock
    BY <2>1 DEF bpf_ktime_get_ns
  <2> QED  BY <2>2
<1>4. RunqLat(clock, runq_enqueued[next]) = clock - wokeAt[next]
  BY <1>1, <1>2 DEF RunqLat
<1> QED  BY <1>1, <1>3, <1>4 DEF tp_sched_switch

LEMMA AccountSwitch ==
    ASSUME Faults = {}, Skew = 0, AccountInv,
           NEW c \in CPUs, NEW prev \in Pids \cup {Idle}, NEW next \in Pids,
           Switch(c, prev, next)
    PROVE  EveryWaitAccounted'
<1> DEFINE key == HistKey(next, prev, clock - wokeAt[next])
<1>1. /\ ContextSwitch(c, prev, next) /\ EndWait(next, prev, FALSE)
      /\ tp_sched_switch(c, prev, next)
      /\ handler[c] = None /\ UNCHANGED runq_histograms /\ TypeOK
  BY DEF Switch, ContextSwitch, AccountInv, GenuineInv
<1>2. PICK k \in Keys : k = key
  BY <1>1, KeyType DEF TypeOK
<1>3. ASSUME UNCHANGED <<handler, due, lost>> PROVE EveryWaitAccounted'
  BY <1>1, <1>3 DEF EveryWaitAccounted, InFlight, AccountInv
<1>4. CASE runq_enqueued[next] = None
  <2>1. UNCHANGED handler /\ (wokeAt[next] # None => next \in refused)
    BY <1>1, <1>4 DEF tp_sched_switch, AccountInv, RefusedWaits
  <2>2. CASE ~ WaitQualifies(next)
    BY <1>1, <1>3, <2>1, <2>2 DEF EndWait
  <2>3. CASE WaitQualifies(next)
    <3>1. due' = [due EXCEPT ![k] = @ + 1]
          /\ lost' = [lost EXCEPT !["enqueued_full"][k] = @ + 1]
      BY <1>1, <1>2, <2>1, <2>3 DEF EndWait, Bump, Lose, WaitQualifies
    <3>2. \A j \in Keys : InFlight(j)' = InFlight(j)
      BY <2>1 DEF InFlight
    <3> QED
      BY <1>1, <3>1, <3>2, CountersAreNat
      DEF EveryWaitAccounted, AccountInv, TypeOK, Reasons
  <2> QED  BY <2>2, <2>3
<1>5. CASE runq_enqueued[next] # None
  <2>1. /\ wokeAt[next] \in Nat /\ wokeAt[next] # None /\ wokeAt[next] <= clock
        /\ RecordLatency(c, prev, next, clock - wokeAt[next])
    BY <1>1, <1>5, TrueLatency DEF AccountInv
  <2>6. CASE ~ WaitQualifies(next)
    <3>1. handler' = [handler EXCEPT ![c] = None]
      BY <2>1, <2>6 DEF RecordLatency, WaitQualifies
    <3>2. UNCHANGED <<handler, due, lost>>
      BY <1>1, <2>6, <3>1 DEF EndWait, TypeOK
    <3> QED  BY <1>3, <3>2
  <2>7. CASE WaitQualifies(next)
    <3> DEFINE h == [pc |-> "max_compare", key |-> k, lat |-> clock - wokeAt[next]]
    <3>1. handler' = [handler EXCEPT ![c] = h]
      BY <1>2, <2>1, <2>7 DEF RecordLatency, WaitQualifies
    <3>2. h \in Handlers
      BY <1>1, <2>1 DEF PCs, TypeOK
    <3>3. h # None
      BY <3>2, NoneAssumption
    <3>4. due' = [due EXCEPT ![k] = @ + 1] /\ UNCHANGED lost
      <4>1. next \notin refused
        BY <1>5 DEF AccountInv, RefusedWaits
      <4> QED  BY <1>1, <1>2, <2>7, <4>1 DEF EndWait, Bump
    <3>5. /\ Cardinality(InFlight(k)') = Cardinality(InFlight(k)) + 1
          /\ \A j \in Keys : j # k => InFlight(j)' = InFlight(j)
      BY <1>1, <3>1, <3>3, HandlerStarts
    <3> QED
      <4>1. \A j \in Keys : Accounted(j)
        BY DEF AccountInv, EveryWaitAccounted, Accounted
      <4>2. \A j \in Keys : j # k => due'[j] = due[j]
        BY <1>1, <3>4 DEF TypeOK
      <4>3. due'[k] = due[k] + 1
        BY <1>1, <3>4 DEF TypeOK
      <4>4. \A j \in Keys : j # k => Accounted(j)'
        BY <1>1, <3>4, <3>5, <4>1, <4>2 DEF Accounted
      <4>5. Accounted(k)'
        BY <1>1, <3>4, <3>5, <4>1, <4>3, CountersAreNat DEF Accounted
      <4> QED  BY <4>4, <4>5 DEF EveryWaitAccounted, Accounted
  <2> QED  BY <2>6, <2>7
<1> QED  BY <1>4, <1>5

LEMMA AccountHandler ==
    ASSUME AccountInv, NEW c \in CPUs, Handler(c)
    PROVE  EveryWaitAccounted'
<1>0. TypeOK /\ EveryWaitAccounted /\ handler[c] # None
      /\ handler[c] \in Handlers
  BY HandlerType
  DEF AccountInv, GenuineInv, Handler, At,
      MaxCompare, MaxStore, HistLookup, HistAdd, HistInsert
<1>k. PICK k \in Keys : k = handler[c].key
  BY <1>0
<1>1. ASSUME NEW pc \in PCs, GoTo(c, pc), UNCHANGED <<runq_histograms, due, lost>>
      PROVE  EveryWaitAccounted'
  <2>1. handler' = [handler EXCEPT ![c] = [handler[c] EXCEPT !.pc = pc]]
    BY <1>0, <1>1 DEF GoTo, TypeOK
  <2>2. [handler[c] EXCEPT !.pc = pc] # None
    BY <1>0, NoneAssumption
  <2>3. \A j \in Keys : InFlight(j)' = InFlight(j)
    BY <1>0, <2>1, <2>2 DEF InFlight, TypeOK
  <2> QED  BY <1>0, <1>1, <2>3 DEF EveryWaitAccounted
<1>2. CASE MaxCompare(c)
  BY <1>2, <1>1 DEF MaxCompare, mapVars, PCs
<1>3. CASE MaxStore(c)
  BY <1>3, <1>1 DEF MaxStore, PCs
<1>4. CASE HistLookup(c)
  BY <1>4, <1>1 DEF HistLookup, mapVars, PCs
<1>5. CASE HistAdd(c) \/ HistInsert(c)
  <2>1. /\ Return(c) /\ UNCHANGED due
        /\ Cardinality(InFlight(k)') = Cardinality(InFlight(k)) - 1
        /\ \A j \in Keys : j # k => InFlight(j)' = InFlight(j)
    BY <1>0, <1>k, <1>5, HandlerEnds DEF HistAdd, HistInsert
  <2>2. \/ /\ runq_histograms' = [runq_histograms EXCEPT ![k] = @ + 1]
           /\ UNCHANGED lost
        \/ \E r \in {"insert_race", "histogram_full"} :
              /\ lost' = [lost EXCEPT ![r][k] = @ + 1]
              /\ UNCHANGED runq_histograms
    BY <1>0, <1>k, <1>5 DEF HistAdd, HistInsert, Bump, Lose, TypeOK
  <2> QED
    BY <1>0, <2>1, <2>2, CountersAreNat DEF EveryWaitAccounted, TypeOK, Reasons
<1> QED  BY <1>2, <1>3, <1>4, <1>5 DEF Handler

LEMMA AccountNext ==
    ASSUME Faults = {}, Skew = 0, AccountInv, [Next]_vars
    PROVE  AccountInv'
<1> SUFFICES EveryWaitAccounted'
  BY NextType, SchedOKNext, WaitsBeganNext, GenuineNext, WaitersRunnableNext, RefusedWaitsNext
  DEF AccountInv, GenuineInv
<1>1. CASE UNCHANGED <<runq_histograms, handler, due, lost>>
  <2>1. \A k \in Keys : InFlight(k)' = InFlight(k)
    BY <1>1 DEF InFlight
  <2>2. EveryWaitAccounted
    BY DEF AccountInv
  <2> QED  BY <1>1, <2>1, <2>2 DEF EveryWaitAccounted
<1>2. ASSUME NEW c \in CPUs, NEW p \in Pids, SwitchToIdle(c, p)
      PROVE  UNCHANGED <<runq_histograms, handler, due, lost>>
  BY <1>2 DEF SwitchToIdle, ContextSwitch
<1>3. ASSUME NEW c \in CPUs, NEW prev \in Pids \cup {Idle}, NEW next \in Pids,
             Switch(c, prev, next) \/ MissedSwitch(c, prev, next)
      PROVE  EveryWaitAccounted'
  BY <1>3, AccountSwitch DEF MissedSwitch
<1>4. ASSUME NEW c \in CPUs, Handler(c) PROVE EveryWaitAccounted'
  BY <1>4, AccountHandler
<1>5. CASE \/ UNCHANGED vars
           \/ Tick
           \/ \E p \in Pids, g \in Cgroups : Fork(p, g)
           \/ \E p \in Pids : Wakeup(p) \/ SpuriousWakeup(p)
           \/ \E c \in CPUs, p \in Pids : Exit(c, p)
  <2>1. UNCHANGED <<runq_histograms, handler, due, lost>>
    BY <1>5 DEF Tick, Fork, Wakeup, SpuriousWakeup, Exit, vars, mapVars
  <2> QED  BY <1>1, <2>1
<1> QED  BY <1>1, <1>2, <1>3, <1>4, <1>5 DEF Next

LEMMA AccountInit == Init => AccountInv
<1> SUFFICES ASSUME Init PROVE EveryWaitAccounted
  BY GenuineInit DEF AccountInv, Init, WaitersRunnable, RefusedWaits
<1>1. \A k \in Keys : Cardinality(InFlight(k)) = 0
  <2>1. \A k \in Keys : InFlight(k) = {}
    BY DEF Init, InFlight
  <2> QED  BY <2>1, FS_EmptySet
<1> QED  BY <1>1 DEF Init, EveryWaitAccounted, Reasons

\* With no tracepoint missed and clocks that agree, every wait that ought to be
\* counted is counted once, in flight, or lost for one of three reasons.
THEOREM WaitsAccounted ==
    ASSUME Faults = {}, Skew = 0
    PROVE  Spec => []EveryWaitAccounted
<1>1. AccountInv /\ [Next]_vars => AccountInv'
  BY AccountNext
<1>2. AccountInv => EveryWaitAccounted
  BY DEF AccountInv
<1> QED  BY AccountInit, <1>1, <1>2, PTL DEF Spec

\* A count is added only by a handler in flight, for which a wait is still owed.
LEMMA LedgerStep ==
    ASSUME Faults = {}, Skew = 0, AccountInv, AddSeesEntry, [Next]_vars
    PROVE  [Ledger!Next]_<<due, runq_histograms>>
<1>0. TypeOK
  BY DEF AccountInv, GenuineInv
<1>1. ASSUME NEW c \in CPUs, Handler(c)
      PROVE  [Ledger!Next]_<<due, runq_histograms>>
  <2>0. handler[c] # None /\ handler[c] \in Handlers
    BY <1>0, <1>1, HandlerType
    DEF Handler, At, MaxCompare, MaxStore, HistLookup, HistAdd, HistInsert
  <2>k. PICK k \in Keys : k = handler[c].key
    BY <2>0
  <2>1. UNCHANGED due
    BY <1>1 DEF Handler, MaxCompare, MaxStore, HistLookup, HistAdd, HistInsert
  <2>2. CASE UNCHANGED runq_histograms
    BY <2>1, <2>2
  <2>3. CASE runq_histograms' = [runq_histograms EXCEPT ![k] = @ + 1] /\ Return(c)
    <3>1. Cardinality(InFlight(k)) > 0
      BY <1>0, <2>0, <2>k, <2>3, HandlerEnds
    <3>2. runq_histograms[k] < due[k]
      BY <1>0, <3>1, CountersAreNat DEF AccountInv, EveryWaitAccounted
    <3> QED  BY <2>1, <2>3, <3>2 DEF Ledger!Next, Ledger!Count
  <2>4. \/ UNCHANGED runq_histograms
        \/ runq_histograms' = [runq_histograms EXCEPT ![k] = @ + 1] /\ Return(c)
    BY <1>0, <1>1, <2>k
    DEF Handler, MaxCompare, MaxStore, HistLookup, HistAdd, HistInsert, mapVars, Bump, TypeOK
  <2> QED  BY <2>2, <2>3, <2>4
<1>2. ASSUME NEW prev \in Pids \cup {Idle}, NEW next \in Pids, NEW missed \in BOOLEAN,
             EndWait(next, prev, missed), UNCHANGED runq_histograms
      PROVE  [Ledger!Next]_<<due, runq_histograms>>
  <2>1. HistKey(next, prev, clock - wokeAt[next]) \in Keys
    BY <1>0, KeyType DEF TypeOK
  <2> QED  BY <1>2, <2>1 DEF EndWait, Bump, Ledger!Next, Ledger!WaitEnds
<1>3. CASE UNCHANGED <<due, runq_histograms>>
  BY <1>3
<1> QED
  BY <1>1, <1>2, <1>3
  DEF Next, Tick, Fork, Wakeup, SpuriousWakeup, Switch, MissedSwitch, ContextSwitch,
      SwitchToIdle, Exit, vars, mapVars

\* The histogram implements the ledger: no count is invented, doubled or taken
\* back, on any number of CPUs.
THEOREM HistogramImplementsLedger ==
    ASSUME Faults = {}, Skew = 0
    PROVE  Spec => ImplementsLedger
<1>1. Init => Ledger!Init
  BY DEF Init, Ledger!Init
<1>2. Init => AccountInv /\ RaceInv
  BY AccountInit, RaceInit
<1>3. AccountInv /\ RaceInv /\ [Next]_vars => AccountInv' /\ RaceInv'
  BY AccountNext, RaceNext
<1>4. AccountInv /\ RaceInv /\ [Next]_vars => [Ledger!Next]_<<due, runq_histograms>>
  BY LedgerStep DEF RaceInv
<1> QED
  BY <1>1, <1>2, <1>3, <1>4, PTL DEF Spec, ImplementsLedger, Ledger!Spec
------------------------------------------------------------------------------
(***************************************************************************)
(* Every handler carries a latency that passed both filters and a key with *)
(* the bucket of that latency, whatever the tracepoints and the clocks do. *)
(***************************************************************************)
CarriesPlausible ==
    \A c \in CPUs : handler[c] # None =>
        Plausible(handler[c].lat) /\ handler[c].key.bucket = get_hist_bucket(handler[c].lat)

PlausibleInv == TypeOK /\ CarriesPlausible

LEMMA PlausibleHandler ==
    ASSUME PlausibleInv, NEW c \in CPUs, Handler(c)
    PROVE  CarriesPlausible'
<1> USE DEF CarriesPlausible
<1>0. TypeOK /\ CarriesPlausible /\ handler[c] # None /\ handler[c] \in Handlers
  BY HandlerType
  DEF PlausibleInv, Handler, At, MaxCompare, MaxStore, HistLookup, HistAdd, HistInsert
<1>1. CASE Return(c)
  BY <1>0, <1>1 DEF Return, TypeOK
<1>2. CASE \E pc : GoTo(c, pc)
  <2>1. PICK pc : handler' = [handler EXCEPT ![c] = [handler[c] EXCEPT !.pc = pc]]
    BY <1>0, <1>2 DEF GoTo, TypeOK
  <2> QED  BY <1>0, <2>1 DEF TypeOK
<1> QED
  BY <1>1, <1>2 DEF Handler, MaxCompare, MaxStore, HistLookup, HistAdd, HistInsert

LEMMA PlausibleNext == PlausibleInv /\ [Next]_vars => PlausibleInv'
<1> SUFFICES ASSUME PlausibleInv, [Next]_vars PROVE CarriesPlausible'
  BY NextType DEF PlausibleInv
<1>0. TypeOK /\ CarriesPlausible
  BY DEF PlausibleInv
<1>1. ASSUME UNCHANGED handler PROVE CarriesPlausible'
  BY <1>0, <1>1 DEF CarriesPlausible
<1>2. ASSUME NEW c \in CPUs, NEW prev \in Pids \cup {Idle}, NEW next \in Pids,
             Switch(c, prev, next)
      PROVE  CarriesPlausible'
  <2>1. UNCHANGED handler \/ \E lat : RecordLatency(c, prev, next, lat)
    BY <1>2 DEF Switch, tp_sched_switch
  <2> QED  BY <1>0, <2>1 DEF CarriesPlausible, RecordLatency, HistKey, TypeOK
<1> QED
  BY <1>1, <1>2, PlausibleHandler
  DEF Next, Tick, Fork, Wakeup, SpuriousWakeup, MissedSwitch, SwitchToIdle, Exit, vars

LEMMA PlausibleInit == Init => PlausibleInv
BY InitType DEF PlausibleInv, Init, CarriesPlausible
==============================================================================
