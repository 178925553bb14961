----------------------------- MODULE RunqLatency -----------------------------
(***************************************************************************)
(* The kernel half of workloads/ebpf-noisy-neighbour: the three tracepoint *)
(* programs of bpf/noisy-neighbour.bpf.c and the three BPF maps they share.*)
(*                                                                         *)
(* A task that wakes up leaves a timestamp in runq_enqueued; when a CPU    *)
(* switches to it the timestamp is consumed and the difference, if it is   *)
(* plausible, becomes the new maximum and one more count of a histogram    *)
(* key.  The scheduler that fires the tracepoints is external: Fork,       *)
(* Wakeup, Switch, SwitchToIdle and Exit are the ways it may drive them.   *)
(*                                                                         *)
(* tp_sched_switch runs on every CPU at once, so after the timestamp is    *)
(* consumed it is split at its accesses to shared memory:                  *)
(*     max_compare -> [max_store ->] lookup -> add | insert                *)
(***************************************************************************)
EXTENDS Integers, FiniteSets

CONSTANTS
    CPUs,                       \* the CPUs of the node
    Pids,                       \* pids, recycled after their task has died
    Cgroups,                    \* cgroup ids that tasks are born into
    Root,                       \* the cgroup of the idle task
    Idle,                       \* the idle task (pid 0 on every CPU)
    None,                       \* absent
    Faults,                     \* what the tracepoints may do wrong
    Skew,                       \* how far behind a clock reading may be
    MIN_RUNQ_LAT_NS,
    MAX_PLAUSIBLE_RUNQ_LAT_NS,
    NsPerUs,                    \* 1000
    NUM_BUCKETS,
    MAX_TASK_ENTRIES,
    MAX_HIST_ENTRIES,
    U64,                        \* 2^64, the modulus of the subtraction
    MaxTime                     \* bound: the clock stops here

ASSUME SetsAssumption ==
    /\ IsFiniteSet(CPUs) /\ CPUs # {}
    /\ IsFiniteSet(Pids) /\ Idle \notin Pids
    /\ Root \notin Cgroups
    /\ None \notin Nat /\ None \notin Pids

ASSUME NumbersAssumption ==
    /\ MIN_RUNQ_LAT_NS \in Nat \ {0}
    /\ MAX_PLAUSIBLE_RUNQ_LAT_NS \in Nat
    /\ MIN_RUNQ_LAT_NS <= MAX_PLAUSIBLE_RUNQ_LAT_NS
    /\ NsPerUs \in Nat \ {0}
    /\ NUM_BUCKETS \in Nat \ {0}
    /\ MAX_TASK_ENTRIES \in Nat /\ MAX_HIST_ENTRIES \in Nat
    /\ MaxTime \in Nat /\ Skew \in Nat

\* A backwards clock reading wraps to a value the 2 s filter throws away.
ASSUME WrapAssumption ==
    U64 \in Nat /\ U64 > MAX_PLAUSIBLE_RUNQ_LAT_NS + Skew + MaxTime

\* spurious: sched_wakeup for a task that is still on a CPU
\* missed_switch: a sched_switch the program is not run for
ASSUME FaultsAssumption == Faults \subseteq {"spurious", "missed_switch"}

VARIABLES
    clock,            \* bpf_ktime_get_ns
    task,             \* scheduler: the state of each pid
    cgroup,           \* scheduler: the cgroup of each pid
    exitedAt,         \* scheduler: when each pid passed sched_process_exit
    running,          \* scheduler: what each CPU runs
    wokeAt,           \* history: when the current wait began, None if no wait
    refused,          \* history: the pids whose wakeup found runq_enqueued full
    runq_enqueued,    \* BPF map: pid -> wakeup timestamp
    runq_histograms,  \* BPF map: key -> count, 0 for an absent key
    runq_lat_max,     \* BPF array of one element
    handler,          \* the rest of tp_sched_switch on each CPU, None when done
    due,              \* history: the waits that ought to be counted, by key
    lost              \* history: the waits that were not counted, by reason

schedVars == <<task, cgroup, exitedAt, running, wokeAt, refused>>
mapVars   == <<runq_enqueued, runq_histograms, runq_lat_max>>
vars == <<clock, schedVars, mapVars, handler, due, lost>>

Buckets == 0 .. NUM_BUCKETS - 1

\* struct runq_hist_key
Keys == [cgroup_id : Cgroups, prev_cgroup_id : Cgroups \cup {Root}, bucket : Buckets]

Reasons == {"insert_race", "histogram_full", "enqueued_full", "missed_switch"}

PCs == {"max_compare", "max_store", "lookup", "add", "insert"}

Handlers == [pc : PCs, key : Keys, lat : Nat]

ASSUME NoneAssumption == None \notin Handlers

TypeOK ==
    /\ clock \in 0 .. MaxTime
    /\ task \in [Pids -> {"free", "sleeping", "runnable", "running"}]
    /\ cgroup \in [Pids -> Cgroups]
    /\ exitedAt \in [Pids -> Nat \cup {None}]
    /\ running \in [CPUs -> Pids \cup {Idle}]
    /\ wokeAt \in [Pids -> Nat \cup {None}]
    /\ refused \subseteq Pids
    /\ runq_enqueued \in [Pids -> Nat \cup {None}]
    /\ runq_histograms \in [Keys -> Nat]
    /\ runq_lat_max \in Nat
    /\ handler \in [CPUs -> Handlers \cup {None}]
    /\ due \in [Keys -> Nat]
    /\ lost \in [Reasons -> [Keys -> Nat]]
------------------------------------------------------------------------------
(***************************************************************************)
(* Helpers                                                                 *)
(***************************************************************************)
Enqueued == {p \in Pids : runq_enqueued[p] # None}
Populated == {k \in Keys : runq_histograms[k] > 0}

\* bpf_ktime_get_ns is monotonic on a CPU, but two CPUs may disagree by Skew.
bpf_ktime_get_ns == {t \in 0 .. clock : t >= clock - Skew}

\* v before turn b + 1 of the loop in get_hist_bucket: each turn shifts it right.
Shifted(lat_ns) ==
    LET v[b \in Buckets] == IF b = 0 THEN lat_ns \div NsPerUs ELSE v[b - 1] \div 2
    IN  v

\* the loop run down to 0 for 1, one turn too many
BucketOneTooMany(lat_ns) ==
    Cardinality({b \in 1 .. NUM_BUCKETS : Shifted(lat_ns)[b - 1] > 0})

\* The turns the loop takes: while v > 1, and no more than NUM_BUCKETS - 1.
get_hist_bucket(lat_ns) ==
    Cardinality({b \in 1 .. NUM_BUCKETS - 1 : Shifted(lat_ns)[b - 1] > 1})

CgroupOf(p) == IF p = Idle THEN Root ELSE cgroup[p]

HistKey(next, prev, lat) ==
    [cgroup_id |-> CgroupOf(next), prev_cgroup_id |-> CgroupOf(prev),
     bucket |-> get_hist_bucket(lat)]

\* u64 subtraction
RunqLat(now, ts) == IF now >= ts THEN now - ts ELSE U64 + now - ts

PlausibleNoUpperBound(lat) == lat >= MIN_RUNQ_LAT_NS

Plausible(lat) == lat >= MIN_RUNQ_LAT_NS /\ lat <= MAX_PLAUSIBLE_RUNQ_LAT_NS

\* What really happened, against which the maps are judged: p has waited since
\* a wakeup for a time the program means to record.
WaitQualifies(p) == wokeAt[p] # None /\ Plausible(clock - wokeAt[p])

Bump(f, k) == [f EXCEPT ![k] = @ + 1]
Lose(reason, k) == lost' = [lost EXCEPT ![reason][k] = @ + 1]
------------------------------------------------------------------------------
(***************************************************************************)
(* The tracepoint programs                                                 *)
(***************************************************************************)
\* the pid read from the wrong place, as before 03888db was repaired
EnqueueWrongPid(p) ==
    \E ts \in bpf_ktime_get_ns, q \in Pids :
        runq_enqueued' = [runq_enqueued EXCEPT ![q] = ts]

\* BPF_NOEXIST: a pid that already has a timestamp keeps it, and a full map
\* takes no new pid.
tp_sched_wakeup(p) ==
    \E ts \in bpf_ktime_get_ns :
        runq_enqueued' =
            IF runq_enqueued[p] = None /\ Cardinality(Enqueued) < MAX_TASK_ENTRIES
            THEN [runq_enqueued EXCEPT ![p] = ts]
            ELSE runq_enqueued

\* the filters, and for what passes them the key
RecordLatency(c, prev, next, lat) ==
    handler' = [handler EXCEPT ![c] =
        IF Plausible(lat)
        THEN [pc |-> "max_compare", key |-> HistKey(next, prev, lat), lat |-> lat]
        ELSE None]

\* the timestamp is never deleted
ConsumeNoDelete(c, prev, next) ==
    \/ /\ runq_enqueued[next] = None
       /\ UNCHANGED <<runq_enqueued, handler>>
    \/ /\ runq_enqueued[next] # None
       /\ \E now \in bpf_ktime_get_ns :
            RecordLatency(c, prev, next, RunqLat(now, runq_enqueued[next]))
       /\ UNCHANGED runq_enqueued

\* the filters first, the delete only for what passes them
ConsumeIfPlausible(c, prev, next) ==
    \/ /\ runq_enqueued[next] = None
       /\ UNCHANGED <<runq_enqueued, handler>>
    \/ /\ runq_enqueued[next] # None
       /\ \E now \in bpf_ktime_get_ns :
            LET lat == RunqLat(now, runq_enqueued[next]) IN
            /\ RecordLatency(c, prev, next, lat)
            /\ runq_enqueued' = IF Plausible(lat)
                                THEN [runq_enqueued EXCEPT ![next] = None]
                                ELSE runq_enqueued

\* The first half of tp_sched_switch, up to the filters: consume next's
\* timestamp and, when the latency is plausible, go on to record it.
tp_sched_switch(c, prev, next) ==
    \/ /\ runq_enqueued[next] = None
       /\ UNCHANGED <<runq_enqueued, handler>>
    \/ /\ runq_enqueued[next] # None
       /\ \E now \in bpf_ktime_get_ns :
            RecordLatency(c, prev, next, RunqLat(now, runq_enqueued[next]))
       /\ runq_enqueued' = [runq_enqueued EXCEPT ![next] = None]

ExitForgotten(p) == p \in Pids /\ UNCHANGED runq_enqueued

tp_sched_process_exit(p) == runq_enqueued' = [runq_enqueued EXCEPT ![p] = None]
------------------------------------------------------------------------------
(***************************************************************************)
(* The scheduler                                                           *)
(***************************************************************************)
Tick ==
    /\ clock < MaxTime
    /\ clock' = clock + 1
    /\ UNCHANGED <<schedVars, mapVars, handler, due, lost>>

\* A new task is made runnable through sched_wakeup_new, which nothing hooks.
Fork(p, g) ==
    /\ task[p] = "free"
    /\ task' = [task EXCEPT ![p] = "runnable"]
    /\ cgroup' = [cgroup EXCEPT ![p] = g]
    /\ exitedAt' = [exitedAt EXCEPT ![p] = None]
    /\ UNCHANGED <<clock, running, wokeAt, refused, mapVars, handler, due, lost>>

Wakeup(p) ==
    /\ task[p] = "sleeping"
    /\ task' = [task EXCEPT ![p] = "runnable"]
    /\ wokeAt' = [wokeAt EXCEPT ![p] = clock]
    /\ refused' = IF runq_enqueued[p] = None /\ Cardinality(Enqueued) >= MAX_TASK_ENTRIES
                  THEN refused \cup {p} ELSE refused
    /\ tp_sched_wakeup(p)
    /\ UNCHANGED <<clock, cgroup, exitedAt, running, runq_histograms,
                   runq_lat_max, handler, due, lost>>

\* The kernel also fires sched_wakeup for a task that set itself asleep but has
\* not left its CPU yet: it is not waiting, and the timestamp stays until the
\* next time a CPU switches to it.
SpuriousWakeup(p) ==
    /\ "spurious" \in Faults
    /\ task[p] = "running"
    /\ tp_sched_wakeup(p)
    /\ UNCHANGED <<clock, schedVars, runq_histograms, runq_lat_max, handler, due, lost>>

\* CPU c puts prev away (asleep, preempted or, past its exit, dead) and next on.
ContextSwitch(c, prev, next) ==
    /\ handler[c] = None
    /\ running[c] = prev
    /\ running' = [running EXCEPT ![c] = next]
    /\ \E out \in {"sleeping", "runnable", "free"} :
         /\ out = "free" /\ prev # Idle => exitedAt[prev] # None
         /\ task' = [p \in Pids |-> IF p = next THEN "running"
                                    ELSE IF p = prev THEN out ELSE task[p]]
    /\ UNCHANGED <<clock, cgroup, exitedAt, runq_histograms, runq_lat_max>>

\* History: the wait of next is over.
EndWait(next, prev, missed) ==
    /\ wokeAt' = [wokeAt EXCEPT ![next] = None]
    /\ refused' = refused \ {next}
    /\ IF WaitQualifies(next)
       THEN LET k == HistKey(next, prev, clock - wokeAt[next]) IN
            /\ due' = Bump(due, k)
            /\ IF missed THEN Lose("missed_switch", k)
               ELSE IF next \in refused THEN Lose("enqueued_full", k)
               ELSE UNCHANGED lost
       ELSE UNCHANGED <<due, lost>>

Switch(c, prev, next) ==
    /\ task[next] = "runnable"
    /\ ContextSwitch(c, prev, next)
    /\ EndWait(next, prev, FALSE)
    /\ tp_sched_switch(c, prev, next)

MissedSwitch(c, prev, next) ==
    /\ "missed_switch" \in Faults
    /\ task[next] = "runnable"
    /\ ContextSwitch(c, prev, next)
    /\ EndWait(next, prev, TRUE)
    /\ UNCHANGED <<runq_enqueued, handler>>

\* The idle task is never woken, so tp_sched_switch finds no timestamp for it.
SwitchToIdle(c, prev) ==
    /\ ContextSwitch(c, prev, Idle)
    /\ UNCHANGED <<wokeAt, refused, runq_enqueued, handler, due, lost>>

\* do_exit runs in the task itself, so on a CPU that is done with its switch;
\* the task may sleep and wake again before it is finally switched away.
Exit(c, p) ==
    /\ running[c] = p
    /\ handler[c] = None
    /\ exitedAt[p] = None
    /\ exitedAt' = [exitedAt EXCEPT ![p] = clock]
    /\ tp_sched_process_exit(p)
    /\ UNCHANGED <<clock, task, cgroup, running, wokeAt, refused, runq_histograms,
                   runq_lat_max, handler, due, lost>>
------------------------------------------------------------------------------
(***************************************************************************)
(* The second half of tp_sched_switch: recording, one shared access a step *)
(***************************************************************************)
At(c, pc) == handler[c] # None /\ handler[c].pc = pc
GoTo(c, pc) == handler' = [handler EXCEPT ![c].pc = pc]
Return(c) == handler' = [handler EXCEPT ![c] = None]

CompareFlipped(c) ==
    /\ At(c, "max_compare")
    /\ GoTo(c, IF handler[c].lat < runq_lat_max THEN "max_store" ELSE "lookup")
    /\ UNCHANGED <<clock, schedVars, mapVars, due, lost>>

\* if (max_lat && runq_lat > *max_lat)
MaxCompare(c) ==
    /\ At(c, "max_compare")
    /\ GoTo(c, IF handler[c].lat > runq_lat_max THEN "max_store" ELSE "lookup")
    /\ UNCHANGED <<clock, schedVars, mapVars, due, lost>>

\* *max_lat = runq_lat, whatever has been stored since the comparison
MaxStore(c) ==
    /\ At(c, "max_store")
    /\ runq_lat_max' = handler[c].lat
    /\ GoTo(c, "lookup")
    /\ UNCHANGED <<clock, schedVars, runq_enqueued, runq_histograms, due, lost>>

LookupFindsNothing(c) ==
    /\ At(c, "lookup")
    /\ GoTo(c, "insert")
    /\ UNCHANGED <<clock, schedVars, mapVars, due, lost>>

HistLookup(c) ==
    /\ At(c, "lookup")
    /\ GoTo(c, IF runq_histograms[handler[c].key] > 0 THEN "add" ELSE "insert")
    /\ UNCHANGED <<clock, schedVars, mapVars, due, lost>>

\* __sync_fetch_and_add: atomic
HistAdd(c) ==
    /\ At(c, "add")
    /\ runq_histograms' = Bump(runq_histograms, handler[c].key)
    /\ Return(c)
    /\ UNCHANGED <<clock, schedVars, runq_enqueued, runq_lat_max, due, lost>>

\* BPF_ANY for BPF_NOEXIST
HistInsertAny(c) ==
    /\ At(c, "insert")
    /\ Return(c)
    /\ runq_histograms' = [runq_histograms EXCEPT ![handler[c].key] = 1]
    /\ UNCHANGED lost
    /\ UNCHANGED <<clock, schedVars, runq_enqueued, runq_lat_max, due>>

\* BPF_NOEXIST: another CPU that inserted the key first keeps its count and
\* this sample is gone; so it is when the map has no room for a new key.
HistInsert(c) ==
    /\ At(c, "insert")
    /\ Return(c)
    /\ LET k == handler[c].key IN
       \/ /\ runq_histograms[k] > 0
          /\ Lose("insert_race", k)
          /\ UNCHANGED runq_histograms
       \/ /\ runq_histograms[k] = 0
          /\ Cardinality(Populated) >= MAX_HIST_ENTRIES
          /\ Lose("histogram_full", k)
          /\ UNCHANGED runq_histograms
       \/ /\ runq_histograms[k] = 0
          /\ Cardinality(Populated) < MAX_HIST_ENTRIES
          /\ runq_histograms' = [runq_histograms EXCEPT ![k] = 1]
          /\ UNCHANGED lost
    /\ UNCHANGED <<clock, schedVars, runq_enqueued, runq_lat_max, due>>

Handler(c) == MaxCompare(c) \/ MaxStore(c) \/ HistLookup(c) \/ HistAdd(c) \/ HistInsert(c)
------------------------------------------------------------------------------
Init ==
    /\ clock = 0
    /\ task = [p \in Pids |-> "free"]
    /\ cgroup \in {[p \in Pids |-> g] : g \in Cgroups}
    /\ exitedAt = [p \in Pids |-> None]
    /\ running = [c \in CPUs |-> Idle]
    /\ wokeAt = [p \in Pids |-> None]
    /\ refused = {}
    /\ runq_enqueued = [p \in Pids |-> None]
    /\ runq_histograms = [k \in Keys |-> 0]
    /\ runq_lat_max = 0
    /\ handler = [c \in CPUs |-> None]
    /\ due = [k \in Keys |-> 0]
    /\ lost = [r \in Reasons |-> [k \in Keys |-> 0]]

Next ==
    \/ Tick
    \/ \E p \in Pids, g \in Cgroups : Fork(p, g)
    \/ \E p \in Pids : Wakeup(p) \/ SpuriousWakeup(p)
    \/ \E c \in CPUs, prev \in Pids \cup {Idle}, next \in Pids :
          Switch(c, prev, next) \/ MissedSwitch(c, prev, next)
    \/ \E c \in CPUs, p \in Pids :
          SwitchToIdle(c, p) \/ Exit(c, p)
    \/ \E c \in CPUs : Handler(c)

Spec == Init /\ [][Next]_vars

\* A tracepoint program runs to its end, the scheduler lets no runnable task wait
\* forever on CPUs that keep switching, and of the switches to a task that keeps
\* coming back the program misses some, but not all.
Fairness ==
    /\ \A c \in CPUs : WF_vars(Handler(c))
    /\ \A next \in Pids :
          SF_vars(\E c \in CPUs, prev \in Pids \cup {Idle} : Switch(c, prev, next))
------------------------------------------------------------------------------
(***************************************************************************)
(* Properties                                                              *)
(***************************************************************************)
\* A timestamp in runq_enqueued belongs to a task that is waiting for a CPU now,
\* and was taken when that very wait began (up to Skew): no task that runs,
\* sleeps or has died leaves one for a later owner of its pid.  This is what
\* tp_sched_switch's delete and BPF_NOEXIST together must guarantee when every
\* switch is seen and no wakeup is spurious.
EnqueuedIsGenuine ==
    \A p \in Pids : runq_enqueued[p] # None =>
        /\ task[p] = "runnable"
        /\ wokeAt[p] # None
        /\ runq_enqueued[p] \in wokeAt[p] - Skew .. wokeAt[p]

InFlight(k) == {c \in CPUs : handler[c] # None /\ handler[c].key = k}

\* Every wait that ought to be recorded is in exactly one place: counted, on its
\* way through a handler, or lost because its wakeup found runq_enqueued full, its
\* key did not fit into runq_histograms, or another CPU inserted the key first.
\* Nothing is counted twice, and no other path loses a stamp or a sample.
EveryWaitAccounted ==
    \A k \in Keys :
        due[k] = runq_histograms[k] + Cardinality(InFlight(k))
                 + lost["insert_race"][k] + lost["histogram_full"][k]
                 + lost["enqueued_full"][k]

Inserters(k) == {c \in InFlight(k) : handler[c].pc = "insert"}

\* The race between the lookup and the BPF_NOEXIST insert costs a key at most
\* one sample for every other CPU, ever, and none before the key exists: the
\* losers can only be the CPUs that saw the key absent.
InsertRaceLossBounded ==
    \A k \in Keys :
        IF runq_histograms[k] = 0
        THEN lost["insert_race"][k] = 0
        ELSE lost["insert_race"][k] + Cardinality(Inserters(k)) < Cardinality(CPUs)

\* The exit hook mops up: a timestamp that outlives its task (and will be charged
\* to the pid's next owner) can only come from a wakeup after the hook ran, while
\* the dying task still slept in do_exit; nothing older gets past the hook.
ExitHookMopsUp ==
    \A p \in Pids : task[p] = "free" /\ runq_enqueued[p] # None =>
        runq_enqueued[p] >= exitedAt[p] - Skew

\* The histogram implements the ledger: a count is only ever added for a wait of
\* that length, by a task of that cgroup, that ended when a task of that other
\* cgroup was switched away; none is counted twice and none is invented.
Ledger == INSTANCE LatencyLedger WITH counted <- runq_histograms

ImplementsLedger == Ledger!Spec

\* No timestamp silts the map up but that of a task that never waits for a CPU
\* again, which no wakeup, no switch and no exit will tell the programs of: whatever
\* switches are missed and whatever wakeups are spurious, every other is consumed.
EntriesDrain ==
    \A p \in Pids :
        runq_enqueued[p] # None ~> runq_enqueued[p] = None \/ [](task[p] # "runnable")

\* "keep the largest runq_lat ever seen (>= MIN_RUNQ_LAT_NS ...) so the true
\* magnitude survives the histogram's unbounded overflow bucket": the length of
\* every stamped wait from MIN_RUNQ_LAT_NS on is handed to the comparison with the
\* maximum when a CPU switches to the task.
TrueMagnitudeSurvives ==
    [][\A c \in CPUs, prev \in Pids \cup {Idle}, next \in Pids :
          /\ Switch(c, prev, next)
          /\ runq_enqueued[next] # None
          /\ clock - wokeAt[next] >= MIN_RUNQ_LAT_NS
          => handler'[c] # None /\ handler'[c].lat = clock - wokeAt[next]]_vars
==============================================================================
