--------------------------- MODULE CgroupCollector ---------------------------
(***************************************************************************)
(* How workloads/ebpf-noisy-neighbour/main.go names cgroup ids and forgets *)
(* them: cgroupMapper walks the cgroup tree and keeps a tombstone for what *)
(* it no longer sees, runqCollector withholds an id it cannot name for a   *)
(* while, and prune deletes the counts of what has been gone too long.     *)
(*                                                                         *)
(* Times are ages in ticks, and an age stops growing once it is past every *)
(* threshold it is compared with, so the clock needs no bound.  The bucket *)
(* of a key plays no part here and is left out: a key is a pair of ids.    *)
(***************************************************************************)
EXTENDS Naturals, FiniteSets

CONSTANTS
    Ids,                      \* cgroup ids
    Pods,                     \* those whose label starts with pod/
    Permanent,                \* those alive from the start to the end
    Keys,                     \* the pairs <<waiter, prev>> that occur
    None,
    cgroupRefreshInterval,
    cgroupRefreshMinGap,
    RefreshWithin,            \* assumed: a walk ends at least this often
    deadCgroupRetention,
    unresolvedGrace,
    pruneInterval,
    PruneWithin,              \* assumed: prune ends at least this often
    MaxCount                  \* bound: counts stop here

ASSUME SetsAssumption ==
    /\ Pods \subseteq Ids /\ Permanent \subseteq Ids
    /\ Keys \subseteq Ids \X Ids
    /\ None \notin Nat /\ \A ks \in SUBSET Keys : ks # None

ASSUME FiniteAssumption == IsFiniteSet(Ids)

ASSUME TimesAssumption ==
    /\ {cgroupRefreshInterval, cgroupRefreshMinGap, RefreshWithin, deadCgroupRetention,
        unresolvedGrace, pruneInterval, PruneWithin, MaxCount} \subseteq Nat
    /\ cgroupRefreshMinGap <= cgroupRefreshInterval
    /\ cgroupRefreshInterval <= RefreshWithin
    /\ pruneInterval <= PruneWithin

\* What the constants of main.go are chosen for: an id that was born while a walk
\* was under way is found by the next one before its grace is over, and a prune
\* that has just missed a dead id is followed by another before its tombstone is
\* collected.
ASSUME MarginsAssumption ==
    /\ 2 * RefreshWithin < unresolvedGrace
    /\ unresolvedGrace <= deadCgroupRetention
    /\ 2 * PruneWithin <= deadCgroupRetention

VARIABLES
    life,         \* each cgroup: unborn, live or gone
    hist,         \* runq_histograms: the count of each key, 0 if absent
    byIno,        \* cgroupMapper.byIno: age of lastSeen, None if unknown
    kick,         \* cgroupMapper.kick: a channel of capacity 1
    walking,      \* the refresh goroutine is in filepath.WalkDir
    steady, ever, \* the cgroups alive all through, at some time in, this walk
    sinceRefresh, \* age of the last refresh
    missing,      \* runqCollector.missing: age of the marker, None if absent
    dead,         \* prune: the keys still to delete, None when it is not running
    sincePrune,   \* age of the last prune
    names         \* history: what each id has been emitted as

mapperVars == <<byIno, kick, walking, steady, ever, sinceRefresh>>
pruneVars == <<dead, sincePrune>>
vars == <<life, hist, mapperVars, missing, pruneVars, names>>

MaxAge == 2 * deadCgroupRetention + 1
Ages == 0 .. MaxAge

TypeOK ==
    /\ life \in [Ids -> {"unborn", "live", "gone"}]
    /\ hist \in [Keys -> 0 .. MaxCount]
    /\ byIno \in [Ids -> Ages \cup {None}]
    /\ kick \in BOOLEAN /\ walking \in BOOLEAN
    /\ steady \subseteq ever /\ ever \subseteq Ids
    /\ sinceRefresh \in 0 .. RefreshWithin
    /\ missing \in [Ids -> Ages \cup {None}]
    /\ dead = None \/ dead \subseteq {k \in Keys : hist[k] > 0}
    /\ sincePrune \in 0 .. PruneWithin
    /\ names \in [Ids -> SUBSET {"named", "unresolved"}]

Live == {id \in Ids : life[id] = "live"}
Sides(k) == {k[1], k[2]}
------------------------------------------------------------------------------
(***************************************************************************)
(* Time and the kernel                                                     *)
(***************************************************************************)
Older(age) == IF age = None \/ age = MaxAge THEN age ELSE age + 1

\* Time does not run away from the two goroutines.
Tick ==
    /\ sinceRefresh < RefreshWithin /\ sincePrune < PruneWithin
    /\ sinceRefresh' = sinceRefresh + 1
    /\ sincePrune' = sincePrune + 1
    /\ byIno' = [id \in Ids |-> Older(byIno[id])]
    /\ missing' = [id \in Ids |-> Older(missing[id])]
    /\ UNCHANGED <<life, hist, kick, walking, steady, ever, dead, names>>

Born(id) ==
    /\ life[id] = "unborn"
    /\ life' = [life EXCEPT ![id] = "live"]
    /\ ever' = IF walking THEN ever \cup {id} ELSE ever
    /\ UNCHANGED <<hist, byIno, kick, walking, steady, sinceRefresh, missing, pruneVars, names>>

Gone(id) ==
    /\ life[id] = "live" /\ id \notin Permanent
    /\ life' = [life EXCEPT ![id] = "gone"]
    /\ steady' = steady \ {id}
    /\ UNCHANGED <<hist, byIno, kick, walking, ever, sinceRefresh, missing, pruneVars, names>>

\* tp_sched_switch counts a wait of a task of k[1] behind one of k[2].
Record(k) ==
    /\ Sides(k) \subseteq Live
    /\ hist[k] < MaxCount
    /\ hist' = [hist EXCEPT ![k] = @ + 1]
    /\ UNCHANGED <<life, mapperVars, missing, pruneVars, names>>
------------------------------------------------------------------------------
(***************************************************************************)
(* cgroupMapper                                                            *)
(***************************************************************************)
name(id) == byIno[id] # None    \* the label is known; it never changes

\* select: the ticker, or a kick once the goroutine has slept its minimum gap
WalkBegins ==
    /\ ~ walking
    /\ \/ kick /\ sinceRefresh >= cgroupRefreshMinGap /\ kick' = FALSE
       \/ sinceRefresh >= cgroupRefreshInterval /\ UNCHANGED kick
    /\ walking' = TRUE
    /\ steady' = Live /\ ever' = Live
    /\ UNCHANGED <<life, hist, byIno, sinceRefresh, missing, pruneVars, names>>

\* a refresh that forgets at once what it no longer sees
ForgottenAtOnce(id, seen) == id \notin seen

\* Tombstones are kept for twice the retention.
Collected(id, seen) == id \notin seen /\ name(id) /\ byIno[id] > 2 * deadCgroupRetention

\* The walk has met every cgroup that was there all along and possibly others
\* that were there at some time.
WalkEnds ==
    /\ walking
    /\ \E seen \in SUBSET ever :
         /\ steady \subseteq seen
         /\ byIno' = [id \in Ids |-> IF id \in seen THEN 0
                                     ELSE IF Collected(id, seen) THEN None
                                     ELSE byIno[id]]
    /\ walking' = FALSE
    /\ steady' = {} /\ ever' = {}
    /\ sinceRefresh' = 0
    /\ UNCHANGED <<life, hist, kick, missing, pruneVars, names>>
------------------------------------------------------------------------------
(***************************************************************************)
(* runqCollector                                                           *)
(***************************************************************************)
\* label misses: the id is marked once and a refresh is asked for.
Miss(ids) ==
    /\ kick' = (kick \/ ids # {})
    /\ missing' = [id \in Ids |-> IF id \in ids /\ missing[id] = None THEN 0 ELSE missing[id]]

\* without the grace
UnresolvedAtOnce(id) == ~ name(id)

\* label emits "unresolved" once the grace is over.
Unresolved(id) == ~ name(id) /\ missing[id] # None /\ missing[id] >= unresolvedGrace

\* Collect's loop body for one key: a waiter that is no pod, or has no name, is
\* passed over before prev is looked at.
Asked(k) ==
    IF ~ name(k[1]) THEN {k[1]}
    ELSE IF k[1] \in Pods /\ ~ name(k[2]) THEN {k[2]} ELSE {}

Emitted(k) == k[1] \in Pods /\ name(k[1]) /\ (name(k[2]) \/ Unresolved(k[2]))

CollectKey(k) ==
    /\ hist[k] > 0
    /\ Miss(Asked(k))
    /\ names' = IF ~ Emitted(k) THEN names
                ELSE [id \in Ids |->
                        names[id] \cup (IF id \notin Sides(k) THEN {}
                                        ELSE IF name(id) THEN {"named"} ELSE {"unresolved"})]
    /\ UNCHANGED <<life, hist, byIno, walking, steady, ever, sinceRefresh, pruneVars>>

\* what has no name is expired, and what has none is never expired
ExpiredUnnamed(id) == name(id) => byIno[id] > deadCgroupRetention
ExpiredNamedOnly(id) == name(id) /\ byIno[id] > deadCgroupRetention

expired(id) ==
    IF name(id) THEN byIno[id] > deadCgroupRetention
    ELSE missing[id] # None /\ missing[id] > deadCgroupRetention

PruneBegins ==
    /\ dead = None
    /\ sincePrune >= pruneInterval
    /\ dead' = {k \in Keys : hist[k] > 0 /\ (expired(k[1]) \/ expired(k[2]))}
    /\ UNCHANGED <<life, hist, mapperVars, missing, sincePrune, names>>

PruneDeleteTwice(k) ==
    /\ dead # None
    /\ k \in dead
    /\ hist' = [hist EXCEPT ![k] = 0]
    /\ UNCHANGED <<life, mapperVars, missing, pruneVars, names>>

PruneDelete(k) ==
    /\ dead # None
    /\ k \in dead
    /\ hist' = [hist EXCEPT ![k] = 0]
    /\ dead' = dead \ {k}
    /\ UNCHANGED <<life, mapperVars, missing, sincePrune, names>>

PruneEnds ==
    /\ dead = {}
    /\ dead' = None
    /\ sincePrune' = 0
    /\ missing' = [id \in Ids |-> IF name(id) THEN None ELSE missing[id]]
    /\ UNCHANGED <<life, hist, mapperVars, names>>
------------------------------------------------------------------------------
\* newCgroupMapper walks the tree once before it returns.
Init ==
    /\ life = [id \in Ids |-> IF id \in Permanent THEN "live" ELSE "unborn"]
    /\ hist = [k \in Keys |-> 0]
    /\ byIno = [id \in Ids |-> IF id \in Permanent THEN 0 ELSE None]
    /\ kick = FALSE /\ walking = FALSE /\ steady = {} /\ ever = {}
    /\ sinceRefresh = 0
    /\ missing = [id \in Ids |-> None]
    /\ dead = None /\ sincePrune = 0
    /\ names = [id \in Ids |-> {}]

Environment ==
    \/ Tick
    \/ \E id \in Ids : Born(id) \/ Gone(id)
    \/ \E k \in Keys : Record(k)

Mapper == WalkBegins \/ WalkEnds

Prune == PruneBegins \/ (\E k \in Keys : PruneDelete(k)) \/ PruneEnds

Next == Environment \/ Mapper \/ Prune \/ \E k \in Keys : CollectKey(k)

Spec == Init /\ [][Next]_vars

\* Time passes, both goroutines go on, and Prometheus keeps scraping.
Fairness ==
    /\ WF_vars(Tick) /\ WF_vars(Mapper) /\ WF_vars(Prune)
    /\ \A k \in Keys : WF_vars(CollectKey(k))

LiveSpec == Spec /\ Fairness
------------------------------------------------------------------------------
\* A series is never relabeled: an id emitted as "unresolved" is never emitted
\* under a name afterwards, nor the other way round.  It takes the grace to
\* outlast the walks that may miss a new cgroup, and the tombstone to outlast
\* the counts of a dead one.
NeverRelabeled == \A id \in Ids : Cardinality(names[id]) <= 1

\* Counts are pruned only when one side of the key is gone, although prune acts
\* on a verdict reached before its deletions.
OnlyDeadPruned ==
    [][\A k \in Keys : hist[k] > 0 /\ hist'[k] = 0 =>
          \E id \in Sides(k) : life[id] = "gone"]_vars

\* A tombstone is collected after prune has removed its BPF entries.
CollectedAfterPrune ==
    [][\A id \in Ids : name(id) /\ byIno'[id] = None =>
          \A k \in Keys : id \in Sides(k) => hist[k] = 0]_vars

\* The counts of a cgroup that is gone are pruned in the end, when its waiter is
\* a pod or the mapper has seen the dead side.
DeadPruned ==
    \A k \in Keys :
        hist[k] > 0 /\ (\E id \in Sides(k) :
                            life[id] = "gone" /\ (name(id) \/ id = k[1] \/ k[1] \in Pods))
            ~> hist[k] = 0

\* "prune deletes BPF histogram entries whose cgroups (either side) have been gone
\* longer than deadCgroupRetention, bounding the map and the label set".
EitherSideDeadPruned ==
    \A k \in Keys :
        hist[k] > 0 /\ (\E id \in Sides(k) : life[id] = "gone") ~> hist[k] = 0
==============================================================================
