------------------------------ MODULE RunqProbe ------------------------------
(***************************************************************************)
(* watchRunqEnqueued of workloads/ebpf-noisy-neighbour/debug.go, running   *)
(* beside the tracepoint programs of RunqLatency: every poll it reads the  *)
(* clock, walks runq_enqueued, publishes three gauges, then looks the      *)
(* maximum up, publishes it and writes 0 back.  Each access to a BPF map   *)
(* is a system call of its own, so the kernel side moves between any two.  *)
(* The gauges are only ever written: what they are set to is walk in the   *)
(* "publish" step and runq_lat_max in the "lookup" step.                   *)
(***************************************************************************)
EXTENDS RunqLatency

CONSTANT staleAgeThreshold

ASSUME ThresholdAssumption == staleAgeThreshold \in Nat

VARIABLES
    pc,        \* idle -> walk <-> value, walk -> publish -> lookup -> reset -> idle
    nowNs,     \* the clock reading the ages are taken against
    seen,      \* the keys the iterator has passed
    last,      \* the key the iterator stands on, None before the first
    count,     \* how many keys the iterator has come to
    walk,      \* entries, stale and maxAge of this walk
    stable,    \* the pids whose entry has not changed since the walk began: the keys
               \* the kernel's iteration is sure to meet
    recorded   \* history: the largest maximum stored since it was looked up

probeVars == <<pc, nowNs, seen, last, count, walk>>
allVars == <<vars, probeVars, stable, recorded>>

NoEntries == [entries |-> 0, stale |-> 0, maxAge |-> 0]

Larger(a, b) == IF a > b THEN a ELSE b
------------------------------------------------------------------------------
\* ticker.C, then monotonicNowNs
PollBegins ==
    /\ pc = "idle"
    /\ pc' = "walk"
    /\ nowNs' = clock
    /\ seen' = {} /\ last' = None /\ count' = 0
    /\ walk' = NoEntries
    /\ stable' = Enqueued
    /\ UNCHANGED <<vars, recorded>>

\* An entry stamped after nowNs was read counts as age 0.
AgeUnguarded(now, ts) == RunqLat(now, ts)

Age(now, ts) == IF now > ts THEN now - ts ELSE 0

KeepLastAge(w, age) ==
    [entries |-> w.entries + 1,
     stale   |-> w.stale + (IF age >= staleAgeThreshold THEN 1 ELSE 0),
     maxAge  |-> age]

AddEntry(w, age) ==
    [entries |-> w.entries + 1,
     stale   |-> w.stale + (IF age >= staleAgeThreshold THEN 1 ELSE 0),
     maxAge  |-> Larger(age, w.maxAge)]

\* The iterator goes from the key it stands on to a later one, in an order of
\* its own; if that key is gone, the kernel restarts it from the first.
Passed == IF last = None \/ runq_enqueued[last] # None THEN seen ELSE {}

NextKey ==
    /\ pc = "walk" /\ pc' = "value"
    /\ \E p \in Enqueued \ Passed : last' = p /\ seen' = Passed \cup {p}
    /\ count' = count + 1
    /\ UNCHANGED <<vars, nowNs, walk, stable, recorded>>

IterUnbounded == count <= 2 * MAX_TASK_ENTRIES /\ NextKey

\* iter.Next, the first of its two system calls: the next key
IterNext == count <= MAX_TASK_ENTRIES /\ NextKey

\* the second: its value, and the loop's body; a key that has gone in between is
\* passed over
IterValue ==
    /\ pc = "value" /\ pc' = "walk"
    /\ walk' = IF runq_enqueued[last] = None THEN walk
               ELSE AddEntry(walk, Age(nowNs, runq_enqueued[last]))
    /\ UNCHANGED <<vars, nowNs, seen, last, count, stable, recorded>>

\* iter.Next returns false: no key is left, where keys that came during the walk
\* may have been passed over; or the iterator has been restarted so often that it
\* gives up, and then nothing is published until the next poll.
IterEnds ==
    /\ pc = "walk"
    /\ \/ stable \subseteq Passed /\ count <= MAX_TASK_ENTRIES /\ pc' = "publish"
          /\ UNCHANGED <<nowNs, walk>>
       \/ count > MAX_TASK_ENTRIES /\ pc' = "idle" /\ nowNs' = 0 /\ walk' = NoEntries
    /\ seen' = {} /\ last' = None /\ count' = 0
    /\ UNCHANGED <<vars, stable, recorded>>

\* the three gauges; the loop's variables go out of scope
PublishWalk ==
    /\ pc = "publish"
    /\ pc' = "lookup"
    /\ nowNs' = 0
    /\ walk' = NoEntries
    /\ UNCHANGED <<vars, seen, last, count, stable, recorded>>

LookupMax ==
    /\ pc = "lookup"
    /\ pc' = "reset"
    /\ recorded' = 0
    /\ UNCHANGED <<vars, nowNs, seen, last, count, walk, stable>>

\* objs.RunqLatMax.Put(0, 0), whatever has been stored since the lookup
ResetMax ==
    /\ pc = "reset"
    /\ pc' = "idle"
    /\ runq_lat_max' = 0
    /\ UNCHANGED <<clock, schedVars, runq_enqueued, runq_histograms, handler, due, lost,
                   nowNs, seen, last, count, walk, stable, recorded>>

Probe == PollBegins \/ IterNext \/ IterValue \/ IterEnds \/ PublishWalk \/ LookupMax \/ ResetMax

\* A step of the kernel side.
Kernel ==
    /\ Next
    /\ stable' = {p \in stable : runq_enqueued'[p] = runq_enqueued[p]}
    /\ recorded' = IF runq_lat_max' = runq_lat_max THEN recorded
                   ELSE Larger(recorded, runq_lat_max')
    /\ UNCHANGED probeVars

ProbeInit ==
    /\ Init
    /\ pc = "idle" /\ nowNs = 0 /\ seen = {} /\ last = None /\ count = 0
    /\ walk = NoEntries
    /\ stable = {} /\ recorded = 0

ProbeSpec == ProbeInit /\ [][Kernel \/ Probe]_allVars
------------------------------------------------------------------------------
ProbeTypeOK ==
    /\ pc \in {"idle", "walk", "value", "publish", "lookup", "reset"}
    /\ nowNs \in 0 .. MaxTime
    /\ seen \subseteq Pids /\ last \in Pids \cup {None} /\ count \in 0 .. MAX_TASK_ENTRIES + 1
    /\ walk \in [entries : 0 .. MAX_TASK_ENTRIES + 1, stale : 0 .. MAX_TASK_ENTRIES + 1, maxAge : Nat]

\* However the map churns under the walk, every entry that was there throughout
\* is in the totals about to be published: it is counted, it is not younger than
\* the maximum age, and if it is old enough it is counted as stale.
WalkSeesStable ==
    pc = "publish" =>
        /\ walk.entries >= Cardinality(stable)
        /\ \A p \in stable : walk.maxAge >= Age(nowNs, runq_enqueued[p])
        /\ walk.stale >= Cardinality({p \in stable :
                                        Age(nowNs, runq_enqueued[p]) >= staleAgeThreshold})

\* No age is ever larger than the clock that it was taken on, although entries
\* may be stamped after the clock was read.
AgesAreReal == walk.maxAge <= nowNs

\* "Largest run-queue latency (ns) recorded in the last poll interval": the value
\* published is at least every latency recorded since the value before it.
GaugeCoversInterval == [][LookupMax => runq_lat_max >= recorded]_allVars
==============================================================================
