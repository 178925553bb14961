--------------------------- MODULE HistogramExport ---------------------------
(***************************************************************************)
(* What runqCollector.Collect makes of the bucket counts: the second half  *)
(* of main.go's Collect, from the counts of one series to the cumulative   *)
(* buckets, the count and the sum of a Prometheus histogram, beside the    *)
(* programs that do the counting.  Every cgroup is its own label and the   *)
(* counts are read at once; CollectorSeries has the grouping by label and  *)
(* the reading key by key.                                                 *)
(***************************************************************************)
EXTENDS RunqLatency, Functions

\* No count is below the first bound, le[0] is 0: latencies are recorded from
\* 1 ms on, the first bound is 1 us.
ASSUME ThresholdAssumption == NsPerUs <= MIN_RUNQ_LAT_NS

VARIABLE samples     \* history: the latencies that were counted, by series

Series == Cgroups \X (Cgroups \cup {Root})
Latencies == 0 .. MAX_PLAUSIBLE_RUNQ_LAT_NS

Overflow == NUM_BUCKETS - 1

\* grouped[p]
Counts(s) ==
    [b \in Buckets |->
        runq_histograms[[cgroup_id |-> s[1], prev_cgroup_id |-> s[2], bucket |-> b]]]

bucketBoundsNs[b \in Buckets] == IF b = 0 THEN NsPerUs ELSE 2 * bucketBoundsNs[b - 1]

\* the overflow folded into the last finite bucket, as it was once
CumulFolded(counts) ==
    [b \in Buckets |->
        SumFunctionOnSet(counts, 0 .. b - 1) + (IF b = Overflow THEN counts[Overflow] ELSE 0)]

\* cumulBuckets, by the exponent of its key: the loop adds counts[b - 1] on its
\* way to the key bucketBoundsNs[b].
CumulBuckets(counts) ==
    LET cumul[b \in Buckets] == IF b = 0 THEN 0 ELSE cumul[b - 1] + counts[b - 1]
    IN  cumul

TotalCount(counts) == CumulBuckets(counts)[Overflow] + counts[Overflow]

TwiceUpper(b) == 4 * bucketBoundsNs[b]

\* mid, doubled
TwiceMid(b) == bucketBoundsNs[b] + bucketBoundsNs[b + 1]

\* sum, doubled: midpoints, and for the overflow its lower bound
TwiceSum(counts) ==
    SumFunctionOnSet([b \in Buckets \ {Overflow} |-> counts[b] * TwiceMid(b)],
                     Buckets \ {Overflow})
    + counts[Overflow] * 2 * bucketBoundsNs[Overflow]
------------------------------------------------------------------------------
SeriesOf(k) == <<k.cgroup_id, k.prev_cgroup_id>>

\* History: a handler that has just raised the count of its key has counted its
\* latency.
Counted ==
    {c \in CPUs : /\ handler[c] # None /\ handler'[c] = None
                  /\ runq_histograms'[handler[c].key] > runq_histograms[handler[c].key]}

ExportInit == Init /\ samples = [s \in Series |-> [l \in Latencies |-> 0]]

ExportNext ==
    /\ Next
    /\ \/ Counted = {} /\ UNCHANGED samples
       \/ \E c \in Counted :
             samples' = [samples EXCEPT ![SeriesOf(handler[c].key)][handler[c].lat] = @ + 1]

ExportSpec == ExportInit /\ [][ExportNext]_<<vars, samples>>
------------------------------------------------------------------------------
Below(s, bound) ==
    SumFunctionOnSet(samples[s], {l \in Latencies : l < bound})

\* The exported buckets are exact: le = bound counts the latencies below it, not
\* one bucket more or less, and what has no upper bound is in _count alone.  (A
\* latency equal to a bound is counted above it, where le promises "at most".)
ExportExact ==
    \A s \in Series :
        /\ \A b \in Buckets : CumulBuckets(Counts(s))[b] = Below(s, bucketBoundsNs[b])
        /\ TotalCount(Counts(s)) = Below(s, MAX_PLAUSIBLE_RUNQ_LAT_NS + 1)

\* The exported _sum is at most half too large, and when nothing overflowed at
\* most a quarter too small: rate(_sum) / rate(_count) can be trusted that far.
SumWithinHalf ==
    \A s \in Series :
        LET real == SumFunctionOnSet([l \in Latencies |-> l * samples[s][l]], Latencies) IN
        /\ TwiceSum(Counts(s)) <= 3 * real
        /\ Counts(s)[Overflow] = 0 => 2 * TwiceSum(Counts(s)) >= 3 * real
==============================================================================
