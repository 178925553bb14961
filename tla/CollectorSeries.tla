--------------------------- MODULE CollectorSeries ---------------------------
(***************************************************************************)
(* The values that scrapes of ebpf_runq_latency_nanoseconds publish:       *)
(* Collect's iteration over runq_histograms, key by key, beside the        *)
(* mapper, the prune and the kernel of CgroupCollector.  Several keys may  *)
(* share a series: cgroups of one container, or all that are "unresolved". *)
(***************************************************************************)
EXTENDS CgroupCollector, FiniteSetsExt

CONSTANTS LabelOf,     \* cgroupLabel of each id
          unresolved   \* the label of what has no name

VARIABLES
    scan,       \* the keys the iterator has passed, None between scrapes
    last,       \* the key the iterator stands on, None before the first
    owed,       \* the keys there when the scrape began: the iteration meets them all
    grouped,    \* the sums of this scrape by series, 0 for no series
    published,  \* the sums of the last scrape
    total,      \* history: how often each key was recorded
    quiet       \* history: the scrapes begun since the last deletion, at most 2

scanVars == <<scan, last, owed, grouped, published>>
allVars == <<vars, scanVars, total, quiet>>

\* A waiter without a name is not emitted.
Series == {LabelOf[k[1]] : k \in Keys} \X ({LabelOf[k[2]] : k \in Keys} \cup {unresolved})

Present == {k \in Keys : hist[k] > 0}
SeriesOf(k) == <<LabelOf[k[1]], IF name(k[2]) THEN LabelOf[k[2]] ELSE unresolved>>
------------------------------------------------------------------------------
ScanBegins ==
    /\ scan = None
    /\ scan' = {} /\ last' = None
    /\ owed' = Present
    /\ grouped' = [s \in Series |-> 0]
    /\ quiet' = IF quiet < 2 THEN quiet + 1 ELSE 2
    /\ UNCHANGED <<vars, published, total>>

\* The kernel restarts an iterator whose key is gone from the first key; the sums
\* made so far stay.
Passed == IF last = None \/ last \in Present THEN scan ELSE {}

Group(k) ==
    grouped' = IF Emitted(k) THEN [grouped EXCEPT ![SeriesOf(k)] = @ + hist[k]] ELSE grouped

ScanKey(k) ==
    /\ scan # None
    /\ k \in Present \ Passed
    /\ CollectKey(k)
    /\ Group(k)
    /\ scan' = Passed \cup {k} /\ last' = k
    /\ UNCHANGED <<owed, published, total, quiet>>

\* A key that came during the scrape may have been passed over.
ScanEnds ==
    /\ scan # None
    /\ owed \cap Present \subseteq Passed
    /\ published' = grouped
    /\ scan' = None /\ last' = None /\ owed' = {}
    /\ grouped' = [s \in Series |-> 0]
    /\ UNCHANGED <<vars, total, quiet>>

SeriesInit ==
    /\ Init
    /\ scan = None /\ last = None /\ owed = {}
    /\ grouped = [s \in Series |-> 0] /\ published = [s \in Series |-> 0]
    /\ total = [k \in Keys |-> 0] /\ quiet = 0

SeriesNext ==
    \/ ScanBegins \/ ScanEnds \/ \E k \in Keys : ScanKey(k)
    \/ \E k \in Keys : Record(k) /\ total' = [total EXCEPT ![k] = @ + 1]
                       /\ UNCHANGED <<scanVars, quiet>>
    \/ \E k \in Keys : PruneDelete(k) /\ quiet' = 0 /\ UNCHANGED <<scanVars, total>>
    \/ /\ \/ Tick \/ Mapper \/ PruneBegins \/ PruneEnds
          \/ \E id \in Ids : Born(id) \/ Gone(id)
       /\ UNCHANGED <<scanVars, total, quiet>>

SeriesSpec == SeriesInit /\ [][SeriesNext]_allVars

\* Time passes, the goroutines of the mapper and the prune go on, and Prometheus
\* keeps scraping.
LiveSeriesSpec ==
    /\ SeriesSpec
    /\ WF_vars(Tick) /\ WF_vars(Mapper) /\ WF_vars(Prune)
    /\ WF_allVars(ScanBegins \/ ScanEnds \/ \E k \in Keys : ScanKey(k))
------------------------------------------------------------------------------
\* Between two scrapes with no deletion since the first one began, no series
\* drops or stops, whatever is born, dies, gets its name or comes out of its
\* grace in between: no counter reset that rate() would take for a restart.
QuietSeriesMonotone ==
    [][ScanEnds /\ quiet = 2 => \A s \in Series : published'[s] >= published[s]]_allVars

\* "It reads BPF bucket counts directly": a scrape publishes no more than was ever
\* recorded under the keys of the series.
Feeds(s) == {k \in Keys : LabelOf[k[1]] = s[1] /\ s[2] \in {LabelOf[k[2]], unresolved}}

NothingInflated ==
    \A s \in Series : published[s] <= MapThenSumSet(LAMBDA k : total[k], Feeds(s))
==============================================================================
