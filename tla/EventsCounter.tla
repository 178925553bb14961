---------------------------- MODULE EventsCounter ----------------------------
(***************************************************************************)
(* eventsTotal: the goroutine of main that sums runq_histograms every 5 s  *)
(* and adds what the sum has grown by, beside the kernel, the mapper, the  *)
(* prune and the scrapes of CgroupCollector.                               *)
(***************************************************************************)
EXTENDS CgroupCollector, FiniteSetsExt

VARIABLES
    polled,       \* the keys the iterator has passed, None between polls
    last,         \* the key the iterator stands on, None before the first
    owed,         \* the keys there when the poll began: the iteration meets them all
    total,        \* the sum of this poll
    prevTotal,    \* the sum of the last poll
    eventsTotal,  \* the counter
    fromPrev,     \* history: the events counted since the last poll began ...
    sincePrev,    \* history: ... since it ended ...
    during,       \* history: ... and since this poll began
    undisturbed   \* history: the polls begun since the last deletion, at most 2

pollVars == <<polled, last, owed, total, prevTotal, eventsTotal>>
historyVars == <<fromPrev, sincePrev, during, undisturbed>>
allVars == <<vars, pollVars, historyVars>>

Present == {k \in Keys : hist[k] > 0}
------------------------------------------------------------------------------
\* ticker.C
PollBegins ==
    /\ polled = None
    /\ polled' = {} /\ last' = None /\ owed' = Present
    /\ total' = 0
    /\ undisturbed' = IF undisturbed < 2 THEN undisturbed + 1 ELSE 2
    /\ UNCHANGED <<vars, prevTotal, eventsTotal, fromPrev, sincePrev, during>>

\* The kernel restarts an iterator whose key is gone from the first key.
Passed == IF last = None \/ last \in Present THEN polled ELSE {}

PollKey(k) ==
    /\ polled # None
    /\ k \in Present \ Passed
    /\ total' = total + hist[k]
    /\ polled' = Passed \cup {k} /\ last' = k
    /\ UNCHANGED <<vars, owed, prevTotal, eventsTotal, historyVars>>

AddGrowth == eventsTotal' = IF total > prevTotal THEN eventsTotal + (total - prevTotal)
                            ELSE eventsTotal

\* A key that came during the poll may have been passed over.
PollOver ==
    /\ polled # None
    /\ owed \cap Present \subseteq Passed
    /\ polled' = None /\ last' = None /\ owed' = {} /\ total' = 0
    /\ fromPrev' = during /\ sincePrev' = 0 /\ during' = 0
    /\ UNCHANGED <<vars, undisturbed>>

\* no rebase when the sum has dropped
PollStalls ==
    /\ PollOver
    /\ AddGrowth
    /\ prevTotal' = IF total > prevTotal THEN total ELSE prevTotal

PollEnds ==
    /\ PollOver
    /\ AddGrowth
    /\ prevTotal' = total

EventsInit ==
    /\ Init
    /\ polled = None /\ last = None /\ owed = {} /\ total = 0
    /\ prevTotal = 0 /\ eventsTotal = 0
    /\ fromPrev = 0 /\ sincePrev = 0 /\ during = 0
    /\ undisturbed = 1   \* an empty map and prevTotal = 0 are as good as a first poll

EventsNext ==
    \/ PollBegins \/ PollEnds \/ \E k \in Keys : PollKey(k)
    \/ /\ \E k \in Keys : Record(k)
       /\ fromPrev' = fromPrev + 1 /\ sincePrev' = sincePrev + 1
       /\ during' = IF polled = None THEN 0 ELSE during + 1
       /\ UNCHANGED <<pollVars, undisturbed>>
    \/ /\ \E k \in Keys : PruneDelete(k)
       /\ undisturbed' = 0 /\ fromPrev' = 0 /\ sincePrev' = 0 /\ during' = 0
       /\ UNCHANGED pollVars
    \/ /\ \/ Tick \/ Mapper \/ PruneBegins \/ PruneEnds
          \/ \E k \in Keys : CollectKey(k)
          \/ \E id \in Ids : Born(id) \/ Gone(id)
       /\ UNCHANGED <<pollVars, historyVars>>

EventsSpec == EventsInit /\ [][EventsNext]_allVars
------------------------------------------------------------------------------
\* "total can drop when runqCollector.prune deletes entries; rebase rather than
\* stalling until it catches back up": once the last poll and this one ran without
\* a deletion, the counter grows by every event of the time between them and by
\* none from before the last poll or twice, however many counts were pruned
\* before and wherever in the polls the events fell.
QuietPollsCountAll ==
    [][PollEnds /\ undisturbed = 2 =>
          LET growth == eventsTotal' - eventsTotal IN
          /\ growth >= sincePrev - during
          /\ growth <= fromPrev]_allVars
==============================================================================
