# Verification of playground-sre

TLA+ models of the two workloads of this repository, the TLC runs that check
them on small instances, and TLAPS proofs for every instance. `PROJECT.json`
lists the runs, the lines each definition models (`map`), the theorems, the
hazards and the findings.

Check a run with `tlc -config <cfg> <MC module>`, a proof module with
`tlapm <module>Proofs.tla`.

## The system

### `workloads/ebpf-noisy-neighbour`

Measures how long tasks wait on run queues, and behind whom.

| Component | State | Operations | What makes it correct |
|---|---|---|---|
| tracepoint programs (`bpf/noisy-neighbour.bpf.c`) | three BPF maps: `runq_enqueued` (pid to wakeup time), `runq_histograms` (waiter, displaced cgroup, bucket to count), `runq_lat_max` | `tp_sched_wakeup`, `tp_sched_switch`, `tp_sched_process_exit`, on every CPU at once | a timestamp belongs to the wait under way; each wait is counted once or lost for a known reason; absurd latencies are filtered |
| debug probe (`debug.go`) | locals of one poll, the gauges | every poll: read the clock, walk `runq_enqueued` key by key, publish, read the maximum, reset it | the walk sees what stays in the map; ages are real; the maximum is a real wait and covers what was recorded, but for the races it admits |
| `cgroupMapper` (`main.go` 250-346) | `byIno` with `lastSeen`, the `kick` channel | `refresh` (a walk of the cgroup tree), `name` | a name outlives its cgroup for as long as counts do |
| `runqCollector` (`main.go` 70-248) | `missing` markers | `label`, `prune`, `Collect` (a scrape) | no series is relabeled or inflated; only counts of the dead are pruned, and all of them |
| events poll (`main.go` 479-498) | previous sum | add the difference of two sums | counts every event once |
| PSI collector (`psi.go`) | none | walk, de-duplicate by label, parse | a series stays with one directory |

The kernel and the user space share the maps only. In user space the mapper,
the prune, the scrapes, the events poll and the probe are goroutines; `mu` guards
`missing` and the mapper's own lock `byIno`, and nothing guards the maps.

### `workloads/perf-lab`

An HTTP server with scenario routes for load tests.

| Component | State | Operations | What makes it correct |
|---|---|---|---|
| routes, limiter, telemetry (`cmd/api`, `internal/middleware`, `internal/telemetry`) | a token bucket per route, `http_requests_in_flight`, `http_requests_total` | pass a request through the middlewares | each request is counted once, with the status it was answered with |
| scenarios (`internal/scenarios`) | `scenario_upstream_calls_total` | sleep, cpu, disk, fanout; upstream, which calls whatever its `target` query names, by default the server's own sleep route | handlers end; a call is counted as what it was |
| `main` | - | start, signal, `Shutdown` with 10 s | only long work is cut off |
| query parameters (`scenarios.go` 196-246) | none | `parseDuration`, `parseInt`, `parseSize` | a value is parsed in one way |
| configuration | none | environment variables, once | - |

### Around them

The workflows in `.github/workflows` tag an image with the time of the job and
Flux deploys the highest tag. Manifests, dashboards, scripts and Taskfiles keep
no state of their own; `bpf/vmlinux.h` is generated.

### What is hard here

- `tp_sched_switch` runs on all CPUs at once and touches the shared maps in
  several steps: compare and store the maximum, look up and insert a key.
- Tracepoints are missed or spurious, and the clocks of two CPUs disagree.
- Maps fill up, silently.
- Every iteration of a BPF map is one system call per key, beside writers.
- Naming a cgroup, giving up on a name, pruning its counts and forgetting its name
  are done by three goroutines that only timing coordinates.
- A server that is its own client, with limits, timeouts, cancellation and a
  shutdown.

The full list, with lines, is under `hazards` in `PROJECT.json`.

## Modules

| Module | Models | Builds on |
|---|---|---|
| `LatencyLedger` | abstract: what the histogram promises | - |
| `RunqLatency` | the tracepoint programs, with the scheduler as environment | refines `LatencyLedger` |
| `RunqCharge` | what the programs have seen of each pid, to judge what a wait is charged with | `RunqLatency` |
| `RunqMaximum` | the maximum, raised by the CPUs and reset by the probe | `RunqLatency` |
| `RunqLatencyProofs` | theorems about the timestamps and the histogram | `RunqLatency` |
| `RunqMaximumProofs` | theorems about the exit hook, what is charged, and the maximum | `RunqLatencyProofs`, `RunqCharge`, `RunqMaximum` |
| `RunqProbe` | `watchRunqEnqueued`, beside the kernel | `RunqLatency` |
| `RunqProbeProofs` | theorems about `RunqProbe` | `RunqProbe`, `RunqLatencyProofs` |
| `CgroupCollector` | mapper, label, prune, beside the kernel | - |
| `CgroupCollectorProofs` | theorems about `CgroupCollector` | `CgroupCollector` |
| `CollectorSeries` | a scrape, key by key, and the sums it publishes | `CgroupCollector` |
| `CollectorSeriesProofs` | theorems about `CollectorSeries` | `CollectorSeries`, `CgroupCollectorProofs` |
| `HistogramExport` | the buckets, count and sum that `Collect` makes of the counts | `RunqLatency` |
| `HistogramExportProofs` | theorems about `HistogramExport` | `HistogramExport`, `RunqLatencyProofs` |
| `EventsCounter` | the goroutine behind `ebpf_events_total` | `CgroupCollector` |
| `EventsCounterProofs` | theorems about `EventsCounter` | `EventsCounter`, `CgroupCollectorProofs` |
| `QueryParams` | the parse functions of `scenarios.go` and the clamps, as operators | - |
| `PerfLabServer` | requests, limits, scenarios, upstream calls, shutdown | `QueryParams` |
| `PerfLabServerProofs` | theorems about `PerfLabServer` | `PerfLabServer` |
| `MC...` | instances for TLC | each of the above |

### RunqLatency

The variables named after maps are the maps. An absent entry of `runq_enqueued`
is `None` and of `runq_histograms` 0, which is exact since no program stores 0 there.
`tp_sched_wakeup` and `tp_sched_process_exit` are one atomic map operation each, so
they happen within the scheduler's step that fires them. `tp_sched_switch` consumes the
timestamp within the switch too (the pid is on this CPU and no other can
switch to it), and then goes on in `handler[c]`, one shared access per step:
`MaxCompare`, `MaxStore`, `HistLookup`, `HistAdd` or `HistInsert`. A CPU makes no
other step meanwhile, because the tracepoint runs with preemption off. Subtraction is modulo
`U64`. `Shifted` is the value that the loop of `get_hist_bucket` shifts right, turn by turn, and the bucket
is the number of turns it takes.

The scheduler is external: tasks are forked (without a wakeup event), wake up, are switched
on and off, exit, and sleep in `do_exit` after the hook. `Faults` adds wakeups
of running tasks and switches the program does not see; `Skew` lets a clock reading be late.

History variables, which no action reads but for history: `wokeAt` (when the real wait
began), `refused` (the pids whose wakeup found `runq_enqueued` full), `due` (waits that ought to be
counted), `lost` (those that were not, by reason), `exitedAt`. A wait without a timestamp is booked as
`enqueued_full` only when its wakeup was refused: a timestamp that is lost in any other way breaks
`EveryWaitAccounted`.

Nothing deletes from `runq_histograms` here: the prune is in `CgroupCollector`, which
composes it with counts that grow in one step. What `RunqLatency` says of a key, the bound
on the insert race among it, is therefore said of one life of the key, from its
insertion to its prune.

### RunqCharge and RunqMaximum

Both put histories beside the steps of `RunqLatency` and leave those as they are.

`RunqCharge` keeps `seenAt`: when the programs last saw a switch to a pid or its exit. A timestamp may
be stale, because a switch was missed or a wakeup was spurious, and be charged to another task that
inherits the pid. `ChargeBounded` says how wrong that can go: no further back than `seenAt`, and not
less than the wait that ends.

`RunqMaximum` adds the probe's `Put(0, 0)` as `Reset`, at any moment, which is what the comparison and the store
of a CPU get to see of `debug.go`. `waits` is the set of the lengths of all waits that have ended, `sinceReset` the
largest latency that the maximum owes since the last reset, `raced` the CPUs that stood between comparison
and store together with another one. The comment above the store accepts that race and nothing else, and so does
`NothingForgottenSinceReset`.

### RunqProbe

One action per system call of a poll. The iterator has an order of its own, so
`IterNext` picks any key not passed; when the key it stands on is gone, the kernel restarts
it from the first key (`Passed`), a key that comes during the walk may be passed over, and after
more steps than the map has room for cilium's iterator gives up. The value is looked up by a second
call (`IterValue`), and a key that has gone in between is passed over. `nowNs`, `count` and `walk` are the loop's
locals.

### CgroupCollector and CollectorSeries

Times are ages in ticks that stop growing past every threshold, so there is
no clock to bound. A walk takes a while: it meets every cgroup that was there all along
(`steady`) and any that was there at some time (`ever`). `Tick` assumes that a
walk ends at least every `RefreshWithin`, and a prune every `PruneWithin`; the
assumption `MarginsAssumption` says what the constants of `main.go` (10 s, 1 min, 2 min,
15 min) are chosen for: two walks within the grace, and two prunes within the retention. `CollectKey` is `Collect`'s loop body for a key, its key and value read at once, and may happen at any
time, `CollectorSeries` strings such steps to one scrape and sums them by label. Ids of a dead
cgroup are not used again.

Cgroups whose labels collide share a series, and when one of them is pruned the shared series
drops rather than ends. That follows from `main.go` 189-194 and is why
`QuietSeriesMonotone` speaks of scrapes without a deletion between them.

### HistogramExport

`Collect` from line 200 on, as operators on the counts of a series: `CumulBuckets`, `TotalCount`
(with the table `bucketBoundsNs`, doubled from entry to entry as `main.go` 46-55 does) and `TwiceSum` (doubled, so that the midpoints are whole numbers). They are compared with
`samples`, a history of the latencies that the programs of `RunqLatency` really counted, so the
two sides of the bucket convention, `get_hist_bucket` in the kernel and the shift by one in
`Collect`, are checked against each other and not each against its own comment. A latency that
equals a bound exactly is counted above it, where Prometheus' `le` says "at most": that is inherent in
the half-open buckets of the kernel and `ExportExact` states it with `<`. Every cgroup is its own label
here, and the counts are read at once; grouping by label and reading key by key are in
`CollectorSeries`.

### EventsCounter

One action per step of the poll (`PollBegins`, `PollKey`, `PollEnds`), with the iterator of
`CollectorSeries`, beside everything in `CgroupCollector`. `fromPrev`, `sincePrev` and `during`
count the events recorded since the last poll began, since it ended, and since this one began;
`undisturbed` is how many polls have begun since the last deletion. With a deletion in between,
events are missed (the sum drops by more than it grew) and, when the deletion is under the
iterator, counted twice: `QuietPollsCountAll` speaks of what the code's comment promises, that the
counter goes on correctly afterwards.

### QueryParams and PerfLabServer

A raw value is a number with a suffix (or "bare"), or `NoNumber`. `ParseSize` returns a set of results: the loop
over the units ranges over a Go map, whose order is random. The product wraps at `Int64`.

`client` is what the sender of a request knows, `server` how far the server is
with it: connected, running (in the handler), ending (status written, deferred block
still to run), left. The calls of an upstream request `u` are requests themselves: `N[u]` of them, each given up
after `Timeout[u]`, all to `Target[u]` with the query `TargetQuery[u]`. `Target[u]` is a route of the same server
(sleep by default) or "elsewhere": a server that is refused, answers with any status, breaks off or never answers
(`ElsewhereEnds`). `N[u]` and `Timeout[u]` are what the handler's clamps leave of the query. Ticks pass only when the server has nothing to do. The server's steps take none.
Connections, clients and time are external. Client hang-ups cancel a request's
context, which only sleep and the calls of upstream look at. What any other handler makes of its query is
`param`, chosen from `Params` when it enters. What the router turns away is answered with 404 or, for a
wrong method, 405 (`Unrouted`).

## Runs

| Run | Instance | Checks |
|---|---|---|
| `runq_races` | 2 CPUs, 2 pids, 1 cgroup; room for 1 timestamp and 1 key; resets at any moment; no faults | `TypeOK`, `EnqueuedIsGenuine`, `EveryWaitAccounted`, `InsertRaceLossBounded`, `ImplementsLedger`, `MaxIsSomeWait`, `NothingForgottenSinceReset` |
| `runq_faults` | 1 CPU, 2 pids, all faults, clocks that disagree; fairness | `ExitHookMopsUp`, `ChargeBounded`, `EntriesDrain` |
| `runq_long` | 1 CPU, 2 pids, waits longer than the upper filter; no faults | finding: `TrueMagnitudeSurvives` |
| `export_one_cpu` | 1 CPU, 2 pids, 3 buckets and latencies up to 4; no faults | `ExportExact`, `SumWithinHalf` |
| `probe_walk` | 1 CPU, 2 pids; no faults | `ProbeTypeOK`, `WalkSeesStable`, `AgesAreReal` |
| `probe_interval` | 1 CPU, 1 pid; no faults | finding: `GaugeCoversInterval` |
| `series_pods` | a pod that stays behind one that comes and goes, and that one behind a third; fairness | `TypeOK`, `NeverRelabeled`, `OnlyDeadPruned`, `CollectedAfterPrune`, `QuietSeriesMonotone`, `DeadPruned` |
| `series_inflated` | a pod behind two pods that come and go | finding: `NothingInflated` |
| `cgroups_stuck` | a pod and a system slice behind a pod that comes and goes; fairness | finding: `EitherSideDeadPruned` |
| `events_quiet` | a pod behind two cgroups that come and go | `QuietPollsCountAll` |
| `perf_calls` | any two of: a disk request for "1kb" (3 ticks, or the default of 1), one without a route, upstream requests with 2 calls to sleep, 1 to the own disk route, 1 elsewhere; 1 token per route; fairness | `TypeOK`, `MetricsAgree`, `CutOnlyTheLong`, `UpstreamComesBack` |
| `perf_size` | the same | finding: `SizeAsAsked` |

`TypeOK` of `runq_races` is that of `RunqLatency` and `TypeOK` of `series_pods` that of `CgroupCollector`: the
composed modules check what the modules they build on promise. `perf_calls` and `perf_size` do not check for
deadlock because the server exits.

Where the waits of several cgroups must be kept apart, TLC tells one cgroup from the root and the
theorems `WaitsAccounted` and `HistogramImplementsLedger` cover any number of them.

### Bounds, and why they are enough

- `export_one_cpu`: bounds 1, 2 and 4, so that of the latencies 1 to 4 two buckets are bounded, one holds two
  different latencies, and one latency overflows.
- `MaxTime` 2 to 4 stops the clock. In `runq_races` and `runq_long` the filters are at 1 and 2 and the clock goes
  past the upper one, so each pid waits too short, long enough and too long. In `runq_faults` they are both at 2, with a
  skew of 1: there is one recorded latency, one too short, and subtractions that wrap. The programs
  compare times only with each other and the filters.
- Two CPUs are the races' witnesses: compare/store and look-up/insert are
  pairwise. `InsertRaceLossBounded` with more CPUs is left to the theorem.
- Two pids for room for one timestamp, two keys for room for one: each map overflows, and the handlers of two CPUs
  still meet, because a timestamp is consumed before its handler goes on.
- `MaxCount` 1 for counts in the cgroup modules: naming and pruning only ask whether
  a count is there. Inflation shows with one count read twice, a stalled
  counter with one key pruned and another recorded.
- `deadCgroupRetention` 3, `unresolvedGrace` 3, `RefreshWithin` 1, `PruneWithin` 1 are the
  smallest numbers that satisfy `MarginsAssumption` with a walk and a prune in between.
- Two calls with one token: one is served and one limited. Disk work of 3 or 1 against a
  shutdown of 2 ticks: both ways that `Shutdown` returns. A call's timeout is 1 (shorter than the shutdown) or 2.
  `Kilo` 3 makes the size asked for differ from the default. Two clients at a time are enough for an upstream request
  beside a limiter's other user, and for work beside a shutdown; calls come on top.

Symmetry (CPUs, pids, cgroups) is used in runs without liveness properties only.

### Fairness

- `runq_faults`: a tracepoint program runs to its end (it has no loops but the
  bounded one, and preemption is off), and a runnable task is switched to in the end while
  CPUs keep switching, with the program run for some of those switches (strong fairness of `Switch` per task: the scheduler
  class is fair, and not every switch to a task that keeps coming back is missed).
- `series_pods`, `cgroups_stuck`: time passes, the mapper's and the prune's goroutines
  go on (`main.go` 276-289, 463-469 loop forever), Prometheus keeps scraping.
- `perf_calls`: time passes, the Go scheduler serves each request, the clients of upstream
  calls send or give up, and `main` goes on once it is asked to. Neither an external
  client, a server elsewhere nor the signal is assumed to come.

## Findings

- `runq_long` (doc and code disagree): `tp_sched_switch` drops every latency above 2 s before it compares it with the
  maximum, so nothing of the size of the overflow bucket (from 8.39 s on) is ever published. The comments at
  `noisy-neighbour.bpf.c` 61-65 and 138-141, the gauge's Help (`debug.go` 69) and `main.go` 229-239 still send the
  reader to the maximum for "the true magnitude".
- `probe_interval` (doc and code disagree): `debug.go` reads the maximum and resets it in two
  system calls; a maximum stored in between is never published, although the gauge's Help
  promises the largest latency of the interval.
- `cgroups_stuck` (bug): the key of a system waiter behind a cgroup too short-lived for
  any walk is never pruned. `Collect` does not ask for the name of its other side, so it
  gets no `missing` marker and never expires.
- `series_inflated` (bug): a prune that deletes the key a scrape stands on makes the kernel
  restart the iteration, and `Collect` adds the keys it has passed a second time. The
  next scrape is lower, which `rate()` takes for a counter reset.
- `perf_size` (bug): `parseSize` tries the suffixes in the order of a Go map. When "b" comes before
  "kb", "512kb" is no number and the request gets the default of 1 MiB.

## Proofs

Every safety invariant, action property and refinement that a run checks is also proved, for every value of the
constants that satisfies the named assumptions. Each `Proofs` module states its
inductive invariant; TLC checked it on the run's instance before it was proved.

### Kernel side

For every number of CPUs, pids and cgroups, every map size and every bound, from the assumptions in
`RunqLatency` (finite sets; positive thresholds in order; `U64` larger than what a skewed subtraction can
wrap to and still pass the filter). `RunqLatencyProofs`:

| Theorem | Needs | Argument |
|---|---|---|
| `TypeCorrect` | - | `TypeOK` is inductive; `BucketType` bounds the bucket by the size of the set that is counted |
| `TimestampsGenuine` | no faults | `GenuineInv`: a task runs on at most one CPU (`SchedOK`) and no wait began in the future (`WaitsBegan`), so that a wakeup finds no timestamp of an earlier wait and a switch takes this wait's |
| `InsertRaceBounded` | - | `RaceInv`: a CPU that is to add has seen the key (`AddSeesEntry`), and once a key exists nobody new reaches its insert, so the losers and the CPUs about to lose are different CPUs, none of them the one that won |
| `WaitsAccounted` | no faults, no skew | `AccountInv`: on top of `GenuineInv`, the latency the program computes is the wait's, so the key of the handler is the key the wait is due to; then each step moves one unit between the places |
| `HistogramImplementsLedger` | no faults, no skew | `AccountInv` gives `counted < due` at each `Count` step |

`EveryWaitAccounted` and `EnqueuedIsGenuine` are not inductive by themselves: that a timestamp
is genuine depends on the scheduler never running a task twice, and that a count goes to
the right key depends on the timestamp being genuine.

`RunqMaximumProofs`:

| Theorem | Needs | Argument |
|---|---|---|
| `NothingOlderThanExit` | - | `ExitInv`: from the exit to the next fork of the pid every stamp follows the exit, up to `Skew` (`StampsFollowExit`), and a pid that is free with a timestamp has exited (`FreeHasExited`) |
| `ChargeWithinBounds` | - | `ChargeInv`: a switch or exit that is seen leaves no timestamp, so one that is there follows it (`StampsFollowSeen`), and no wakeup renews one (`StampsPrecedeWait`); a subtraction that passes the filters has not wrapped (`PlausibleNeverWraps`, from `WrapAssumption`) |
| `MaximumWasWaited` | no faults, no skew | `WaitedInv`: with genuine timestamps (`GenuineInv`) a handler carries the length of the wait its switch has ended (`CarriesWait`), and only handlers and resets write the maximum |
| `MaximumRemembers` | - | `RememberInv`: a CPU that is about to store has found the maximum lower, and what the maximum owes grows meanwhile by its own store only, unless it is one of the raced (`RacersKnown`, `StoresCover`) |

The last two hold for any number of CPUs and for resets at any moment.

`RunqProbeProofs`, for every threshold and with any kernel step between any two system calls of the probe:

| Theorem | Needs | Argument |
|---|---|---|
| `ProbeTypeCorrect` | - | `ProbeInv`: a walk counts an entry per step, and gives up one step after the map's room (`TotalsFollowCount`) |
| `AgesNeverWrap` | - | an entry stamped after the poll read its clock counts with age 0, every other with an age that is no larger than that clock |
| `WalkComplete` | - | `WalkInv`: what stood throughout and was met is in the totals (`SeenIsCovered`); the iterator ends only with nothing left to meet |
| `ProbeKeepsLedger` | no faults, no skew | the probe touches the maximum only |

### Export

`HistogramExportProofs` proves, for every number of buckets and all thresholds, from those assumptions and
`ThresholdAssumption` (the shortest recorded latency, 1 ms, is not below the first bound, 1 us: without it the empty
first bucket would be wrong):

| Theorem | Argument |
|---|---|
| `BucketsExact` | `BucketReached`: the loop's shifts reach bucket b exactly when the latency reaches the doubled bound of b. So one recorded latency raises the same cumulative buckets (`CumulRaised`) as sums of samples below a bound (`SamplesRaised`) |
| `SumBounded` | a latency in bucket b is between its bound and twice its bound, and is charged one and a half times the bound; the error of a sum is no larger than that of its parts |

Both speak of recursive definitions and of sums over sets. The library's induction theorems take operators, which the
provers cannot instantiate, so the induction is done over sets: `Induction`, `BucketInduction` and
`FiniteInduction` take the set of numbers or subsets for which a statement holds and follow from the
existence of a smallest counterexample (`WFMin`). `Recursion` and `SumExists` show that the
functions defined by recursion exist; which element a sum takes out first depends on the set alone, so that
no commutativity is needed.

### Collector

`CgroupCollectorProofs` proves, for every set of cgroups, pods and keys and for all times that satisfy
`TimesAssumption` and `MarginsAssumption`, and a finite set of ids (`FiniteAssumption`: they are 64-bit numbers):

| Theorem | Argument |
|---|---|
| `CollectorTypeCorrect` | `TypeOK` is inductive |
| `PruneSparesTheLiving` | `SeenInv`: a living id that has a name was met by the last walk and is met by the one under way, so its age is below the time since the last walk. `MarkerInv`: the marker of a living id without a name is younger than two walks. Both are below the retention, so what is expired is gone (`ExpiredGone`), and stays gone until it is deleted (`DeadInv`) |
| `TombstonesOutlastCounts` | `CountedInv`: an id whose counts are still there is not older than the retention and two prunes |
| `SeriesNeverRelabeled` | `NamesInv`: who was emitted as "unresolved" outlived the grace without a name, is therefore gone and out of the reach of the walk under way; who lost his name has no counts left, and gets none |

None of the last three is inductive: each depends on how old the last walk or the last prune can be,
which is what the strengthenings say.

How much a map of counts holds under a set of keys is `Held`, the number of its events when
those of each key are numbered: it grows by one with an event and never shrinks without a deletion
(`HeldGrows`, `HeldMonotone`), and it adds up over disjoint sets (`HeldAdd`). On it rest:

| Module, theorem | Argument |
|---|---|
| `EventsCounterProofs`, `QuietPollsExact` | `PollInv`: what a poll has added up is at most what the keys it has read hold, and at least that but for what was recorded since it began. `PrevInv`: the same of the last poll, as long as nothing is deleted |
| `CollectorSeriesProofs`, `SeriesNeverDrop` | `ScanInv`, `PublishedInv`: a scrape publishes at most what the keys of a series hold, and the next falls short of it only by what it has still to read; a key that feeds a series keeps feeding it (`FeedingStays`), because names and markers do not go without a deletion |

### perf-lab

`PerfLabServerProofs` proves, for every set of requests, every limit and duration, from `ServerAssumption` and
`CallsAssumption` (a client's request is not one of the server's own calls):

| Theorem | Argument |
|---|---|
| `ServerTypeCorrect` | the gauge is the number of requests in the handler or its deferred block (`GaugeOK`), so it stays between 0 and their number |
| `LayersAgree` | `ServerInv`: for each route the counter of its 200 is the number of requests that left it with that status (`ReturnedOK`), an upstream's counts are the calls that came back (`CallsOK`), and a call to an own route that came back ok has left the server as a 200 (`LifeOK`) |
| `GracefulShutdown` | `ShutdownOK`: whoever still waits was accepted before the shutdown, so what is left of its work and the time the shutdown has lasted fit into what it needs (`Paced`); a call has waited as long as the shutdown has lasted (`CallPaced`), and an upstream request is held up by one of its calls |

The theorems hold for every target of every upstream request, own routes and servers elsewhere.

### Only model-checked

Liveness (`EntriesDrain`, `DeadPruned`, `UpstreamComesBack`), which is beyond the prover, and the five properties that
the code violates.

`EnqueuedIsGenuine`, `EveryWaitAccounted`, `ImplementsLedger` and `MaxIsSomeWait` say nothing of faults, and all but the first
nothing of skewed clocks, in the runs as in the theorems: with a missed switch a latency is recorded that nobody waited.
What is left then is in `ExitHookMopsUp`, `ChargeBounded` and `EntriesDrain`, which are checked with all faults. The other
properties of the kernel side, the probe and the export are checked without faults too, but their theorems include them.

## Not modelled

- PSI: a scrape keeps nothing from the last one; what is left is parsing and the order of the file system.
- Cgroup labels: functions on strings. Two cgroups of one label are one series in `CollectorSeries`.
- Image promotion: the workflows are one job each, and Flux, which selects the tag, is outside the
  repository.
- A prune between the steps of `tp_sched_switch`. Prune deletes keys only of cgroups that have been
  gone for `deadCgroupRetention` (`OnlyDeadPruned`), and no task of a cgroup that is gone is switched,
  so no program stands between the look-up and the add of such a key.
- Failures of `Iterate` and `Delete`, which `main.go` only logs or ignores; among them the iterator's
  giving up after more steps than the map has room for, which only `RunqProbe` has. Failures of the walk of the cgroup
  tree: `refresh` passes over every error (`main.go` 301-312), so a subtree it cannot read counts as not seen, and `OnlyDeadPruned`
  assumes that a walk meets every cgroup that was there all along. Reuse of a cgroup inode; text of labels.
- The gap between key and value of an iterator in `Collect`, the events poll and `prune`: it may pass a key over that is deleted
  in it, and then starts again. What is proved of their sums speaks of scrapes and polls without a deletion. `RunqProbe` has
  both calls.
- Exits before the exit hook is attached (`main.go` 425-455 attaches it last). Switches the programs do not see are in `Faults`.
- perf-lab: panics (no handler has a path to one of its own; `Recoverer` would sit outside the telemetry and the
  status stay 200), memory, access logs, the profiler, hash and byte counters, percentiles.
- perf-lab, calls of upstream: another upstream request as the target, which would fan out again, and /metrics,
  whose answer may outgrow the server's write buffer and reach the client before its handler has ended; redirects; the parsing of
  `n` and `timeout`, of which `N` and `Timeout` are the clamped results.
- Manifests, dashboards, scripts, Taskfiles, generated code (`bpf/vmlinux.h`, by far the longest
  file of the repository).

## Plan

Done: all the modules above, and a theorem for every safety property that holds.

Left, proving: that `CollectorSeries` and `HistogramExport` together export the sum of the cgroups of a label,
bucket by bucket; and that every walk of `RunqProbe` is a sequence of `RunqMaximum`'s steps, so that the theorems on the
maximum carry over to the probe by refinement rather than by `Reset` standing for it at any moment.
