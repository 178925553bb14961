----------------------------- MODULE RunqMaximum -----------------------------
(***************************************************************************)
(* runq_lat_max, which the CPUs raise with a comparison and a store of     *)
(* their own (bpf/noisy-neighbour.bpf.c, MaxCompare and MaxStore of        *)
(* RunqLatency) while the probe of debug.go, which the program always      *)
(* runs, writes 0 into it.  The probe may do so at any moment here;        *)
(* RunqProbe says when it does.                                            *)
(*                                                                         *)
(* What the maximum is worth is judged by three histories.                 *)
(***************************************************************************)
EXTENDS RunqLatency

VARIABLES
    waits,      \* history: how long the tasks waited that a CPU has switched to
    raced,      \* history: the CPUs about to store that another one was about to
                \* store beside
    sinceReset  \* history: the largest latency compared since the reset that
                \* nobody raced

maxVars == <<waits, raced, sinceReset>>

Larger(a, b) == IF a > b THEN a ELSE b

Storing == {c \in CPUs : At(c, "max_store")}
------------------------------------------------------------------------------
\* debug.go, RunqLatMax.Put(0, 0)
Reset ==
    /\ runq_lat_max' = 0
    /\ sinceReset' = 0
    /\ UNCHANGED <<clock, schedVars, runq_enqueued, runq_histograms, handler, due, lost,
                   waits, raced>>

Ended == {p \in Pids : wokeAt[p] # None /\ wokeAt'[p] = None}

\* The CPUs whose latency the maximum covers from this step on, for all they know:
\* it is found not to be above it, or it is stored, and no other CPU is about to
\* store.
Covered ==
    {c \in CPUs :
        /\ At(c, "max_compare") \/ At(c, "max_store")
        /\ handler'[c].pc = "lookup"
        /\ IF At(c, "max_store") THEN c \notin raced ELSE Storing = {}}

\* A step of the kernel side.
Kernel ==
    /\ Next
    /\ waits' = waits \cup {clock - wokeAt[p] : p \in Ended}
    /\ raced' = IF \E c \in Storing', d \in Storing' : c # d
                THEN Storing' ELSE raced \cap Storing'
    /\ \/ Covered = {} /\ UNCHANGED sinceReset
       \/ \E c \in Covered : sinceReset' = Larger(sinceReset, handler[c].lat)

MaxInit == Init /\ waits = {} /\ raced = {} /\ sinceReset = 0

MaxSpec == MaxInit /\ [][Kernel \/ Reset]_<<vars, maxVars>>
------------------------------------------------------------------------------
\* The maximum is the latency of a wait that really happened, to the nanosecond:
\* no race and no reset between a comparison and its store makes one up.  (Said of
\* waits whose tracepoints all fire, by clocks that agree.)
MaxIsSomeWait == runq_lat_max > 0 => runq_lat_max \in waits

\* "two CPUs seeing the same old max and the smaller write landing last" is all
\* that can understate the maximum: it covers every latency compared since the
\* last reset but those compared or stored while another CPU stood between its own
\* comparison and store, wherever in between the reset falls.
NothingForgottenSinceReset == sinceReset <= runq_lat_max
==============================================================================
