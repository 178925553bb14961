--------------------------- MODULE RunqMaximumProofs ---------------------------
(***************************************************************************)
(* Proofs about the timestamps the exit hook lets through, about what a    *)
(* task can be charged with under every fault (RunqCharge), and about the  *)
(* maximum that CPUs raise and the probe resets (RunqMaximum).             *)
(*                                                                         *)
(*   NothingOlderThanExit       Spec => []ExitHookMopsUp                   *)
(*   ChargeWithinBounds         ChargeSpec => ChargeBounded                *)
(*   MaximumWasWaited           no faults, no skew: []MaxIsSomeWait        *)
(*   MaximumRemembers           MaxSpec => []NothingForgottenSinceReset    *)
(***************************************************************************)
EXTENDS RunqLatencyProofs, RunqMaximum, RunqCharge

(***************************************************************************)
(* The exit hook                                                           *)
(*                                                                         *)
(* Between its exit and the next fork of its pid a task is only stamped by *)
(* wakeups that follow the hook, and no clock reading is further behind    *)
(* than Skew.  A pid that is free without having exited was never woken.   *)
(***************************************************************************)
StampsFollowExit ==
    \A p \in Pids : exitedAt[p] # None =>
        /\ exitedAt[p] <= clock
        /\ runq_enqueued[p] # None => runq_enqueued[p] >= exitedAt[p] - Skew

FreeHasExited ==
    \A p \in Pids : task[p] = "free" /\ runq_enqueued[p] # None => exitedAt[p] # None

ExitInv == TypeOK /\ StampsFollowExit /\ FreeHasExited

\* A timestamp changes to None or to a reading of the clock that is at most Skew
\* behind; no wakeup stamps a free pid.
LEMMA StampFollows ==
    ASSUME TypeOK, StampsFollowExit, NEW p \in Pids, tp_sched_wakeup(p),
           UNCHANGED <<clock, exitedAt>>
    PROVE  /\ StampsFollowExit'
           /\ \A q \in Pids : q # p => runq_enqueued'[q] = runq_enqueued[q]
<1>1. PICK ts \in bpf_ktime_get_ns :
         runq_enqueued' = IF runq_enqueued[p] = None /\ Cardinality(Enqueued) < MAX_TASK_ENTRIES
                          THEN [runq_enqueued EXCEPT ![p] = ts]
                          ELSE runq_enqueued
  BY DEF tp_sched_wakeup
<1>2. ts >= clock - Skew /\ ts \in Nat
  BY DEF bpf_ktime_get_ns, TypeOK
<1>3. \A q \in Pids : exitedAt[q] # None => exitedAt[q] \in Nat
  BY DEF TypeOK
<1>4. clock \in Nat /\ Skew \in Nat
  BY NumbersAssumption DEF TypeOK
<1>5. exitedAt[p] # None => ts >= exitedAt[p] - Skew
  BY <1>2, <1>3, <1>4 DEF StampsFollowExit
<1>6. \A q \in Pids : q # p => runq_enqueued'[q] = runq_enqueued[q]
  BY <1>1 DEF TypeOK
<1>7. runq_enqueued'[p] \in {runq_enqueued[p], ts}
  BY <1>1 DEF TypeOK
<1> QED  BY <1>5, <1>6, <1>7 DEF StampsFollowExit

LEMMA ExitNext == ExitInv /\ [Next]_vars => ExitInv'
<1> SUFFICES ASSUME ExitInv, [Next]_vars PROVE StampsFollowExit' /\ FreeHasExited'
  BY NextType DEF ExitInv
<1>0. TypeOK /\ StampsFollowExit /\ FreeHasExited
  BY DEF ExitInv
<1>t. clock \in Nat /\ Skew \in Nat /\ \A p \in Pids : exitedAt[p] # None => exitedAt[p] \in Nat
  BY <1>0, NumbersAssumption DEF TypeOK
<1>1. CASE Tick
  BY <1>0, <1>1, <1>t DEF Tick, schedVars, mapVars, StampsFollowExit, FreeHasExited
<1>2. ASSUME NEW p \in Pids, NEW g \in Cgroups, Fork(p, g)
      PROVE  StampsFollowExit' /\ FreeHasExited'
  BY <1>0, <1>2 DEF Fork, mapVars, TypeOK, StampsFollowExit, FreeHasExited
<1>3. ASSUME NEW p \in Pids, Wakeup(p) PROVE StampsFollowExit' /\ FreeHasExited'
  <2>1. /\ StampsFollowExit'
        /\ \A q \in Pids : q # p => runq_enqueued'[q] = runq_enqueued[q]
    BY <1>0, <1>3, StampFollows DEF Wakeup
  <2>2. task'[p] = "runnable" /\ \A q \in Pids : q # p => task'[q] = task[q]
    BY <1>0, <1>3 DEF Wakeup, TypeOK
  <2> QED  BY <1>0, <1>3, <2>1, <2>2 DEF Wakeup, FreeHasExited
<1>4. ASSUME NEW p \in Pids, SpuriousWakeup(p) PROVE StampsFollowExit' /\ FreeHasExited'
  <2>1. /\ StampsFollowExit'
        /\ \A q \in Pids : q # p => runq_enqueued'[q] = runq_enqueued[q]
    BY <1>0, <1>4, StampFollows DEF SpuriousWakeup, schedVars
  <2> QED  BY <1>0, <1>4, <2>1 DEF SpuriousWakeup, schedVars, FreeHasExited
<1>5. ASSUME NEW c \in CPUs, NEW prev \in Pids \cup {Idle}, NEW next \in Pids \cup {Idle},
             ContextSwitch(c, prev, next),
             \A p \in Pids : runq_enqueued'[p] \in {runq_enqueued[p], None}
      PROVE  StampsFollowExit' /\ FreeHasExited'
  <2>1. UNCHANGED <<clock, exitedAt>>
    BY <1>5 DEF ContextSwitch
  <2>2. \A p \in Pids : task'[p] = "free" => task[p] = "free" \/ exitedAt[p] # None
    BY <1>5, SetsAssumption DEF ContextSwitch
  <2> QED  BY <1>0, <1>5, <2>1, <2>2 DEF StampsFollowExit, FreeHasExited
<1>6. ASSUME NEW c \in CPUs, NEW prev \in Pids \cup {Idle}, NEW next \in Pids,
             Switch(c, prev, next) \/ MissedSwitch(c, prev, next)
      PROVE  StampsFollowExit' /\ FreeHasExited'
  <2>1. ContextSwitch(c, prev, next)
    BY <1>6 DEF Switch, MissedSwitch
  <2>2. \A p \in Pids : runq_enqueued'[p] \in {runq_enqueued[p], None}
    BY <1>0, <1>6 DEF Switch, MissedSwitch, tp_sched_switch, TypeOK
  <2> QED  BY <1>5, <2>1, <2>2
<1>7. ASSUME NEW c \in CPUs, NEW p \in Pids, SwitchToIdle(c, p)
      PROVE  StampsFollowExit' /\ FreeHasExited'
  BY <1>5, <1>7 DEF SwitchToIdle
<1>8. ASSUME NEW c \in CPUs, NEW p \in Pids, Exit(c, p)
      PROVE  StampsFollowExit' /\ FreeHasExited'
  BY <1>0, <1>8, <1>t DEF Exit, tp_sched_process_exit, TypeOK, StampsFollowExit, FreeHasExited
<1>9. ASSUME UNCHANGED <<clock, task, exitedAt, runq_enqueued>>
      PROVE  StampsFollowExit' /\ FreeHasExited'
  BY <1>0, <1>9 DEF StampsFollowExit, FreeHasExited
<1>10. ASSUME NEW c \in CPUs, Handler(c)
       PROVE  UNCHANGED <<clock, task, exitedAt, runq_enqueued>>
  BY <1>10 DEF Handler, MaxCompare, MaxStore, HistLookup, HistAdd, HistInsert,
               schedVars, mapVars
<1> QED
  BY <1>1, <1>2, <1>3, <1>4, <1>6, <1>7, <1>8, <1>9, <1>10
  DEF Next, vars, schedVars, mapVars

LEMMA ExitInit == Init => ExitInv
BY InitType DEF Init, ExitInv, StampsFollowExit, FreeHasExited

\* Under every fault and any skew, a timestamp left by a task that is gone was
\* taken after the exit hook ran: the hook lets nothing older through, so what a
\* pid's next owner may be charged is bounded by the age of that owner's pid.
THEOREM NothingOlderThanExit == Spec => []ExitHookMopsUp
<1>1. ExitInv => ExitHookMopsUp
  BY DEF ExitInv, StampsFollowExit, FreeHasExited, ExitHookMopsUp
<1> QED  BY ExitInit, ExitNext, <1>1, PTL DEF Spec
------------------------------------------------------------------------------
(***************************************************************************)
(* What a switch charges                                                   *)
(*                                                                         *)
(* A switch or an exit that is seen leaves no timestamp, so one that is    *)
(* there was taken later; and no wakeup replaces a timestamp, so it is not *)
(* younger than the wait that ends.                                        *)
(***************************************************************************)
StampsFollowSeen ==
    \A p \in Pids :
        /\ seenAt[p] <= clock
        /\ runq_enqueued[p] # None => runq_enqueued[p] \in seenAt[p] - Skew .. clock

StampsPrecedeWait ==
    \A p \in Pids : wokeAt[p] # None /\ runq_enqueued[p] # None => runq_enqueued[p] <= wokeAt[p]

ChargeInv ==
    /\ TypeOK /\ SchedOK /\ WaitersRunnable
    /\ seenAt \in [Pids -> Nat]
    /\ StampsFollowSeen /\ StampsPrecedeWait

\* A timestamp stays, goes, or is a new reading of the clock.
LEMMA StampMoves ==
    ASSUME TypeOK, [Next]_vars
    PROVE  \A p \in Pids :
              runq_enqueued'[p] \in {runq_enqueued[p], None}
              \/ /\ Wakeup(p) \/ SpuriousWakeup(p)
                 /\ runq_enqueued'[p] \in bpf_ktime_get_ns
<1>1. ASSUME NEW p \in Pids, tp_sched_wakeup(p), NEW q \in Pids
      PROVE  runq_enqueued'[q] = runq_enqueued[q]
             \/ (q = p /\ runq_enqueued'[q] \in bpf_ktime_get_ns)
  BY <1>1 DEF tp_sched_wakeup, TypeOK
<1>2. ASSUME NEW c \in CPUs, NEW prev \in Pids \cup {Idle}, NEW next \in Pids,
             tp_sched_switch(c, prev, next), NEW q \in Pids
      PROVE  runq_enqueued'[q] \in {runq_enqueued[q], None}
  BY <1>2 DEF tp_sched_switch, TypeOK
<1>3. ASSUME NEW p \in Pids, tp_sched_process_exit(p), NEW q \in Pids
      PROVE  runq_enqueued'[q] \in {runq_enqueued[q], None}
  BY <1>3 DEF tp_sched_process_exit, TypeOK
<1>4. ASSUME NEW c \in CPUs, Handler(c) PROVE UNCHANGED runq_enqueued
  BY <1>4 DEF Handler, MaxCompare, MaxStore, HistLookup, HistAdd, HistInsert, mapVars
<1> QED
  BY <1>1, <1>2, <1>3, <1>4
  DEF Next, Tick, Fork, Wakeup, SpuriousWakeup, Switch, MissedSwitch, SwitchToIdle, Exit,
      vars, mapVars

LEMMA ClockMoves ==
    ASSUME TypeOK, [Next]_vars
    PROVE  clock' = clock \/ clock' = clock + 1
<1>1. ASSUME NEW c \in CPUs, Handler(c) PROVE UNCHANGED clock
  BY <1>1 DEF Handler, MaxCompare, MaxStore, HistLookup, HistAdd, HistInsert
<1> QED
  BY <1>1
  DEF Next, Tick, Fork, Wakeup, SpuriousWakeup, Switch, MissedSwitch, SwitchToIdle,
      ContextSwitch, Exit, vars

\* A wait begins with a wakeup, which reads the clock for it.
LEMMA WaitMoves ==
    ASSUME TypeOK, [Next]_vars, NEW p \in Pids
    PROVE  wokeAt'[p] \in {wokeAt[p], None} \/ (Wakeup(p) /\ wokeAt'[p] = clock)
<1>1. ASSUME NEW prev \in Pids \cup {Idle}, NEW next \in Pids, NEW missed \in BOOLEAN,
             EndWait(next, prev, missed)
      PROVE  wokeAt'[p] \in {wokeAt[p], None}
  BY <1>1 DEF EndWait, TypeOK
<1>2. ASSUME NEW q \in Pids, Wakeup(q)
      PROVE  wokeAt'[p] = wokeAt[p] \/ (q = p /\ wokeAt'[p] = clock)
  BY <1>2 DEF Wakeup, TypeOK
<1>3. ASSUME NEW c \in CPUs, Handler(c) PROVE UNCHANGED wokeAt
  BY <1>3 DEF Handler, MaxCompare, MaxStore, HistLookup, HistAdd, HistInsert, schedVars
<1> QED
  BY <1>1, <1>2, <1>3
  DEF Next, Tick, Fork, SpuriousWakeup, Switch, MissedSwitch, SwitchToIdle, Exit,
      vars, schedVars

LEMMA SeenLeavesNoStamp ==
    ASSUME TypeOK, NEW p \in Pids, Seen(p)
    PROVE  runq_enqueued'[p] = None
BY DEF Seen, Switch, Exit, tp_sched_switch, tp_sched_process_exit, TypeOK

LEMMA ChargeInvNext ==
    ASSUME ChargeInv, [ChargeNext]_<<vars, seenAt>>
    PROVE  ChargeInv'
<1>0. /\ TypeOK /\ SchedOK /\ WaitersRunnable /\ StampsFollowSeen /\ StampsPrecedeWait
      /\ seenAt \in [Pids -> Nat] /\ clock \in Nat /\ Skew \in Nat /\ [Next]_vars
  BY NumbersAssumption DEF ChargeInv, TypeOK, ChargeNext
<1>1. TypeOK' /\ SchedOK' /\ WaitersRunnable'
  BY <1>0, NextType, SchedOKNext, WaitersRunnableNext
<1>2. /\ seenAt' \in [Pids -> Nat]
      /\ \A p \in Pids : seenAt'[p] = seenAt[p] \/ (seenAt'[p] = clock /\ Seen(p))
  BY <1>0 DEF ChargeNext
<1>3. ASSUME NEW p \in Pids
      PROVE  /\ seenAt'[p] <= clock'
             /\ runq_enqueued'[p] # None => runq_enqueued'[p] \in seenAt'[p] - Skew .. clock'
  <2>1. /\ seenAt[p] \in Nat /\ seenAt[p] <= clock
        /\ runq_enqueued[p] # None => /\ runq_enqueued[p] \in Nat
                                      /\ runq_enqueued[p] \in seenAt[p] - Skew .. clock
    BY <1>0 DEF StampsFollowSeen, TypeOK
  <2>2. clock' = clock \/ clock' = clock + 1
    BY <1>0, ClockMoves
  <2>3. CASE seenAt'[p] = clock /\ Seen(p)
    BY <1>0, <2>2, <2>3, SeenLeavesNoStamp
  <2>4. CASE seenAt'[p] = seenAt[p]
    <3>1. CASE runq_enqueued'[p] \in {runq_enqueued[p], None}
      BY <1>0, <2>1, <2>2, <2>4, <3>1
    <3>2. CASE runq_enqueued'[p] \in bpf_ktime_get_ns
      <4>1. runq_enqueued'[p] \in Nat /\ runq_enqueued'[p] <= clock
            /\ runq_enqueued'[p] >= clock - Skew
        BY <1>0, <3>2 DEF bpf_ktime_get_ns
      <4> QED  BY <1>0, <2>1, <2>2, <2>4, <4>1
    <3> QED  BY <1>0, <3>1, <3>2, StampMoves
  <2> QED  BY <1>2, <2>3, <2>4
<1>4. ASSUME NEW p \in Pids, wokeAt'[p] # None, runq_enqueued'[p] # None
      PROVE  runq_enqueued'[p] <= wokeAt'[p]
  <2>1. runq_enqueued[p] # None => runq_enqueued[p] \in Nat /\ runq_enqueued[p] <= clock
    BY <1>0 DEF StampsFollowSeen, TypeOK
  <2>2. \A t \in bpf_ktime_get_ns : t <= clock
    BY DEF bpf_ktime_get_ns
  <2>3. CASE Wakeup(p) /\ wokeAt'[p] = clock
    BY <1>0, <1>4, <2>1, <2>2, <2>3, StampMoves
  <2>4. CASE wokeAt'[p] = wokeAt[p] /\ ~ Wakeup(p)
    <3>1. ~ SpuriousWakeup(p)
      BY <1>0, <1>4, <2>4 DEF SpuriousWakeup, WaitersRunnable
    <3>2. runq_enqueued'[p] = runq_enqueued[p]
      BY <1>0, <1>4, <2>4, <3>1, StampMoves
    <3> QED  BY <1>0, <1>4, <2>4, <3>2 DEF StampsPrecedeWait
  <2>5. Wakeup(p) => wokeAt'[p] = clock
    BY <1>0 DEF Wakeup, TypeOK
  <2> QED  BY <1>0, <1>4, <2>3, <2>4, <2>5, WaitMoves
<1> QED
  BY <1>1, <1>2, <1>3, <1>4 DEF ChargeInv, StampsFollowSeen, StampsPrecedeWait

\* A latency that passes the filters is the difference of its clock readings.
LEMMA PlausibleNeverWraps ==
    ASSUME TypeOK, NEW now \in bpf_ktime_get_ns, NEW ts \in Nat, ts <= clock,
           Plausible(RunqLat(now, ts))
    PROVE  RunqLat(now, ts) = now - ts
<1>1. /\ now \in Nat /\ now >= clock - Skew /\ clock \in Nat /\ clock <= MaxTime
      /\ Skew \in Nat /\ MaxTime \in Nat /\ MAX_PLAUSIBLE_RUNQ_LAT_NS \in Nat /\ U64 \in Nat
  BY NumbersAssumption, WrapAssumption DEF bpf_ktime_get_ns, TypeOK
<1>2. CASE now >= ts
  BY <1>2 DEF RunqLat
<1>3. CASE ~ (now >= ts)
  <2>1. RunqLat(now, ts) = U64 + now - ts
    BY <1>3 DEF RunqLat
  <2>2. U64 + now - ts > MAX_PLAUSIBLE_RUNQ_LAT_NS
    BY <1>1, WrapAssumption
  <2> QED  BY <1>1, <2>1, <2>2 DEF Plausible
<1> QED  BY <1>2, <1>3

LEMMA SwitchCharges ==
    ASSUME ChargeInv, NEW c \in CPUs, NEW prev \in Pids \cup {Idle}, NEW p \in Pids,
           tp_sched_switch(c, prev, p), handler[c] = None, handler'[c] # None
    PROVE  /\ handler'[c].lat <= clock - seenAt[p] + Skew
           /\ wokeAt[p] # None => handler'[c].lat >= clock - wokeAt[p] - Skew
<1>0. /\ TypeOK /\ clock \in Nat /\ Skew \in Nat /\ seenAt[p] \in Nat
      /\ wokeAt[p] # None => wokeAt[p] \in Nat
  BY NumbersAssumption DEF ChargeInv, TypeOK
<1>1. runq_enqueued[p] # None
  BY DEF tp_sched_switch
<1>2. /\ runq_enqueued[p] \in Nat /\ runq_enqueued[p] <= clock
      /\ runq_enqueued[p] >= seenAt[p] - Skew
      /\ wokeAt[p] # None => runq_enqueued[p] <= wokeAt[p]
  BY <1>0, <1>1 DEF ChargeInv, StampsFollowSeen, StampsPrecedeWait, TypeOK
<1>3. PICK now \in bpf_ktime_get_ns :
         RecordLatency(c, prev, p, RunqLat(now, runq_enqueued[p]))
  BY <1>1 DEF tp_sched_switch
<1>4. now \in Nat /\ now <= clock /\ now >= clock - Skew
  BY <1>0 DEF bpf_ktime_get_ns
<1>5. /\ Plausible(RunqLat(now, runq_enqueued[p]))
      /\ handler'[c].lat = RunqLat(now, runq_enqueued[p])
  BY <1>0, <1>3 DEF RecordLatency, TypeOK
<1>6. handler'[c].lat = now - runq_enqueued[p]
  BY <1>0, <1>2, <1>5, PlausibleNeverWraps
<1> QED  BY <1>0, <1>2, <1>4, <1>6

\* Only a switch that is seen starts a handler, and to the task it charges.
LEMMA OnlySwitchCharges ==
    ASSUME TypeOK, [Next]_vars, NEW c \in CPUs, NEW p \in Pids, Charges(c, p)
    PROVE  \E prev \in Pids \cup {Idle} : tp_sched_switch(c, prev, p)
<1>1. handler[c] = None /\ handler'[c] # None /\ running'[c] = p
  BY DEF Charges
<1>2. PICK d \in CPUs, prev \in Pids \cup {Idle}, next \in Pids : Switch(d, prev, next)
  <2>1. ASSUME NEW d \in CPUs, Handler(d) PROVE FALSE
    <3>1. handler[d] # None
      BY <2>1 DEF Handler, At, MaxCompare, MaxStore, HistLookup, HistAdd, HistInsert
    <3>2. \A e \in CPUs : e # d => handler'[e] = handler[e]
      BY <2>1
      DEF Handler, MaxCompare, MaxStore, HistLookup, HistAdd, HistInsert, GoTo, Return, TypeOK
    <3> QED  BY <1>1, <3>1, <3>2
  <2> QED
    BY <1>1, <2>1
    DEF Next, Tick, Fork, Wakeup, SpuriousWakeup, MissedSwitch, SwitchToIdle, Exit, vars
<1>3. d = c
  BY <1>1, <1>2 DEF Switch, tp_sched_switch, RecordLatency, TypeOK
<1>4. running'[c] = next
  BY <1>2, <1>3 DEF Switch, ContextSwitch, TypeOK
<1> QED  BY <1>1, <1>2, <1>3, <1>4 DEF Switch

\* Whatever switches are missed, whatever wakeups are spurious, however pids are
\* reused: what a switch charges a task with begins after the last switch to its pid
\* or exit of it that the programs saw, and covers the wait that ends, up to Skew.
THEOREM ChargeWithinBounds == ChargeSpec => ChargeBounded
<1>1. ChargeInit => ChargeInv
  <2>1. Init => SchedOK /\ WaitersRunnable
    BY SetsAssumption DEF Init, SchedOK, WaitersRunnable
  <2>2. ChargeInit => StampsFollowSeen /\ StampsPrecedeWait /\ seenAt \in [Pids -> Nat]
    BY DEF ChargeInit, Init, StampsFollowSeen, StampsPrecedeWait
  <2> QED  BY <2>1, <2>2, InitType DEF ChargeInit, ChargeInv
<1>2. ChargeInv /\ [ChargeNext]_<<vars, seenAt>> => ChargeInv'
  BY ChargeInvNext
<1>3. ChargeInv /\ [ChargeNext]_<<vars, seenAt>> =>
        [\A c \in CPUs, p \in Pids : Charges(c, p) =>
            /\ handler'[c].lat <= clock - seenAt[p] + Skew
            /\ wokeAt[p] # None => handler'[c].lat >= clock - wokeAt[p] - Skew]_<<vars, seenAt>>
  <2> SUFFICES ASSUME ChargeInv, ChargeNext, NEW c \in CPUs, NEW p \in Pids, Charges(c, p)
               PROVE  /\ handler'[c].lat <= clock - seenAt[p] + Skew
                      /\ wokeAt[p] # None => handler'[c].lat >= clock - wokeAt[p] - Skew
    OBVIOUS
  <2>1. PICK prev \in Pids \cup {Idle} : tp_sched_switch(c, prev, p)
    BY OnlySwitchCharges DEF ChargeInv, ChargeNext
  <2> QED  BY <2>1, SwitchCharges DEF Charges
<1> QED  BY <1>1, <1>2, <1>3, PTL DEF ChargeSpec, ChargeBounded
------------------------------------------------------------------------------
(***************************************************************************)
(* The maximum is a wait                                                   *)
(*                                                                         *)
(* With genuine timestamps and clocks that agree a handler carries the     *)
(* length of the wait that its switch ends, and only handlers write the    *)
(* maximum.                                                                *)
(***************************************************************************)
MaxNext == Kernel \/ Reset

CarriesWait == \A c \in CPUs : handler[c] # None => handler[c].lat \in waits

WaitedInv == GenuineInv /\ CarriesWait /\ MaxIsSomeWait

LEMMA OnlyMaxStoreWrites ==
    ASSUME [Next]_vars
    PROVE  UNCHANGED runq_lat_max \/ \E c \in CPUs : MaxStore(c)
<1>1. ASSUME NEW c \in CPUs, Handler(c) PROVE UNCHANGED runq_lat_max \/ MaxStore(c)
  BY <1>1 DEF Handler, MaxCompare, HistLookup, HistAdd, HistInsert, mapVars
<1> QED
  BY <1>1
  DEF Next, Tick, Fork, Wakeup, SpuriousWakeup, Switch, MissedSwitch, SwitchToIdle,
      ContextSwitch, Exit, vars, mapVars

LEMMA GenuineInvNext ==
    ASSUME Faults = {}, GenuineInv, [MaxNext]_<<vars, maxVars>>
    PROVE  GenuineInv'
<1>1. CASE [Next]_vars
  BY <1>1, NextType, SchedOKNext, WaitsBeganNext, GenuineNext DEF GenuineInv
<1>2. CASE Reset
  BY <1>2 DEF Reset, schedVars, GenuineInv, TypeOK, SchedOK, WaitsBegan, EnqueuedIsGenuine
<1> QED  BY <1>1, <1>2 DEF MaxNext, Kernel

\* A switch that starts a handler ends a wait of that length.
LEMMA SwitchCarries ==
    ASSUME Skew = 0, WaitedInv, Kernel,
           NEW c \in CPUs, NEW prev \in Pids \cup {Idle}, NEW next \in Pids,
           Switch(c, prev, next)
    PROVE  CarriesWait'
<1>0. /\ GenuineInv /\ TypeOK /\ CarriesWait /\ waits \subseteq waits'
      /\ tp_sched_switch(c, prev, next) /\ wokeAt'[next] = None
  BY DEF WaitedInv, GenuineInv, Kernel, Switch, EndWait, TypeOK
<1>1. CASE UNCHANGED handler
  BY <1>0, <1>1 DEF CarriesWait
<1>2. CASE runq_enqueued[next] # None
  <2>1. wokeAt[next] # None /\ RecordLatency(c, prev, next, clock - wokeAt[next])
    BY <1>0, <1>2, TrueLatency
  <2>2. next \in Ended
    BY <1>0, <2>1 DEF Ended
  <2>3. clock - wokeAt[next] \in waits'
    BY <2>2 DEF Kernel
  <2> QED  BY <1>0, <2>1, <2>3 DEF CarriesWait, RecordLatency, TypeOK
<1> QED  BY <1>0, <1>1, <1>2 DEF tp_sched_switch

LEMMA CarriesWaitNext ==
    ASSUME Skew = 0, WaitedInv, [MaxNext]_<<vars, maxVars>>
    PROVE  CarriesWait'
<1>0. TypeOK /\ CarriesWait
  BY DEF WaitedInv, GenuineInv
<1>1. CASE UNCHANGED <<handler, waits>>
  BY <1>0, <1>1 DEF CarriesWait
<1>2. CASE Kernel
  <2>0. Next /\ waits \subseteq waits'
    BY <1>2 DEF Kernel
  <2>1. CASE UNCHANGED handler
    BY <1>0, <2>0, <2>1 DEF CarriesWait
  <2>2. ASSUME NEW c \in CPUs, Handler(c) PROVE CarriesWait'
    <3>0. handler[c] # None /\ handler[c] \in Handlers
      BY <1>0, <2>2, HandlerType
      DEF Handler, At, MaxCompare, MaxStore, HistLookup, HistAdd, HistInsert
    <3>1. CASE Return(c)
      BY <1>0, <2>0, <3>1 DEF Return, CarriesWait, TypeOK
    <3>2. CASE \E pc : GoTo(c, pc)
      <4>1. PICK pc : handler' = [handler EXCEPT ![c] = [handler[c] EXCEPT !.pc = pc]]
        BY <1>0, <3>2 DEF GoTo, TypeOK
      <4>2. handler'[c].lat = handler[c].lat
        BY <1>0, <3>0, <4>1 DEF TypeOK
      <4> QED  BY <1>0, <2>0, <3>0, <4>1, <4>2 DEF CarriesWait, TypeOK
    <3> QED
      BY <2>2, <3>1, <3>2 DEF Handler, MaxCompare, MaxStore, HistLookup, HistAdd, HistInsert
  <2> QED
    BY <1>2, <2>0, <2>1, <2>2, SwitchCarries
    DEF Next, Tick, Fork, Wakeup, SpuriousWakeup, MissedSwitch, SwitchToIdle, Exit
<1> QED  BY <1>1, <1>2 DEF MaxNext, Reset, vars, maxVars

\* With no tracepoint missed or spurious and clocks that agree, the maximum is never
\* made up: a task waited exactly so long, however CPUs and the probe race for it.
THEOREM MaximumWasWaited ==
    ASSUME Faults = {}, Skew = 0
    PROVE  MaxSpec => []MaxIsSomeWait
<1>1. MaxInit => WaitedInv
  BY GenuineInit DEF MaxInit, Init, WaitedInv, CarriesWait, MaxIsSomeWait
<1>2. WaitedInv /\ [MaxNext]_<<vars, maxVars>> => WaitedInv'
  <2> SUFFICES ASSUME WaitedInv, [MaxNext]_<<vars, maxVars>> PROVE WaitedInv'
    OBVIOUS
  <2>0. GenuineInv /\ CarriesWait /\ MaxIsSomeWait
    BY DEF WaitedInv
  <2>1. GenuineInv' /\ CarriesWait'
    BY <2>0, GenuineInvNext, CarriesWaitNext
  <2>2. waits \subseteq waits'
    BY DEF MaxNext, Kernel, Reset, maxVars
  <2>3. \/ UNCHANGED runq_lat_max
        \/ runq_lat_max' = 0
        \/ \E c \in CPUs : handler[c] # None /\ runq_lat_max' = handler[c].lat
    BY OnlyMaxStoreWrites DEF MaxNext, Kernel, Reset, MaxStore, At, vars, mapVars
  <2>4. MaxIsSomeWait'
    BY <2>0, <2>2, <2>3 DEF MaxIsSomeWait, CarriesWait
  <2> QED  BY <2>1, <2>4 DEF WaitedInv
<1>3. WaitedInv => MaxIsSomeWait
  BY DEF WaitedInv
<1> QED  BY <1>1, <1>2, <1>3, PTL DEF MaxSpec, MaxNext
------------------------------------------------------------------------------
(***************************************************************************)
(* What the maximum remembers                                              *)
(*                                                                         *)
(* A CPU about to store has found the maximum lower, and while it stands   *)
(* there sinceReset only grows by its own store: whoever stands there too  *)
(* has made it one of the raced.                                           *)
(***************************************************************************)
RacersKnown ==
    /\ raced \subseteq Storing
    /\ \A c, d \in Storing : c # d => c \in raced

StoresCover == \A c \in Storing : sinceReset <= handler[c].lat

RememberInv ==
    /\ TypeOK /\ sinceReset \in Nat
    /\ RacersKnown /\ StoresCover /\ NothingForgottenSinceReset

LEMMA RacersKnownNext ==
    ASSUME RacersKnown, [MaxNext]_<<vars, maxVars>>
    PROVE  RacersKnown'
<1>1. CASE Kernel
  BY <1>1 DEF Kernel, RacersKnown
<1>2. CASE UNCHANGED <<handler, raced>>
  BY <1>2 DEF RacersKnown, Storing, At
<1> QED  BY <1>1, <1>2 DEF MaxNext, Reset, vars, maxVars

\* A kernel step that neither compares with the maximum nor stores it.
LEMMA ElsewhereKernel ==
    ASSUME RememberInv, Kernel, UNCHANGED runq_lat_max,
           \A c \in CPUs : \/ handler'[c] = handler[c]
                           \/ handler[c] = None /\ handler'[c].pc = "max_compare"
                           \/ handler[c] # None /\ handler[c].pc \in {"lookup", "add", "insert"}
                              /\ (handler'[c] = None \/ handler'[c].pc \in {"add", "insert"})
    PROVE  StoresCover' /\ NothingForgottenSinceReset' /\ sinceReset' \in Nat
<1>1. Covered = {}
  BY DEF Covered, At
<1>2. UNCHANGED sinceReset
  BY <1>1 DEF Kernel
<1>3. \A c \in Storing' : c \in Storing /\ handler'[c] = handler[c]
  BY DEF Storing, At
<1> QED  BY <1>2, <1>3 DEF RememberInv, StoresCover, NothingForgottenSinceReset

LEMMA CompareRemembers ==
    ASSUME RememberInv, Kernel, NEW c \in CPUs, MaxCompare(c)
    PROVE  StoresCover' /\ NothingForgottenSinceReset' /\ sinceReset' \in Nat
<1>0. /\ TypeOK /\ sinceReset \in Nat /\ sinceReset <= runq_lat_max /\ runq_lat_max \in Nat
      /\ UNCHANGED runq_lat_max /\ At(c, "max_compare")
      /\ handler[c] # None /\ handler[c] \in Handlers /\ handler[c].lat \in Nat
  BY DEF RememberInv, NothingForgottenSinceReset, TypeOK, MaxCompare, At, mapVars, Handlers
<1> DEFINE pc == IF handler[c].lat > runq_lat_max THEN "max_store" ELSE "lookup"
<1>1. handler' = [handler EXCEPT ![c] = [handler[c] EXCEPT !.pc = pc]]
  BY <1>0 DEF MaxCompare, GoTo, TypeOK
<1>2. /\ handler'[c].pc = pc /\ handler'[c].lat = handler[c].lat
      /\ \A d \in CPUs : d # c => handler'[d] = handler[d]
  BY <1>0, <1>1 DEF TypeOK
<1>3. \A d \in Storing' : d # c => d \in Storing /\ handler'[d].lat = handler[d].lat
  BY <1>2 DEF Storing, At
<1>4. \A d \in Covered : d = c /\ Storing = {} /\ pc = "lookup"
  BY <1>0, <1>2 DEF Covered, At
<1>5. CASE UNCHANGED sinceReset
  <2>1. c \in Storing' => sinceReset <= handler'[c].lat
    BY <1>0, <1>2 DEF Storing, At
  <2> QED  BY <1>0, <1>3, <1>5, <2>1 DEF RememberInv, StoresCover, NothingForgottenSinceReset
<1>6. CASE Covered # {} /\ sinceReset' = Larger(sinceReset, handler[c].lat)
  <2>1. Storing = {} /\ pc = "lookup"
    BY <1>4, <1>6
  <2>2. Storing' = {}
    BY <1>2, <1>3, <2>1 DEF Storing, At
  <2>3. handler[c].lat <= runq_lat_max
    BY <1>0, <2>1
  <2> QED  BY <1>0, <1>6, <2>2, <2>3 DEF StoresCover, NothingForgottenSinceReset, Larger
<1>7. \/ UNCHANGED sinceReset
      \/ \E d \in Covered : sinceReset' = Larger(sinceReset, handler[d].lat)
  BY DEF Kernel
<1> QED  BY <1>4, <1>5, <1>6, <1>7

LEMMA StoreRemembers ==
    ASSUME RememberInv, Kernel, NEW c \in CPUs, MaxStore(c)
    PROVE  StoresCover' /\ NothingForgottenSinceReset' /\ sinceReset' \in Nat
<1>0. /\ TypeOK /\ sinceReset \in Nat /\ RacersKnown /\ StoresCover
      /\ c \in Storing /\ runq_lat_max' = handler[c].lat
      /\ handler[c] # None /\ handler[c] \in Handlers /\ handler[c].lat \in Nat
  BY DEF RememberInv, TypeOK, MaxStore, At, Storing, Handlers
<1>1. handler' = [handler EXCEPT ![c] = [handler[c] EXCEPT !.pc = "lookup"]]
  BY <1>0 DEF MaxStore, GoTo, TypeOK
<1>2. /\ handler'[c].pc = "lookup"
      /\ \A d \in CPUs : d # c => handler'[d] = handler[d]
  BY <1>0, <1>1 DEF TypeOK
<1>3. \A d \in Storing' : d # c /\ d \in Storing /\ handler'[d] = handler[d]
  BY <1>2 DEF Storing, At
<1>4. sinceReset <= handler[c].lat
  BY <1>0 DEF StoresCover
<1>5. \A d \in Covered : d = c /\ c \notin raced
  BY <1>0, <1>2 DEF Covered, Storing, At
<1>6. CASE UNCHANGED sinceReset
  BY <1>0, <1>3, <1>4, <1>6 DEF StoresCover, NothingForgottenSinceReset
<1>7. CASE Covered # {} /\ sinceReset' = Larger(sinceReset, handler[c].lat)
  <2>1. Storing' = {}
    BY <1>0, <1>3, <1>5, <1>7 DEF RacersKnown
  <2> QED  BY <1>0, <1>4, <1>7, <2>1 DEF StoresCover, NothingForgottenSinceReset, Larger
<1>8. \/ UNCHANGED sinceReset
      \/ \E d \in Covered : sinceReset' = Larger(sinceReset, handler[d].lat)
  BY DEF Kernel
<1> QED  BY <1>5, <1>6, <1>7, <1>8

LEMMA RememberNext ==
    ASSUME RememberInv, [MaxNext]_<<vars, maxVars>>
    PROVE  RememberInv'
<1>0. TypeOK /\ RacersKnown
  BY DEF RememberInv
<1>1. TypeOK'
  <2>1. CASE [Next]_vars
    BY <1>0, <2>1, NextType
  <2>2. CASE Reset
    BY <1>0, <2>2 DEF Reset, schedVars, TypeOK
  <2> QED  BY <2>1, <2>2 DEF MaxNext, Kernel
<1>2. RacersKnown'
  BY <1>0, RacersKnownNext
<1> SUFFICES StoresCover' /\ NothingForgottenSinceReset' /\ sinceReset' \in Nat
  BY <1>1, <1>2 DEF RememberInv
<1>3. CASE UNCHANGED <<vars, maxVars>>
  BY <1>3
  DEF RememberInv, StoresCover, NothingForgottenSinceReset, Storing, At, vars, mapVars, maxVars
<1>4. CASE Reset
  <2>1. \A c \in Storing' : handler'[c].lat \in Nat
    BY <1>0, <1>4 DEF Reset, Storing, At, TypeOK, Handlers
  <2> QED  BY <1>4, <2>1 DEF Reset, StoresCover, NothingForgottenSinceReset
<1>5. ASSUME Kernel PROVE StoresCover' /\ NothingForgottenSinceReset' /\ sinceReset' \in Nat
  <2>0. Next
    BY <1>5 DEF Kernel
  <2>1. ASSUME NEW c \in CPUs, HistLookup(c) \/ HistAdd(c) \/ HistInsert(c)
        PROVE  /\ handler[c] # None /\ handler[c].pc \in {"lookup", "add", "insert"}
               /\ handler'[c] = None \/ handler'[c].pc \in {"add", "insert"}
               /\ \A d \in CPUs : d # c => handler'[d] = handler[d]
               /\ UNCHANGED runq_lat_max
    <3>1. handler[c] # None /\ handler[c] \in Handlers
      BY <1>0, <2>1, HandlerType DEF At, HistLookup, HistAdd, HistInsert
    <3> QED
      BY <1>0, <2>1, <3>1
      DEF At, HistLookup, HistAdd, HistInsert, GoTo, Return, mapVars, TypeOK, Handlers
  <2>2. ASSUME NEW c \in CPUs, NEW prev \in Pids \cup {Idle}, NEW next \in Pids,
               Switch(c, prev, next)
        PROVE  /\ UNCHANGED runq_lat_max
               /\ \A d \in CPUs : handler'[d] = handler[d]
                                  \/ (handler[d] = None /\ handler'[d].pc = "max_compare")
    <3>1. handler[c] = None /\ UNCHANGED runq_lat_max /\ tp_sched_switch(c, prev, next)
      BY <2>2 DEF Switch, ContextSwitch
    <3> QED  BY <1>0, <3>1 DEF tp_sched_switch, RecordLatency, TypeOK
  <2>3. CASE UNCHANGED <<handler, runq_lat_max>>
    BY <1>5, <2>3, ElsewhereKernel
  <2>4. ASSUME NEW c \in CPUs, NEW prev \in Pids \cup {Idle}, NEW next \in Pids,
               Switch(c, prev, next)
        PROVE  StoresCover' /\ NothingForgottenSinceReset' /\ sinceReset' \in Nat
    BY <1>5, <2>2, <2>4, ElsewhereKernel
  <2>5. ASSUME NEW c \in CPUs, HistLookup(c) \/ HistAdd(c) \/ HistInsert(c)
        PROVE  StoresCover' /\ NothingForgottenSinceReset' /\ sinceReset' \in Nat
    BY <1>5, <2>1, <2>5, ElsewhereKernel
  <2>6. ASSUME NEW c \in CPUs, Handler(c)
        PROVE  StoresCover' /\ NothingForgottenSinceReset' /\ sinceReset' \in Nat
    BY <1>5, <2>5, <2>6, CompareRemembers, StoreRemembers DEF Handler
  <2> QED
    BY <2>0, <2>3, <2>4, <2>6
    DEF Next, Tick, Fork, Wakeup, SpuriousWakeup, MissedSwitch, SwitchToIdle, ContextSwitch,
        Exit, mapVars
<1> QED  BY <1>3, <1>4, <1>5 DEF MaxNext

\* On any number of CPUs, whatever the tracepoints do and wherever between a
\* comparison and its store the probe resets the maximum, no latency compared since
\* the reset is forgotten but in a race of two CPUs that both have found it larger.
THEOREM MaximumRemembers == MaxSpec => []NothingForgottenSinceReset
<1>1. MaxInit => RememberInv
  BY InitType
  DEF MaxInit, Init, RememberInv, RacersKnown, StoresCover, NothingForgottenSinceReset,
      Storing, At
<1>2. RememberInv => NothingForgottenSinceReset
  BY DEF RememberInv
<1> QED  BY <1>1, RememberNext, <1>2, PTL DEF MaxSpec, MaxNext
================================================================================
