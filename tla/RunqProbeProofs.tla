---------------------------- MODULE RunqProbeProofs ----------------------------
(***************************************************************************)
(* Proofs about RunqProbe: the debug probe beside the tracepoint programs, *)
(* for every size of runq_enqueued, every threshold and however the kernel *)
(* side moves between two of the probe's system calls.                     *)
(*                                                                         *)
(*   ProbeTypeCorrect         ProbeSpec => []ProbeTypeOK                   *)
(*   AgesNeverWrap            ProbeSpec => []AgesAreReal                   *)
(*   WalkComplete             ProbeSpec => []WalkSeesStable                *)
(*   ProbeKeepsLedger         no faults, no skew: ImplementsLedger         *)
(***************************************************************************)
EXTENDS RunqProbe, RunqLatencyProofs

USE DEF Handlers

ProbeNext == Kernel \/ Probe

(***************************************************************************)
(* Types                                                                   *)
(*                                                                         *)
(* The iterator gives up beyond MAX_TASK_ENTRIES keys and a key adds at    *)
(* most one entry: the totals stay small only because they follow count.   *)
(***************************************************************************)
TotalsFollowCount ==
    /\ pc = "walk" => walk.entries <= count /\ walk.stale <= count
    /\ pc = "value" => last \in Pids /\ walk.entries < count /\ walk.stale < count

StableEnqueued == stable \subseteq Enqueued

ProbeInv == TypeOK /\ ProbeTypeOK /\ TotalsFollowCount /\ StableEnqueued

\* The probe touches nothing of the kernel side but the maximum.
LEMMA ProbeTouchesOnlyMax ==
    ASSUME Probe
    PROVE  /\ UNCHANGED <<clock, schedVars, runq_enqueued, runq_histograms, handler, due, lost>>
           /\ UNCHANGED runq_lat_max \/ (ResetMax /\ runq_lat_max' = 0)
BY DEF Probe, PollBegins, IterNext, NextKey, IterValue, IterEnds, PublishWalk, LookupMax,
       ResetMax, vars, mapVars

LEMMA KernelType ==
    ASSUME TypeOK, [ProbeNext]_allVars
    PROVE  TypeOK'
<1>1. CASE [Next]_vars
  BY <1>1, NextType
<1>2. CASE Probe
  BY <1>2, ProbeTouchesOnlyMax DEF TypeOK, schedVars
<1> QED  BY <1>1, <1>2 DEF ProbeNext, Kernel, allVars

\* An age is a number, and at most the clock reading it is taken against.
LEMMA AgeBounds ==
    ASSUME NEW now \in Nat, NEW ts \in Nat
    PROVE  Age(now, ts) \in Nat /\ Age(now, ts) <= now
BY DEF Age

LEMMA EntryAge ==
    ASSUME TypeOK, ProbeTypeOK, NEW p \in Enqueued
    PROVE  /\ Age(nowNs, runq_enqueued[p]) \in Nat
           /\ Age(nowNs, runq_enqueued[p]) <= nowNs
<1>1. nowNs \in Nat
  BY NumbersAssumption DEF ProbeTypeOK
<1>2. runq_enqueued[p] \in Nat
  BY DEF Enqueued, TypeOK
<1> QED  BY <1>1, <1>2, AgeBounds

LEMMA KernelMovesStable ==
    ASSUME stable \subseteq Enqueued, Kernel
    PROVE  /\ UNCHANGED probeVars
           /\ stable' \subseteq stable /\ stable' \subseteq Enqueued'
           /\ \A p \in stable' : runq_enqueued'[p] = runq_enqueued[p]
BY DEF Kernel, Enqueued

LEMMA ProbeInvNext == ProbeInv /\ [ProbeNext]_allVars => ProbeInv'
<1> SUFFICES ASSUME ProbeInv, [ProbeNext]_allVars
             PROVE  ProbeTypeOK' /\ TotalsFollowCount' /\ StableEnqueued'
  BY KernelType DEF ProbeInv
<1>0. TypeOK /\ ProbeTypeOK /\ TotalsFollowCount /\ StableEnqueued
  BY DEF ProbeInv
<1> USE DEF ProbeTypeOK, TotalsFollowCount, StableEnqueued
<1>m. MAX_TASK_ENTRIES \in Nat
  BY NumbersAssumption
<1>1. CASE UNCHANGED allVars
  BY <1>0, <1>1 DEF allVars, probeVars, vars, mapVars, Enqueued
<1>2. CASE Kernel
  <2>1. UNCHANGED probeVars /\ stable' \subseteq Enqueued'
    BY <1>0, <1>2, KernelMovesStable
  <2> QED  BY <1>0, <2>1 DEF probeVars
<1>3. CASE PollBegins
  BY <1>0, <1>3, <1>m DEF PollBegins, NoEntries, vars, mapVars, Enqueued, TypeOK
<1>4. CASE IterNext
  <2>1. PICK p \in Enqueued \ Passed : last' = p /\ seen' = Passed \cup {p}
    BY <1>4 DEF IterNext, NextKey
  <2>2. p \in Pids /\ Passed \subseteq Pids
    BY <1>0 DEF Enqueued, Passed
  <2>3. /\ pc = "walk" /\ pc' = "value" /\ count <= MAX_TASK_ENTRIES /\ count' = count + 1
        /\ UNCHANGED <<nowNs, walk, stable, runq_enqueued>>
    BY <1>4 DEF IterNext, NextKey, vars, mapVars
  <2> QED  BY <1>0, <1>m, <2>1, <2>2, <2>3 DEF Enqueued
<1>9. CASE IterValue
  <2>1. /\ pc = "value" /\ pc' = "walk"
        /\ UNCHANGED <<nowNs, seen, last, count, stable, runq_enqueued>>
    BY <1>9 DEF IterValue, vars, mapVars
  <2>2. CASE runq_enqueued[last] = None
    BY <1>0, <1>9, <1>m, <2>1, <2>2 DEF IterValue, Enqueued
  <2>3. CASE runq_enqueued[last] # None
    <3>1. walk' = AddEntry(walk, Age(nowNs, runq_enqueued[last]))
      BY <1>9, <2>3 DEF IterValue
    <3>2. Age(nowNs, runq_enqueued[last]) \in Nat
      BY <1>0, <2>1, <2>3, EntryAge DEF Enqueued
    <3>3. walk'.entries <= count /\ walk'.stale <= count
          /\ walk' \in [entries : 0 .. MAX_TASK_ENTRIES + 1, stale : 0 .. MAX_TASK_ENTRIES + 1,
                        maxAge : Nat]
      BY <1>0, <1>m, <2>1, <3>1, <3>2 DEF AddEntry, Larger
    <3> QED  BY <1>0, <2>1, <3>3 DEF Enqueued
  <2> QED  BY <2>2, <2>3
<1>5. CASE IterEnds
  BY <1>0, <1>5, <1>m, NumbersAssumption DEF IterEnds, NoEntries, vars, mapVars, Enqueued
<1>6. CASE PublishWalk
  BY <1>0, <1>6, <1>m, NumbersAssumption DEF PublishWalk, NoEntries, vars, mapVars, Enqueued
<1>7. CASE LookupMax
  BY <1>0, <1>7 DEF LookupMax, vars, mapVars, Enqueued
<1>8. CASE ResetMax
  BY <1>0, <1>8 DEF ResetMax, Enqueued
<1> QED
  BY <1>1, <1>2, <1>3, <1>4, <1>5, <1>6, <1>7, <1>8, <1>9 DEF ProbeNext, Probe

LEMMA ProbeInvInit == ProbeInit => ProbeInv
BY InitType, NumbersAssumption
DEF ProbeInit, ProbeInv, ProbeTypeOK, TotalsFollowCount, StableEnqueued, NoEntries

\* The probe's variables keep their types: however often the kernel restarts the
\* iterator, a walk adds up at most one entry more than the map can hold, which
\* is where it gives up.
THEOREM ProbeTypeCorrect == ProbeSpec => []ProbeTypeOK
<1>1. ProbeInv => ProbeTypeOK
  BY DEF ProbeInv
<1> QED  BY ProbeInvInit, ProbeInvNext, <1>1, PTL DEF ProbeSpec, ProbeNext
------------------------------------------------------------------------------
(***************************************************************************)
(* Ages                                                                    *)
(***************************************************************************)
LEMMA AgesNext ==
    ASSUME ProbeInv, AgesAreReal, [ProbeNext]_allVars
    PROVE  AgesAreReal'
<1> USE DEF AgesAreReal
<1>0. TypeOK /\ ProbeTypeOK
  BY DEF ProbeInv
<1>1. CASE UNCHANGED <<walk, nowNs>>
  BY <1>1
<1>2. CASE PollBegins \/ PublishWalk \/ (IterEnds /\ nowNs' = 0 /\ walk' = NoEntries)
  BY <1>0, <1>2 DEF PollBegins, PublishWalk, NoEntries, TypeOK
<1>3. CASE IterValue
  <2>1. pc = "value" /\ last \in Pids /\ nowNs' = nowNs
    BY <1>3 DEF IterValue, ProbeInv, TotalsFollowCount
  <2>2. CASE runq_enqueued[last] = None
    BY <1>3, <2>1, <2>2 DEF IterValue
  <2>3. CASE runq_enqueued[last] # None
    <3>1. walk' = AddEntry(walk, Age(nowNs, runq_enqueued[last]))
      BY <1>3, <2>3 DEF IterValue
    <3>2. Age(nowNs, runq_enqueued[last]) <= nowNs
      BY <1>0, <2>1, <2>3, EntryAge DEF Enqueued
    <3> QED  BY <2>1, <3>1, <3>2 DEF AddEntry, Larger
  <2> QED  BY <2>2, <2>3
<1> QED
  BY <1>1, <1>2, <1>3
  DEF ProbeNext, Kernel, Probe, IterNext, NextKey, IterEnds, LookupMax, ResetMax, probeVars,
      allVars

\* The age that is published is never larger than the clock it was taken on,
\* although the kernel may stamp entries after the clock was read: the
\* subtraction of two u64 never wraps.
THEOREM AgesNeverWrap == ProbeSpec => []AgesAreReal
<1>1. ProbeInit => AgesAreReal
  BY DEF ProbeInit, AgesAreReal, NoEntries
<1>2. ProbeInv /\ AgesAreReal /\ [ProbeNext]_allVars => ProbeInv' /\ AgesAreReal'
  BY ProbeInvNext, AgesNext
<1> QED  BY ProbeInvInit, <1>1, <1>2, PTL DEF ProbeSpec, ProbeNext
------------------------------------------------------------------------------
(***************************************************************************)
(* The walk                                                                *)
(*                                                                         *)
(* An entry that has not changed since the walk began has the age it had   *)
(* when the iterator passed it, so what is seen and stable is in the       *)
(* totals; a restart forgets what was seen but not the totals.             *)
(***************************************************************************)
Old(now, enqueued, S) == {p \in S : Age(now, enqueued[p]) >= staleAgeThreshold}

\* The totals w include the pids of S, whose timestamps are in enqueued.
Covers(w, now, enqueued, S) ==
    /\ w.entries >= Cardinality(S)
    /\ \A p \in S : w.maxAge >= Age(now, enqueued[p])
    /\ w.stale >= Cardinality(Old(now, enqueued, S))

\* the keys whose value has been read since the iterator was last restarted
Read == IF pc = "value" THEN seen \ {last} ELSE seen

SeenIsCovered ==
    pc \in {"walk", "value"} => Covers(walk, nowNs, runq_enqueued, Read \cap stable)

WalkInv == ProbeInv /\ SeenIsCovered /\ WalkSeesStable

Totals == [entries : Nat, stale : Nat, maxAge : Nat]

LEMMA PidSets ==
    ASSUME NEW S \in SUBSET Pids
    PROVE  IsFiniteSet(S) /\ Cardinality(S) \in Nat
BY SetsAssumption, FS_Subset, FS_CardinalityType

\* What covers a set covers every smaller set whose entries have not changed.
LEMMA CoversShrinks ==
    ASSUME NEW w \in Totals, NEW now, NEW enqueued, NEW S \in SUBSET Pids,
           Covers(w, now, enqueued, S),
           NEW T \in SUBSET S, NEW later, \A p \in T : later[p] = enqueued[p]
    PROVE  Covers(w, now, later, T)
<1>1. Old(now, enqueued, S) \in SUBSET Pids
  BY DEF Old
<1>2. Old(now, later, T) \in SUBSET Old(now, enqueued, S)
  BY DEF Old
<1>3. /\ Cardinality(T) <= Cardinality(S)
      /\ Cardinality(Old(now, later, T)) <= Cardinality(Old(now, enqueued, S))
  BY <1>1, <1>2, PidSets, FS_Subset
<1>4. /\ Cardinality(T) \in Nat /\ Cardinality(S) \in Nat
      /\ Cardinality(Old(now, later, T)) \in Nat
      /\ Cardinality(Old(now, enqueued, S)) \in Nat
  BY <1>1, <1>2, PidSets
<1> QED  BY <1>3, <1>4 DEF Covers, Totals

\* One more entry covers one more pid.
LEMMA CoversGrows ==
    ASSUME NEW w \in Totals, NEW now \in Nat, NEW enqueued, NEW S \in SUBSET Pids,
           Covers(w, now, enqueued, S),
           NEW p \in Pids, \A q \in S \cup {p} : enqueued[q] \in Nat
    PROVE  Covers(AddEntry(w, Age(now, enqueued[p])), now, enqueued, S \cup {p})
<1> DEFINE age == Age(now, enqueued[p])
           more == AddEntry(w, age)
           old == Old(now, enqueued, S)
<1>1. \A q \in S \cup {p} : Age(now, enqueued[q]) \in Nat
  BY AgeBounds
<1>2. age \in Nat
  BY <1>1
<1>3. /\ more.entries = w.entries + 1
      /\ more.stale = w.stale + (IF age >= staleAgeThreshold THEN 1 ELSE 0)
      /\ more.maxAge = (IF age > w.maxAge THEN age ELSE w.maxAge)
  BY DEF AddEntry, Larger
<1> HIDE DEF more
<1>4. old \in SUBSET Pids
  BY DEF Old
<1>5. \A T \in SUBSET Pids : /\ Cardinality(T) \in Nat /\ Cardinality(T \cup {p}) \in Nat
                             /\ Cardinality(T \cup {p}) <= Cardinality(T) + 1
  <2> TAKE T \in SUBSET Pids
  <2>1. IsFiniteSet(T) /\ Cardinality(T) \in Nat
    BY PidSets
  <2>2. T \cup {p} \in SUBSET Pids
    OBVIOUS
  <2>3. Cardinality(T \cup {p}) = IF p \in T THEN Cardinality(T) ELSE Cardinality(T) + 1
    BY <2>1, FS_AddElement
  <2> QED  BY <2>1, <2>2, <2>3, PidSets
<1>6. more.entries >= Cardinality(S \cup {p})
  <2>1. w.entries >= Cardinality(S)
    BY DEF Covers
  <2> QED  BY <1>3, <1>5, <2>1 DEF Totals
<1>7. more.stale >= Cardinality(Old(now, enqueued, S \cup {p}))
  <2>1. w.stale >= Cardinality(old) /\ w.stale \in Nat
    BY DEF Covers, Totals
  <2>2. CASE age >= staleAgeThreshold
    <3>1. Old(now, enqueued, S \cup {p}) = old \cup {p}
      BY <2>2 DEF Old
    <3>2. more.stale = w.stale + 1
      BY <1>3, <2>2
    <3>3. Cardinality(old \cup {p}) <= Cardinality(old) + 1
          /\ Cardinality(old) \in Nat /\ Cardinality(old \cup {p}) \in Nat
      BY <1>4, <1>5
    <3> QED  BY <2>1, <3>1, <3>2, <3>3
  <2>3. CASE ~ (age >= staleAgeThreshold)
    <3>1. Old(now, enqueued, S \cup {p}) = old
      BY <2>3 DEF Old
    <3> QED  BY <1>3, <2>1, <2>3, <3>1
  <2> QED  BY <2>2, <2>3
<1>8. \A q \in S \cup {p} : more.maxAge >= Age(now, enqueued[q])
  <2>1. more.maxAge >= age /\ more.maxAge >= w.maxAge /\ more.maxAge \in Nat
        /\ w.maxAge \in Nat
    BY <1>2, <1>3 DEF Totals
  <2>2. \A q \in S : w.maxAge >= Age(now, enqueued[q])
    BY DEF Covers
  <2> QED  BY <1>1, <2>1, <2>2
<1> QED  BY <1>6, <1>7, <1>8 DEF Covers, more

LEMMA NothingToCover ==
    ASSUME NEW w \in Totals, NEW now, NEW enqueued
    PROVE  Covers(w, now, enqueued, {})
<1>1. Old(now, enqueued, {}) = {}
  BY DEF Old
<1> QED  BY <1>1, FS_EmptySet DEF Covers, Totals

LEMMA WalkNext == WalkInv /\ [ProbeNext]_allVars => WalkInv'
<1> SUFFICES ASSUME WalkInv, [ProbeNext]_allVars
             PROVE  SeenIsCovered' /\ WalkSeesStable'
  BY ProbeInvNext DEF WalkInv
<1>0. /\ ProbeInv /\ ProbeInv' /\ TypeOK /\ ProbeTypeOK
      /\ stable \in SUBSET Enqueued /\ stable \in SUBSET Pids
      /\ nowNs \in Nat /\ walk \in Totals /\ walk' \in Totals
  BY ProbeInvNext, NumbersAssumption
  DEF WalkInv, ProbeInv, StableEnqueued, ProbeTypeOK, Totals, Enqueued
<1>w. pc \in {"walk", "value"} => Covers(walk, nowNs, runq_enqueued, Read \cap stable)
  BY DEF WalkInv, SeenIsCovered
<1>p. pc = "publish" => Covers(walk, nowNs, runq_enqueued, stable)
  BY DEF WalkInv, WalkSeesStable, Covers, Old
<1>q. SUFFICES
        /\ pc' \in {"walk", "value"} =>
              Covers(walk', nowNs', runq_enqueued', Read' \cap stable')
        /\ pc' = "publish" => Covers(walk', nowNs', runq_enqueued', stable')
  BY DEF SeenIsCovered, WalkSeesStable, Covers, Old
<1>1. CASE /\ UNCHANGED <<pc, nowNs, seen, last, walk>>
           /\ stable' \subseteq stable
           /\ \A p \in stable' : runq_enqueued'[p] = runq_enqueued[p]
  <2>0. Read' = Read
    BY <1>1 DEF Read
  <2>1. ASSUME pc \in {"walk", "value"}
        PROVE  Covers(walk, nowNs, runq_enqueued', Read \cap stable')
    <3>1. Covers(walk, nowNs, runq_enqueued, Read \cap stable)
      BY <1>w, <2>1
    <3>2. /\ Read \cap stable \in SUBSET Pids
          /\ Read \cap stable' \in SUBSET (Read \cap stable)
          /\ \A p \in Read \cap stable' : runq_enqueued'[p] = runq_enqueued[p]
      BY <1>0, <1>1
    <3> QED  BY <1>0, <3>1, <3>2, CoversShrinks
  <2>2. ASSUME pc = "publish"
        PROVE  Covers(walk, nowNs, runq_enqueued', stable')
    <3>1. Covers(walk, nowNs, runq_enqueued, stable)
      BY <1>p, <2>2
    <3>2. stable' \in SUBSET stable
      BY <1>1
    <3> QED  BY <1>0, <1>1, <3>1, <3>2, CoversShrinks
  <2> QED  BY <1>1, <2>0, <2>1, <2>2
<1>2. CASE UNCHANGED allVars
  BY <1>1, <1>2 DEF allVars, vars, mapVars, probeVars
<1>3. CASE Kernel
  <2>1. /\ UNCHANGED probeVars /\ stable' \subseteq stable
        /\ \A p \in stable' : runq_enqueued'[p] = runq_enqueued[p]
    BY <1>0, <1>3, KernelMovesStable
  <2> QED  BY <1>1, <2>1 DEF probeVars
<1>4. CASE PollBegins
  <2>1. Read' \cap stable' = {} /\ pc' = "walk"
    BY <1>4 DEF PollBegins, Read
  <2> QED  BY <1>0, <2>1, NothingToCover
<1>5. CASE IterNext
  <2>1. PICK p \in Enqueued \ Passed : last' = p /\ seen' = Passed \cup {p}
    BY <1>5 DEF IterNext, NextKey
  <2>2. pc = "walk" /\ pc' = "value" /\ UNCHANGED <<nowNs, walk, stable, runq_enqueued>>
    BY <1>5 DEF IterNext, NextKey, vars, mapVars
  <2>3. Read' = Passed /\ Read = seen
    BY <2>1, <2>2 DEF Read
  <2>4. CASE Passed = seen
    BY <1>w, <2>2, <2>3, <2>4
  <2>5. CASE Passed = {}
    BY <1>0, <2>2, <2>3, <2>5, NothingToCover
  <2> QED  BY <2>4, <2>5 DEF Passed
<1>8. CASE IterValue
  <2>1. pc = "value" /\ pc' = "walk" /\ UNCHANGED <<nowNs, seen, last, stable, runq_enqueued>>
    BY <1>8 DEF IterValue, vars, mapVars
  <2>2. Read = seen \ {last} /\ Read' = seen /\ last \in Pids /\ seen \subseteq Pids
    BY <1>0, <2>1 DEF Read, ProbeInv, TotalsFollowCount, ProbeTypeOK
  <2> DEFINE S == Read \cap stable
  <2>3. Covers(walk, nowNs, runq_enqueued, S)
    BY <1>w, <2>1
  <2>4. CASE runq_enqueued[last] = None
    <3>1. walk' = walk
      BY <1>8, <2>4 DEF IterValue
    <3>2. Read' \cap stable = S
      BY <1>0, <2>2, <2>4 DEF Enqueued
    <3> QED  BY <2>1, <2>3, <3>1, <3>2
  <2>5. CASE runq_enqueued[last] # None
    <3>1. walk' = AddEntry(walk, Age(nowNs, runq_enqueued[last]))
      BY <1>8, <2>5 DEF IterValue
    <3>2. /\ S \in SUBSET Pids
          /\ \A q \in S \cup {last} : runq_enqueued[q] \in Nat
      BY <1>0, <2>2, <2>5 DEF Enqueued, TypeOK
    <3>3. Covers(walk', nowNs, runq_enqueued, S \cup {last})
      BY <1>0, <2>2, <2>3, <3>1, <3>2, CoversGrows
    <3>4. /\ S \cup {last} \in SUBSET Pids
          /\ Read' \cap stable \in SUBSET (S \cup {last})
      BY <2>2, <3>2
    <3>5. Covers(walk', nowNs, runq_enqueued, Read' \cap stable)
      BY <1>0, <3>3, <3>4, CoversShrinks
    <3> QED  BY <2>1, <3>5
  <2> QED  BY <2>4, <2>5
<1>6. CASE IterEnds
  <2>1. CASE pc' = "publish"
    <3>1. /\ stable \subseteq Passed /\ pc = "walk"
          /\ UNCHANGED <<nowNs, walk, stable, runq_enqueued>>
      BY <1>6, <2>1 DEF IterEnds, vars, mapVars
    <3>2. Read \cap stable = stable
      BY <3>1 DEF Passed, Read
    <3> QED  BY <1>w, <2>1, <3>1, <3>2
  <2>2. CASE pc' = "idle"
    BY <2>2
  <2> QED  BY <1>6, <2>1, <2>2 DEF IterEnds
<1>7. CASE PublishWalk \/ LookupMax \/ ResetMax
  BY <1>7 DEF PublishWalk, LookupMax, ResetMax
<1> QED
  BY <1>2, <1>3, <1>4, <1>5, <1>6, <1>7, <1>8 DEF ProbeNext, Probe

\* However the map churns under the walk and however often the kernel restarts
\* it, the totals that are published include every entry that was there
\* throughout.
THEOREM WalkComplete == ProbeSpec => []WalkSeesStable
<1>1. ProbeInit => WalkInv
  <2>1. ProbeInit => SeenIsCovered /\ WalkSeesStable
    BY DEF ProbeInit, SeenIsCovered, WalkSeesStable
  <2> QED  BY <2>1, ProbeInvInit DEF WalkInv
<1>2. WalkInv => WalkSeesStable
  BY DEF WalkInv
<1> QED  BY <1>1, WalkNext, <1>2, PTL DEF ProbeSpec, ProbeNext
------------------------------------------------------------------------------
(***************************************************************************)
(* The probe is harmless                                                   *)
(*                                                                         *)
(* Beside the maximum the probe writes nothing that the programs read, and *)
(* they never read the maximum but to compare with it: what was proved of  *)
(* them alone holds with the probe beside them.                            *)
(***************************************************************************)
LEMMA LedgerBesideProbe ==
    ASSUME Faults = {}, Skew = 0, AccountInv, RaceInv, [ProbeNext]_allVars
    PROVE  /\ AccountInv' /\ RaceInv'
           /\ [Ledger!Next]_<<due, runq_histograms>>
<1>1. CASE [Next]_vars
  BY <1>1, AccountNext, RaceNext, LedgerStep DEF RaceInv
<1>2. CASE Probe
  <2>1. UNCHANGED <<clock, schedVars, runq_enqueued, runq_histograms, handler, due, lost>>
    BY <1>2, ProbeTouchesOnlyMax
  <2>2. TypeOK'
    BY <1>2, KernelType DEF ProbeNext, RaceInv
  <2>3. AccountInv'
    BY <2>1, <2>2
    DEF AccountInv, GenuineInv, SchedOK, WaitsBegan, EnqueuedIsGenuine, WaitersRunnable,
        RefusedWaits, EveryWaitAccounted, InFlight, schedVars
  <2>4. RaceInv'
    BY <2>1, <2>2
    DEF RaceInv, AddSeesEntry, At, InsertRaceLossBounded, Inserters, InFlight
  <2> QED  BY <2>1, <2>3, <2>4
<1> QED  BY <1>1, <1>2 DEF ProbeNext, Kernel, allVars

\* The histogram implements the ledger with the probe running, too.
THEOREM ProbeKeepsLedger ==
    ASSUME Faults = {}, Skew = 0
    PROVE  ProbeSpec => ImplementsLedger
<1>1. ProbeInit => Ledger!Init /\ AccountInv /\ RaceInv
  BY AccountInit, RaceInit DEF ProbeInit, Init, Ledger!Init
<1>2. AccountInv /\ RaceInv /\ [ProbeNext]_allVars
        => AccountInv' /\ RaceInv' /\ [Ledger!Next]_<<due, runq_histograms>>
  BY LedgerBesideProbe
<1> QED
  BY <1>1, <1>2, PTL DEF ProbeSpec, ProbeNext, ImplementsLedger, Ledger!Spec
================================================================================
