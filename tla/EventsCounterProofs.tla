------------------------- MODULE EventsCounterProofs -------------------------
(***************************************************************************)
(* Proofs about EventsCounter for every set of cgroups and keys.           *)
(*                                                                         *)
(*   QuietPollsExact         EventsSpec => QuietPollsCountAll              *)
(***************************************************************************)
EXTENDS EventsCounter, CgroupCollectorProofs

(***************************************************************************)
(* The strengthening.  A sum read key by key is compared with what the map *)
(* holds: it is not more than the keys it has read hold now, and not less  *)
(* than they and those that came too late to be met hold now, but for what *)
(* was recorded since the poll began.                                      *)
(***************************************************************************)
EventsTypeOK ==
    /\ polled = None \/ polled \subseteq Keys
    /\ owed \subseteq Keys
    /\ {total, prevTotal, eventsTotal, fromPrev, sincePrev, during} \subseteq Nat
    /\ undisturbed \in 0 .. 2
    /\ polled = None => during = 0

PollInv ==
    polled # None /\ undisturbed > 0 =>
        /\ last = None \/ last \in Present
        /\ total <= Held(hist, polled)
        /\ Held(hist, polled \cup (Keys \ owed)) <= total + during

\* prevTotal is the sum of a poll since which, and during which, nothing was deleted.
PrevQuiet == undisturbed = 2 \/ (undisturbed = 1 /\ polled = None)

PrevInv ==
    PrevQuiet =>
        /\ Held(hist, Keys) <= prevTotal + fromPrev
        /\ prevTotal + sincePrev <= Held(hist, Keys)

EventsInv == TypeOK /\ EventsTypeOK /\ PollInv /\ PrevInv

LEMMA HistType ==
    ASSUME TypeOK
    PROVE  /\ hist \in [Keys -> 0 .. MaxCount] /\ MaxCount \in Nat
           /\ \A k \in Keys : hist[k] \in Nat
BY TimesAssumption DEF TypeOK

\* The steps that neither count nor delete.
Aside == \/ Tick \/ Mapper \/ PruneBegins \/ PruneEnds
         \/ \E k \in Keys : CollectKey(k)
         \/ \E id \in Ids : Born(id) \/ Gone(id)

LEMMA AsideKeepsCounts == Aside => hist' = hist
BY DEF Aside, Tick, Mapper, WalkBegins, WalkEnds, PruneBegins, PruneEnds, CollectKey, Born, Gone

\* The collector and the kernel do not know of the counter.
LEMMA CollectorBeside == [EventsNext]_allVars => [Next]_vars
BY DEF EventsNext, PollBegins, PollKey, PollEnds, PollOver, Next, Environment, Prune, allVars, vars

LEMMA CountersType ==
    ASSUME TypeOK, EventsTypeOK, [EventsNext]_allVars
    PROVE  EventsTypeOK'
<1> USE DEF EventsTypeOK
<1>0. \A k \in Keys : hist[k] \in Nat
  BY HistType
<1>1. CASE PollBegins
  BY <1>1 DEF PollBegins, Present
<1>2. CASE PollEnds
  BY <1>2 DEF PollEnds, PollOver, AddGrowth
<1>3. ASSUME NEW k \in Keys, PollKey(k) PROVE EventsTypeOK'
  BY <1>0, <1>3, SetsAssumption DEF PollKey, Passed, historyVars
<1>4. CASE \E k \in Keys : Record(k) /\ UNCHANGED <<pollVars, undisturbed>>
           /\ fromPrev' = fromPrev + 1 /\ sincePrev' = sincePrev + 1
           /\ during' = IF polled = None THEN 0 ELSE during + 1
  BY <1>4 DEF pollVars
<1>5. CASE undisturbed' = 0 /\ fromPrev' = 0 /\ sincePrev' = 0 /\ during' = 0 /\ UNCHANGED pollVars
  BY <1>5 DEF pollVars
<1>6. CASE UNCHANGED <<pollVars, historyVars>>
  BY <1>6 DEF pollVars, historyVars
<1> QED  BY <1>1, <1>2, <1>3, <1>4, <1>5, <1>6 DEF EventsNext, allVars

\* Until something is deleted the iterator is never sent back to the first key.
LEMMA PollNext ==
    ASSUME TypeOK, EventsTypeOK, PollInv, [EventsNext]_allVars
    PROVE  PollInv'
<1> SUFFICES ASSUME polled' # None, undisturbed' > 0
             PROVE  /\ last' = None \/ last' \in Present'
                    /\ total' <= Held(hist', polled')
                    /\ Held(hist', polled' \cup (Keys \ owed')) <= total' + during'
  BY DEF PollInv
<1>0. /\ hist \in [Keys -> 0 .. MaxCount] /\ \A k \in Keys : hist[k] \in Nat
      /\ total \in Nat /\ during \in Nat /\ owed \subseteq Keys /\ undisturbed \in 0 .. 2
      /\ \A S : Held(hist, S) \in Nat /\ Held(hist', S) \in Nat
  BY HistType, HeldType DEF EventsTypeOK
<1>1. CASE PollBegins
  <2>1. /\ polled' = {} /\ last' = None /\ owed' = Present /\ total' = 0 /\ hist' = hist
        /\ during' = 0
    BY <1>1 DEF PollBegins, EventsTypeOK, vars
  <2>2. Held(hist, Keys \ Present) <= Held(hist, {})
    BY <1>0, HeldMonotone DEF Present
  <2>3. {} \cup (Keys \ Present) = Keys \ Present
    OBVIOUS
  <2> QED  BY <1>0, <2>1, <2>2, <2>3, HeldNothing
<1>2. CASE PollEnds
  BY <1>2 DEF PollEnds, PollOver
<1>3. ASSUME NEW k \in Keys, PollKey(k) PROVE PollInv'
  <2>1. /\ polled # None /\ undisturbed > 0 /\ k \in Present \ Passed
        /\ polled' = Passed \cup {k} /\ last' = k /\ total' = total + hist[k]
        /\ UNCHANGED <<hist, owed, during>>
    BY <1>3 DEF PollKey, vars, historyVars
  <2>2. /\ last = None \/ last \in Present
        /\ total <= Held(hist, polled)
        /\ Held(hist, polled \cup (Keys \ owed)) <= total + during
    BY <2>1 DEF PollInv
  <2>3. Passed = polled /\ k \notin polled
    BY <2>1, <2>2 DEF Passed
  <2>4. Held(hist, polled \cup {k}) = Held(hist, polled) + hist[k]
    BY <1>0, <2>3, HeldAdd
  <2>5. Held(hist, (polled \cup {k}) \cup (Keys \ owed)) <= total + during + hist[k]
    <3>1. CASE k \in owed
      <4>1. (polled \cup {k}) \cup (Keys \ owed) = (polled \cup (Keys \ owed)) \cup {k}
        OBVIOUS
      <4>2. k \notin polled \cup (Keys \ owed)
        BY <2>3, <3>1
      <4>3. Held(hist, (polled \cup (Keys \ owed)) \cup {k})
              = Held(hist, polled \cup (Keys \ owed)) + hist[k]
        BY <1>0, <4>2, HeldAdd
      <4>4. hist[k] \in Nat /\ total + during \in Nat
        BY <1>0
      <4> QED  BY <1>0, <2>2, <4>1, <4>3, <4>4
    <3>2. CASE k \notin owed
      <4>1. (polled \cup {k}) \cup (Keys \ owed) = polled \cup (Keys \ owed)
        BY <3>2
      <4> QED  BY <1>0, <2>2, <4>1
    <3> QED  BY <3>1, <3>2
  <2>6. last' \in Present' /\ polled' = polled \cup {k}
    BY <2>1, <2>3 DEF Present
  <2>7. total' <= Held(hist, polled \cup {k})
    BY <1>0, <2>1, <2>2, <2>4
  <2>8. Held(hist, (polled \cup {k}) \cup (Keys \ owed)) <= total' + during
    BY <1>0, <2>1, <2>5
  <2> QED  BY <2>1, <2>6, <2>7, <2>8 DEF PollInv
<1>4. ASSUME NEW k \in Keys, Record(k), UNCHANGED <<pollVars, undisturbed>>,
             during' = IF polled = None THEN 0 ELSE during + 1
      PROVE  PollInv'
  <2>1. /\ UNCHANGED <<polled, last, owed, total>> /\ polled # None /\ undisturbed > 0
        /\ during' = during + 1
        /\ hist[k] < MaxCount /\ hist' = [hist EXCEPT ![k] = @ + 1]
    BY <1>4 DEF pollVars, Record
  <2>2. /\ last = None \/ last \in Present
        /\ total <= Held(hist, polled)
        /\ Held(hist, polled \cup (Keys \ owed)) <= total + during
    BY <2>1 DEF PollInv
  <2>3. ASSUME NEW S
        PROVE  Held(hist', S) = Held(hist, S) \/ Held(hist', S) = Held(hist, S) + 1
    <3>0. /\ hist \in [Keys -> 0 .. MaxCount] /\ hist[k] < MaxCount
          /\ hist' = [hist EXCEPT ![k] = @ + 1]
      BY <1>0, <2>1
    <3>1. Held(hist', S) = Held(hist, S) + (IF k \in S THEN 1 ELSE 0)
      BY <3>0, HeldRecord
    <3>2. Held(hist, S) \in Nat
      BY HeldType
    <3> QED  BY <3>1, <3>2
  <2>4. Present \subseteq Present'
    BY <1>0, <2>1 DEF Present
  <2>5. total <= Held(hist', polled)
    BY <1>0, <2>2, <2>3
  <2>6. Held(hist', polled \cup (Keys \ owed)) <= total + (during + 1)
    BY <1>0, <2>2, <2>3
  <2> QED  BY <2>1, <2>2, <2>4, <2>5, <2>6 DEF PollInv
<1>5. CASE undisturbed' = 0
  BY <1>5
<1>6. CASE UNCHANGED <<hist, pollVars, historyVars>>
  BY <1>6 DEF pollVars, historyVars, PollInv, Present
<1>7. Aside => hist' = hist
  BY AsideKeepsCounts
<1> QED
  BY <1>1, <1>2, <1>3, <1>4, <1>5, <1>6, <1>7 DEF EventsNext, Aside, allVars, vars, PollInv

LEMMA PrevNext ==
    ASSUME TypeOK, EventsTypeOK, PollInv, PrevInv, [EventsNext]_allVars
    PROVE  PrevInv'
<1> SUFFICES ASSUME PrevQuiet'
             PROVE  /\ Held(hist', Keys) <= prevTotal' + fromPrev'
                    /\ prevTotal' + sincePrev' <= Held(hist', Keys)
  BY DEF PrevInv
<1>0. /\ hist \in [Keys -> 0 .. MaxCount] /\ \A k \in Keys : hist[k] \in Nat
      /\ {total, prevTotal, fromPrev, sincePrev, during} \subseteq Nat
      /\ undisturbed \in 0 .. 2 /\ owed \subseteq Keys
      /\ Held(hist, Keys) \in Nat /\ Held(hist', Keys) \in Nat
  BY HistType, HeldType DEF EventsTypeOK
<1>1. CASE PollBegins
  <2>1. /\ UNCHANGED <<hist, prevTotal, fromPrev, sincePrev>> /\ polled = None /\ polled' # None
        /\ undisturbed' = IF undisturbed < 2 THEN undisturbed + 1 ELSE 2
    BY <1>1, SetsAssumption DEF PollBegins, vars
  <2>2. PrevQuiet
    BY <1>0, <2>1 DEF PrevQuiet
  <2> QED  BY <2>1, <2>2 DEF PrevInv
\* Nothing was deleted while this poll ran.
<1>2. CASE PollEnds
  <2>1. /\ polled # None /\ undisturbed > 0 /\ owed \cap Present \subseteq Passed
        /\ UNCHANGED hist /\ prevTotal' = total /\ fromPrev' = during /\ sincePrev' = 0
    BY <1>0, <1>2 DEF PollEnds, PollOver, PrevQuiet, vars
  <2>2. /\ last = None \/ last \in Present
        /\ total <= Held(hist, polled)
        /\ Held(hist, polled \cup (Keys \ owed)) <= total + during
    BY <2>1 DEF PollInv
  <2>3. Passed = polled /\ polled \subseteq Keys
    BY <2>1, <2>2 DEF Passed, EventsTypeOK
  <2>4. Held(hist, polled) <= Held(hist, Keys)
    BY <1>0, <2>3, HeldMonotone
  <2>5. Held(hist, Keys) <= Held(hist, polled \cup (Keys \ owed))
    <3>1. \A k \in Keys : hist[k] > 0 /\ k \in Keys => k \in polled \cup (Keys \ owed)
      BY <2>1, <2>3 DEF Present
    <3> QED  BY <1>0, <3>1, HeldMonotone
  <2>6. Held(hist, polled) \in Nat /\ Held(hist, polled \cup (Keys \ owed)) \in Nat
    BY HeldType
  <2> QED  BY <1>0, <2>1, <2>2, <2>4, <2>5, <2>6
<1>3. ASSUME NEW k \in Keys, PollKey(k) PROVE PrevInv'
  <2>1. /\ UNCHANGED <<hist, prevTotal, fromPrev, sincePrev, undisturbed>>
        /\ polled # None /\ polled' # None
    <3>1. polled' \in SUBSET Keys
      BY <1>3 DEF PollKey, Passed, EventsTypeOK
    <3> QED  BY <1>3, <3>1, SetsAssumption DEF PollKey, vars, historyVars
  <2> QED  BY <2>1 DEF PrevInv, PrevQuiet
<1>4. ASSUME NEW k \in Keys, Record(k), UNCHANGED <<pollVars, undisturbed>>,
             fromPrev' = fromPrev + 1, sincePrev' = sincePrev + 1
      PROVE  PrevInv'
  <2>1. /\ UNCHANGED <<polled, prevTotal>> /\ PrevQuiet
        /\ hist[k] < MaxCount /\ hist' = [hist EXCEPT ![k] = @ + 1]
    BY <1>4 DEF pollVars, Record, PrevQuiet
  <2>2. Held(hist', Keys) = Held(hist, Keys) + 1
    BY <1>0, <2>1, HeldRecord
  <2>3. Held(hist, Keys) <= prevTotal + fromPrev /\ prevTotal + sincePrev <= Held(hist, Keys)
    BY <2>1 DEF PrevInv
  <2>4. /\ Held(hist', Keys) <= prevTotal + (fromPrev + 1)
        /\ prevTotal + (sincePrev + 1) <= Held(hist', Keys)
    BY <1>0, <2>2, <2>3
  <2> QED  BY <1>4, <2>1, <2>4 DEF PrevInv
<1>5. CASE undisturbed' = 0
  BY <1>5 DEF PrevQuiet
<1>6. CASE UNCHANGED <<hist, pollVars, historyVars>>
  BY <1>6 DEF pollVars, historyVars, PrevInv, PrevQuiet
<1>7. Aside => hist' = hist
  BY AsideKeepsCounts
<1> QED
  BY <1>1, <1>2, <1>3, <1>4, <1>5, <1>6, <1>7 DEF EventsNext, Aside, allVars, vars, PrevInv

LEMMA EventsInvariant == EventsSpec => []EventsInv
<1>1. EventsInit => EventsInv
  <2> SUFFICES ASSUME EventsInit PROVE EventsInv
    OBVIOUS
  <2>1. TypeOK
    BY TypeInit DEF EventsInit
  <2>2. hist \in [Keys -> 0 .. MaxCount] /\ \A k \in Keys : hist[k] = 0
    BY <2>1, HistType DEF EventsInit, Init
  <2>3. Held(hist, Keys) <= Held(hist, {}) /\ Held(hist, Keys) \in Nat
    BY <2>2, HeldMonotone, HeldType
  <2>4. Held(hist, Keys) = 0
    BY <2>3, HeldNothing
  <2> QED  BY <2>1, <2>4 DEF EventsInv, EventsInit, EventsTypeOK, PollInv, PrevInv
<1>2. EventsInv /\ [EventsNext]_allVars => EventsInv'
  BY CollectorBeside, TypeStep, CountersType, PollNext, PrevNext DEF EventsInv
<1> QED  BY <1>1, <1>2, PTL DEF EventsSpec

\* Once the last poll and this one have run without a deletion, ebpf_events_total grows
\* by no more than what was recorded since the last poll began, and by no less than
\* what was recorded between the two: the rebase after a prune neither loses nor
\* counts twice, for any number of cgroups and wherever the events fall in the polls.
THEOREM QuietPollsExact == EventsSpec => QuietPollsCountAll
<1> DEFINE Growth == eventsTotal' - eventsTotal
           Step == PollEnds /\ undisturbed = 2 =>
                       Growth >= sincePrev - during /\ Growth <= fromPrev
<1>1. EventsInv /\ [EventsNext]_allVars => [Step]_allVars
  <2> SUFFICES ASSUME EventsInv, PollEnds, undisturbed = 2
               PROVE  Growth >= sincePrev - during /\ Growth <= fromPrev
    OBVIOUS
  <2>0. {total, prevTotal, eventsTotal, fromPrev, sincePrev, during} \subseteq Nat
    BY DEF EventsInv, EventsTypeOK
  <2>1. /\ PrevQuiet /\ TypeOK /\ polled # None /\ hist' = hist
    BY DEF PrevQuiet, EventsInv, PollEnds, PollOver, vars
  <2>2. /\ Held(hist, Keys) <= prevTotal + fromPrev
        /\ prevTotal + sincePrev <= Held(hist, Keys)
    BY <2>1 DEF EventsInv, PrevInv
  <2>3. total <= Held(hist, Keys) /\ Held(hist, Keys) <= total + during
    <3>1. /\ last = None \/ last \in Present
          /\ total <= Held(hist, polled)
          /\ Held(hist, polled \cup (Keys \ owed)) <= total + during
      BY <2>1 DEF EventsInv, PollInv
    <3>2. Passed = polled /\ polled \subseteq Keys /\ owed \cap Present \subseteq polled
      BY <2>1, <3>1 DEF Passed, PollEnds, PollOver, EventsInv, EventsTypeOK
    <3>3. hist \in [Keys -> 0 .. MaxCount]
      BY <2>1, HistType
    <3>4. Held(hist, polled) <= Held(hist, Keys)
      BY <3>2, <3>3, HeldMonotone
    <3>5. Held(hist, Keys) <= Held(hist, polled \cup (Keys \ owed))
      <4>1. \A k \in Keys : hist[k] > 0 /\ k \in Keys => k \in polled \cup (Keys \ owed)
        BY <3>2 DEF Present
      <4> QED  BY <3>3, <4>1, HeldMonotone
    <3>6. \A S : Held(hist, S) \in Nat
      BY HeldType
    <3> QED  BY <2>0, <3>1, <3>4, <3>5, <3>6
  <2>4. Held(hist, Keys) \in Nat
    BY HeldType
  <2>5. Growth = IF total > prevTotal THEN total - prevTotal ELSE 0
    BY <2>0 DEF PollEnds, AddGrowth
  <2> QED  BY <2>0, <2>2, <2>3, <2>4, <2>5
<1> QED  BY <1>1, EventsInvariant, PTL DEF EventsSpec, QuietPollsCountAll
==============================================================================
