------------------------ MODULE CollectorSeriesProofs ------------------------
(***************************************************************************)
(* Proofs about CollectorSeries for every set of cgroups, keys and labels  *)
(* and all times that keep the margins.                                    *)
(*                                                                         *)
(*   SeriesNeverDrop         SeriesSpec => QuietSeriesMonotone             *)
(*                                                                         *)
(* NothingInflated is refuted by the model checker: nothing here needs it. *)
(***************************************************************************)
EXTENDS CollectorSeries, CgroupCollectorProofs

(***************************************************************************)
(* The strengthening.  A scrape that nothing is deleted under publishes at *)
(* most what the map holds, now and until something is deleted, under the  *)
(* keys that feed the series; and the next one falls short of that only by *)
(* what it has still to read.                                              *)
(***************************************************************************)
Feeding(s) == {k \in Keys : hist[k] > 0 /\ Emitted(k) /\ SeriesOf(k) = s}

SeriesTypeOK ==
    /\ scan = None \/ scan \subseteq Keys
    /\ owed \subseteq Keys
    /\ grouped \in [Series -> Nat] /\ published \in [Series -> Nat]
    /\ quiet \in 0 .. 2

ScanInv ==
    scan # None /\ quiet > 0 =>
        /\ last = None \/ last \in Present
        /\ \A s \in Series :
              /\ grouped[s] <= Held(hist, scan \cap Feeding(s))
              /\ quiet = 2 =>
                    published[s] <= grouped[s] + Held(hist, (Feeding(s) \cap owed) \ scan)

PublishedQuiet == quiet = 2 \/ (quiet = 1 /\ scan = None)

PublishedInv ==
    PublishedQuiet => \A s \in Series : published[s] <= Held(hist, Feeding(s))

NamedInv == LifeInv /\ CountedInv

SeriesInv == NamedInv /\ SeriesTypeOK /\ ScanInv /\ PublishedInv

LEMMA HistType ==
    ASSUME TypeOK
    PROVE  /\ hist \in [Keys -> 0 .. MaxCount] /\ MaxCount \in Nat
           /\ \A k \in Keys : hist[k] \in Nat
BY TimesAssumption DEF TypeOK

\* The steps that neither count nor delete nor read a key.
Aside == Tick \/ Mapper \/ PruneBegins \/ PruneEnds \/ \E id \in Ids : Born(id) \/ Gone(id)

\* The collector and the kernel do not know of the scrape's sums.
LEMMA CollectorBeside == [SeriesNext]_allVars => [Next]_vars
BY DEF SeriesNext, ScanBegins, ScanKey, ScanEnds, Next, Environment, Prune, allVars, vars

LEMMA SeriesType ==
    ASSUME NEW k \in Keys
    PROVE  SeriesOf(k) \in Series
BY DEF SeriesOf, Series

LEMMA SumsType ==
    ASSUME TypeOK, SeriesTypeOK, [SeriesNext]_allVars
    PROVE  SeriesTypeOK'
<1> USE DEF SeriesTypeOK
<1>0. \A k \in Keys : hist[k] \in Nat
  BY HistType
<1>1. CASE ScanBegins
  BY <1>1 DEF ScanBegins, Present
<1>2. ASSUME NEW k \in Keys, ScanKey(k) PROVE SeriesTypeOK'
  <2>1. grouped' \in [Series -> Nat]
    BY <1>0, <1>2, SeriesType DEF ScanKey, Group
  <2> QED  BY <1>2, <2>1 DEF ScanKey, Passed
<1>3. CASE ScanEnds
  BY <1>3 DEF ScanEnds
<1>4. CASE UNCHANGED scanVars /\ (quiet' = 0 \/ quiet' = quiet)
  BY <1>4 DEF scanVars
<1> QED  BY <1>1, <1>2, <1>3, <1>4 DEF SeriesNext, allVars

(***************************************************************************)
(* A key that feeds a series does so until it is deleted: its names stay   *)
(* while it is counted, and whom the grace has given up is never found.    *)
(***************************************************************************)
LEMMA NameStays ==
    ASSUME NamedInv, [Next]_vars, NEW k \in Keys, hist[k] > 0, NEW id \in Sides(k), name(id)
    PROVE  name(id)'
<1>0. id \in Ids /\ TypeOK /\ \A j \in Keys : hist[j] \in Nat
  BY SidesType, HistType DEF NamedInv, LifeInv
<1>1. CASE WalkEnds
  <2>1. ASSUME byIno'[id] = None PROVE FALSE
    <3>1. hist[k] = 0
      BY <1>0, <1>1, <2>1, CollectedIsPruned DEF NamedInv
    <3> QED  BY <3>1
  <2> QED  BY <2>1 DEF name
<1>2. CASE Tick
  BY <1>0, <1>2, TickAges
<1>3. CASE byIno' = byIno
  BY <1>3 DEF name
<1> QED
  BY <1>1, <1>2, <1>3
  DEF Next, Environment, Mapper, Prune, Born, Gone, Record, WalkBegins, PruneBegins, PruneDelete,
      PruneEnds, CollectKey, vars, mapperVars

LEMMA UnresolvedStays ==
    ASSUME NamedInv, [Next]_vars, NEW k \in Keys, hist[k] > 0, NEW id \in Sides(k),
           Unresolved(id)
    PROVE  Unresolved(id)'
<1>0. /\ id \in Ids /\ TypeOK /\ id \notin ever
      /\ ~ name(id) /\ byIno[id] = None /\ missing[id] # None /\ missing[id] >= unresolvedGrace
  BY SidesType, UnresolvedGone DEF NamedInv, LifeInv, Unresolved, name
<1>1. CASE WalkEnds
  <2>1. byIno'[id] = None
    BY <1>0, <1>1, WalkResult
  <2>2. missing' = missing
    BY <1>1 DEF WalkEnds
  <2> QED  BY <1>0, <2>1, <2>2 DEF Unresolved, name
<1>2. CASE Tick
  <2>1. ~ name(id)' /\ missing'[id] # None /\ missing'[id] = Older(missing[id])
    BY <1>0, <1>2, TickAges DEF Tick
  <2>2. missing[id] \in Nat /\ unresolvedGrace \in Nat
    BY <1>0, TimesAssumption DEF TypeOK, Ages, MaxAge
  <2>3. missing'[id] >= unresolvedGrace
    BY <1>0, <2>1, <2>2 DEF Older
  <2> QED  BY <2>1, <2>3 DEF Unresolved
<1>3. ASSUME NEW j \in Keys, CollectKey(j) PROVE Unresolved(id)'
  <2>1. missing'[id] = missing[id] /\ byIno' = byIno
    BY <1>0, <1>3 DEF CollectKey, Miss
  <2> QED  BY <1>0, <2>1 DEF Unresolved, name
<1>4. CASE PruneEnds
  <2>1. missing'[id] = missing[id] /\ byIno' = byIno
    BY <1>0, <1>4 DEF PruneEnds, mapperVars
  <2> QED  BY <1>0, <2>1 DEF Unresolved, name
<1>5. CASE UNCHANGED <<byIno, missing>>
  BY <1>0, <1>5 DEF Unresolved, name
<1> QED
  BY <1>1, <1>2, <1>3, <1>4, <1>5
  DEF Next, Environment, Mapper, Prune, Born, Gone, Record, WalkBegins, PruneBegins, PruneDelete,
      vars, mapperVars

LEMMA FeedingStays ==
    ASSUME NamedInv, [Next]_vars, NEW s, NEW k \in Feeding(s), hist'[k] > 0
    PROVE  k \in Feeding(s)'
<1>1. /\ k \in Keys /\ hist[k] > 0 /\ Emitted(k) /\ SeriesOf(k) = s
      /\ k[1] \in Sides(k) /\ k[2] \in Sides(k)
  BY SidesType DEF Feeding
<1>2. k[1] \in Pods /\ name(k[1])'
  BY <1>1, NameStays DEF Emitted
<1>3. CASE name(k[2])
  <2>1. name(k[2])'
    BY <1>1, <1>3, NameStays
  <2> QED  BY <1>1, <1>2, <1>3, <2>1 DEF Feeding, Emitted, SeriesOf
<1>4. CASE ~ name(k[2])
  <2>1. Unresolved(k[2])
    BY <1>1, <1>4 DEF Emitted
  <2>2. Unresolved(k[2])'
    BY <1>1, <2>1, UnresolvedStays
  <2>3. ~ name(k[2])'
    BY <2>2 DEF Unresolved
  <2> QED  BY <1>1, <1>2, <1>4, <2>2, <2>3 DEF Feeding, Emitted, SeriesOf
<1> QED  BY <1>3, <1>4

\* What some of a series' keys hold is not lost by a step that deletes nothing.
LEMMA FeedGrows ==
    ASSUME NamedInv, TypeOK', [Next]_vars, \A k \in Keys : hist[k] <= hist'[k],
           NEW s, NEW S \in SUBSET Feeding(s), NEW T,
           \A k \in S : k \in Feeding(s)' => k \in T
    PROVE  Held(hist, S) <= Held(hist', T)
<1>1. /\ hist \in [Keys -> 0 .. MaxCount] /\ hist' \in [Keys -> 0 .. MaxCount]
      /\ \A k \in Keys : hist[k] \in Nat /\ hist'[k] \in Nat
  BY TimesAssumption DEF TypeOK, NamedInv, LifeInv
<1>2. ASSUME NEW k \in S PROVE k \in T
  <2>1. k \in Feeding(s) /\ k \in Keys /\ hist[k] > 0
    BY DEF Feeding
  <2>2. hist'[k] > 0
    BY <1>1, <2>1
  <2> QED  BY <2>1, <2>2, FeedingStays
<1>3. Held(hist, S) <= Held(hist', S)
  BY <1>1, HeldGrows
<1>4. Held(hist', S) <= Held(hist', T)
  BY <1>1, <1>2, HeldMonotone
<1>5. Held(hist, S) \in Nat /\ Held(hist', S) \in Nat /\ Held(hist', T) \in Nat
  BY HeldType
<1> QED  BY <1>3, <1>4, <1>5

\* A step that deletes nothing and leaves the scrape alone.
Undeleted == \A k \in Keys : hist[k] <= hist'[k]

LEMMA StepKinds ==
    ASSUME TypeOK, [SeriesNext]_allVars
    PROVE  \/ ScanBegins \/ ScanEnds \/ \E k \in Keys : ScanKey(k)
           \/ Undeleted /\ UNCHANGED <<scanVars, quiet>>
           \/ quiet' = 0 /\ UNCHANGED scanVars
<1>0. \A k \in Keys : hist[k] \in Nat /\ hist \in [Keys -> 0 .. MaxCount]
  BY HistType
<1>1. ASSUME NEW k \in Keys, Record(k) PROVE Undeleted
  BY <1>0, <1>1 DEF Record, Undeleted
<1>2. ASSUME hist' = hist PROVE Undeleted
  BY <1>0, <1>2 DEF Undeleted
<1>3. Aside \/ UNCHANGED vars => hist' = hist
  BY DEF Aside, Tick, Mapper, WalkBegins, WalkEnds, PruneBegins, PruneEnds, Born, Gone, vars
<1>4. CASE UNCHANGED allVars
  <2>1. Undeleted
    BY <1>2, <1>3, <1>4 DEF allVars
  <2> QED  BY <1>4, <2>1 DEF allVars
<1>5. CASE SeriesNext
  <2>1. hist' = hist => Undeleted
    BY <1>2
  <2> QED  BY <1>1, <1>3, <1>5, <2>1 DEF SeriesNext, Aside
<1> QED  BY <1>4, <1>5

LEMMA ScanNext ==
    ASSUME SeriesInv, TypeOK', [SeriesNext]_allVars
    PROVE  ScanInv'
<1>0. /\ NamedInv /\ TypeOK /\ SeriesTypeOK /\ [Next]_vars
      /\ hist \in [Keys -> 0 .. MaxCount] /\ \A k \in Keys : hist[k] \in Nat
  BY HistType, CollectorBeside DEF SeriesInv, NamedInv, LifeInv
<1>1. CASE ScanBegins
  <2>1. /\ scan = None /\ scan' = {} /\ last' = None /\ owed' = Present
        /\ grouped' = [s \in Series |-> 0] /\ UNCHANGED <<hist, byIno, missing, published>>
        /\ quiet' = IF quiet < 2 THEN quiet + 1 ELSE 2
    BY <1>1 DEF ScanBegins, vars, mapperVars
  <2>2. ASSUME NEW s \in Series
        PROVE  /\ grouped'[s] = 0
               /\ Feeding(s)' = Feeding(s)
               /\ (Feeding(s) \cap Present) \ {} = Feeding(s)
    BY <2>1 DEF Feeding, Present, Emitted, SeriesOf, Unresolved, name
  <2>3. ASSUME NEW s \in Series, quiet' = 2
        PROVE  published[s] <= Held(hist, Feeding(s))
    <3>1. PublishedQuiet
      BY <1>0, <2>1, <2>3 DEF PublishedQuiet, SeriesTypeOK
    <3> QED  BY <3>1 DEF SeriesInv, PublishedInv
  <2>4. ASSUME NEW s \in Series
        PROVE  /\ grouped'[s] <= Held(hist', scan' \cap Feeding(s)')
               /\ quiet' = 2 =>
                     published'[s]
                       <= grouped'[s] + Held(hist', (Feeding(s)' \cap owed') \ scan')
    <3>1. (Feeding(s)' \cap owed') \ scan' = Feeding(s)
      BY <2>1, <2>2
    <3>2. \A S : Held(hist', S) \in Nat
      BY HeldType
    <3>3. published[s] \in Nat /\ published'[s] = published[s] /\ hist' = hist
      BY <1>0, <2>1 DEF SeriesTypeOK
    <3> QED  BY <2>2, <2>3, <3>1, <3>2, <3>3
  <2> QED  BY <2>1, <2>4 DEF ScanInv
<1>2. CASE ScanEnds
  BY <1>2 DEF ScanEnds, ScanInv
<1>3. ASSUME NEW k \in Keys, ScanKey(k), quiet > 0 PROVE ScanInv'
  <2>1. /\ scan # None /\ k \in Present \ Passed /\ CollectKey(k) /\ Group(k)
        /\ scan' = Passed \cup {k} /\ last' = k /\ UNCHANGED <<hist, owed, published, quiet>>
    BY <1>3 DEF ScanKey, CollectKey
  <2>2. last = None \/ last \in Present
    BY <1>3, <2>1 DEF SeriesInv, ScanInv
  <2>3. Passed = scan /\ k \notin scan /\ scan' = scan \cup {k} /\ last' \in Present'
    BY <2>1, <2>2 DEF Passed, Present
  <2>4. \A j \in Keys : hist[j] <= hist'[j]
    BY <1>0, <2>1
  <2>5. ASSUME NEW s \in Series
        PROVE  /\ grouped'[s] <= Held(hist', scan' \cap Feeding(s)')
               /\ quiet' = 2 =>
                     published'[s]
                       <= grouped'[s] + Held(hist', (Feeding(s)' \cap owed') \ scan')
    <3> DEFINE Read == scan \cap Feeding(s)
               Left == (Feeding(s) \cap owed) \ scan
               LeftThen == (Feeding(s)' \cap owed') \ scan'
    <3>0. /\ grouped[s] \in Nat /\ published[s] \in Nat /\ hist[k] \in Nat
          /\ Held(hist, Read) \in Nat /\ Held(hist, Left) \in Nat
          /\ Held(hist', scan' \cap Feeding(s)') \in Nat /\ Held(hist', LeftThen) \in Nat
      BY <1>0, HeldType DEF SeriesTypeOK
    <3>1. /\ grouped[s] <= Held(hist, Read)
          /\ quiet = 2 => published[s] <= grouped[s] + Held(hist, Left)
      BY <1>3, <2>1 DEF SeriesInv, ScanInv
    <3>2. CASE k \in Feeding(s)
      <4>1. grouped'[s] = grouped[s] + hist[k]
        <5>1. Emitted(k) /\ SeriesOf(k) = s
          BY <3>2 DEF Feeding
        <5> QED  BY <1>0, <2>1, <5>1 DEF Group, SeriesTypeOK
      <4>2. Held(hist, Read \cup {k}) = Held(hist, Read) + hist[k]
        BY <1>0, <2>3, HeldAdd
      <4>3. Held(hist, Read \cup {k}) <= Held(hist', scan' \cap Feeding(s)')
        <5>1. Read \cup {k} \in SUBSET Feeding(s)
          BY <3>2
        <5>2. \A j \in Read \cup {k} : j \in Feeding(s)' => j \in scan' \cap Feeding(s)'
          BY <2>3
        <5> QED  BY <1>0, <2>4, <5>1, <5>2, FeedGrows
      <4>4. Held(hist, Left) <= Held(hist', LeftThen) + hist[k]
        <5>1. Left \ {k} \in SUBSET Feeding(s)
          OBVIOUS
        <5>2. \A j \in Left \ {k} : j \in Feeding(s)' => j \in LeftThen
          BY <2>1, <2>3
        <5>3. Held(hist, Left \ {k}) <= Held(hist', LeftThen)
          BY <1>0, <2>4, <5>1, <5>2, FeedGrows
        <5>4. Held(hist, (Left \ {k}) \cup {k}) = Held(hist, Left \ {k}) + hist[k]
          BY <1>0, HeldAdd
        <5>5. Held(hist, Left) <= Held(hist, (Left \ {k}) \cup {k})
          BY <1>0, HeldMonotone
        <5>6. Held(hist, Left \ {k}) \in Nat /\ Held(hist, (Left \ {k}) \cup {k}) \in Nat
          BY HeldType
        <5> HIDE DEF Left, LeftThen
        <5> QED  BY <3>0, <5>3, <5>4, <5>5, <5>6
      <4> HIDE DEF Read, Left, LeftThen
      <4>5. grouped[s] + hist[k] <= Held(hist', scan' \cap Feeding(s)')
        BY <3>0, <3>1, <4>2, <4>3
      <4>6. quiet = 2 => published[s] <= (grouped[s] + hist[k]) + Held(hist', LeftThen)
        BY <3>0, <3>1, <4>4
      <4> QED  BY <2>1, <4>1, <4>5, <4>6 DEF LeftThen
    <3>3. CASE k \notin Feeding(s)
      <4>1. grouped'[s] = grouped[s]
        <5>1. ~ (Emitted(k) /\ SeriesOf(k) = s)
          BY <1>0, <2>1, <3>3 DEF Feeding, Present
        <5> QED  BY <1>0, <2>1, <5>1, SeriesType DEF Group, SeriesTypeOK
      <4>2. Held(hist, Read) <= Held(hist', scan' \cap Feeding(s)')
        <5>1. Read \in SUBSET Feeding(s)
          OBVIOUS
        <5>2. \A j \in Read : j \in Feeding(s)' => j \in scan' \cap Feeding(s)'
          BY <2>3
        <5> QED  BY <1>0, <2>4, <5>1, <5>2, FeedGrows
      <4>3. Held(hist, Left) <= Held(hist', LeftThen)
        <5>1. Left \in SUBSET Feeding(s)
          OBVIOUS
        <5>2. \A j \in Left : j \in Feeding(s)' => j \in LeftThen
          BY <2>1, <2>3, <3>3
        <5> QED  BY <1>0, <2>4, <5>1, <5>2, FeedGrows
      <4> HIDE DEF Read, Left, LeftThen
      <4>4. grouped[s] <= Held(hist', scan' \cap Feeding(s)')
        BY <3>0, <3>1, <4>2
      <4>5. quiet = 2 => published[s] <= grouped[s] + Held(hist', LeftThen)
        BY <3>0, <3>1, <4>3
      <4> QED  BY <2>1, <4>1, <4>4, <4>5 DEF LeftThen
    <3> QED  BY <3>2, <3>3
  <2> QED  BY <2>3, <2>5 DEF ScanInv
<1>4. CASE Undeleted /\ UNCHANGED <<scanVars, quiet>>
  <2>0. Undeleted /\ UNCHANGED <<scan, last, owed, grouped, published, quiet>>
    BY <1>4 DEF scanVars
  <2> SUFFICES ASSUME scan # None, quiet > 0
               PROVE  /\ last = None \/ last \in Present'
                      /\ \A s \in Series :
                            /\ grouped[s] <= Held(hist', scan \cap Feeding(s)')
                            /\ quiet = 2 =>
                                  published[s]
                                    <= grouped[s] + Held(hist', (Feeding(s)' \cap owed) \ scan)
    BY <2>0 DEF ScanInv
  <2>1. /\ last = None \/ last \in Present
        /\ \A s \in Series :
              /\ grouped[s] <= Held(hist, scan \cap Feeding(s))
              /\ quiet = 2 =>
                    published[s] <= grouped[s] + Held(hist, (Feeding(s) \cap owed) \ scan)
    BY DEF SeriesInv, ScanInv
  <2>2. last \in Present => last \in Present'
    <3>1. hist' \in [Keys -> 0 .. MaxCount] /\ \A j \in Keys : hist'[j] \in Nat
      BY TimesAssumption DEF TypeOK
    <3> QED  BY <1>0, <2>0, <3>1 DEF Present, Undeleted
  <2>3. ASSUME NEW s \in Series
        PROVE  /\ grouped[s] <= Held(hist', scan \cap Feeding(s)')
               /\ quiet = 2 =>
                     published[s] <= grouped[s] + Held(hist', (Feeding(s)' \cap owed) \ scan)
    <3> DEFINE Read == scan \cap Feeding(s)
               Left == (Feeding(s) \cap owed) \ scan
               ReadThen == scan \cap Feeding(s)'
               LeftThen == (Feeding(s)' \cap owed) \ scan
    <3>1. Held(hist, Read) <= Held(hist', ReadThen)
      <4>1. Read \in SUBSET Feeding(s) /\ \A j \in Read : j \in Feeding(s)' => j \in ReadThen
        OBVIOUS
      <4> QED  BY <1>0, <2>0, <4>1, FeedGrows DEF Undeleted
    <3>2. Held(hist, Left) <= Held(hist', LeftThen)
      <4>1. Left \in SUBSET Feeding(s) /\ \A j \in Left : j \in Feeding(s)' => j \in LeftThen
        OBVIOUS
      <4> QED  BY <1>0, <2>0, <4>1, FeedGrows DEF Undeleted
    <3>3. /\ grouped[s] \in Nat /\ published[s] \in Nat
          /\ Held(hist, Read) \in Nat /\ Held(hist, Left) \in Nat
          /\ Held(hist', ReadThen) \in Nat /\ Held(hist', LeftThen) \in Nat
      BY <1>0, HeldType DEF SeriesTypeOK
    <3>4. /\ grouped[s] <= Held(hist, Read)
          /\ quiet = 2 => published[s] <= grouped[s] + Held(hist, Left)
      BY <2>1
    <3> HIDE DEF Read, Left, ReadThen, LeftThen
    <3>5. grouped[s] <= Held(hist', ReadThen)
      BY <3>1, <3>3, <3>4
    <3>6. quiet = 2 => published[s] <= grouped[s] + Held(hist', LeftThen)
      BY <3>2, <3>3, <3>4
    <3> QED  BY <3>5, <3>6 DEF ReadThen, LeftThen
  <2> QED  BY <2>1, <2>2, <2>3
<1>5. CASE quiet' = 0
  BY <1>5 DEF ScanInv
<1>6. ASSUME NEW k \in Keys, ScanKey(k), ~ (quiet > 0) PROVE quiet' = 0
  BY <1>0, <1>6 DEF ScanKey, SeriesTypeOK
<1> QED  BY <1>0, <1>1, <1>2, <1>3, <1>4, <1>5, <1>6, StepKinds

LEMMA PublishedNext ==
    ASSUME SeriesInv, TypeOK', [SeriesNext]_allVars
    PROVE  PublishedInv'
<1>0. /\ NamedInv /\ TypeOK /\ SeriesTypeOK /\ [Next]_vars
      /\ hist \in [Keys -> 0 .. MaxCount] /\ \A k \in Keys : hist[k] \in Nat
  BY HistType, CollectorBeside DEF SeriesInv, NamedInv, LifeInv
<1>1. CASE ScanEnds
  <2>1. scan # None /\ published' = grouped /\ UNCHANGED <<hist, byIno, missing, quiet>>
    BY <1>1 DEF ScanEnds, vars, mapperVars
  <2>2. ASSUME PublishedQuiet', NEW s \in Series
        PROVE  published'[s] <= Held(hist', Feeding(s)')
    <3>1. quiet > 0
      BY <1>0, <2>1, <2>2 DEF PublishedQuiet, SeriesTypeOK
    <3>2. grouped[s] <= Held(hist, scan \cap Feeding(s))
      BY <2>1, <3>1 DEF SeriesInv, ScanInv
    <3>3. Held(hist, scan \cap Feeding(s)) <= Held(hist, Feeding(s))
      BY <1>0, HeldMonotone
    <3>4. Feeding(s)' = Feeding(s)
      BY <2>1 DEF Feeding, Emitted, SeriesOf, Unresolved, name
    <3>5. /\ grouped[s] \in Nat /\ Held(hist, scan \cap Feeding(s)) \in Nat
          /\ Held(hist, Feeding(s)) \in Nat
      BY <1>0, HeldType DEF SeriesTypeOK
    <3> QED  BY <2>1, <3>2, <3>3, <3>4, <3>5
  <2> QED  BY <2>2 DEF PublishedInv
<1>2. ASSUME published' = published, PublishedQuiet' => PublishedQuiet, Undeleted
      PROVE  PublishedInv'
  <2>1. ASSUME PublishedQuiet', NEW s \in Series
        PROVE  published'[s] <= Held(hist', Feeding(s)')
    <3>1. published[s] <= Held(hist, Feeding(s)) /\ published[s] \in Nat
      BY <1>0, <1>2, <2>1 DEF SeriesInv, PublishedInv, SeriesTypeOK
    <3>2. Held(hist, Feeding(s)) <= Held(hist', Feeding(s)')
      <4>1. /\ Feeding(s) \in SUBSET Feeding(s)
            /\ \A j \in Feeding(s) : j \in Feeding(s)' => j \in Feeding(s)'
        OBVIOUS
      <4> QED  BY <1>0, <1>2, <4>1, FeedGrows DEF Undeleted
    <3>3. Held(hist, Feeding(s)) \in Nat /\ Held(hist', Feeding(s)') \in Nat
      BY HeldType
    <3> QED  BY <1>2, <3>1, <3>2, <3>3
  <2> QED  BY <2>1 DEF PublishedInv
<1>3. hist' = hist => Undeleted
  BY <1>0 DEF Undeleted
<1>4. CASE ScanBegins
  <2>1. /\ published' = published /\ hist' = hist /\ scan = None /\ scan' # None
        /\ quiet' = IF quiet < 2 THEN quiet + 1 ELSE 2
    BY <1>4, SetsAssumption DEF ScanBegins, vars
  <2>2. PublishedQuiet' => PublishedQuiet
    BY <1>0, <2>1 DEF PublishedQuiet, SeriesTypeOK
  <2> QED  BY <1>2, <1>3, <2>1, <2>2
<1>5. ASSUME NEW k \in Keys, ScanKey(k) PROVE PublishedInv'
  <2>1. /\ published' = published /\ hist' = hist /\ quiet' = quiet /\ scan # None
        /\ scan' \in SUBSET Keys
    BY <1>0, <1>5 DEF ScanKey, CollectKey, Passed, SeriesTypeOK
  <2>2. PublishedQuiet' => PublishedQuiet
    BY <2>1, SetsAssumption DEF PublishedQuiet
  <2> QED  BY <1>2, <1>3, <2>1, <2>2
<1>6. CASE Undeleted /\ UNCHANGED <<scanVars, quiet>>
  BY <1>2, <1>6 DEF PublishedQuiet, scanVars
<1>7. CASE quiet' = 0
  BY <1>7 DEF PublishedInv, PublishedQuiet
<1> QED  BY <1>0, <1>1, <1>4, <1>5, <1>6, <1>7, StepKinds

LEMMA SeriesInvariant == SeriesSpec => []SeriesInv
<1>1. SeriesInit => SeriesInv
  <2> SUFFICES ASSUME SeriesInit PROVE SeriesInv
    OBVIOUS
  <2>1. LifeInv
    BY TypeInit, BornInit, SeenInit, MarkerInit DEF SeriesInit, LifeInv, DeadInv, Init
  <2>2. CountedInv
    BY SidesType, Times DEF SeriesInit, Init, CountedInv
  <2> QED
    BY <2>1, <2>2
    DEF SeriesInv, NamedInv, SeriesInit, SeriesTypeOK, ScanInv, PublishedInv, PublishedQuiet
<1>2. SeriesInv /\ [SeriesNext]_allVars => SeriesInv'
  <2> SUFFICES ASSUME SeriesInv, [SeriesNext]_allVars PROVE SeriesInv'
    OBVIOUS
  <2>1. LifeInv /\ CountedInv /\ SeriesTypeOK /\ [Next]_vars
    BY CollectorBeside DEF SeriesInv, NamedInv
  <2>2. LifeInv'
    BY <2>1, TypeStep, BornStep, SeenStep, MarkerStep, DeadStep DEF LifeInv
  <2>3. CountedInv'
    BY <2>1, CountedStep
  <2>4. TypeOK /\ TypeOK'
    BY <2>1, <2>2 DEF LifeInv
  <2> QED
    BY <2>1, <2>2, <2>3, <2>4, SumsType, ScanNext, PublishedNext DEF SeriesInv, NamedInv
<1> QED  BY <1>1, <1>2, PTL DEF SeriesSpec

\* Between two scrapes without a deletion no series drops or stops, for any number of
\* cgroups, labels and keys that share a label: a key that feeds a series feeds it in
\* the next scrape too, whatever is born, dies, is named or given up in between.
THEOREM SeriesNeverDrop == SeriesSpec => QuietSeriesMonotone
<1> DEFINE Step == ScanEnds /\ quiet = 2 => \A s \in Series : published'[s] >= published[s]
<1>1. SeriesInv => [Step]_allVars
  <2> SUFFICES ASSUME SeriesInv, ScanEnds, quiet = 2, NEW s \in Series
               PROVE  published'[s] >= published[s]
    OBVIOUS
  <2>1. scan # None /\ owed \cap Present \subseteq Passed /\ published' = grouped
    BY DEF ScanEnds
  <2>2. /\ last = None \/ last \in Present
        /\ published[s] <= grouped[s] + Held(hist, (Feeding(s) \cap owed) \ scan)
    <3>1. quiet > 0 /\ ScanInv
      BY DEF SeriesInv
    <3> QED  BY <2>1, <3>1 DEF ScanInv
  <2>3. (Feeding(s) \cap owed) \ scan = {}
    BY <2>1, <2>2 DEF Feeding, Present, Passed
  <2>4. Held(hist, {}) = 0 /\ published[s] \in Nat /\ grouped[s] \in Nat
    BY HeldNothing DEF SeriesInv, SeriesTypeOK
  <2> QED  BY <2>1, <2>2, <2>3, <2>4
<1> QED  BY <1>1, SeriesInvariant, PTL DEF SeriesSpec, QuietSeriesMonotone
==============================================================================
