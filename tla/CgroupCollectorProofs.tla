------------------------ MODULE CgroupCollectorProofs ------------------------
(***************************************************************************)
(* Proofs about CgroupCollector for every set of cgroups and keys and all  *)
(* times that keep the margins of MarginsAssumption.                       *)
(*                                                                         *)
(*   CollectorTypeCorrect     Spec => []TypeOK                             *)
(*   PruneSparesTheLiving     Spec => OnlyDeadPruned                       *)
(*   TombstonesOutlastCounts  Spec => CollectedAfterPrune                  *)
(*   SeriesNeverRelabeled     Spec => []NeverRelabeled                     *)
(***************************************************************************)
EXTENDS CgroupCollector, FiniteSetTheorems, TLAPS

(***************************************************************************)
(* The strengthening                                                       *)
(***************************************************************************)
\* Nothing is known of, marked for, counted for or met under an id before its
\* cgroup is born.
BornInv ==
    /\ \A id \in Ids : life[id] = "unborn" =>
          byIno[id] = None /\ missing[id] = None /\ id \notin ever /\ names[id] = {}
    /\ \A k \in Keys : hist[k] > 0 => \A id \in Sides(k) : life[id] # "unborn"

\* What was known when the last walk ended and lives was met by it, and will be
\* met by the one under way.
SeenInv ==
    \A id \in Live : name(id) =>
        /\ byIno[id] <= sinceRefresh
        /\ walking => id \in steady

\* The marker of an id without a name that lives, or may yet be met: the id was
\* born after the last walk began, or lives through the one under way.
MarkerInv ==
    \A id \in Live \cup ever : ~ name(id) /\ missing[id] # None =>
        \/ missing[id] <= sinceRefresh
        \/ /\ missing[id] <= RefreshWithin + sinceRefresh
           /\ id \in Live /\ walking => id \in steady

\* Prune's verdict stays true.
DeadInv == dead # None => \A k \in dead : \E id \in Sides(k) : life[id] = "gone"

\* How old a name may be whose counts are still there.
CountedInv ==
    \A k \in Keys : hist[k] > 0 =>
        \A id \in Sides(k) : name(id) =>
            /\ byIno[id] <= deadCgroupRetention + PruneWithin + sincePrune
            /\ dead # None /\ k \notin dead => byIno[id] <= deadCgroupRetention + sincePrune

\* Who was emitted as "unresolved" is never found, and who lost his name has no
\* counts any more and gets no new ones.
NamesInv ==
    \A id \in Ids :
        /\ "unresolved" \in names[id] =>
              life[id] = "gone" /\ id \notin ever /\ ~ name(id)
        /\ "named" \in names[id] /\ ~ name(id) =>
              life[id] = "gone" /\ \A k \in Keys : id \in Sides(k) => hist[k] = 0
        /\ ~ ({"named", "unresolved"} \subseteq names[id])

LifeInv == TypeOK /\ BornInv /\ SeenInv /\ MarkerInv /\ DeadInv

(***************************************************************************)
(* Types                                                                   *)
(***************************************************************************)
LEMMA OlderType ==
    ASSUME NEW age \in Ages \cup {None}
    PROVE  /\ Older(age) \in Ages \cup {None}
           /\ Older(age) = None <=> age = None
           /\ age # None => Older(age) \in Nat /\ age \in Nat /\ Older(age) <= age + 1
BY SetsAssumption, TimesAssumption DEF Older, Ages, MaxAge

LEMMA TypeInit ==
    ASSUME Init
    PROVE  TypeOK
<1>1. {deadCgroupRetention, RefreshWithin, PruneWithin, MaxCount} \subseteq Nat
  BY TimesAssumption
<1>2. 0 \in Ages /\ 0 \in 0 .. MaxCount /\ 0 \in 0 .. RefreshWithin /\ 0 \in 0 .. PruneWithin
  BY <1>1 DEF Ages, MaxAge
<1>3. life \in [Ids -> {"unborn", "live", "gone"}] /\ byIno \in [Ids -> Ages \cup {None}]
  BY <1>2 DEF Init
<1> QED  BY <1>2, <1>3 DEF Init, TypeOK

LEMMA TypeStep ==
    ASSUME TypeOK, [Next]_vars
    PROVE  TypeOK'
<1> USE SetsAssumption, TimesAssumption
<1> USE DEF TypeOK
<1>1. CASE Tick
  BY <1>1, OlderType DEF Tick
<1>2. ASSUME NEW id \in Ids, Born(id)  PROVE TypeOK'
  BY <1>2 DEF Born, pruneVars
<1>3. ASSUME NEW id \in Ids, Gone(id)  PROVE TypeOK'
  BY <1>3 DEF Gone, pruneVars
<1>4. ASSUME NEW k \in Keys, Record(k)  PROVE TypeOK'
  <2>1. hist' \in [Keys -> 0 .. MaxCount]
    BY <1>4 DEF Record
  <2>2. dead = None \/ dead \subseteq {j \in Keys : hist'[j] > 0}
    <3>1. \A j \in Keys : hist[j] > 0 => hist'[j] > 0
      BY <1>4 DEF Record
    <3> QED  BY <3>1
  <2> QED  BY <1>4, <2>1, <2>2 DEF Record, mapperVars, pruneVars
<1>5. CASE WalkBegins
  BY <1>5 DEF WalkBegins, Live, pruneVars
<1>6. CASE WalkEnds
  <2>1. byIno' \in [Ids -> Ages \cup {None}]
    BY <1>6 DEF WalkEnds, Ages, MaxAge
  <2>2. /\ walking' = FALSE /\ steady' = {} /\ ever' = {} /\ sinceRefresh' = 0
        /\ UNCHANGED <<life, hist, kick, missing, dead, sincePrune, names>>
    BY <1>6 DEF WalkEnds, pruneVars
  <2>3. 0 \in 0 .. RefreshWithin
    OBVIOUS
  <2> QED  BY <2>1, <2>2, <2>3
<1>7. CASE PruneBegins
  BY <1>7 DEF PruneBegins, mapperVars
<1>8. ASSUME NEW k \in Keys, PruneDelete(k)  PROVE TypeOK'
  <2>1. hist' \in [Keys -> 0 .. MaxCount] /\ \A j \in Keys \ {k} : hist'[j] = hist[j]
    BY <1>8 DEF PruneDelete
  <2>2. dead' \subseteq {j \in Keys : hist'[j] > 0}
    BY <1>8, <2>1 DEF PruneDelete
  <2> QED  BY <1>8, <2>1, <2>2 DEF PruneDelete, mapperVars
<1>9. CASE PruneEnds
  BY <1>9 DEF PruneEnds, mapperVars
<1>10. ASSUME NEW k \in Keys, CollectKey(k)  PROVE TypeOK'
  <2>1. kick' \in BOOLEAN /\ missing' \in [Ids -> Ages \cup {None}]
    BY <1>10 DEF CollectKey, Miss, Ages, MaxAge
  <2>2. names' \in [Ids -> SUBSET {"named", "unresolved"}]
    BY <1>10 DEF CollectKey
  <2> QED  BY <1>10, <2>1, <2>2 DEF CollectKey, pruneVars
<1>11. CASE UNCHANGED vars
  BY <1>11 DEF vars, mapperVars, pruneVars
<1> QED
  BY <1>1, <1>2, <1>3, <1>4, <1>5, <1>6, <1>7, <1>8, <1>9, <1>10, <1>11
  DEF Next, Environment, Mapper, Prune

\* Type correctness; among others prune never deletes a key that is not there.
THEOREM CollectorTypeCorrect == Spec => []TypeOK
BY TypeInit, TypeStep, PTL DEF Spec

(***************************************************************************)
(* Births, walks and markers                                               *)
(***************************************************************************)
LEMMA Times ==
    /\ {RefreshWithin, PruneWithin, unresolvedGrace, deadCgroupRetention} \subseteq Nat
    /\ RefreshWithin + RefreshWithin < unresolvedGrace
    /\ unresolvedGrace <= deadCgroupRetention
    /\ PruneWithin + PruneWithin <= deadCgroupRetention
BY TimesAssumption, MarginsAssumption

LEMMA SidesType ==
    ASSUME NEW k \in Keys
    PROVE  Sides(k) \subseteq Ids /\ k[1] \in Sides(k) /\ k[2] \in Sides(k)
BY SetsAssumption DEF Sides

\* Nothing is older than one tick more after a tick, and None stays None.
LEMMA TickAges ==
    ASSUME TypeOK, Tick, NEW id \in Ids
    PROVE  /\ name(id)' <=> name(id)
           /\ missing'[id] = None <=> missing[id] = None
           /\ name(id) => byIno[id] \in Nat /\ byIno'[id] \in Nat /\ byIno'[id] <= byIno[id] + 1
           /\ missing[id] # None =>
                 missing[id] \in Nat /\ missing'[id] \in Nat /\ missing'[id] <= missing[id] + 1
<1>1. byIno[id] \in Ages \cup {None} /\ missing[id] \in Ages \cup {None}
  BY DEF TypeOK
<1>2. byIno'[id] = Older(byIno[id]) /\ missing'[id] = Older(missing[id])
  BY DEF Tick
<1>3. Older(byIno[id]) \in Ages \cup {None} /\ Older(missing[id]) \in Ages \cup {None}
  BY <1>1, OlderType
<1> QED  BY <1>1, <1>2, <1>3, OlderType DEF name, Ages

\* Collect asks for sides of the key only, and marks only what it asks for.
LEMMA Marked ==
    ASSUME NEW k \in Keys, CollectKey(k), NEW id \in Ids
    PROVE  /\ missing'[id] = missing[id] \/ (missing'[id] = 0 /\ id \in Sides(k))
           /\ hist[k] > 0
           /\ UNCHANGED <<life, hist, byIno, walking, steady, ever, sinceRefresh, dead, sincePrune>>
<1>1. Asked(k) \subseteq Sides(k)
  BY DEF Asked, Sides
<1> QED  BY <1>1 DEF CollectKey, Miss, pruneVars

\* What a walk finds lived at some time during it, what it does not find did not
\* live all along.
LEMMA WalkResult ==
    ASSUME TypeOK, WalkEnds, NEW id \in Ids
    PROVE  \/ id \in ever /\ byIno'[id] = 0
           \/ id \notin steady /\ byIno'[id] = byIno[id]
           \/ /\ id \notin steady /\ byIno'[id] = None
              /\ name(id) /\ byIno[id] > 2 * deadCgroupRetention
BY DEF WalkEnds, Collected, TypeOK

LEMMA BornInit == Init => BornInv
BY SetsAssumption, TimesAssumption DEF Init, BornInv

LEMMA BornStep ==
    ASSUME TypeOK, BornInv, [Next]_vars
    PROVE  BornInv'
<1> USE DEF BornInv
<1>1. CASE Tick
  BY <1>1, TickAges, SidesType DEF Tick, name
<1>2. ASSUME NEW id \in Ids, Born(id)  PROVE BornInv'
  BY <1>2, SidesType DEF Born, TypeOK
<1>3. ASSUME NEW id \in Ids, Gone(id)  PROVE BornInv'
  BY <1>3, SidesType DEF Gone, TypeOK
<1>4. ASSUME NEW k \in Keys, Record(k)  PROVE BornInv'
  BY <1>4, SidesType DEF Record, mapperVars, pruneVars, TypeOK, Live
<1>5. CASE WalkBegins
  BY <1>5, SidesType DEF WalkBegins, Live, pruneVars
<1>6. CASE WalkEnds
  <2>1. ASSUME NEW id \in Ids, life[id] = "unborn"  PROVE byIno'[id] = None
    BY <1>6, <2>1, WalkResult DEF name
  <2> QED  BY <1>6, <2>1, SidesType DEF WalkEnds, pruneVars
<1>7. CASE PruneBegins
  BY <1>7, SidesType DEF PruneBegins, mapperVars
<1>8. ASSUME NEW k \in Keys, PruneDelete(k)  PROVE BornInv'
  BY <1>8, SidesType DEF PruneDelete, mapperVars, TypeOK
<1>9. CASE PruneEnds
  BY <1>9, SidesType DEF PruneEnds, mapperVars
<1>10. ASSUME NEW k \in Keys, CollectKey(k)  PROVE BornInv'
  <2>1. ASSUME NEW id \in Ids, life[id] = "unborn"
        PROVE  id \notin Sides(k) /\ missing'[id] = None
    BY <1>10, <2>1, Marked
  <2>2. ASSUME NEW id \in Ids, life[id] = "unborn"  PROVE names'[id] = {}
    BY <1>10, <2>1, <2>2 DEF CollectKey, TypeOK
  <2> QED  BY <1>10, <2>1, <2>2, Marked, SidesType DEF CollectKey
<1>11. CASE UNCHANGED vars
  BY <1>11 DEF vars, mapperVars, pruneVars
<1> QED
  BY <1>1, <1>2, <1>3, <1>4, <1>5, <1>6, <1>7, <1>8, <1>9, <1>10, <1>11
  DEF Next, Environment, Mapper, Prune

LEMMA SeenInit == Init => SeenInv
BY SetsAssumption DEF Init, SeenInv, Live, name

LEMMA SeenStep ==
    ASSUME TypeOK, BornInv, SeenInv, [Next]_vars
    PROVE  SeenInv'
<1> USE DEF SeenInv
<1>1. CASE Tick
  <2>1. sinceRefresh \in Nat /\ sinceRefresh' = sinceRefresh + 1
        /\ UNCHANGED <<life, walking, steady>>
    BY <1>1, TimesAssumption DEF Tick, TypeOK
  <2> QED  BY <1>1, <2>1, TickAges DEF Live
<1>2. ASSUME NEW id \in Ids, Born(id)  PROVE SeenInv'
  <2>1. ~ name(id) /\ Live' = Live \cup {id} /\ UNCHANGED <<byIno, sinceRefresh, walking, steady>>
    BY <1>2 DEF Born, BornInv, name, Live, TypeOK
  <2> QED  BY <2>1 DEF name
<1>3. ASSUME NEW id \in Ids, Gone(id)  PROVE SeenInv'
  BY <1>3 DEF Gone, Live, TypeOK, name
<1>4. ASSUME NEW k \in Keys, Record(k)  PROVE SeenInv'
  BY <1>4 DEF Record, mapperVars, Live, name
<1>5. CASE WalkBegins
  BY <1>5 DEF WalkBegins, Live, name
<1>6. CASE WalkEnds
  <2>1. Live' = Live /\ sinceRefresh' = 0 /\ walking /\ walking' = FALSE
    BY <1>6 DEF WalkEnds, Live
  <2>2. ASSUME NEW id \in Live, byIno'[id] # None  PROVE byIno'[id] = 0
    BY <1>6, <2>1, <2>2, WalkResult DEF Live, name
  <2> QED  BY <2>1, <2>2 DEF name
<1>7. CASE PruneBegins
  BY <1>7 DEF PruneBegins, mapperVars, Live, name
<1>8. ASSUME NEW k \in Keys, PruneDelete(k)  PROVE SeenInv'
  BY <1>8 DEF PruneDelete, mapperVars, Live, name
<1>9. CASE PruneEnds
  BY <1>9 DEF PruneEnds, mapperVars, Live, name
<1>10. ASSUME NEW k \in Keys, CollectKey(k)  PROVE SeenInv'
  BY <1>10 DEF CollectKey, Live, name
<1>11. CASE UNCHANGED vars
  BY <1>11 DEF vars, mapperVars, pruneVars, Live, name
<1> QED
  BY <1>1, <1>2, <1>3, <1>4, <1>5, <1>6, <1>7, <1>8, <1>9, <1>10, <1>11
  DEF Next, Environment, Mapper, Prune

LEMMA MarkerInit == Init => MarkerInv
BY SetsAssumption DEF Init, MarkerInv, Live

LEMMA MarkerStep ==
    ASSUME TypeOK, BornInv, SeenInv, MarkerInv, [Next]_vars
    PROVE  MarkerInv'
<1> USE DEF MarkerInv
<1>1. CASE Tick
  <2>1. /\ sinceRefresh \in Nat /\ sinceRefresh' = sinceRefresh + 1 /\ RefreshWithin \in Nat
        /\ UNCHANGED <<life, walking, steady, ever>>
    BY <1>1, TimesAssumption DEF Tick, TypeOK
  <2>2. ever \subseteq Ids
    BY DEF TypeOK
  <2> QED  BY <1>1, <2>1, <2>2, TickAges DEF Live
<1>2. ASSUME NEW id \in Ids, Born(id)  PROVE MarkerInv'
  <2>1. /\ missing'[id] = None /\ Live' = Live \cup {id} /\ ever' \subseteq ever \cup {id}
        /\ UNCHANGED <<missing, byIno, sinceRefresh, walking, steady>>
    BY <1>2 DEF Born, BornInv, Live, TypeOK
  <2> QED  BY <2>1 DEF name
<1>3. ASSUME NEW id \in Ids, Gone(id)  PROVE MarkerInv'
  <2>1. /\ Live' = Live \ {id} /\ id \in Live /\ ever' = ever /\ steady' = steady \ {id}
        /\ UNCHANGED <<missing, byIno, sinceRefresh, walking>>
    BY <1>3 DEF Gone, Live, TypeOK
  <2> QED  BY <2>1 DEF name
<1>4. ASSUME NEW k \in Keys, Record(k)  PROVE MarkerInv'
  BY <1>4 DEF Record, mapperVars, Live, name
<1>5. CASE WalkBegins
  BY <1>5 DEF WalkBegins, Live, name
<1>6. CASE WalkEnds
  <2>1. /\ Live' = Live /\ ever' = {} /\ sinceRefresh' = 0 /\ walking /\ walking' = FALSE
        /\ missing' = missing
    BY <1>6 DEF WalkEnds, Live
  <2>2. ASSUME NEW id \in Live, byIno'[id] = None, missing[id] # None
        PROVE  missing[id] <= RefreshWithin
    <3>1. id \in Ids
      BY DEF Live
    <3>2. id \notin steady
      BY <1>6, <2>2, <3>1, SetsAssumption, WalkResult
    <3>3. ~ name(id)
      BY <2>1, <3>2 DEF SeenInv
    <3>4. missing[id] <= sinceRefresh
      BY <2>1, <2>2, <3>2, <3>3
    <3> QED  BY <2>2, <3>1, <3>4, TimesAssumption DEF TypeOK, Ages, MaxAge
  <2> QED  BY <2>1, <2>2, Times DEF name
<1>7. CASE PruneBegins
  BY <1>7 DEF PruneBegins, mapperVars, Live, name
<1>8. ASSUME NEW k \in Keys, PruneDelete(k)  PROVE MarkerInv'
  BY <1>8 DEF PruneDelete, mapperVars, Live, name
<1>9. CASE PruneEnds
  <2>1. \A id \in Ids : ~ name(id) => missing'[id] = missing[id]
    BY <1>9 DEF PruneEnds
  <2> QED  BY <1>9, <2>1 DEF PruneEnds, mapperVars, Live, name, TypeOK
<1>10. ASSUME NEW k \in Keys, CollectKey(k)  PROVE MarkerInv'
  <2>1. Live' = Live /\ UNCHANGED <<byIno, walking, steady, ever, sinceRefresh>>
    BY <1>10 DEF CollectKey, Live
  <2>2. 0 <= sinceRefresh /\ Live \subseteq Ids /\ ever \subseteq Ids
    BY TimesAssumption DEF TypeOK, Live
  <2>3. \A id \in Ids : missing'[id] = missing[id] \/ missing'[id] = 0
    BY <1>10, Marked
  <2> QED  BY <2>1, <2>2, <2>3 DEF name
<1>11. CASE UNCHANGED vars
  BY <1>11 DEF vars, mapperVars, pruneVars, Live, name
<1> QED
  BY <1>1, <1>2, <1>3, <1>4, <1>5, <1>6, <1>7, <1>8, <1>9, <1>10, <1>11
  DEF Next, Environment, Mapper, Prune

(***************************************************************************)
(* Prune                                                                   *)
(***************************************************************************)
\* The marker of what lives, or may yet be met, is younger than the grace.
LEMMA MarkerYoung ==
    ASSUME TypeOK, MarkerInv, NEW id \in Live \cup ever, ~ name(id), missing[id] # None
    PROVE  missing[id] < unresolvedGrace
<1>1. missing[id] \in Nat /\ sinceRefresh \in Nat /\ sinceRefresh <= RefreshWithin
  BY TimesAssumption DEF TypeOK, Live, Ages, MaxAge
<1>2. missing[id] <= sinceRefresh \/ missing[id] <= RefreshWithin + sinceRefresh
  BY DEF MarkerInv
<1> QED  BY <1>1, <1>2, Times

LEMMA ExpiredGone ==
    ASSUME TypeOK, BornInv, SeenInv, MarkerInv, NEW id \in Ids, expired(id)
    PROVE  life[id] = "gone"
<1>1. life[id] # "unborn"
  BY DEF BornInv, expired, name
<1>2. ASSUME id \in Live  PROVE FALSE
  <2>1. CASE name(id)
    <3>1. byIno[id] <= sinceRefresh /\ byIno[id] > deadCgroupRetention
      BY <1>2, <2>1 DEF SeenInv, expired
    <3>2. byIno[id] \in Nat /\ sinceRefresh \in Nat /\ sinceRefresh <= RefreshWithin
      BY <2>1, TimesAssumption DEF TypeOK, name, Ages, MaxAge
    <3> QED  BY <3>1, <3>2, Times
  <2>2. CASE ~ name(id)
    <3>1. missing[id] # None /\ missing[id] > deadCgroupRetention
      BY <2>2 DEF expired
    <3>2. missing[id] < unresolvedGrace
      BY <1>2, <2>2, <3>1, MarkerYoung
    <3>3. missing[id] \in Nat
      BY <3>1, TimesAssumption DEF TypeOK, Ages, MaxAge
    <3> QED  BY <3>1, <3>2, <3>3, Times
  <2> QED  BY <2>1, <2>2
<1> QED  BY <1>1, <1>2 DEF TypeOK, Live

LEMMA DeadStep ==
    ASSUME TypeOK, BornInv, SeenInv, MarkerInv, DeadInv, [Next]_vars
    PROVE  DeadInv'
<1>1. ASSUME NEW id \in Ids, life[id] = "gone"  PROVE life'[id] = "gone"
  BY <1>1 DEF Next, Environment, Mapper, Prune, Tick, Born, Gone, Record, WalkBegins, WalkEnds,
              PruneBegins, PruneDelete, PruneEnds, CollectKey, vars, TypeOK
<1>2. ASSUME NEW k \in Keys, NEW id \in Sides(k)  PROVE id \in Ids
  BY SidesType
<1>3. CASE PruneBegins
  <2>1. ASSUME NEW k \in dead'  PROVE k \in Keys /\ \E id \in Sides(k) : expired(id)
    BY <1>3, SidesType DEF PruneBegins
  <2>2. life' = life
    BY <1>3 DEF PruneBegins
  <2> QED  BY <1>2, <2>1, <2>2, ExpiredGone DEF DeadInv
<1>4. ASSUME dead' = None \/ (dead # None /\ dead' \subseteq dead)  PROVE DeadInv'
  <2>1. ASSUME dead # None, NEW k \in dead
        PROVE  \E id \in Sides(k) : life'[id] = "gone"
    <3>1. k \in Keys
      BY <2>1 DEF TypeOK
    <3> QED  BY <1>1, <1>2, <2>1, <3>1 DEF DeadInv
  <2> QED  BY <1>4, <2>1 DEF DeadInv
<1>5. PruneBegins \/ dead' = None \/ (dead # None /\ dead' \subseteq dead)
  BY DEF Next, Environment, Mapper, Prune, Tick, Born, Gone, Record, WalkBegins, WalkEnds,
         PruneDelete, PruneEnds, CollectKey, pruneVars, vars
<1> QED  BY <1>3, <1>4, <1>5

LEMMA LifeHolds == Spec => []LifeInv
<1>1. Init => LifeInv
  BY TypeInit, BornInit, SeenInit, MarkerInit DEF LifeInv, DeadInv, Init
<1>2. LifeInv /\ [Next]_vars => LifeInv'
  BY TypeStep, BornStep, SeenStep, MarkerStep, DeadStep DEF LifeInv
<1> QED  BY <1>1, <1>2, PTL DEF Spec

\* Counts are pruned only when one side of the key is gone: prune acts on a verdict
\* that no refresh, birth or count after it can revoke.
THEOREM PruneSparesTheLiving == Spec => OnlyDeadPruned
<1> DEFINE Step == \A k \in Keys : hist[k] > 0 /\ hist'[k] = 0 =>
                        \E id \in Sides(k) : life[id] = "gone"
<1>1. LifeInv /\ [Next]_vars => Step
  <2> SUFFICES ASSUME LifeInv, [Next]_vars, NEW k \in Keys, hist[k] > 0, hist'[k] = 0
               PROVE  \E id \in Sides(k) : life[id] = "gone"
    OBVIOUS
  <2>1. hist[k] \in Nat /\ \A j \in Keys : hist[j] \in Nat
    BY TimesAssumption DEF LifeInv, TypeOK
  <2>2. dead # None /\ k \in dead
    <3>1. CASE \E j \in Keys : Record(j)
      BY <3>1, <2>1 DEF Record, LifeInv, TypeOK
    <3>2. CASE \E j \in Keys : PruneDelete(j)
      BY <3>2, <2>1 DEF PruneDelete, LifeInv, TypeOK
    <3>3. CASE hist' = hist
      BY <3>3, <2>1
    <3> QED
      BY <3>1, <3>2, <3>3 DEF Next, Environment, Mapper, Prune, Tick, Born, Gone, WalkBegins,
                              WalkEnds, PruneBegins, PruneEnds, CollectKey, vars
  <2> QED  BY <2>2 DEF LifeInv, DeadInv
<1> QED  BY <1>1, LifeHolds, PTL DEF Spec, OnlyDeadPruned

(***************************************************************************)
(* Tombstones                                                              *)
(***************************************************************************)
LEMMA CountedStep ==
    ASSUME LifeInv, CountedInv, [Next]_vars
    PROVE  CountedInv'
<1> USE DEF CountedInv
<1> USE Times, SidesType
<1>0. /\ sincePrune \in Nat /\ sincePrune <= PruneWithin
      /\ \A id \in Ids : name(id) => byIno[id] \in Nat
  BY TimesAssumption DEF LifeInv, TypeOK, name, Ages, MaxAge
<1>1. CASE Tick
  <2>1. sincePrune' = sincePrune + 1 /\ UNCHANGED <<hist, dead>>
    BY <1>1 DEF Tick
  <2>2. \A id \in Ids : /\ name(id)' <=> name(id)
                        /\ name(id) => byIno'[id] \in Nat /\ byIno'[id] <= byIno[id] + 1
    BY <1>1, TickAges DEF LifeInv
  <2> QED  BY <1>0, <2>1, <2>2
<1>2. ASSUME UNCHANGED <<hist, byIno, dead, sincePrune>>  PROVE CountedInv'
  BY <1>2 DEF name
<1>3. ASSUME NEW k \in Keys, Record(k)  PROVE CountedInv'
  <2>1. UNCHANGED <<byIno, dead, sincePrune>> /\ \A j \in Keys \ {k} : hist'[j] = hist[j]
    BY <1>3 DEF Record, mapperVars, pruneVars, LifeInv, TypeOK
  <2>2. ASSUME NEW id \in Sides(k), name(id)  PROVE byIno[id] <= deadCgroupRetention
    <3>1. id \in Live
      BY <1>3 DEF Record
    <3>2. byIno[id] <= sinceRefresh
      BY <2>2, <3>1 DEF LifeInv, SeenInv
    <3>3. sinceRefresh \in Nat /\ sinceRefresh <= RefreshWithin
      BY TimesAssumption DEF LifeInv, TypeOK
    <3> QED  BY <1>0, <2>2, <3>2, <3>3
  <2> QED  BY <1>0, <2>1, <2>2 DEF name
<1>4. CASE WalkEnds
  <2>1. UNCHANGED <<hist, dead, sincePrune>>
    BY <1>4 DEF WalkEnds, pruneVars
  <2>2. \A id \in Ids : byIno'[id] = None \/ byIno'[id] = 0 \/ byIno'[id] = byIno[id]
    BY <1>4, WalkResult DEF LifeInv
  <2> QED  BY <1>0, <2>1, <2>2 DEF name
<1>5. CASE PruneBegins
  <2>1. dead = None /\ UNCHANGED <<hist, byIno, sincePrune>>
    BY <1>5 DEF PruneBegins, mapperVars
  <2>2. ASSUME NEW k \in Keys, hist[k] > 0, k \notin dead', NEW id \in Sides(k), name(id)
        PROVE  byIno[id] <= deadCgroupRetention
    <3>1. ~ expired(id)
      BY <1>5, <2>2 DEF PruneBegins, Sides
    <3> QED  BY <1>0, <2>2, <3>1 DEF expired
  <2> QED  BY <1>0, <2>1, <2>2 DEF name
<1>6. ASSUME NEW k \in Keys, PruneDelete(k)  PROVE CountedInv'
  <2>1. /\ dead # None /\ dead' = dead \ {k} /\ UNCHANGED <<byIno, sincePrune>>
        /\ hist'[k] = 0 /\ \A j \in Keys \ {k} : hist'[j] = hist[j]
    BY <1>6 DEF PruneDelete, mapperVars, LifeInv, TypeOK
  <2> QED  BY <1>0, <2>1 DEF name
<1>7. CASE PruneEnds
  <2>1. dead = {} /\ dead' = None /\ sincePrune' = 0 /\ UNCHANGED <<hist, byIno>>
    BY <1>7 DEF PruneEnds, mapperVars
  <2>2. dead # None
    BY <2>1, SetsAssumption
  <2> QED  BY <1>0, <2>1, <2>2 DEF name
<1> QED
  BY <1>1, <1>2, <1>3, <1>4, <1>5, <1>6, <1>7
  DEF Next, Environment, Mapper, Prune, Born, Gone, WalkBegins, CollectKey, vars, mapperVars, pruneVars

\* A tombstone is collected only when no counts are left of its cgroup, which is gone.
LEMMA CollectedIsPruned ==
    ASSUME LifeInv, CountedInv, WalkEnds, NEW id \in Ids, name(id), byIno'[id] = None
    PROVE  life[id] = "gone" /\ \A k \in Keys : id \in Sides(k) => hist[k] = 0
<1>1. byIno[id] \in Nat /\ sinceRefresh \in Nat /\ sinceRefresh <= RefreshWithin
      /\ sincePrune \in Nat /\ sincePrune <= PruneWithin /\ \A k \in Keys : hist[k] \in Nat
  BY TimesAssumption DEF LifeInv, TypeOK, name, Ages, MaxAge
<1>2. id \notin steady /\ byIno[id] > 2 * deadCgroupRetention
  BY SetsAssumption, WalkResult DEF LifeInv, name
<1>3. id \notin Live
  BY <1>1, <1>2, Times DEF LifeInv, SeenInv
<1>4. life[id] = "gone"
  BY <1>3 DEF LifeInv, TypeOK, BornInv, Live, name
<1>5. ASSUME NEW k \in Keys, id \in Sides(k), hist[k] > 0  PROVE FALSE
  <2>1. byIno[id] <= deadCgroupRetention + PruneWithin + sincePrune
    BY <1>5 DEF CountedInv
  <2> QED  BY <1>1, <1>2, <2>1, Times
<1> QED  BY <1>1, <1>4, <1>5

LEMMA CountedHolds == Spec => [](LifeInv /\ CountedInv)
<1>1. Init => CountedInv
  BY SidesType, Times DEF Init, CountedInv
<1>2. LifeInv /\ CountedInv /\ [Next]_vars => CountedInv'
  BY CountedStep
<1> QED  BY <1>1, <1>2, LifeHolds, PTL DEF Spec

\* A tombstone is collected after prune has removed its entries, as the comment on
\* cgroupMapper says: it takes two prunes within the retention.
THEOREM TombstonesOutlastCounts == Spec => CollectedAfterPrune
<1> DEFINE Step == \A id \in Ids : name(id) /\ byIno'[id] = None =>
                        \A k \in Keys : id \in Sides(k) => hist[k] = 0
<1>1. LifeInv /\ CountedInv /\ [Next]_vars => Step
  <2> SUFFICES ASSUME LifeInv, CountedInv, [Next]_vars,
                      NEW id \in Ids, name(id), byIno'[id] = None
               PROVE  \A k \in Keys : id \in Sides(k) => hist[k] = 0
    OBVIOUS
  <2>1. CASE WalkEnds
    BY <2>1, CollectedIsPruned
  <2>2. CASE Tick
    <3>1. name(id)' <=> name(id)
      BY <2>2, TickAges DEF LifeInv
    <3> QED  BY <3>1 DEF name
  <2>3. CASE byIno' = byIno
    BY <2>3 DEF name
  <2> QED
    BY <2>1, <2>2, <2>3
    DEF Next, Environment, Mapper, Prune, Born, Gone, Record, WalkBegins, PruneBegins, PruneDelete,
        PruneEnds, CollectKey, vars, mapperVars
<1> QED  BY <1>1, CountedHolds, PTL DEF Spec, CollectedAfterPrune

(***************************************************************************)
(* Names                                                                   *)
(***************************************************************************)
LEMMA UnresolvedGone ==
    ASSUME LifeInv, NEW k \in Keys, hist[k] > 0, NEW id \in Sides(k), Unresolved(id)
    PROVE  life[id] = "gone" /\ id \notin ever
<1>1. id \in Ids /\ life[id] # "unborn"
  BY SidesType DEF LifeInv, BornInv
<1>2. ~ name(id) /\ missing[id] # None /\ missing[id] >= unresolvedGrace
  BY DEF Unresolved
<1>3. missing[id] \in Nat
  BY <1>1, <1>2, TimesAssumption DEF LifeInv, TypeOK, Ages, MaxAge
<1>4. id \notin Live \cup ever
  BY <1>2, <1>3, MarkerYoung, Times DEF LifeInv
<1> QED  BY <1>1, <1>4 DEF LifeInv, TypeOK, Live

\* What Collect adds to the names of an id.
LEMMA NameAdded ==
    ASSUME TypeOK, NEW k \in Keys, CollectKey(k), NEW id \in Ids
    PROVE  \/ names'[id] = names[id]
           \/ name(id) /\ names'[id] = names[id] \cup {"named"}
           \/ /\ id \in Sides(k) /\ Unresolved(id)
              /\ names'[id] = names[id] \cup {"unresolved"}
<1>1. CASE Emitted(k) /\ id \in Sides(k)
  <2>1. names'[id] = names[id] \cup (IF name(id) THEN {"named"} ELSE {"unresolved"})
    BY <1>1 DEF CollectKey
  <2>2. name(id) \/ Unresolved(id)
    BY <1>1 DEF Emitted, Sides
  <2> QED  BY <1>1, <2>1, <2>2
<1>2. CASE ~ (Emitted(k) /\ id \in Sides(k))
  BY <1>2 DEF CollectKey, TypeOK
<1> QED  BY <1>1, <1>2

LEMMA NamesStep ==
    ASSUME LifeInv, CountedInv, NamesInv, [Next]_vars
    PROVE  NamesInv'
<1> USE DEF NamesInv
<1>0. TypeOK /\ BornInv /\ (\A k \in Keys : hist[k] \in Nat)
  BY TimesAssumption DEF LifeInv, TypeOK
<1>1. CASE Tick
  BY <1>0, <1>1, TickAges DEF Tick
<1>2. ASSUME NEW id \in Ids, Born(id)  PROVE NamesInv'
  <2>1. names[id] = {} /\ ever' \subseteq ever \cup {id} /\ UNCHANGED <<names, byIno, hist>>
        /\ \A other \in Ids \ {id} : life'[other] = life[other]
    BY <1>0, <1>2 DEF Born, BornInv, pruneVars, TypeOK
  <2> QED  BY <2>1 DEF name
<1>3. ASSUME NEW id \in Ids, Gone(id)  PROVE NamesInv'
  <2>1. UNCHANGED <<names, byIno, hist, ever>> /\ \A other \in Ids : life'[other] \in {life[other], "gone"}
    BY <1>0, <1>3 DEF Gone, TypeOK
  <2> QED  BY <2>1 DEF name
<1>4. ASSUME NEW k \in Keys, Record(k)  PROVE NamesInv'
  <2>1. UNCHANGED <<names, byIno, life, ever>> /\ (\A j \in Keys \ {k} : hist'[j] = hist[j])
        /\ \A id \in Sides(k) : life[id] # "gone"
    BY <1>0, <1>4 DEF Record, mapperVars, TypeOK, Live
  <2> QED  BY <2>1 DEF name
<1>5. CASE WalkBegins
  BY <1>5 DEF WalkBegins, Live, name, pruneVars
<1>6. CASE WalkEnds
  <2>1. UNCHANGED <<names, life, hist>> /\ ever' = {}
    BY <1>6 DEF WalkEnds, pruneVars
  <2>2. ASSUME NEW id \in Ids, id \notin ever, ~ name(id)  PROVE byIno'[id] = None
    BY <1>0, <1>6, <2>2, WalkResult DEF name
  <2>3. ASSUME NEW id \in Ids, "named" \in names[id], byIno'[id] = None
        PROVE  life[id] = "gone" /\ \A k \in Keys : id \in Sides(k) => hist[k] = 0
    BY <1>6, <2>3, CollectedIsPruned
  <2> QED  BY <2>1, <2>2, <2>3 DEF name
<1>7. CASE PruneBegins
  BY <1>7 DEF PruneBegins, mapperVars, name
<1>8. ASSUME NEW k \in Keys, PruneDelete(k)  PROVE NamesInv'
  <2>1. UNCHANGED <<names, byIno, life, ever>> /\ \A j \in Keys : hist'[j] \in {hist[j], 0}
    BY <1>0, <1>8 DEF PruneDelete, mapperVars, TypeOK
  <2> QED  BY <2>1 DEF name
<1>9. CASE PruneEnds
  BY <1>9 DEF PruneEnds, mapperVars, name
<1>10. ASSUME NEW k \in Keys, CollectKey(k)  PROVE NamesInv'
  <2>1. hist[k] > 0 /\ UNCHANGED <<life, byIno, ever, hist>>
    BY <1>10 DEF CollectKey
  <2>2. ASSUME NEW id \in Ids, name(id), names'[id] = names[id] \cup {"named"}
        PROVE  "unresolved" \notin names'[id]
    BY <2>2
  <2>3. ASSUME NEW id \in Sides(k), Unresolved(id)
        PROVE  life[id] = "gone" /\ id \notin ever /\ ~ name(id) /\ "named" \notin names[id]
    <3>1. "named" \notin names[id]
      BY <1>0, <2>1, <2>3, SidesType DEF Unresolved
    <3> QED  BY <2>1, <2>3, <3>1, UnresolvedGone DEF Unresolved
  <2>4. ASSUME NEW id \in Ids
        PROVE  \/ names'[id] = names[id]
               \/ name(id) /\ names'[id] = names[id] \cup {"named"}
               \/ /\ id \in Sides(k) /\ Unresolved(id)
                  /\ names'[id] = names[id] \cup {"unresolved"}
    BY <1>0, <1>10, NameAdded
  <2> QED  BY <2>1, <2>2, <2>3, <2>4 DEF name
<1>11. CASE UNCHANGED vars
  BY <1>11 DEF vars, mapperVars, pruneVars, name
<1> QED
  BY <1>1, <1>2, <1>3, <1>4, <1>5, <1>6, <1>7, <1>8, <1>9, <1>10, <1>11
  DEF Next, Environment, Mapper, Prune

LEMMA OneName ==
    ASSUME TypeOK, NamesInv
    PROVE  NeverRelabeled
<1> SUFFICES ASSUME NEW id \in Ids
             PROVE  Cardinality(names[id]) <= 1
  BY DEF NeverRelabeled
<1>1. names[id] \subseteq {"named", "unresolved"} /\ ~ ({"named", "unresolved"} \subseteq names[id])
  BY DEF TypeOK, NamesInv
<1>2. names[id] = {} \/ names[id] = {"named"} \/ names[id] = {"unresolved"}
  BY <1>1
<1>3. Cardinality({}) = 0 /\ Cardinality({"named"}) = 1 /\ Cardinality({"unresolved"}) = 1
  BY FS_EmptySet, FS_Singleton
<1>4. CASE names[id] = {}  BY <1>3, <1>4
<1>5. CASE names[id] = {"named"}  BY <1>3, <1>5
<1>6. CASE names[id] = {"unresolved"}  BY <1>3, <1>6
<1> QED  BY <1>2, <1>4, <1>5, <1>6

\* No id is ever emitted under its name and as "unresolved", however walks, scrapes
\* and prunes interleave: the grace outlasts the walks that may miss a cgroup, and
\* the tombstone outlasts the counts.
THEOREM SeriesNeverRelabeled == Spec => []NeverRelabeled
<1>1. Init => NamesInv
  BY SetsAssumption DEF Init, NamesInv
<1>2. LifeInv /\ CountedInv /\ NamesInv /\ [Next]_vars => NamesInv'
  BY NamesStep
<1>3. LifeInv /\ NamesInv => NeverRelabeled
  BY OneName DEF LifeInv
<1> QED  BY <1>1, <1>2, <1>3, CountedHolds, PTL DEF Spec

(***************************************************************************)
(* How much a map of counts holds under some keys, for the modules that    *)
(* read runq_histograms.  The counts are numbered events, so a sum of them *)
(* is the size of a set, and what a step adds to a sum is what it adds to  *)
(* the set.                                                                *)
(***************************************************************************)
Events(h, S) == {e \in Keys \X (1 .. MaxCount) : e[1] \in S /\ e[2] <= h[e[1]]}
Held(h, S) == Cardinality(Events(h, S))

LEMMA HeldType ==
    ASSUME NEW h, NEW S
    PROVE  IsFiniteSet(Events(h, S)) /\ Held(h, S) \in Nat
<1>1. IsFiniteSet(Keys)
  <2>1. IsFiniteSet(Ids \X Ids) /\ Keys \in SUBSET (Ids \X Ids)
    BY FiniteAssumption, FS_Product, SetsAssumption
  <2> QED  BY <2>1, FS_Subset
<1>2. IsFiniteSet(1 .. MaxCount)
  <2>1. 1 \in Int /\ MaxCount \in Int
    BY TimesAssumption
  <2> QED  BY <2>1, FS_Interval
<1>3. IsFiniteSet(Keys \X (1 .. MaxCount))
  BY <1>1, <1>2, FS_Product
<1>4. Events(h, S) \in SUBSET (Keys \X (1 .. MaxCount))
  BY DEF Events
<1> QED  BY <1>3, <1>4, FS_Subset, FS_CardinalityType DEF Held

\* A part holds no more than the whole, and keys without a count hold nothing.
LEMMA HeldMonotone ==
    ASSUME NEW h \in [Keys -> 0 .. MaxCount], NEW S, NEW T,
           \A k \in Keys : h[k] > 0 /\ k \in S => k \in T
    PROVE  Held(h, S) <= Held(h, T)
<1>1. ASSUME NEW e \in Events(h, S) PROVE e \in Events(h, T)
  <2>1. e \in Keys \X (1 .. MaxCount) /\ e[1] \in S /\ e[2] <= h[e[1]]
    BY DEF Events
  <2>2. e[1] \in Keys /\ e[2] \in 1 .. MaxCount
    BY <2>1
  <2>3. h[e[1]] \in 0 .. MaxCount /\ MaxCount \in Nat
    BY <2>2, TimesAssumption
  <2>4. h[e[1]] > 0
    BY <2>1, <2>2, <2>3
  <2> QED  BY <2>1, <2>2, <2>4 DEF Events
<1>2. Events(h, S) \in SUBSET Events(h, T)
  BY <1>1
<1> QED  BY <1>2, HeldType, FS_Subset DEF Held

LEMMA HeldGrows ==
    ASSUME NEW h \in [Keys -> 0 .. MaxCount], NEW g \in [Keys -> 0 .. MaxCount], NEW S,
           \A k \in Keys : h[k] <= g[k]
    PROVE  Held(h, S) <= Held(g, S)
<1>1. ASSUME NEW e \in Events(h, S) PROVE e \in Events(g, S)
  <2>1. e \in Keys \X (1 .. MaxCount) /\ e[1] \in S /\ e[2] <= h[e[1]]
    BY DEF Events
  <2>2. e[1] \in Keys /\ e[2] \in Int /\ h[e[1]] \in Int /\ g[e[1]] \in Int
    BY <2>1, TimesAssumption
  <2>3. e[2] <= g[e[1]]
    BY <2>1, <2>2
  <2> QED  BY <2>1, <2>3 DEF Events
<1>2. Events(h, S) \in SUBSET Events(g, S)
  BY <1>1
<1> QED  BY <1>2, HeldType, FS_Subset DEF Held

LEMMA HeldNothing ==
    ASSUME NEW h
    PROVE  Held(h, {}) = 0
<1>1. Events(h, {}) = {}
  BY DEF Events
<1> QED  BY <1>1, FS_EmptySet DEF Held

LEMMA HeldAdd ==
    ASSUME NEW h \in [Keys -> 0 .. MaxCount], NEW S, NEW k \in Keys, k \notin S
    PROVE  Held(h, S \cup {k}) = Held(h, S) + h[k]
<1> DEFINE New == {k} \X (1 .. h[k])
<1>0. h[k] \in 0 .. MaxCount /\ MaxCount \in Nat
  BY TimesAssumption
<1>1. Events(h, S \cup {k}) = Events(h, S) \cup New
  <2>1. ASSUME NEW e \in Events(h, S \cup {k}) PROVE e \in Events(h, S) \cup New
    <3>1. e \in Keys \X (1 .. MaxCount) /\ e[1] \in S \cup {k} /\ e[2] <= h[e[1]]
      BY DEF Events
    <3>2. CASE e[1] = k
      <4>1. e = <<k, e[2]>> /\ e[2] \in 1 .. h[k]
        BY <1>0, <3>1, <3>2
      <4> QED  BY <4>1
    <3>3. CASE e[1] # k
      BY <3>1, <3>3 DEF Events
    <3> QED  BY <3>2, <3>3
  <2>2. ASSUME NEW e \in New PROVE e \in Events(h, S \cup {k})
    <3>1. PICK i \in 1 .. h[k] : e = <<k, i>>
      OBVIOUS
    <3>2. i \in 1 .. MaxCount /\ i <= h[k]
      BY <1>0
    <3> QED  BY <3>1, <3>2 DEF Events
  <2>3. Events(h, S) \subseteq Events(h, S \cup {k})
    BY DEF Events
  <2> QED  BY <2>1, <2>2, <2>3
<1>2. Events(h, S) \cap New = {}
  BY DEF Events
<1>3. IsFiniteSet(New) /\ Cardinality(New) = h[k]
  <2>1. IsFiniteSet({k}) /\ Cardinality({k}) = 1
    BY FS_Singleton
  <2>2. IsFiniteSet(1 .. h[k]) /\ Cardinality(1 .. h[k]) = h[k]
    <3>1. 1 \in Int /\ h[k] \in Int /\ h[k] \in Nat
      BY <1>0
    <3> QED  BY <3>1, FS_Interval
  <2>3. IsFiniteSet(New) /\ Cardinality(New) = 1 * h[k]
    BY <2>1, <2>2, FS_Product
  <2> QED  BY <1>0, <2>3
<1>4. Cardinality(Events(h, S) \cup New)
        = Cardinality(Events(h, S)) + Cardinality(New) - Cardinality(Events(h, S) \cap New)
  BY <1>3, HeldType, FS_Union
<1>5. Cardinality(Events(h, S) \cap New) = 0
  BY <1>2, FS_EmptySet
<1>6. Cardinality(Events(h, S)) \in Nat
  BY HeldType DEF Held
<1>7. Cardinality(Events(h, S) \cup New) = Cardinality(Events(h, S)) + h[k]
  <2> HIDE DEF New, Events
  <2>1. h[k] \in Nat
    BY <1>0
  <2> QED  BY <1>3, <1>4, <1>5, <1>6, <2>1
<1> QED  BY <1>1, <1>7 DEF Held

\* One more event of a key.
LEMMA HeldRecord ==
    ASSUME NEW h \in [Keys -> 0 .. MaxCount], NEW S, NEW k \in Keys, h[k] < MaxCount,
           NEW g, g = [h EXCEPT ![k] = @ + 1]
    PROVE  Held(g, S) = Held(h, S) + (IF k \in S THEN 1 ELSE 0)
<1>0. h[k] \in 0 .. MaxCount /\ MaxCount \in Nat
  BY TimesAssumption
<1>1. CASE k \notin S
  <2>1. Events(g, S) = Events(h, S)
    BY <1>1 DEF Events
  <2> QED  BY <1>1, <2>1, HeldType DEF Held
<1>2. CASE k \in S
  <2> DEFINE new == <<k, h[k] + 1>>
  <2>1. new \in Keys \X (1 .. MaxCount) /\ new \notin Events(h, S)
    BY <1>0 DEF Events
  <2>2. Events(g, S) = Events(h, S) \cup {new}
    <3>1. ASSUME NEW e \in Keys \X (1 .. MaxCount)
          PROVE  e \in Events(g, S) <=> e \in Events(h, S) \cup {new}
      <4>1. e[1] \in Keys /\ e[2] \in 1 .. MaxCount /\ e = <<e[1], e[2]>>
        OBVIOUS
      <4>2. CASE e[1] = k
        <5>1. g[k] = h[k] + 1
          OBVIOUS
        <5>2. e = new <=> e[2] = h[k] + 1
          BY <4>1, <4>2
        <5>3. e[2] <= h[k] + 1 <=> e[2] <= h[k] \/ e[2] = h[k] + 1
          <6>1. h[k] \in Int /\ e[2] \in Int
            BY <1>0, <4>1
          <6> QED  BY <6>1
        <5> HIDE DEF new
        <5> QED  BY <1>2, <4>1, <4>2, <5>1, <5>2, <5>3 DEF Events
      <4>3. CASE e[1] # k
        BY <4>1, <4>3 DEF Events
      <4> QED  BY <4>2, <4>3
    <3> QED  BY <2>1, <3>1 DEF Events
  <2>3. Cardinality(Events(h, S) \cup {new}) = Cardinality(Events(h, S)) + 1
    BY <2>1, HeldType, FS_AddElement
  <2> QED  BY <1>2, <2>2, <2>3 DEF Held
<1> QED  BY <1>1, <1>2
==============================================================================
