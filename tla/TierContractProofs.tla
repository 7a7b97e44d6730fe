------------------------- MODULE TierContractProofs -------------------------
(***************************************************************************)
(* Proofs about both sides of the tier contract: Ranking, the loop of      *)
(* RankByTier, gives the tiers of TierAssignments for any candidates and   *)
(* measurements; ControlLoop, which starts from any of those, keeps its    *)
(* promises about FRR for any neighbors, prefixes and dwell, and any       *)
(* interleaving of its failures.                                           *)
(***************************************************************************)
EXTENDS Ranking, ControlLoop, TLAPS, FiniteSetTheorems

(***************************************************************************)
(* Ranking                                                                 *)
(***************************************************************************)
(* Capping a tier gives the tier or the cap, and nothing above the cap.    *)
LEMMA CappedIsBounded ==
    ASSUME NEW t \in Tiers, NEW cap \in Tiers
    PROVE  /\ Capped(t, cap) \in Tiers
           /\ Capped(t, cap) <= cap
           /\ Capped(t, cap) <= t
  BY TierOrder DEF Capped, Tiers

(* Whatever the rank, the tier asked for is a tier.                        *)
LEMMA RawTierIsTier == \A i : RawTier(i) \in Tiers
  BY DEF RawTier, Tiers

(* The tier assigned at any rank is a tier, and not above the previous.    *)
LEMMA AssignedTierBounded ==
    ASSUME prevTier \in Tiers, NEW i
    PROVE  AssignedTier(i) \in Tiers /\ AssignedTier(i) <= prevTier
<1>1. GatedTier(i) \in Tiers
  BY RawTierIsTier, CappedIsBounded DEF GatedTier
<1>2. QED
  BY <1>1, CappedIsBounded DEF AssignedTier

(* The gate cannot matter: it caps by what the clamp caps by.              *)
LEMMA GateIsRedundant ==
    ASSUME prevTier \in Tiers, NEW i
    PROVE  AssignedTier(i) = Capped(RawTier(i), prevTier)
<1>1. RawTier(i) \in Tiers
  BY RawTierIsTier
<1>2. Capped(Capped(RawTier(i), prevTier), prevTier) = Capped(RawTier(i), prevTier)
  BY <1>1, TierOrder DEF Capped, Tiers
<1>3. QED
  BY <1>2 DEF AssignedTier, GatedTier

----------------------------------------------------------------------------
(* The inductive invariant: in the loop, the tier carried over is a lower  *)
(* bound of all the tiers assigned so far.                                 *)
LoopInv ==
    /\ prevTier \in Tiers
    /\ pc = "rank" => /\ tierOf \in Seq(Tiers)
                      /\ \A i \in DOMAIN tierOf : prevTier <= tierOf[i]
    /\ TiersMonotone

(* Before the first tick no tier is assigned.                              *)
LEMMA LoopInvInit == RankingInit => LoopInv
  BY TierOrder DEF RankingInit, LoopInv, TiersMonotone, Tiers

(* One iteration: the new last tier is below the cap, the cap was below    *)
(* the tiers before it.                                                    *)
LEMMA LoopInvRankNext == LoopInv /\ RankNext => LoopInv'
<1> SUFFICES ASSUME LoopInv, RankNext
             PROVE  LoopInv'
  OBVIOUS
<1> DEFINE n == Len(tierOf)
           t == AssignedTier(n + 1)
<1>1. /\ pc = "rank" /\ tierOf' = Append(tierOf, t) /\ prevTier' = t
      /\ tierOf \in Seq(Tiers) /\ prevTier \in Tiers
      /\ \A i \in DOMAIN tierOf : prevTier <= tierOf[i]
      /\ TiersMonotone
  BY DEF RankNext, LoopInv
<1>2. t \in Tiers /\ t <= prevTier
  BY <1>1, AssignedTierBounded
<1> HIDE DEF t
<1>3. /\ tierOf' \in Seq(Tiers)
      /\ DOMAIN tierOf = 1 .. n /\ DOMAIN tierOf' = 1 .. (n + 1) /\ n \in Nat
      /\ tierOf'[n + 1] = t
      /\ \A i \in 1 .. n : tierOf'[i] = tierOf[i] /\ tierOf[i] \in Tiers
  BY <1>1, <1>2
<1>4. \A i \in DOMAIN tierOf' : prevTier' <= tierOf'[i]
  <2> SUFFICES ASSUME NEW i \in 1 .. (n + 1)
               PROVE  t <= tierOf'[i]
    BY <1>1, <1>3
  <2>1. CASE i = n + 1
    BY <2>1, <1>2, <1>3, TierOrder DEF Tiers
  <2>2. CASE i \in 1 .. n
    BY <2>2, <1>1, <1>2, <1>3, TierOrder DEF Tiers
  <2>3. QED
    BY <2>1, <2>2, <1>3
<1>5. TiersMonotone'
  <2> SUFFICES ASSUME NEW i \in 1 .. (n + 1), NEW j \in 1 .. (n + 1), i < j
               PROVE  tierOf'[j] <= tierOf'[i]
    BY <1>3 DEF TiersMonotone
  <2>1. CASE j = n + 1
    BY <2>1, <1>1, <1>3, <1>4
  <2>2. CASE j \in 1 .. n
    BY <2>2, <1>1, <1>3 DEF TiersMonotone
  <2>3. QED
    BY <2>1, <2>2, <1>3
<1>6. QED
  BY <1>1, <1>2, <1>3, <1>4, <1>5 DEF LoopInv

(* The other steps keep it: they leave the tiers alone or start afresh.    *)
LEMMA LoopInvNext == LoopInv /\ [RankingNext]_rankingVars => LoopInv'
<1> SUFFICES ASSUME LoopInv, [RankingNext]_rankingVars
             PROVE  LoopInv'
  OBVIOUS
<1> USE DEF LoopInv
<1>1. CASE \E l \in Legs, r \in ProbeResults : ProbeLeg(l, r)
  BY <1>1 DEF ProbeLeg, TiersMonotone
<1>2. CASE \E l \in Legs : ProbeError(l)
  BY <1>2 DEF ProbeError, TiersMonotone
<1>3. CASE ProbesDone
  BY <1>3 DEF ProbesDone, TiersMonotone
<1>4. CASE \E l \in Legs, e \in Transits : TransitOverride(NextHopOf[l], e)
  BY <1>4 DEF TransitOverride, TiersMonotone
<1>5. CASE \E order \in Sorted(CollapseByNeighbor) : StartRanking(order)
  <2>1. PICK order : StartRanking(order)
    BY <1>5
  <2>2. prevTier' \in Tiers
    BY <2>1, TierOrder DEF StartRanking, Tiers
  <2>3. CASE pc' = "rank"
    <3>1. tierOf' = <<>>
      BY <2>1, <2>3 DEF StartRanking
    <3>2. /\ tierOf' \in Seq(Tiers)
          /\ \A i \in DOMAIN tierOf' : prevTier' <= tierOf'[i]
          /\ TiersMonotone'
      BY <3>1 DEF TiersMonotone
    <3>3. QED
      BY <2>2, <3>2
  <2>4. CASE pc' = "done"
    <3>1. tierOf' = [i \in 1 .. Len(order) |-> Default]
      BY <2>1, <2>4 DEF StartRanking
    <3>2. TiersMonotone'
      BY <3>1, TierOrder DEF TiersMonotone
    <3>3. QED
      BY <2>2, <2>4, <3>2
  <2>5. QED
    BY <2>1, <2>3, <2>4 DEF StartRanking
<1>6. CASE RankNext
  BY <1>6, LoopInvRankNext
<1>7. CASE NextTick
  BY <1>7, TierOrder DEF NextTick, TiersMonotone, Tiers
<1>8. CASE UNCHANGED rankingVars
  BY <1>8 DEF rankingVars, TiersMonotone
<1>9. QED
  BY <1>1, <1>2, <1>3, <1>4, <1>5, <1>6, <1>7, <1>8 DEF RankingNext

(* The invariant of the loop holds in every reachable state.               *)
LEMMA LoopInvAlways == RankingSpec => []LoopInv
<1>1. RankingInit => LoopInv
  BY LoopInvInit
<1>2. LoopInv /\ [RankingNext]_rankingVars => LoopInv'
  BY LoopInvNext
<1>3. QED
  BY <1>1, <1>2, PTL DEF RankingSpec

----------------------------------------------------------------------------
(* A worse-ranked candidate never has the higher local-pref (rank.go,      *)
(* RankByTier), for every number of candidates and every three tiers.      *)
THEOREM TiersAreMonotone == RankingSpec => []TiersMonotone
<1>1. LoopInv => TiersMonotone
  BY DEF LoopInv
<1>2. QED
  BY <1>1, LoopInvAlways, PTL

(* The error-band gate of RankByTier never changes a tier.                 *)
THEOREM ErrorBandGateIsRedundant == RankingSpec => []ErrorBandsDoNotMatter
<1>1. LoopInv => ErrorBandsDoNotMatter
  BY GateIsRedundant DEF LoopInv, ErrorBandsDoNotMatter
<1>2. QED
  BY <1>1, LoopInvAlways, PTL
----------------------------------------------------------------------------
(* The legs: a PathCost carries the neighbor of its leg, and a confidence  *)
(* of at most five fifths.                                                 *)
Fields == {"neighbor", "nextHop", "loss", "conf", "rtt", "composite", "err"}

ColdInv ==
    /\ DOMAIN cold \subseteq Legs
    /\ \A l \in DOMAIN cold : DOMAIN cold[l] = Fields
    /\ \A l \in DOMAIN cold : cold[l].neighbor = NeighborOf[l] /\ cold[l].conf \in 0 .. 5

(* A confidence is at most one, that is five fifths.                       *)
LEMMA ConfidenceIsBounded ==
    ASSUME NEW samples \in Nat
    PROVE  ConfidenceFromSamples(samples) \in 0 .. 5
  BY DEF ConfidenceFromSamples

(* Every step keeps it: a probe names its neighbor, the override only      *)
(* changes the measurements.                                               *)
LEMMA ColdInvNext == ColdInv /\ [RankingNext]_rankingVars => ColdInv'
<1> SUFFICES ASSUME ColdInv, [RankingNext]_rankingVars
             PROVE  ColdInv'
  OBVIOUS
<1>1. ASSUME NEW l \in Legs, NEW r \in ProbeResults, ProbeLeg(l, r)
      PROVE  ColdInv'
  <2>1. cold' = [m \in DOMAIN cold \cup {l} |-> IF m = l THEN FromProbeResult(l, r) ELSE cold[m]]
    BY <1>1 DEF ProbeLeg
  <2>2. /\ FromProbeResult(l, r).neighbor = NeighborOf[l] /\ FromProbeResult(l, r).conf = 0
        /\ DOMAIN FromProbeResult(l, r) = Fields
    BY DEF FromProbeResult, Fields
  <2>3. QED
    BY <2>1, <2>2 DEF ColdInv
<1>2. ASSUME NEW l \in Legs, NEW e \in Transits, TransitOverride(NextHopOf[l], e)
      PROVE  ColdInv'
  <2>1. cold' = [m \in DOMAIN cold |-> IF NextHopOf[m] = NextHopOf[l] THEN Override(cold[m], e) ELSE cold[m]]
    BY <1>2 DEF TransitOverride
  <2>2. ConfidenceFromSamples(e.window) \in 0 .. 5
    BY LegAssumption, ConfidenceIsBounded
  <2>3. ASSUME NEW m \in DOMAIN cold
        PROVE  /\ DOMAIN Override(cold[m], e) = Fields
               /\ Override(cold[m], e).neighbor = NeighborOf[m]
               /\ Override(cold[m], e).conf \in 0 .. 5
    BY <2>2 DEF ColdInv, Override, Fields
  <2>4. QED
    BY <2>1, <2>3 DEF ColdInv
<1>3. CASE NextTick
  BY <1>3 DEF NextTick, ColdInv
<1>4. CASE cold' = cold
  BY <1>4 DEF ColdInv
<1>5. QED
  BY <1>1, <1>2, <1>3, <1>4 DEF RankingNext, rankingVars, ProbeError, ProbesDone, StartRanking, RankNext
----------------------------------------------------------------------------
(* CollapseByNeighbor.                                                     *)

(* The greatest of some confidences is one of them.                        *)
LEMMA GreatestIsMember ==
    ASSUME NEW S \in SUBSET (0 .. 5), S # {}
    PROVE  Max(S) \in S
<1>1. \E x \in S : \A y \in S : x >= y
  <2>1. CASE 5 \in S
    BY <2>1
  <2>2. CASE 5 \notin S /\ 4 \in S
    BY <2>2
  <2>3. CASE 5 \notin S /\ 4 \notin S /\ 3 \in S
    BY <2>3
  <2>4. CASE 5 \notin S /\ 4 \notin S /\ 3 \notin S /\ 2 \in S
    BY <2>4
  <2>5. CASE 5 \notin S /\ 4 \notin S /\ 3 \notin S /\ 2 \notin S /\ 1 \in S
    BY <2>5
  <2>6. CASE 5 \notin S /\ 4 \notin S /\ 3 \notin S /\ 2 \notin S /\ 1 \notin S
    <3>1. \A y \in S : y = 0
      BY <2>6
    <3>2. PICK x \in S : TRUE
      OBVIOUS
    <3>3. x = 0 /\ \A y \in S : x >= y
      BY <3>1, <3>2
    <3>4. QED
      BY <3>3
  <2>7. QED
    BY <2>1, <2>2, <2>3, <2>4, <2>5, <2>6
<1>2. QED
  BY <1>1 DEF Max

(* The legs kept for a neighbor that has any are legs of it, and some.     *)
LEMMA KeptLegsAreItsOwn ==
    ASSUME NEW nb \in {NeighborOf[l] : l \in DOMAIN cold}
    PROVE  KeptLegs(nb) # {} /\ \A l \in KeptLegs(nb) : l \in DOMAIN cold /\ NeighborOf[l] = nb
  BY DEF KeptLegs

Probed == {NeighborOf[l] : l \in DOMAIN cold}

CollapsedOf(nb) ==
    LET legs == KeptLegs(nb)
    IN  IF Cardinality(legs) = 1 THEN cold[CHOOSE l \in legs : TRUE] ELSE Average(nb, legs)

(* CollapseByNeighbor has one entry for each neighbor with an answered     *)
(* leg.                                                                    *)
LEMMA CollapsedSet == CollapseByNeighbor = {CollapsedOf(nb) : nb \in Probed}
  BY DEF CollapseByNeighbor, CollapsedOf, Probed

(* The entry of a neighbor carries its name, and the confidence of one of  *)
(* its legs.                                                               *)
LEMMA CollapsedEntry ==
    ASSUME ColdInv, NEW nb \in Probed
    PROVE  /\ CollapsedOf(nb).neighbor = nb
           /\ \E l \in DOMAIN cold : NeighborOf[l] = nb /\ cold[l].conf = CollapsedOf(nb).conf
<1> DEFINE legs == KeptLegs(nb)
<1>1. legs # {} /\ \A l \in legs : l \in DOMAIN cold /\ NeighborOf[l] = nb
  BY KeptLegsAreItsOwn DEF Probed
<1> HIDE DEF legs
<1>2. CASE Cardinality(legs) = 1
  <2> DEFINE l == CHOOSE l \in legs : TRUE
  <2>1. l \in legs
    BY <1>1
  <2>2. CollapsedOf(nb) = cold[l]
    BY <1>2 DEF CollapsedOf, legs
  <2>3. QED
    BY <1>1, <2>1, <2>2 DEF ColdInv
<1>3. CASE Cardinality(legs) # 1
  <2> DEFINE confs == {cold[l].conf : l \in legs}
  <2>1. CollapsedOf(nb) = Average(nb, legs)
    BY <1>3 DEF CollapsedOf, legs
  <2>2. CollapsedOf(nb).neighbor = nb /\ CollapsedOf(nb).conf = Max(confs)
    BY <2>1 DEF Average
  <2>3. confs \in SUBSET (0 .. 5) /\ confs # {}
    BY <1>1 DEF ColdInv
  <2>4. Max(confs) \in confs
    <3> HIDE DEF confs
    <3>1. QED
      BY <2>3, GreatestIsMember
  <2>5. QED
    BY <1>1, <2>2, <2>4
<1>4. QED
  BY <1>2, <1>3

(* There are finitely many entries.                                        *)
LEMMA CollapsedIsFinite == ColdInv => IsFiniteSet(CollapseByNeighbor)
<1> SUFFICES ASSUME ColdInv
             PROVE  IsFiniteSet(CollapseByNeighbor)
  OBVIOUS
<1> DEFINE named == [l \in DOMAIN cold |-> CollapsedOf(NeighborOf[l])]
<1>1. IsFiniteSet(DOMAIN cold)
  BY LegAssumption, FS_Subset DEF ColdInv
<1>2. CollapseByNeighbor = {CollapsedOf(nb) : nb \in Probed}
  BY CollapsedSet
<1>3. named \in Surjection(DOMAIN cold, CollapseByNeighbor)
  BY <1>2 DEF Surjection, Probed
<1>4. QED
  BY <1>1, <1>3, FS_Surjection
----------------------------------------------------------------------------
(* The sorted candidates.                                                  *)

(* They stand at 1 .. n, one per neighbor, each with the confidence of one *)
(* of its legs.                                                            *)
RankedInv ==
    /\ Len(ranked) \in Nat /\ DOMAIN ranked = 1 .. Len(ranked)
    /\ \A i, j \in DOMAIN ranked : ranked[i].neighbor = ranked[j].neighbor => i = j
    /\ pc \in {"rank", "done"} =>
         \A i \in DOMAIN ranked :
            \E l \in DOMAIN cold : NeighborOf[l] = ranked[i].neighbor /\ cold[l].conf = ranked[i].conf

(* However the sort arranges them, the entries of CollapseByNeighbor stand *)
(* at 1 .. n, one per neighbor.                                            *)
LEMMA SortedIsRanked ==
    ASSUME ColdInv, NEW order \in Sorted(CollapseByNeighbor)
    PROVE  /\ Len(order) \in Nat /\ DOMAIN order = 1 .. Len(order)
           /\ \A i, j \in DOMAIN order : order[i].neighbor = order[j].neighbor => i = j
           /\ \A i \in DOMAIN order :
                \E l \in DOMAIN cold : NeighborOf[l] = order[i].neighbor /\ cold[l].conf = order[i].conf
<1> DEFINE n == Cardinality(CollapseByNeighbor)
<1>1. n \in Nat
  BY CollapsedIsFinite, FS_CardinalityType
<1>2. /\ order \in [1 .. n -> CollapseByNeighbor]
      /\ \A i, j \in 1 .. n : order[i] = order[j] => i = j
  BY DEF Sorted
<1>3. Len(order) = n /\ DOMAIN order = 1 .. n
  <2>1. order \in Seq(CollapseByNeighbor)
    BY <1>1, <1>2
  <2>2. DOMAIN order = 1 .. Len(order) /\ Len(order) \in Nat
    BY <2>1
  <2>3. QED
    BY <1>1, <1>2, <2>2
<1>4. \A i \in 1 .. n : \E nb \in Probed : order[i] = CollapsedOf(nb)
  BY <1>2, CollapsedSet
<1> HIDE DEF n
<1>5. ASSUME NEW i \in 1 .. n, NEW j \in 1 .. n, order[i].neighbor = order[j].neighbor
      PROVE  i = j
  <2>1. PICK a \in Probed, b \in Probed : order[i] = CollapsedOf(a) /\ order[j] = CollapsedOf(b)
    BY <1>4
  <2>2. a = b
    BY <1>5, <2>1, CollapsedEntry
  <2>3. QED
    BY <1>2, <2>1, <2>2
<1>6. ASSUME NEW i \in 1 .. n
      PROVE  \E l \in DOMAIN cold : NeighborOf[l] = order[i].neighbor /\ cold[l].conf = order[i].conf
  <2>1. PICK nb \in Probed : order[i] = CollapsedOf(nb)
    BY <1>4
  <2>2. QED
    BY <2>1, CollapsedEntry
<1>7. QED
  BY <1>1, <1>3, <1>5, <1>6

(* Every step keeps it: the order is fixed when the ranking starts.        *)
LEMMA RankedInvNext == ColdInv /\ RankedInv /\ [RankingNext]_rankingVars => RankedInv'
<1> SUFFICES ASSUME ColdInv, RankedInv, [RankingNext]_rankingVars
             PROVE  RankedInv'
  OBVIOUS
<1>1. ASSUME NEW order \in Sorted(CollapseByNeighbor), StartRanking(order)
      PROVE  RankedInv'
  <2>1. ranked' = order /\ cold' = cold
    BY <1>1 DEF StartRanking
  <2>2. QED
    BY <2>1, SortedIsRanked DEF RankedInv
<1>2. CASE NextTick
  <2>1. ranked' = << >> /\ pc' = "probe"
    BY <1>2 DEF NextTick
  <2>2. QED
    BY <2>1 DEF RankedInv
<1>3. CASE ranked' = ranked /\ pc' \notin {"rank", "done"}
  BY <1>3 DEF RankedInv
<1>4. CASE RankNext
  <2>1. ranked' = ranked /\ cold' = cold /\ pc = "rank"
    BY <1>4 DEF RankNext
  <2>2. QED
    BY <2>1 DEF RankedInv
<1>5. CASE UNCHANGED rankingVars
  BY <1>5 DEF RankedInv, rankingVars
<1>6. QED
  BY <1>1, <1>2, <1>3, <1>4, <1>5 DEF RankingNext, ProbeLeg, ProbeError, ProbesDone, TransitOverride
----------------------------------------------------------------------------
(* The shape of the tiers: the top only at the first rank, the mid tier    *)
(* only at the second and below a top, and above the default only with a   *)
(* confidence.  While the loop runs, the tier carried over is the last.    *)
ShapeInv ==
    /\ tierOf \in Seq(Tiers) /\ prevTier \in Tiers
    /\ pc \in {"rank", "done"} => Len(tierOf) <= Len(ranked)
    /\ pc = "rank" => Len(ranked) > 1 /\ Len(tierOf) < Len(ranked)
                      /\ prevTier = IF Len(tierOf) = 0 THEN Top ELSE tierOf[Len(tierOf)]
    /\ pc = "done" => /\ Len(tierOf) = Len(ranked)
                      /\ Len(ranked) = 1 => tierOf[1] = Default
    /\ pc \notin {"rank", "done"} => Len(tierOf) = 0
    /\ \A i \in 1 .. Len(tierOf) :
         /\ tierOf[i] = Top => i = 1
         /\ tierOf[i] = Mid => i = 2 /\ tierOf[1] = Top
         /\ tierOf[i] # Default => Confident(ranked[i])

(* Capping keeps the tier or gives the cap.                                *)
LEMMA AssignedCases ==
    ASSUME prevTier \in Tiers, NEW i
    PROVE  /\ RawTier(i) = Default => AssignedTier(i) = Default
           /\ prevTier = Default => AssignedTier(i) = Default
           /\ prevTier = Top => AssignedTier(i) = RawTier(i)
           /\ AssignedTier(i) \in {RawTier(i), prevTier}
<1>1. AssignedTier(i) = Capped(RawTier(i), prevTier)
  BY GateIsRedundant
<1>2. RawTier(i) \in Tiers
  BY RawTierIsTier
<1>3. QED
  BY <1>1, <1>2, TierOrder DEF Capped, Tiers

(* One iteration: the first rank gets the top tier or the default, the     *)
(* second the mid tier at most, all others the default, each capped by the *)
(* one above.                                                              *)
LEMMA ShapeInvRankNext == RankedInv /\ ShapeInv /\ RankNext => ShapeInv'
<1> SUFFICES ASSUME RankedInv, ShapeInv, RankNext
             PROVE  ShapeInv'
  OBVIOUS
<1> DEFINE n == Len(tierOf)
           t == AssignedTier(n + 1)
<1>1. /\ pc = "rank" /\ tierOf' = Append(tierOf, t) /\ prevTier' = t
      /\ pc' = (IF n + 1 = Len(ranked) THEN "done" ELSE pc)
      /\ ranked' = ranked /\ cold' = cold
  BY DEF RankNext
<1>2. /\ tierOf \in Seq(Tiers) /\ prevTier \in Tiers /\ n \in Nat /\ Len(ranked) \in Nat
      /\ Len(ranked) > 1 /\ n < Len(ranked)
      /\ n = 0 => prevTier = Top
      /\ n # 0 => prevTier = tierOf[n]
  <2>1. tierOf \in Seq(Tiers) /\ prevTier \in Tiers /\ n \in Nat /\ Len(ranked) \in Nat
    BY DEF ShapeInv, RankedInv
  <2>2. Len(ranked) > 1 /\ n < Len(ranked) /\ prevTier = IF n = 0 THEN Top ELSE tierOf[n]
    BY <1>1 DEF ShapeInv
  <2>3. QED
    BY <2>1, <2>2
<1>3. t \in Tiers
  BY <1>2, AssignedTierBounded
<1>4. /\ RawTier(n + 1) = Default => t = Default
      /\ prevTier = Default => t = Default
      /\ prevTier = Top => t = RawTier(n + 1)
      /\ t \in {RawTier(n + 1), prevTier}
  BY <1>2, AssignedCases
<1> HIDE DEF t
<1>5. /\ tierOf' \in Seq(Tiers) /\ Len(tierOf') = n + 1 /\ tierOf'[n + 1] = t
      /\ \A i \in 1 .. n : tierOf'[i] = tierOf[i]
  BY <1>1, <1>2, <1>3
<1>6. /\ RawTier(n + 1) # Default => Confident(ranked[n + 1])
      /\ RawTier(n + 1) = Top => n + 1 = 1
      /\ RawTier(n + 1) = Mid => n + 1 = 2
      /\ RawTier(n + 1) \in Tiers
  BY <1>2, TierOrder, RawTierIsTier DEF RawTier
<1>7. /\ t = Top => n + 1 = 1
      /\ t = Mid => n + 1 = 2 /\ tierOf'[1] = Top
      /\ t # Default => Confident(ranked[n + 1])
  <2>1. CASE n = 0
    BY <2>1, <1>2, <1>4, <1>6, TierOrder
  <2>2. CASE n = 1
    <3>1. tierOf[1] \in {Top, Default} /\ prevTier = tierOf[1]
      BY <2>2, <1>2 DEF ShapeInv, Tiers
    <3>2. QED
      BY <2>2, <3>1, <1>4, <1>5, <1>6, TierOrder
  <2>3. CASE n > 1
    BY <2>3, <1>2, <1>4, <1>6, TierOrder DEF Tiers
  <2>4. n = 0 \/ n = 1 \/ n > 1
    <3>1. n \in Nat
      BY <1>2
    <3> HIDE DEF n
    <3>2. QED
      BY <3>1
  <2>5. QED
    BY <2>1, <2>2, <2>3, <2>4
<1>8. ASSUME NEW i \in 1 .. Len(tierOf')
      PROVE  /\ tierOf'[i] = Top => i = 1
             /\ tierOf'[i] = Mid => i = 2 /\ tierOf'[1] = Top
             /\ tierOf'[i] # Default => Confident(ranked[i])
  <2>1. CASE i = n + 1
    BY <2>1, <1>5, <1>7
  <2>2. CASE i \in 1 .. n
    <3>1. tierOf'[i] = tierOf[i] /\ tierOf'[1] = tierOf[1]
      BY <2>2, <1>2, <1>5
    <3>2. QED
      BY <2>2, <3>1 DEF ShapeInv
  <2>3. QED
    BY <2>1, <2>2, <1>2, <1>5
<1>9. /\ Len(tierOf') # 0 /\ prevTier' = tierOf'[Len(tierOf')] /\ prevTier' \in Tiers
      /\ pc' \in {"rank", "done"}
      /\ pc' = "rank" => n + 1 < Len(ranked)
      /\ pc' = "done" => n + 1 = Len(ranked)
  BY <1>1, <1>2, <1>3, <1>5
<1>10. \A i : Confident(ranked[i])' = Confident(ranked[i])
  BY <1>1 DEF Confident
<1>11. QED
  BY <1>1, <1>2, <1>5, <1>8, <1>9 DEF ShapeInv, Confident

(* The other steps start with no tier, or give everybody the default one.  *)
LEMMA ShapeInvNext == ColdInv /\ RankedInv /\ ShapeInv /\ [RankingNext]_rankingVars => ShapeInv'
<1> SUFFICES ASSUME ColdInv, RankedInv, ShapeInv, [RankingNext]_rankingVars
             PROVE  ShapeInv'
  OBVIOUS
<1>1. ASSUME NEW order \in Sorted(CollapseByNeighbor), StartRanking(order)
      PROVE  ShapeInv'
  <2>1. ranked' = order /\ prevTier' = Top /\ Len(order) \in Nat
    BY <1>1, SortedIsRanked DEF StartRanking
  <2>2. CASE pc' = "rank"
    <3>1. tierOf' = << >> /\ Len(order) > 1
      BY <1>1, <2>1, <2>2 DEF StartRanking
    <3>2. QED
      BY <2>1, <2>2, <3>1 DEF ShapeInv, Tiers
  <2>3. CASE pc' = "done"
    <3>1. tierOf' = [i \in 1 .. Len(order) |-> Default]
      BY <1>1, <2>3 DEF StartRanking
    <3>2. tierOf' \in Seq(Tiers) /\ Len(tierOf') = Len(order)
      BY <2>1, <3>1 DEF Tiers
    <3>3. \A i \in 1 .. Len(order) : tierOf'[i] = Default
      BY <3>1
    <3>4. QED
      BY <2>1, <2>3, <3>2, <3>3, TierOrder DEF ShapeInv, Tiers
  <2>4. QED
    BY <1>1, <2>2, <2>3 DEF StartRanking
<1>2. CASE NextTick
  <2>1. tierOf' = << >> /\ pc' = "probe" /\ prevTier' = Top
    BY <1>2 DEF NextTick
  <2>2. QED
    BY <2>1 DEF ShapeInv, Tiers
<1>3. CASE pc \notin {"rank", "done"} /\ pc' \notin {"rank", "done"} /\ UNCHANGED <<ranked, tierOf, prevTier>>
  BY <1>3 DEF ShapeInv, Confident
<1>4. CASE RankNext
  BY <1>4, ShapeInvRankNext
<1>5. CASE UNCHANGED rankingVars
  BY <1>5 DEF ShapeInv, rankingVars, Confident
<1>6. QED
  BY <1>1, <1>2, <1>3, <1>4, <1>5 DEF RankingNext, ProbeLeg, ProbeError, ProbesDone, TransitOverride
----------------------------------------------------------------------------
RankingInv == LoopInv /\ ColdInv /\ RankedInv /\ ShapeInv

(* The four invariants hold before the first tick.                         *)
LEMMA RankingInvInit == RankingInit => RankingInv
<1> SUFFICES ASSUME RankingInit
             PROVE  RankingInv
  OBVIOUS
<1>1. LoopInv
  BY LoopInvInit
<1>2. /\ pc = "probe" /\ DOMAIN cold = {} /\ ranked = << >> /\ Len(ranked) = 0
      /\ tierOf = << >> /\ Len(tierOf) = 0 /\ prevTier = Top
  BY DEF RankingInit
<1>3. ColdInv /\ RankedInv
  BY <1>2 DEF ColdInv, RankedInv
<1>4. ShapeInv
  BY <1>2 DEF ShapeInv, Tiers
<1>5. QED
  BY <1>1, <1>3, <1>4 DEF RankingInv

(* They hold in every reachable state.                                     *)
LEMMA RankingInvAlways == RankingSpec => []RankingInv
<1>1. RankingInv /\ [RankingNext]_rankingVars => RankingInv'
  BY LoopInvNext, ColdInvNext, RankedInvNext, ShapeInvNext DEF RankingInv
<1>2. QED
  BY <1>1, RankingInvInit, PTL DEF RankingSpec

(* A tier above the default goes to a neighbor with a leg that forwarded   *)
(* traffic was seen on (main.go, the override; rank.go, CollapseByNeighbor *)
(* and RankByTier), for any legs and measurements.                         *)
THEOREM OnlyTrafficPromotesAlways == RankingSpec => []OnlyTrafficPromotes
<1>1. RankingInv => OnlyTrafficPromotes
  <2> SUFFICES ASSUME RankingInv, NEW i \in DOMAIN tierOf, tierOf[i] > Default
               PROVE  \E l \in DOMAIN cold : NeighborOf[l] = ranked[i].neighbor /\ Confident(cold[l])
    BY DEF OnlyTrafficPromotes
  <2>1. i \in 1 .. Len(tierOf) /\ Len(tierOf) \in Nat /\ Len(ranked) \in Nat
    BY DEF RankingInv, ShapeInv, RankedInv
  <2>2. pc \in {"rank", "done"} /\ i \in DOMAIN ranked
    BY <2>1 DEF RankingInv, ShapeInv, RankedInv
  <2>3. Confident(ranked[i])
    BY <2>1, TierOrder DEF RankingInv, ShapeInv
  <2>4. PICK l \in DOMAIN cold : NeighborOf[l] = ranked[i].neighbor /\ cold[l].conf = ranked[i].conf
    BY <2>2 DEF RankingInv, RankedInv
  <2>5. QED
    BY <2>3, <2>4 DEF Confident
<1>2. QED
  BY <1>1, RankingInvAlways, PTL

(* What RankByTier assigns is an assignment of TierContract, the one the   *)
(* control loop and its theorems start from, for any number of candidates. *)
THEOREM TierContractKept == RankingSpec => []KeepsTierContract
<1>1. RankingInv => KeepsTierContract
  <2> SUFFICES ASSUME RankingInv, pc = "done"
               PROVE  \E f \in TierAssignments({ranked[i].neighbor : i \in DOMAIN ranked}) :
                         \A i \in DOMAIN ranked : f[ranked[i].neighbor] = tierOf[i]
    BY DEF KeepsTierContract
  <2> DEFINE cands == {ranked[i].neighbor : i \in DOMAIN ranked}
             at(x) == CHOOSE i \in DOMAIN ranked : ranked[i].neighbor = x
             f == [x \in cands |-> tierOf[at(x)]]
  <2>1. /\ Len(ranked) \in Nat /\ DOMAIN ranked = 1 .. Len(ranked)
        /\ tierOf \in Seq(Tiers) /\ Len(tierOf) = Len(ranked)
        /\ Len(ranked) = 1 => tierOf[1] = Default
    BY DEF RankingInv, RankedInv, ShapeInv
  <2>2. \A i \in 1 .. Len(ranked) : /\ tierOf[i] \in Tiers
                                    /\ tierOf[i] = Top => i = 1
                                    /\ tierOf[i] = Mid => i = 2 /\ tierOf[1] = Top
    BY <2>1 DEF RankingInv, ShapeInv
  <2>3. \A i \in DOMAIN ranked : at(ranked[i].neighbor) = i
    BY DEF RankingInv, RankedInv
  <2>4. \A x \in cands : at(x) \in DOMAIN ranked /\ ranked[at(x)].neighbor = x
    BY <2>3
  <2>5. \A i \in DOMAIN ranked : f[ranked[i].neighbor] = tierOf[i]
    BY <2>3
  <2>6. f \in [cands -> Tiers]
    BY <2>1, <2>2, <2>4
  <2> HIDE DEF f, at
  <2>7. ASSUME NEW x \in cands, NEW y \in cands, x # y, f[x] = f[y]
        PROVE  f[x] = Default
    <3>1. PICK i \in DOMAIN ranked, j \in DOMAIN ranked :
              x = ranked[i].neighbor /\ y = ranked[j].neighbor /\ i # j
      BY <2>7
    <3>2. tierOf[i] = tierOf[j] /\ f[x] = tierOf[i]
      BY <2>5, <2>7, <3>1
    <3>3. QED
      BY <2>1, <2>2, <3>1, <3>2 DEF Tiers
  <2>8. ASSUME NEW x \in cands, f[x] = Mid
        PROVE  \E y \in cands : f[y] = Top
    <3>1. PICK i \in DOMAIN ranked : x = ranked[i].neighbor
      OBVIOUS
    <3>2. tierOf[i] = Mid
      BY <2>5, <2>8, <3>1
    <3>3. tierOf[1] = Top /\ 1 \in DOMAIN ranked
      BY <2>1, <2>2, <3>1, <3>2
    <3>4. QED
      BY <2>5, <3>3
  <2>9. ASSUME NEW x \in cands, cands = {x}
        PROVE  f[x] = Default
    <3>1. PICK i \in DOMAIN ranked : x = ranked[i].neighbor
      OBVIOUS
    <3>2. \A j \in DOMAIN ranked : ranked[j].neighbor = x
      BY <2>9
    <3>3. \A j \in DOMAIN ranked : j = i
      BY <3>1, <3>2 DEF RankingInv, RankedInv
    <3>4. 1 \in DOMAIN ranked /\ Len(ranked) \in DOMAIN ranked
      BY <2>1, <3>1
    <3>5. i = 1 /\ Len(ranked) = 1
      BY <3>3, <3>4
    <3>6. QED
      BY <2>1, <2>5, <3>1, <3>5
  <2>10. f \in TierAssignments(cands)
    BY <2>6, <2>7, <2>8, <2>9 DEF TierAssignments
  <2>11. QED
    BY <2>5, <2>10
<1>2. QED
  BY <1>1, RankingInvAlways, PTL
----------------------------------------------------------------------------
(* The costs.  A leg that traffic was seen on is ranked by the loss its    *)
(* traffic saw, any other by what its probes measured or as lost; and once *)
(* the ranking has started, the candidates are those of the legs of now,   *)
(* none before a cheaper one.                                              *)
LegCost(c) == composite(c.rtt, c.loss)

CostInv ==
    /\ \A l \in DOMAIN cold : /\ cold[l].composite \in {Lost, LegCost(cold[l])}
                              /\ cold[l].conf > 0 => cold[l].composite = LegCost(cold[l])
    /\ pc \in {"rank", "done"} =>
         /\ \A i \in DOMAIN ranked : ranked[i] \in CollapseByNeighbor
         /\ \A i, j \in DOMAIN ranked : i < j => ~ Less(ranked[j], ranked[i])

(* Legs that do not change collapse to the same candidates.                *)
LEMMA SameLegs == UNCHANGED cold => UNCHANGED CollapseByNeighbor
BY DEF CollapseByNeighbor, KeptLegs, Average, SumOfErrors, Total

LEMMA CostInvNext == ColdInv /\ RankedInv /\ CostInv /\ [RankingNext]_rankingVars => CostInv'
<1>. SUFFICES ASSUME ColdInv, RankedInv, CostInv, [RankingNext]_rankingVars
              PROVE  CostInv'
  OBVIOUS
<1>1. ASSUME NEW l \in Legs, NEW r \in ProbeResults, ProbeLeg(l, r)
      PROVE  CostInv'
  <2>1. /\ cold' = [m \in DOMAIN cold \cup {l} |-> IF m = l THEN FromProbeResult(l, r) ELSE cold[m]]
        /\ pc' = "probe"
    BY <1>1 DEF ProbeLeg
  <2>2. /\ FromProbeResult(l, r).composite \in {Lost, LegCost(FromProbeResult(l, r))}
        /\ ~ (FromProbeResult(l, r).conf > 0)
    BY DEF FromProbeResult, LegCost
  <2>. QED  BY <2>1, <2>2 DEF CostInv
<1>2. ASSUME NEW l \in Legs, NEW e \in Transits, TransitOverride(NextHopOf[l], e)
      PROVE  CostInv'
  <2>1. /\ cold' = [m \in DOMAIN cold |-> IF NextHopOf[m] = NextHopOf[l] THEN Override(cold[m], e) ELSE cold[m]]
        /\ pc' = "override"
    BY <1>2 DEF TransitOverride
  <2>2. ASSUME NEW m \in DOMAIN cold
        PROVE  Override(cold[m], e).composite = LegCost(Override(cold[m], e))
    BY DEF Override, LegCost, ColdInv, Fields
  <2>. QED  BY <2>1, <2>2 DEF CostInv
<1>3. ASSUME NEW order \in Sorted(CollapseByNeighbor), StartRanking(order)
      PROVE  CostInv'
  <2>1. ranked' = order /\ cold' = cold /\ DOMAIN order = 1 .. Len(order)
    BY <1>3, SortedIsRanked DEF StartRanking
  <2>2. \A i \in DOMAIN order : order[i] \in CollapseByNeighbor
    BY DEF Sorted
  <2>3. \A i, j \in DOMAIN order : i < j => ~ Less(order[j], order[i])
    BY DEF Sorted
  <2>. QED  BY <2>1, <2>2, <2>3, SameLegs DEF CostInv
<1>4. CASE RankNext
  <2>1. ranked' = ranked /\ cold' = cold /\ pc = "rank"
    BY <1>4 DEF RankNext
  <2>. QED  BY <2>1, SameLegs DEF CostInv
<1>5. CASE NextTick
  <2>1. pc' = "probe" /\ DOMAIN cold' = {}
    BY <1>5 DEF NextTick
  <2>. QED  BY <2>1 DEF CostInv
<1>6. CASE cold' = cold /\ pc' \notin {"rank", "done"}
  BY <1>6 DEF CostInv
<1>7. CASE UNCHANGED rankingVars
  <2>1. ranked' = ranked /\ cold' = cold /\ pc' = pc
    BY <1>7 DEF rankingVars
  <2>. QED  BY <2>1, SameLegs DEF CostInv
<1>. QED  BY <1>1, <1>2, <1>3, <1>4, <1>5, <1>6, <1>7 DEF RankingNext, ProbeError, ProbesDone

(* What a candidate is ranked by is its cost, but for a sole leg that did  *)
(* not answer.                                                             *)
LEMMA RankedByCost ==
    ASSUME ColdInv, CostInv, NEW nb \in Probed,
           CollapsedOf(nb).composite # Lost \/ CollapsedOf(nb).conf > 0
    PROVE  CollapsedOf(nb).composite = CostOf(nb)
<1>. DEFINE legs == KeptLegs(nb)
            l == CHOOSE m \in legs : TRUE
<1>1. legs # {} /\ legs \subseteq DOMAIN cold
  BY KeptLegsAreItsOwn DEF Probed
<1>. HIDE DEF legs
<1>2. CASE Cardinality(legs) = 1
  <2>1. l \in DOMAIN cold
    BY <1>1
  <2>2. CollapsedOf(nb) = cold[l]
    BY <1>2 DEF CollapsedOf, legs
  <2>3. CostOf(nb) = LegCost(cold[l])
    BY <1>2 DEF CostOf, LegCost, legs
  <2>. HIDE DEF l
  <2>. QED  BY <2>1, <2>2, <2>3 DEF CostInv
<1>3. CASE Cardinality(legs) # 1
  <2>1. CollapsedOf(nb) = Average(nb, legs)
    BY <1>3 DEF CollapsedOf, legs
  <2>. QED  BY <1>3, <2>1 DEF Average, CostOf, legs
<1>. QED  BY <1>2, <1>3

(* In every reachable state.                                               *)
LEMMA CostInvAlways == RankingSpec => [](RankingInv /\ CostInv)
<1>1. RankingInit => CostInv
  BY DEF RankingInit, CostInv
<1>2. RankingInv /\ CostInv /\ [RankingNext]_rankingVars => CostInv'
  BY CostInvNext DEF RankingInv
<1>. QED  BY <1>1, <1>2, RankingInvAlways, PTL DEF RankingSpec

(* CollapseByNeighbor, the override and the sort of RankByTier together    *)
(* give the top tier to no neighbor while another one is cheaper, for any  *)
(* legs and measurements.                                                  *)
THEOREM TopIsCheapestAlways == RankingSpec => []TopIsCheapest
<1>1. RankingInv /\ CostInv => TopIsCheapest
  <2>. SUFFICES ASSUME RankingInv, CostInv, NEW i \in DOMAIN tierOf, NEW j \in DOMAIN tierOf,
                       tierOf[i] = Top, j # i, ranked[j].composite < Lost
                PROVE  ~ (CostOf(ranked[j].neighbor) < CostOf(ranked[i].neighbor))
    BY DEF TopIsCheapest
  <2>1. i \in 1 .. Len(tierOf) /\ j \in 1 .. Len(tierOf) /\ Len(tierOf) \in Nat /\ Len(ranked) \in Nat
    BY DEF RankingInv, ShapeInv, RankedInv
  <2>2. pc \in {"rank", "done"} /\ {i, j} \subseteq DOMAIN ranked
    BY <2>1 DEF RankingInv, ShapeInv, RankedInv
  <2>3. i = 1 /\ Confident(ranked[i])
    BY <2>1, TierOrder DEF RankingInv, ShapeInv
  <2>4. PICK a \in Probed, b \in Probed : ranked[i] = CollapsedOf(a) /\ ranked[j] = CollapsedOf(b)
    BY <2>2, CollapsedSet DEF CostInv
  <2>5. ranked[i].neighbor = a /\ ranked[j].neighbor = b
    BY <2>4, CollapsedEntry DEF RankingInv
  <2>6. ranked[i].conf > 0
    <3>1. PICK l \in DOMAIN cold : cold[l].conf = ranked[i].conf
      BY <2>2 DEF RankingInv, RankedInv
    <3>2. ranked[i].conf \in 0 .. 5
      BY <3>1 DEF RankingInv, ColdInv
    <3>. QED  BY <2>3, <3>2 DEF Confident
  <2>7. ranked[i].composite = CostOf(a)
    BY <2>4, <2>6, RankedByCost DEF RankingInv
  <2>8. ranked[j].composite # Lost
    BY LostAssumption
  <2>9. ranked[j].composite = CostOf(b)
    BY <2>4, <2>8, RankedByCost DEF RankingInv
  <2>10. ~ Less(ranked[j], ranked[i])
    BY <2>1, <2>2, <2>3 DEF CostInv
  <2>. QED  BY <2>5, <2>7, <2>9, <2>10 DEF Less
<1>. QED  BY <1>1, CostInvAlways, PTL

(***************************************************************************)
(* ControlLoop                                                             *)
(***************************************************************************)
(* Every ranking gives every neighbor a view.                              *)
LEMMA RankingsAreViews ==
    ASSUME NEW c, NEW u \in Rankings(c)
    PROVE  u \in [Neighbors -> Views]
  BY DEF Rankings

(* A dwell stays one when time passes.                                     *)
LEMMA ElapseType ==
    ASSUME NEW h \in [Neighbors -> 0 .. MinDwell]
    PROVE  Elapse(h) \in [Neighbors -> 0 .. MinDwell]
  BY DwellAssumption DEF Elapse

(* A neighbor without an update has a view as well.                        *)
LEMMA NoUpdateIsView == NoUpdate \in Views
  BY DEF NoUpdate, Views

(* The mirror names neighbors.                                             *)
LEMMA SyncedType ==
    ASSUME active \in [Prefixes -> Neighbors \cup {None}], NEW n \in Neighbors, NEW u
    PROVE  Synced(n, u) \in [Prefixes -> Neighbors \cup {None}]
  BY DEF Synced

----------------------------------------------------------------------------
(* A process starts with these.                                            *)
LEMMA InitialValues ==
    /\ NoUpdates \in [Neighbors -> Views]
    /\ NoCandidates \in [Prefixes -> SUBSET Neighbors]
    /\ NoHold \in [Neighbors -> 0 .. MinDwell]
    /\ NoBaseline \in [Prefixes -> Neighbors \cup {None}]
<1>1. NoUpdates \in [Neighbors -> Views]
  BY NoUpdateIsView DEF NoUpdates
<1>2. NoHold \in [Neighbors -> 0 .. MinDwell]
  BY DwellAssumption DEF NoHold
<1>3. QED
  BY <1>1, <1>2 DEF NoCandidates, NoBaseline

(* The types at the start of the process.                                  *)
LEMMA TypeInit == Init => TypeOK
<1> SUFFICES ASSUME Init
             PROVE  TypeOK
  OBVIOUS
<1>1. [p \in Prefixes |-> Top] \in Views
  BY DEF Views, Tiers
<1>2. tiers \in [Neighbors -> Views \cup {Unbound}]
  BY <1>1 DEF Init
<1>3. QED
  BY <1>2, InitialValues DEF Init, TypeOK

(* Every step keeps the types.                                             *)
LEMMA TypeNext == TypeOK /\ [Next]_vars => TypeOK'
<1> SUFFICES ASSUME TypeOK, [Next]_vars
             PROVE  TypeOK'
  OBVIOUS
<1> USE DEF TypeOK, frrVars, tickVars, setVars
<1>1. CASE StartClean
  BY <1>1 DEF StartClean
<1>2. CASE StartAnyway
  BY <1>2 DEF StartAnyway
<1>3. CASE SkipTick
  BY <1>3, ElapseType DEF SkipTick
<1>4. CASE \E c \in [Prefixes -> SUBSET Neighbors] : \E u \in Rankings(c) : RankTick(c, u)
  <2>1. PICK c \in [Prefixes -> SUBSET Neighbors] : \E u \in Rankings(c) : RankTick(c, u)
    BY <1>4
  <2>2. PICK u \in Rankings(c) : RankTick(c, u)
    BY <2>1
  <2>3. u \in [Neighbors -> Views]
    BY RankingsAreViews
  <2>4. QED
    BY <2>2, <2>3, ElapseType DEF RankTick, Named
<1>5. ASSUME NEW n \in Neighbors, Suppress(n)
      PROVE  TypeOK'
  BY <1>5 DEF Suppress, Visit
<1>6. ASSUME NEW n \in Neighbors, Apply(n)
      PROVE  TypeOK'
  BY <1>6, SyncedType, DwellAssumption DEF Apply, Visit
<1>7. ASSUME NEW n \in Neighbors, ApplyFails(n)
      PROVE  TypeOK'
  BY <1>7 DEF ApplyFails, Visit
<1>8. CASE StartCleanup
  BY <1>8 DEF StartCleanup
<1>9. ASSUME NEW n \in Neighbors, Remove(n) \/ RemoveFails(n)
      PROVE  TypeOK'
  BY <1>9 DEF Remove, RemoveFails
<1>10. CASE EndTick
  BY <1>10 DEF EndTick
<1>11. CASE DaemonRestart
  BY <1>11, InitialValues DEF DaemonRestart
<1>12. ASSUME NEW lost \in SUBSET Neighbors, BindingsLost(lost)
       PROVE  TypeOK'
  BY <1>12 DEF BindingsLost
<1>13. CASE Settle
  BY <1>13 DEF Settle
<1>14. CASE UNCHANGED vars
  BY <1>14 DEF vars
<1>15. QED
  BY <1>1, <1>2, <1>3, <1>4, <1>5, <1>6, <1>7, <1>8, <1>9, <1>10, <1>11, <1>12, <1>13, <1>14
     DEF Next, LoopStep, Environment

(* The variables of the loop have their types in every reachable state.    *)
THEOREM TypeCorrect == Spec => []TypeOK
<1>1. QED
  BY TypeInit, TypeNext, PTL DEF Spec

----------------------------------------------------------------------------
(* Tracking.  At which points which set accounts for the bound neighbors:  *)
(* this tick's marks only once the loop is past the visits, and what the   *)
(* cleanup still has to visit from then on.                                *)
Bound == {n \in Neighbors : tiers[n] # Unbound}

TrackInv ==
    /\ step = "idle"    => Bound \subseteq appliedNeighbors
    /\ step = "actuate" => Bound \subseteq appliedNeighbors \cup thisTickNeighbors
    /\ step = "cleanup" => /\ Bound \subseteq removing \cup thisTickNeighbors
                           /\ removing \subseteq appliedNeighbors

(* Nothing is bound when the first process starts.                         *)
LEMMA TrackInvInit == Init => TrackInv
  BY DEF Init, TrackInv

(* Every step keeps it, as long as neither a removal nor the startup       *)
(* normalization may fail.                                                 *)
LEMMA TrackInvNext ==
    ASSUME "remove" \notin Faults, "normalize" \notin Faults
    PROVE  TypeOK /\ TrackInv /\ [Next]_vars => TrackInv'
<1> SUFFICES ASSUME TypeOK, TrackInv, [Next]_vars
             PROVE  TrackInv'
  OBVIOUS
<1> USE DEF TrackInv, Bound, frrVars, tickVars, setVars
<1>1. CASE StartClean
  BY <1>1 DEF StartClean
<1>2. CASE StartAnyway
  BY <1>2 DEF StartAnyway, May
<1>3. CASE SkipTick
  BY <1>3 DEF SkipTick
<1>4. CASE \E c \in [Prefixes -> SUBSET Neighbors] : \E u \in Rankings(c) : RankTick(c, u)
  BY <1>4 DEF RankTick
<1>5. ASSUME NEW n \in Neighbors, Suppress(n)
      PROVE  TrackInv'
  BY <1>5 DEF Suppress, Visit
<1>6. ASSUME NEW n \in Neighbors, Apply(n)
      PROVE  TrackInv'
  BY <1>6 DEF Apply, Visit, TypeOK
<1>7. ASSUME NEW n \in Neighbors, ApplyFails(n)
      PROVE  TrackInv'
  BY <1>7 DEF ApplyFails, Visit, TypeOK
<1>8. CASE StartCleanup
  BY <1>8 DEF StartCleanup
<1>9. ASSUME NEW n \in Neighbors, Remove(n)
      PROVE  TrackInv'
  BY <1>9 DEF Remove, TypeOK
<1>10. ASSUME NEW n \in Neighbors, RemoveFails(n)
       PROVE  TrackInv'
  BY <1>10 DEF RemoveFails, May
<1>11. CASE EndTick
  BY <1>11 DEF EndTick
<1>12. CASE DaemonRestart
  BY <1>12 DEF DaemonRestart
<1>13. ASSUME NEW lost \in SUBSET Neighbors, BindingsLost(lost)
       PROVE  TrackInv'
  BY <1>13 DEF BindingsLost, TypeOK
<1>14. CASE Settle
  BY <1>14 DEF Settle
<1>15. CASE UNCHANGED vars
  BY <1>15 DEF vars
<1>16. QED
  BY <1>1, <1>2, <1>3, <1>4, <1>5, <1>6, <1>7, <1>8, <1>9, <1>10, <1>11, <1>12, <1>13, <1>14, <1>15
     DEF Next, LoopStep, Environment

(* As long as RemoveNeighborTiers and the startup normalization succeed,   *)
(* no neighbor stays bound in FRR outside the sets the loop looks at:      *)
(* failed sets, the dampener, skipped ticks, crashes, restarts of FRR and  *)
(* lost bindings cannot leak one.                                          *)
THEOREM NothingLeaks ==
    ASSUME "remove" \notin Faults, "normalize" \notin Faults
    PROVE  Spec => []TrackedBindings
<1>1. Init => TrackInv
  BY TrackInvInit
<1>2. TypeOK /\ TrackInv /\ [Next]_vars => TrackInv'
  BY TrackInvNext
<1>3. TypeOK /\ TrackInv => TrackedBindings
  BY DEF TypeOK, TrackInv, Bound, TrackedBindings
<1>4. QED
  BY <1>1, <1>2, <1>3, TypeCorrect, PTL DEF Spec

----------------------------------------------------------------------------
(* What the loop makes of one ranking: which tiers can stand beside each   *)
(* other, what the mirror names, and whom the cleanup spares.  All three   *)
(* rest on the same fact: while the loop actuates, the updates are a       *)
(* ranking of this tick's candidates, every neighbor they name has been    *)
(* visited or is still to be, and a neighbor whose dwell is full was given *)
(* its update in this very tick.                                           *)
Unique(u) ==
    \A n, m \in Neighbors : n # m => \A p \in Prefixes : ~ (u[n][p] = Top /\ u[m][p] = Top)

(* A ranking gives the top tier of a prefix to one neighbor at most.       *)
LEMMA OneTopPerPrefix ==
    ASSUME NEW c \in [Prefixes -> SUBSET Neighbors], NEW u \in Rankings(c)
    PROVE  Unique(u)
<1> SUFFICES ASSUME NEW n \in Neighbors, NEW m \in Neighbors, n # m, NEW p \in Prefixes,
                    u[n][p] = Top, u[m][p] = Top
             PROVE  FALSE
  BY DEF Unique
<1>1. Top # Pass /\ Top # Default
  BY NameAssumption, TierOrder DEF Tiers
<1>2. n \in c[p] /\ m \in c[p]
  BY <1>1 DEF Rankings
<1>3. PICK f : f = [x \in c[p] |-> u[x][p]]
  OBVIOUS
<1>4. f \in TierAssignments(c[p])
  BY <1>3 DEF Rankings
<1>5. f[n] = Top /\ f[m] = Top
  BY <1>2, <1>3
<1>6. QED
  BY <1>1, <1>2, <1>4, <1>5 DEF TierAssignments

(* The only candidate of a prefix gets the default tier.                   *)
LEMMA SoleGetsDefault ==
    ASSUME NEW c \in [Prefixes -> SUBSET Neighbors], NEW u \in Rankings(c),
           NEW n \in Neighbors, NEW p \in Prefixes, c[p] = {n}
    PROVE  u[n][p] = Default
<1>1. PICK f : f = [x \in c[p] |-> u[x][p]]
  OBVIOUS
<1>2. f \in TierAssignments(c[p])
  BY <1>1 DEF Rankings
<1>3. f[n] = Default
  BY <1>2 DEF TierAssignments
<1>4. QED
  BY <1>1, <1>3

(* In a process that started clean a nil return leaves the update itself.  *)
LEMMA CleanSetIsExact ==
    ASSUME NEW view, NEW want, Store!Fulfils(view, want, TRUE)
    PROVE  view = want
  BY DEF Store!Fulfils

----------------------------------------------------------------------------
(* The updates while the loop actuates or cleans up.                       *)
TickInv ==
    /\ step = "actuate" => updates \in Rankings(candidates)
    /\ step = "actuate" => Named(updates) \subseteq pending \cup thisTickNeighbors
    /\ step # "cleanup" => removing = {}
    /\ step = "cleanup" => removing \cap Named(updates) = {}

(* Every step keeps the invariant of the tick.                             *)
LEMMA TickInvNext == TypeOK /\ TickInv /\ [Next]_vars => TickInv'
<1> SUFFICES ASSUME TypeOK, TickInv, [Next]_vars
             PROVE  TickInv'
  OBVIOUS
<1> USE DEF TickInv, Named, frrVars, tickVars, setVars
<1>1. CASE StartClean \/ StartAnyway
  BY <1>1 DEF StartClean, StartAnyway
<1>2. CASE SkipTick
  BY <1>2 DEF SkipTick
<1>3. CASE \E c \in [Prefixes -> SUBSET Neighbors] : \E u \in Rankings(c) : RankTick(c, u)
  BY <1>3 DEF RankTick
<1>4. ASSUME NEW n \in Neighbors, Suppress(n) \/ Apply(n) \/ ApplyFails(n)
      PROVE  TickInv'
  <2>1. Visit(n) /\ removing' = removing
    BY <1>4 DEF Suppress, Apply, ApplyFails, Visit
  <2>2. QED
    BY <2>1 DEF Visit
<1>5. CASE StartCleanup
  BY <1>5 DEF StartCleanup
<1>6. ASSUME NEW n \in Neighbors, Remove(n) \/ RemoveFails(n)
      PROVE  TickInv'
  BY <1>6 DEF Remove, RemoveFails
<1>7. CASE EndTick
  BY <1>7 DEF EndTick
<1>8. CASE DaemonRestart
  BY <1>8 DEF DaemonRestart
<1>9. ASSUME NEW lost \in SUBSET Neighbors, BindingsLost(lost)
      PROVE  TickInv'
  BY <1>9 DEF BindingsLost
<1>10. CASE Settle
  BY <1>10 DEF Settle
<1>11. CASE UNCHANGED vars
  BY <1>11 DEF vars
<1>12. QED
  BY <1>1, <1>2, <1>3, <1>4, <1>5, <1>6, <1>7, <1>8, <1>9, <1>10, <1>11
     DEF Next, LoopStep, Environment

(* It holds in every reachable state, with the types.                      *)
LEMMA TickInvAlways == Spec => [](TypeOK /\ TickInv)
<1>1. Init => TickInv
  BY DEF Init, TickInv
<1>2. QED
  BY <1>1, TickInvNext, TypeCorrect, PTL DEF Spec

----------------------------------------------------------------------------
(* A neighbor with an update is never torn down by the cleanup, whatever   *)
(* the dampener or FRR made of the update.                                 *)
THEOREM HeldNeighborsAreSpared == Spec => HeldStaysBound
<1> DEFINE Spared == \A n \in removing \ removing' : step' # "boot" => n \notin Named(updates)
<1>1. TypeOK /\ TickInv /\ [Next]_vars => [Spared]_vars
  <2> SUFFICES ASSUME TypeOK, TickInv, [Next]_vars
               PROVE  Spared
    OBVIOUS
  <2>1. step # "cleanup" => Spared
    BY DEF TickInv
  <2>2. step = "cleanup" => Spared
    BY DEF TickInv
  <2>3. QED
    BY <2>1, <2>2
<1>2. QED
  BY <1>1, TickInvAlways, PTL DEF Spec, HeldStaysBound

----------------------------------------------------------------------------
(* A full dwell while the loop actuates is that of a set of this tick.     *)
FullDwell(n) == MinDwell > 0 /\ hold[n] = MinDwell /\ tiers[n] # Unbound

AppliedInv ==
    step = "actuate" /\ trusted =>
        \A n \in Neighbors : FullDwell(n) => tiers[n] = updates[n]

(* A successful set in a clean process: n holds its update, with a full    *)
(* dwell, and nobody else changes.                                         *)
LEMMA ApplyEffect ==
    ASSUME TypeOK, NEW n \in Neighbors, Apply(n), trusted
    PROVE  /\ tiers' = [tiers EXCEPT ![n] = updates[n]]
           /\ hold' = [hold EXCEPT ![n] = MinDwell]
           /\ step = "actuate"
           /\ UNCHANGED <<step, updates, candidates, trusted>>
<1>1. PICK view \in Views : Store!Fulfils(view, updates[n], trusted)
                            /\ tiers' = [tiers EXCEPT ![n] = view]
  BY DEF Apply
<1>2. view = updates[n]
  BY <1>1, CleanSetIsExact DEF TypeOK
<1>3. QED
  BY <1>1, <1>2 DEF Apply, Visit, tickVars

(* Every step keeps it: a set writes the update of its own tick.           *)
LEMMA AppliedInvNext == TypeOK /\ TickInv /\ AppliedInv /\ [Next]_vars => AppliedInv'
<1> SUFFICES ASSUME TypeOK, TickInv, AppliedInv, [Next]_vars
             PROVE  AppliedInv'
  OBVIOUS
<1> USE DEF AppliedInv, FullDwell, frrVars, tickVars, setVars
<1>1. CASE StartClean \/ StartAnyway
  BY <1>1 DEF StartClean, StartAnyway
<1>2. CASE SkipTick
  BY <1>2 DEF SkipTick
<1>3. CASE \E c \in [Prefixes -> SUBSET Neighbors] : \E u \in Rankings(c) : RankTick(c, u)
  <2>1. hold' = Elapse(hold)
    BY <1>3 DEF RankTick
  <2>2. \A n \in Neighbors : MinDwell > 0 => hold'[n] # MinDwell
    BY <2>1, DwellAssumption DEF Elapse, TypeOK
  <2>3. QED
    BY <2>2, DwellAssumption
<1>4. ASSUME NEW n \in Neighbors, Suppress(n)
      PROVE  AppliedInv'
  BY <1>4 DEF Suppress, Visit
<1>5. ASSUME NEW n \in Neighbors, Apply(n)
      PROVE  AppliedInv'
  <2> SUFFICES ASSUME trusted', NEW m \in Neighbors, FullDwell(m)'
               PROVE  tiers'[m] = updates'[m]
    OBVIOUS
  <2>1. trusted
    BY <1>5 DEF Apply, Visit
  <2>2. CASE m = n
    BY <1>5, <2>1, <2>2, ApplyEffect DEF TypeOK
  <2>3. CASE m # n
    BY <1>5, <2>1, <2>3, ApplyEffect DEF TypeOK
  <2>4. QED
    BY <2>2, <2>3
<1>6. ASSUME NEW n \in Neighbors, ApplyFails(n)
      PROVE  AppliedInv'
  BY <1>6, DwellAssumption DEF ApplyFails, Visit, TypeOK
<1>7. CASE StartCleanup
  BY <1>7 DEF StartCleanup
<1>8. ASSUME NEW n \in Neighbors, Remove(n) \/ RemoveFails(n)
      PROVE  AppliedInv'
  BY <1>8 DEF Remove, RemoveFails
<1>9. CASE EndTick
  BY <1>9 DEF EndTick
<1>10. CASE DaemonRestart
  BY <1>10 DEF DaemonRestart
<1>11. ASSUME NEW lost \in SUBSET Neighbors, BindingsLost(lost)
       PROVE  AppliedInv'
  BY <1>11 DEF BindingsLost, TypeOK
<1>12. CASE Settle
  BY <1>12 DEF Settle
<1>13. CASE UNCHANGED vars
  BY <1>13 DEF vars
<1>14. QED
  BY <1>1, <1>2, <1>3, <1>4, <1>5, <1>6, <1>7, <1>8, <1>9, <1>10, <1>11, <1>12, <1>13
     DEF Next, LoopStep, Environment

(* A tick of time can only reveal an equality of dwells that was there.    *)
LEMMA ElapseKeepsOrder ==
    ASSUME NEW h \in [Neighbors -> 0 .. MinDwell], NEW n \in Neighbors, NEW m \in Neighbors,
           Elapse(h)[n] > 0
    PROVE  h[n] > 0 /\ (Elapse(h)[n] = Elapse(h)[m] => h[n] = h[m])
  BY DwellAssumption DEF Elapse

(* Two neighbors whose dwells would contradict the invariant.              *)
BothTop(n, m, p) ==
    /\ n # m
    /\ hold[n] = hold[m] /\ hold[n] > 0
    /\ tiers[n] # Unbound /\ tiers[m] # Unbound
    /\ tiers[n][p] = Top /\ tiers[m][p] = Top

(* A successful set cannot give n a top tier that a neighbor set in the    *)
(* same tick has: both hold their updates.                                 *)
LEMMA ApplyMeetsNoTop ==
    ASSUME TypeOK, TickInv, AppliedInv, trusted,
           NEW n \in Neighbors, NEW m \in Neighbors, NEW p \in Prefixes,
           Apply(n), BothTop(n, m, p)'
    PROVE  FALSE
<1>1. /\ tiers' = [tiers EXCEPT ![n] = updates[n]]
      /\ hold' = [hold EXCEPT ![n] = MinDwell]
      /\ step = "actuate"
  BY ApplyEffect
<1>2. n # m /\ hold'[n] = MinDwell /\ hold'[m] = hold[m] /\ tiers'[n] = updates[n] /\ tiers'[m] = tiers[m]
  BY <1>1 DEF BothTop, TypeOK
<1>3. MinDwell > 0 /\ hold[m] = MinDwell /\ tiers[m] # Unbound
  BY <1>2 DEF BothTop
<1>4. tiers[m] = updates[m]
  BY <1>1, <1>3 DEF AppliedInv, FullDwell
<1>5. Unique(updates)
  BY <1>1, OneTopPerPrefix DEF TickInv, TypeOK
<1>6. QED
  BY <1>2, <1>4, <1>5 DEF BothTop, Unique

(* Every step keeps the property; only a successful set can disturb it.    *)
LEMMA NoTwoTopsNext ==
    TypeOK /\ TickInv /\ AppliedInv /\ NoTwoTopsFromOneTick /\ [Next]_vars => NoTwoTopsFromOneTick'
<1> SUFFICES ASSUME TypeOK, TickInv, AppliedInv, NoTwoTopsFromOneTick, [Next]_vars, trusted',
                    NEW n \in Neighbors, NEW m \in Neighbors, NEW p \in Prefixes,
                    BothTop(n, m, p)'
             PROVE  FALSE
  BY DEF NoTwoTopsFromOneTick, BothTop
<1>0. trusted => ~ BothTop(n, m, p)
  BY DEF NoTwoTopsFromOneTick, BothTop
<1> USE DEF BothTop, frrVars, tickVars, setVars
<1>1. CASE StartClean \/ StartAnyway
  BY <1>1 DEF StartClean, StartAnyway
<1>2. CASE SkipTick
  BY <1>0, <1>2, ElapseKeepsOrder DEF SkipTick, TypeOK
<1>3. CASE \E c \in [Prefixes -> SUBSET Neighbors] : \E u \in Rankings(c) : RankTick(c, u)
  <2>1. hold' = Elapse(hold) /\ tiers' = tiers /\ trusted' = trusted
    BY <1>3 DEF RankTick
  <2>2. QED
    BY <1>0, <2>1, ElapseKeepsOrder DEF TypeOK
<1>4. ASSUME NEW k \in Neighbors, Suppress(k)
      PROVE  FALSE
  BY <1>0, <1>4 DEF Suppress, Visit
<1>5. ASSUME NEW k \in Neighbors, Apply(k)
      PROVE  FALSE
  <2>1. trusted
    BY <1>5 DEF Apply, Visit
  <2>2. CASE k = n
    BY <1>5, <2>1, <2>2, ApplyMeetsNoTop
  <2>3. CASE k = m
    <3>1. BothTop(m, n, p)'
      OBVIOUS
    <3>2. QED
      BY <1>5, <2>1, <2>3, <3>1, ApplyMeetsNoTop
  <2>4. CASE k # n /\ k # m
    BY <1>0, <1>5, <2>1, <2>4, ApplyEffect DEF TypeOK
  <2>5. QED
    BY <2>2, <2>3, <2>4
<1>6. ASSUME NEW k \in Neighbors, ApplyFails(k)
      PROVE  FALSE
  BY <1>0, <1>6 DEF ApplyFails, Visit, TypeOK
<1>7. CASE StartCleanup
  BY <1>0, <1>7 DEF StartCleanup
<1>8. ASSUME NEW k \in Neighbors, Remove(k) \/ RemoveFails(k)
      PROVE  FALSE
  BY <1>0, <1>8 DEF Remove, RemoveFails, TypeOK
<1>9. CASE EndTick
  BY <1>0, <1>9 DEF EndTick
<1>10. CASE DaemonRestart
  BY <1>10 DEF DaemonRestart
<1>11. ASSUME NEW lost \in SUBSET Neighbors, BindingsLost(lost)
       PROVE  FALSE
  BY <1>0, <1>11 DEF BindingsLost, TypeOK
<1>12. CASE Settle
  BY <1>0, <1>12 DEF Settle
<1>13. CASE UNCHANGED vars
  BY <1>0, <1>13 DEF vars
<1>14. QED
  BY <1>1, <1>2, <1>3, <1>4, <1>5, <1>6, <1>7, <1>8, <1>9, <1>10, <1>11, <1>12, <1>13
     DEF Next, LoopStep, Environment

(* Neighbors set in one tick never hold the top tier of one prefix         *)
(* together while their dwell runs, for any number of them and whatever    *)
(* failed, was drained, was lost or was skipped in between.                *)
THEOREM NoTwoTops == Spec => []NoTwoTopsFromOneTick
<1>1. Init => AppliedInv /\ NoTwoTopsFromOneTick
  BY DEF Init, AppliedInv, NoTwoTopsFromOneTick
<1>2. QED
  BY <1>1, TickInvAlways, AppliedInvNext, NoTwoTopsNext, PTL DEF Spec

----------------------------------------------------------------------------
(* The mirror after a successful set of n: a prefix it gives to n has not  *)
(* gone to the mid tier, one it gives to another neighbor it gave before.  *)
LEMMA SyncedIsEarned ==
    ASSUME TypeOK, TickInv, step = "actuate", NEW n \in Neighbors, NEW m \in Neighbors,
           NEW p \in Prefixes, Synced(n, updates[n])[p] = m
    PROVE  IF m = n THEN updates[n][p] # Mid ELSE active[p] = m
<1>1. Top # Mid /\ Default # Mid /\ Pass # Mid
  BY NameAssumption, TierOrder DEF Tiers
<1>2. candidates[p] = {n} => updates[n][p] = Default
  BY SoleGetsDefault DEF TickInv, TypeOK
<1>3. QED
  BY <1>1, <1>2, NameAssumption DEF Synced

(* Every step keeps the property; only a successful set moves the mirror.  *)
LEMMA BaselineNext ==
    TypeOK /\ TickInv /\ BaselineNotDemoted /\ [Next]_vars => BaselineNotDemoted'
<1> SUFFICES ASSUME TypeOK, TickInv, BaselineNotDemoted, [Next]_vars,
                    NEW p \in Prefixes, NEW n \in Neighbors,
                    trusted', active'[p] = n, hold'[n] > 0, tiers'[n] # Unbound
             PROVE  tiers'[n][p] # Mid
  BY DEF BaselineNotDemoted
<1>0. trusted /\ active[p] = n /\ hold[n] > 0 /\ tiers[n] # Unbound => tiers[n][p] # Mid
  BY DEF BaselineNotDemoted
<1> USE DEF frrVars, tickVars, setVars
<1>1. CASE StartClean \/ StartAnyway
  BY <1>1 DEF StartClean, StartAnyway
<1>2. CASE SkipTick
  BY <1>0, <1>2, ElapseKeepsOrder DEF SkipTick, TypeOK
<1>3. CASE \E c \in [Prefixes -> SUBSET Neighbors] : \E u \in Rankings(c) : RankTick(c, u)
  <2>1. hold' = Elapse(hold) /\ tiers' = tiers /\ trusted' = trusted /\ active' = active
    BY <1>3 DEF RankTick
  <2>2. QED
    BY <1>0, <2>1, ElapseKeepsOrder DEF TypeOK
<1>4. ASSUME NEW k \in Neighbors, Suppress(k)
      PROVE  tiers'[n][p] # Mid
  BY <1>0, <1>4 DEF Suppress, Visit
<1>5. ASSUME NEW k \in Neighbors, Apply(k)
      PROVE  tiers'[n][p] # Mid
  <2>1. trusted /\ active' = Synced(k, updates[k])
    BY <1>5 DEF Apply, Visit
  <2>2. /\ tiers' = [tiers EXCEPT ![k] = updates[k]]
        /\ hold' = [hold EXCEPT ![k] = MinDwell]
        /\ step = "actuate"
    BY <1>5, <2>1, ApplyEffect
  <2>3. IF n = k THEN updates[k][p] # Mid ELSE active[p] = n
    BY <2>1, <2>2, SyncedIsEarned
  <2>4. QED
    BY <1>0, <2>1, <2>2, <2>3 DEF TypeOK
<1>6. ASSUME NEW k \in Neighbors, ApplyFails(k)
      PROVE  tiers'[n][p] # Mid
  BY <1>0, <1>6 DEF ApplyFails, Visit, TypeOK
<1>7. CASE StartCleanup
  BY <1>0, <1>7 DEF StartCleanup
<1>8. ASSUME NEW k \in Neighbors, Remove(k) \/ RemoveFails(k)
      PROVE  tiers'[n][p] # Mid
  BY <1>0, <1>8 DEF Remove, RemoveFails, TypeOK
<1>9. CASE EndTick
  BY <1>0, <1>9 DEF EndTick
<1>10. CASE DaemonRestart
  BY <1>10 DEF DaemonRestart
<1>11. ASSUME NEW lost \in SUBSET Neighbors, BindingsLost(lost)
       PROVE  tiers'[n][p] # Mid
  BY <1>0, <1>11 DEF BindingsLost, TypeOK
<1>12. CASE Settle
  BY <1>0, <1>12 DEF Settle
<1>13. CASE UNCHANGED vars
  BY <1>0, <1>13 DEF vars
<1>14. QED
  BY <1>1, <1>2, <1>3, <1>4, <1>5, <1>6, <1>7, <1>8, <1>9, <1>10, <1>11, <1>12, <1>13
     DEF Next, LoopStep, Environment

(* The neighbor the mirror names as a prefix's baseline is never one that  *)
(* FRR was last told, in its dwell, to keep at the mid tier.               *)
THEOREM BaselineHolds == Spec => []BaselineNotDemoted
<1>1. Init => BaselineNotDemoted
  BY DEF Init, BaselineNotDemoted
<1>2. QED
  BY <1>1, TickInvAlways, BaselineNext, PTL DEF Spec

----------------------------------------------------------------------------
(* A binding the loop has lost sight of.                                   *)

(* Only neighbors that are named by an update are visited.                 *)
VisitsAreNamed == pending \subseteq Named(updates)

(* Every step keeps it: the neighbors to visit are those of the updates.   *)
LEMMA VisitsAreNamedNext == VisitsAreNamed /\ [Next]_vars => VisitsAreNamed'
  BY DEF VisitsAreNamed, Next, LoopStep, Environment, vars, frrVars, tickVars, setVars,
         StartClean, StartAnyway, SkipTick, RankTick, Suppress, Apply, ApplyFails, Visit,
         StartCleanup, Remove, RemoveFails, EndTick, DaemonRestart, BindingsLost, Settle, Named

(* No step of a loop in which nothing fails any more touches a neighbor    *)
(* that neither an update names nor one of the sets of the loop has.       *)
LEMMA AbandonedStep ==
    ASSUME TypeOK, VisitsAreNamed, [Next]_vars, NEW n \in Neighbors, Abandoned(n)
    PROVE  Abandoned(n)'
<1>1. /\ calm /\ step # "boot" /\ tiers[n] # Unbound
      /\ n \notin Named(updates) /\ n \notin pending
      /\ n \notin appliedNeighbors /\ n \notin thisTickNeighbors /\ n \notin removing
  BY DEF Abandoned, VisitsAreNamed
<1> SUFFICES /\ calm' /\ step' # "boot" /\ tiers'[n] # Unbound /\ Named(updates)' = Named(updates)
             /\ n \notin appliedNeighbors' /\ n \notin thisTickNeighbors' /\ n \notin removing'
  BY <1>1 DEF Abandoned
<1> USE DEF frrVars, tickVars, setVars, May
<1>2. CASE StartClean \/ StartAnyway \/ SkipTick \/ DaemonRestart \/ EndTick \/ Settle
  BY <1>1, <1>2 DEF StartClean, StartAnyway, SkipTick, DaemonRestart, EndTick, Settle, Named
<1>3. CASE \E c \in [Prefixes -> SUBSET Neighbors] : \E u \in Rankings(c) : RankTick(c, u)
  BY <1>1, <1>3 DEF RankTick, Named
<1>4. ASSUME NEW m \in Neighbors, Suppress(m) \/ Apply(m) \/ ApplyFails(m)
      PROVE  /\ tiers'[n] = tiers[n] /\ thisTickNeighbors' = thisTickNeighbors \cup {m} /\ m # n
             /\ UNCHANGED <<step, updates, appliedNeighbors, removing, calm>>
  <2>1. m \in pending /\ m # n
    BY <1>1, <1>4 DEF Suppress, Apply, ApplyFails, Visit
  <2>2. QED
    BY <1>4, <2>1 DEF Suppress, Apply, ApplyFails, Visit, TypeOK
<1>5. CASE StartCleanup
  BY <1>1, <1>5 DEF StartCleanup, Named
<1>6. ASSUME NEW m \in Neighbors, Remove(m) \/ RemoveFails(m)
      PROVE  /\ tiers'[n] = tiers[n] /\ removing' \subseteq removing
             /\ UNCHANGED <<step, updates, appliedNeighbors, thisTickNeighbors, calm>>
  BY <1>1, <1>6 DEF Remove, RemoveFails, TypeOK
<1>7. ASSUME NEW lost \in SUBSET Neighbors, BindingsLost(lost)
      PROVE  FALSE
  BY <1>1, <1>7 DEF BindingsLost
<1>8. CASE UNCHANGED vars
  BY <1>1, <1>8 DEF vars, Named
<1>9. QED
  BY <1>1, <1>2, <1>3, <1>4, <1>5, <1>6, <1>7, <1>8 DEF Next, LoopStep, Environment, Named

(* A neighbor whose removal failed, and that no set of the loop has any    *)
(* more, keeps its local-prefs in every later state, although nothing      *)
(* fails again.                                                            *)
THEOREM AbandonedStays == Spec => AbandonedForGood
<1>1. TypeOK /\ VisitsAreNamed /\ [Next]_vars =>
        [\A n \in Neighbors : Abandoned(n) => Abandoned(n)']_vars
  BY AbandonedStep
<1>2. Init => VisitsAreNamed
  BY DEF Init, VisitsAreNamed
<1>3. VisitsAreNamed /\ [Next]_vars => VisitsAreNamed'
  BY VisitsAreNamedNext
<1>4. QED
  BY <1>1, <1>2, <1>3, TypeCorrect, PTL DEF Spec, AbandonedForGood
=============================================================================
