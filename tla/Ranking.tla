------------------------------ MODULE Ranking ------------------------------
(***************************************************************************)
(* Package internal/score as the control loop runs it, for one prefix and  *)
(* one tick after another: FromProbeResult per answered leg, the transit   *)
(* override, CollapseByNeighbor and the loop of RankByTier.                *)
(*                                                                         *)
(* Numbers.  A loss rate is a numerator over LossDen, a confidence a       *)
(* number of fifths, and a cost is in units of 1/LossDen microseconds, so  *)
(* composite() is exact.  An average is an integer division, exact when    *)
(* the inputs are multiples of the number of legs averaged.  The ingress   *)
(* terms are left out: no caller sets them.  Lost stands for               *)
(* lostProbeComposite.                                                     *)
(***************************************************************************)
EXTENDS TierContract, Sequences, FiniteSets, FiniteSetsExt, Functions

CONSTANTS
    Legs,          \* probe legs of the prefix: (neighbor, next hop, interface)
    NeighborOf,    \* leg -> BGP neighbor
    NextHopOf,     \* leg -> NextHopIP, a number
    LossDen,
    Lost,
    ProbeResults,  \* what a burst measures: [rtt, loss, err]
    Transits       \* what an EMA entry carries: [window, loss, err]

ASSUME LegAssumption ==
    /\ LossDen \in Nat \ {0}
    /\ IsFiniteSet(Legs)
    /\ \A l \in Legs : NextHopOf[l] \in Nat \ {0}
    /\ \A r \in ProbeResults :
         /\ r.rtt \in Nat /\ r.loss \in 0 .. LossDen /\ r.err \in Nat
         /\ r.loss < LossDen => r.rtt > 0
    /\ \A e \in Transits : e.window \in Nat \ {0} /\ e.loss \in 0 .. LossDen /\ e.err \in Nat

(* DefaultWeights, of the terms that are ever set.                         *)
EgressRTT == 1
EgressLoss == 500

composite(rtt, loss) == EgressRTT * rtt * LossDen + EgressLoss * loss

ASSUME LostAssumption ==
    /\ Lost \in Nat
    /\ \A r \in ProbeResults : composite(r.rtt, LossDen) < Lost

VARIABLES
    pc,          \* "probe", "override", "rank" or "done"
    todo,        \* legs not probed yet this tick
    cold,        \* coldByPrefix: answered leg -> PathCost, a record of neighbor, nextHop,
                 \* rtt, loss, composite, err (Nat) and conf (0 .. 5)
    ranked,      \* the candidates RankByTier sorted, best first
    tierOf,      \* the tiers assigned so far, by rank
    prevTier     \* the tier of the rank above

rankingVars == <<pc, todo, cold, ranked, tierOf, prevTier>>

----------------------------------------------------------------------------
FromProbeResult(l, r) ==
    LET lost == r.loss >= LossDen
    IN  [neighbor |-> NeighborOf[l], nextHop |-> NextHopOf[l], loss |-> r.loss, conf |-> 0,
         rtt |-> IF lost THEN 0 ELSE r.rtt,
         composite |-> IF lost THEN Lost ELSE composite(r.rtt, r.loss),
         err |-> IF lost THEN 0 ELSE r.err]

(* ConfidenceFromSamples, in fifths.                                       *)
ConfidenceFromSamples(samples) == IF samples < 5 THEN samples ELSE 5

(* Mutation: RecomputeComposite is not called.                             *)
OverrideStale(pc0, e) ==
    [pc0 EXCEPT !.loss = e.loss,
                !.err = e.err,
                !.conf = IF e.loss > 0 \/ e.window >= 5 THEN ConfidenceFromSamples(e.window) ELSE @]

(* Step 5 of the loop for one cold-probe entry: the loss forwarded traffic *)
(* saw replaces the probed one, RecomputeComposite takes over the rest.    *)
Override(pc0, e) ==
    [pc0 EXCEPT !.loss = e.loss,
                !.err = e.err,
                !.conf = IF e.loss > 0 \/ e.window >= 5 THEN ConfidenceFromSamples(e.window) ELSE @,
                !.composite = composite(pc0.rtt, e.loss)]

----------------------------------------------------------------------------
Total(field, legs) == SumFunctionOnSet([l \in legs |-> cold[l][field]], legs)

(* math.Sqrt, rounded down, of a sum of squares of naturals adding up to s *)
Root(sq, s) == CHOOSE r \in 0 .. s : r * r <= sq /\ (r + 1) * (r + 1) > sq

(* Errors add up in quadrature.                                            *)
SumOfErrors(legs) ==
    Root(SumFunctionOnSet([l \in legs |-> cold[l].err * cold[l].err], legs), Total("err", legs))

(* The legs CollapseByNeighbor keeps for nb: those with a confidence, if   *)
(* there is one.                                                           *)
KeptLegs(nb) ==
    LET group == {l \in DOMAIN cold : NeighborOf[l] = nb}
        untainted == {l \in group : cold[l].conf > 0}
    IN  IF untainted # {} THEN untainted ELSE group

Average(nb, legs) ==
    LET n == Cardinality(legs)
        rtt == Total("rtt", legs) \div n
        loss == Total("loss", legs) \div n
    IN  [neighbor |-> nb, nextHop |-> 0, rtt |-> rtt, loss |-> loss,
         composite |-> composite(rtt, loss),
         err |-> SumOfErrors(legs) \div n,
         conf |-> Max({cold[l].conf : l \in legs})]

(* CollapseByNeighbor: one PathCost per neighbor.                          *)
CollapseByNeighbor ==
    { LET legs == KeptLegs(nb)
      IN  IF Cardinality(legs) = 1 THEN cold[CHOOSE l \in legs : TRUE] ELSE Average(nb, legs)
      : nb \in {NeighborOf[l] : l \in DOMAIN cold} }

Less(a, b) ==
    a.composite < b.composite \/ (a.composite = b.composite /\ a.nextHop < b.nextHop)

(* sort.Slice: not stable, so entries that compare equal come in any order. *)
Sorted(cands) ==
    { s \in [1 .. Cardinality(cands) -> cands] :
        /\ \A i, j \in DOMAIN s : s[i] = s[j] => i = j
        /\ \A i, j \in DOMAIN s : i < j => ~ Less(s[j], s[i]) }

AllLost(cands) == \A c \in cands : c.loss >= LossDen /\ c.rtt = 0

compositeIntervalsOverlap(a, b) ==
    /\ a.err > 0 /\ b.err > 0
    /\ a.composite - a.err <= b.composite + b.err
    /\ b.composite - b.err <= a.composite + a.err

Confident(c) == 2 * c.conf >= 5

(* Mutation: the confidence of the second rank is not looked at.           *)
RawTierBestOnly(i) ==
    IF i = 1 /\ Confident(ranked[i]) THEN Top
    ELSE IF i = 2 THEN Mid
    ELSE Default

(* Mutation: the mid tier is given to every confident rank below the best. *)
RawTierManyMid(i) ==
    IF i = 1 /\ Confident(ranked[i]) THEN Top
    ELSE IF Confident(ranked[i]) THEN Mid
    ELSE Default

(* tierByRank before any clamping.                                         *)
RawTier(i) ==
    IF i = 1 /\ Confident(ranked[i]) THEN Top
    ELSE IF i = 2 /\ Confident(ranked[i]) THEN Mid
    ELSE Default

Capped(tier, cap) == IF tier > cap THEN cap ELSE tier

(* Mutation: overlapping candidates get the same tier.                     *)
GatedTierSame(i) ==
    IF i > 1 /\ compositeIntervalsOverlap(ranked[i - 1], ranked[i])
    THEN prevTier
    ELSE RawTier(i)

(* Error-band gating.                                                      *)
GatedTier(i) ==
    IF i > 1 /\ compositeIntervalsOverlap(ranked[i - 1], ranked[i])
    THEN Capped(RawTier(i), prevTier)
    ELSE RawTier(i)

(* Mutation: without the clamp to the tier of the rank above.              *)
UnclampedTier(i) == GatedTier(i)

(* Monotonicity.                                                           *)
AssignedTier(i) == Capped(GatedTier(i), prevTier)

----------------------------------------------------------------------------
RankingInit ==
    /\ pc = "probe"
    /\ todo = Legs
    /\ cold = <<>>
    /\ ranked = <<>> /\ tierOf = <<>> /\ prevTier = Top

(* A leg answers, with any loss, or its burst fails: then it is skipped.   *)
ProbeLeg(l, r) ==
    /\ pc = "probe"
    /\ l \in todo
    /\ todo' = todo \ {l}
    /\ cold' = [m \in DOMAIN cold \cup {l} |-> IF m = l THEN FromProbeResult(l, r) ELSE cold[m]]
    /\ UNCHANGED <<pc, ranked, tierOf, prevTier>>

ProbeError(l) ==
    /\ pc = "probe"
    /\ l \in todo
    /\ todo' = todo \ {l}
    /\ UNCHANGED <<pc, cold, ranked, tierOf, prevTier>>

ProbesDone ==
    /\ pc = "probe"
    /\ todo = {}
    /\ pc' = "override"
    /\ UNCHANGED <<todo, cold, ranked, tierOf, prevTier>>

(* An EMA entry that resolves to next hop nh.  Several may: a gateway      *)
(* resolves to its loopback, and the snapshot is a map.                    *)
TransitOverride(nh, e) ==
    /\ pc = "override"
    /\ \E l \in DOMAIN cold : NextHopOf[l] = nh
    /\ cold' = [l \in DOMAIN cold |-> IF NextHopOf[l] = nh THEN Override(cold[l], e) ELSE cold[l]]
    /\ UNCHANGED <<pc, todo, ranked, tierOf, prevTier>>

(* RankByTier is entered: no candidate, all lost and a sole candidate are  *)
(* settled at once.                                                        *)
StartRanking(order) ==
    /\ pc = "override"
    /\ ranked' = order
    /\ prevTier' = Top
    /\ IF Len(order) <= 1 \/ AllLost(CollapseByNeighbor)
       THEN pc' = "done" /\ tierOf' = [i \in 1 .. Len(order) |-> Default]
       ELSE pc' = "rank" /\ tierOf' = <<>>
    /\ UNCHANGED <<todo, cold>>

(* One iteration of the loop over the sorted candidates.                   *)
RankNext ==
    /\ pc = "rank"
    /\ LET i == Len(tierOf) + 1
       IN  /\ tierOf' = Append(tierOf, AssignedTier(i))
           /\ prevTier' = AssignedTier(i)
           /\ pc' = IF i = Len(ranked) THEN "done" ELSE pc
    /\ UNCHANGED <<todo, cold, ranked>>

NextTick ==
    /\ pc = "done"
    /\ pc' = "probe"
    /\ todo' = Legs
    /\ cold' = <<>>
    /\ ranked' = <<>> /\ tierOf' = <<>> /\ prevTier' = Top

RankingNext ==
    \/ \E l \in Legs : (\E r \in ProbeResults : ProbeLeg(l, r)) \/ ProbeError(l)
    \/ ProbesDone
    \/ \E l \in Legs, e \in Transits : TransitOverride(NextHopOf[l], e)
    \/ \E order \in Sorted(CollapseByNeighbor) : StartRanking(order)
    \/ RankNext
    \/ NextTick

RankingSpec == RankingInit /\ [][RankingNext]_rankingVars
----------------------------------------------------------------------------
(* What the ranking promises, at every iteration of its loop.              *)

(* A worse-ranked candidate never gets a higher local-pref than a          *)
(* better-ranked one, whatever the confidences: BGP would follow it.       *)
TiersMonotone ==
    \A i, j \in DOMAIN tierOf : i < j => tierOf[j] <= tierOf[i]

(* A candidate above the default tier has a leg on which forwarded traffic *)
(* was seen, three segments of it at least: neither its probes nor its     *)
(* rank, nor the confidence of a candidate it was averaged or sorted with, *)
(* promote it.                                                             *)
OnlyTrafficPromotes ==
    \A i \in DOMAIN tierOf : tierOf[i] > Default =>
        \E l \in DOMAIN cold : /\ NeighborOf[l] = ranked[i].neighbor
                               /\ Confident(cold[l])

(* The top tier goes to a candidate no other one is cheaper than: the loss *)
(* it is ranked by is the one its traffic sees wherever there is traffic.  *)
CostOf(nb) ==
    LET legs == KeptLegs(nb)
        n == Cardinality(legs)
        only == cold[CHOOSE l \in legs : TRUE]
    IN  IF n = 1 THEN composite(only.rtt, only.loss)
        ELSE composite(Total("rtt", legs) \div n, Total("loss", legs) \div n)

TopIsCheapest ==
    \A i, j \in DOMAIN tierOf :
        tierOf[i] = Top /\ j # i /\ ranked[j].composite < Lost =>
            ~ (CostOf(ranked[j].neighbor) < CostOf(ranked[i].neighbor))

(* When the loop ends the tiers are an assignment the control loop expects *)
(* for these candidates, one per neighbor.                                 *)
KeepsTierContract ==
    pc = "done" =>
        \E f \in TierAssignments({ranked[i].neighbor : i \in DOMAIN ranked}) :
            \A i \in DOMAIN ranked : f[ranked[i].neighbor] = tierOf[i]

(* The error-band gate changes no tier: what is assigned is the tier of    *)
(* the rank, capped by the one above, with or without overlapping bands.   *)
ErrorBandsDoNotMatter ==
    ranked # <<>> /\ pc = "rank" => AssignedTier(Len(tierOf) + 1) = Capped(RawTier(Len(tierOf) + 1), prevTier)
============================================================================
