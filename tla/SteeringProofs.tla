--------------------------- MODULE SteeringProofs ---------------------------
(***************************************************************************)
(* Proofs about the closed loop: whatever the number of neighbors, their   *)
(* RTTs, the dwell, the window and the interval of the refresh, traffic    *)
(* only takes neighbors BGP preferred by itself.                           *)
(***************************************************************************)
EXTENDS Steering, TLAPS, WellFoundedInduction

(* A set of natural numbers has a least element.                           *)
LEMMA LeastExists ==
    ASSUME NEW S \in SUBSET Nat, S # {}
    PROVE  \E x \in S : \A y \in S : x <= y
<1>1. PICK x \in S : \A y \in S : ~ (<<y, x>> \in OpToRel(<, Nat))
  BY NatLessThanWellFounded, WFMin
<1>2. \A y \in S : ~ (y < x)
  BY <1>1 DEF OpToRel
<1>3. QED
  BY <1>2

----------------------------------------------------------------------------
(* BGP's choice.                                                           *)

(* Neighbors of one local-pref have a least one among them.                *)
LEMMA LeastOfTier ==
    ASSUME NEW pref \in [Neighbors -> Tiers], NEW ns \in SUBSET Neighbors,
           NEW t \in Tiers, \E n \in ns : pref[n] = t
    PROVE  \E n \in ns : pref[n] = t /\ \A m \in ns : pref[m] = t => n <= m
<1> DEFINE S == {n \in ns : pref[n] = t}
<1>1. S \in SUBSET Nat /\ S # {}
  BY SteeringAssumption
<1>2. PICK n \in S : \A m \in S : n <= m
  BY <1>1, LeastExists
<1>3. QED
  BY <1>2

(* BGP has a best path as long as there is one.                            *)
LEMMA BestExists ==
    ASSUME NEW pref \in [Neighbors -> Tiers], NEW ns \in SUBSET Neighbors, ns # {}
    PROVE  Best(pref, ns) \in ns /\ \A m \in ns : Prefers(pref, Best(pref, ns), m)
<1>1. PICK t \in Tiers : (\E n \in ns : pref[n] = t) /\ \A m \in ns : pref[m] <= t
  <2>1. \A m \in ns : pref[m] \in Tiers
    OBVIOUS
  <2>2. CASE \E n \in ns : pref[n] = Top
    BY <2>1, <2>2, TierOrder DEF Tiers
  <2>3. CASE (\A n \in ns : pref[n] # Top) /\ \E n \in ns : pref[n] = Mid
    BY <2>1, <2>3, TierOrder DEF Tiers
  <2>4. CASE \A n \in ns : pref[n] # Top /\ pref[n] # Mid
    BY <2>1, <2>4, TierOrder DEF Tiers
  <2>5. QED
    BY <2>2, <2>3, <2>4
<1>2. PICK n \in ns : pref[n] = t /\ \A m \in ns : pref[m] = t => n <= m
  BY <1>1, LeastOfTier
<1>3. \A m \in ns : Prefers(pref, n, m)
  <2> SUFFICES ASSUME NEW m \in ns
               PROVE  pref[n] > pref[m] \/ (pref[n] = pref[m] /\ n <= m)
    BY DEF Prefers
  <2>1. t \in Int /\ pref[m] \in Int /\ pref[m] <= t
    BY <1>1, TierOrder DEF Tiers
  <2>2. CASE pref[m] = t
    BY <1>2, <2>2
  <2>3. CASE pref[m] # t
    BY <1>2, <2>1, <2>3
  <2>4. QED
    BY <2>2, <2>3
<1>4. QED
  BY <1>3 DEF Best

(* If some neighbor announces the prefix, BGP has a choice of its own.     *)
LEMMA OwnChoiceExists ==
    ASSUME NEW ns \in SUBSET Neighbors, ns # {}
    PROVE  OwnChoice(ns) \in ns /\ \A m \in ns : OwnChoice(ns) <= m
<1> DEFINE plain == [n \in Neighbors |-> Default]
<1>1. plain \in [Neighbors -> Tiers] /\ Default \in Int
  BY TierOrder DEF Tiers
<1>2. OwnChoice(ns) \in ns /\ \A m \in ns : Prefers(plain, OwnChoice(ns), m)
  BY <1>1, BestExists DEF OwnChoice
<1>3. \A m \in ns : plain[m] = Default
  OBVIOUS
<1>4. QED
  BY <1>1, <1>2, <1>3 DEF Prefers

(* A route over a neighbor at the default tier is the one BGP would choose *)
(* without the daemon.                                                     *)
LEMMA DefaultRouteIsOwnChoice ==
    ASSUME TypeOK, Route # None, tiers[Route] = Default
    PROVE  up # {} /\ Route = OwnChoice(up)
<1>1. up # {} /\ up \subseteq Neighbors /\ tiers \in [Neighbors -> Tiers]
  BY DEF Route, Best, TypeOK
<1>2. Route \in up /\ \A m \in up : Prefers(tiers, Route, m)
  BY <1>1, BestExists DEF Route
<1>3. \A m \in up : tiers[m] \in Int /\ tiers[m] >= Default
  BY <1>1, TierOrder DEF Tiers
<1>4. \A m \in up : Route <= m
  BY <1>2, <1>3, TierOrder DEF Prefers
<1>5. OwnChoice(up) \in up /\ \A m \in up : OwnChoice(up) <= m
  BY <1>1, OwnChoiceExists
<1>6. Route \in Nat /\ OwnChoice(up) \in Nat
  BY <1>1, <1>2, <1>5, SteeringAssumption
<1>7. Route <= OwnChoice(up) /\ OwnChoice(up) <= Route
  BY <1>2, <1>4, <1>5
<1>8. QED
  BY <1>1, <1>6, <1>7

----------------------------------------------------------------------------
(* The inductive invariant.  Evidence is charged to the neighbor the trie  *)
(* names, the trie takes it from the route, and a tier above the default   *)
(* takes evidence: so all three stay within the neighbors BGP chose.       *)
TrieChosen == trie # None => trie \in chosen
EvidenceChosen == \A n \in Neighbors : window[n] > 0 => n \in chosen
PromotedChosen == \A n \in Neighbors : tiers[n] # Default => n \in chosen
OwnChoiceChosen == OwnChoice(up) # None => OwnChoice(up) \in chosen

FollowInv == TypeOK /\ TrieChosen /\ EvidenceChosen /\ PromotedChosen /\ OwnChoiceChosen

(* The invariant gives the property.                                       *)
LEMMA FollowInvFollows == FollowInv => FollowsBGP
<1> SUFFICES ASSUME FollowInv, Route # None
             PROVE  Route \in chosen
  BY DEF FollowsBGP
<1>1. TypeOK /\ up \subseteq Neighbors
  BY DEF FollowInv, TypeOK
<1>2. CASE tiers[Route] = Default
  <2>1. up # {} /\ Route = OwnChoice(up)
    BY <1>1, <1>2, DefaultRouteIsOwnChoice
  <2>2. QED
    BY <2>1 DEF FollowInv, OwnChoiceChosen
<1>3. CASE tiers[Route] # Default
  <2>1. up # {}
    BY DEF Route, Best
  <2>2. Route \in Neighbors
    BY <1>1, <2>1, BestExists DEF Route, TypeOK
  <2>3. QED
    BY <1>3, <2>2 DEF FollowInv, PromotedChosen
<1>4. QED
  BY <1>2, <1>3

(* The route is a neighbor.                                                *)
LEMMA RouteType == TypeOK => Route \in Neighbors \cup {None}
<1> SUFFICES ASSUME TypeOK, up # {}
             PROVE  Route \in Neighbors
  BY DEF Route, Best
<1>1. QED
  BY BestExists DEF Route, TypeOK

(* BGP's own choice announces the prefix.                                  *)
LEMMA OwnChoiceType ==
    ASSUME NEW ns \in SUBSET Neighbors
    PROVE  OwnChoice(ns) \in Neighbors \cup {None}
<1>1. CASE ns = {}
  BY <1>1 DEF OwnChoice, Best
<1>2. CASE ns # {}
  BY <1>2, OwnChoiceExists
<1>3. QED
  BY <1>1, <1>2

----------------------------------------------------------------------------
(* It holds at the start of a process.                                     *)
LEMMA FollowInvInit == Init => FollowInv
<1> SUFFICES ASSUME Init
             PROVE  FollowInv
  OBVIOUS
<1>1. OwnChoice(up) \in Neighbors \cup {None}
  BY OwnChoiceType DEF Init
<1>2. 0 \in 0 .. RefreshEvery - 1 /\ 0 \in 0 .. Window /\ 0 \in 0 .. MinDwell /\ 0 \in Losses
  BY SteeringAssumption DEF Losses
<1>3. Default \in Tiers
  BY DEF Tiers
<1>4. TypeOK
  BY <1>1, <1>2, <1>3 DEF Init, TypeOK
<1>5. TrieChosen /\ EvidenceChosen /\ PromotedChosen /\ OwnChoiceChosen
  BY DEF Init, TrieChosen, EvidenceChosen, PromotedChosen, OwnChoiceChosen
<1>6. QED
  BY <1>4, <1>5 DEF FollowInv

(* A tick: the ranking promotes nobody without evidence.                   *)
LEMMA RankedIsTier ==
    ASSUME NEW cands, NEW cost, NEW evidence, NEW n \in cands
    PROVE  /\ Ranked(cands, cost, evidence)[n] \in Tiers
           /\ Ranked(cands, cost, evidence)[n] # Default => evidence[n]
  BY DEF Ranked, Tiers

(* A count of ticks stays within its bound when a tick passes.             *)
LEMMA ElapsedType ==
    ASSUME NEW b \in Nat, NEW t \in 0 .. b
    PROVE  Elapsed(t) \in 0 .. b /\ (Elapsed(t) > 0 => t > 0)
  BY DEF Elapsed

(* What the refresh of a tick leaves in trie and cache.                    *)
LEMMA TickRefresh ==
    ASSUME FollowInv, Refresh
    PROVE  /\ refreshIn' \in 0 .. RefreshEvery - 1 /\ cached' \subseteq Neighbors
           /\ trie' \in Neighbors \cup {None}
           /\ trie' # None => trie' \in chosen
<1>1. TypeOK /\ FollowsBGP /\ TrieChosen /\ Route \in Neighbors \cup {None}
  BY FollowInvFollows, RouteType DEF FollowInv
<1>2. refreshIn' \in 0 .. RefreshEvery - 1
  BY <1>1, SteeringAssumption DEF Refresh, TypeOK
<1>3. cached' \subseteq Neighbors /\ trie' \in Neighbors \cup {None}
  BY <1>1 DEF Refresh, Populated, TypeOK
<1>4. trie' # None => trie' \in chosen
  BY <1>1 DEF Refresh, Populated, FollowsBGP, TrieChosen
<1>5. QED
  BY <1>2, <1>3, <1>4

(* Evidence is only ever charged to neighbors BGP has chosen by itself.    *)
LEMMA TickMeasure ==
    ASSUME FollowInv, NEW loss \in Losses, Measure(loss)
    PROVE  /\ window' \in [Neighbors -> 0 .. Window] /\ ema' \in [Neighbors -> Losses]
           /\ \A n \in Neighbors : window'[n] > 0 => n \in chosen
<1>1. TypeOK /\ TrieChosen /\ EvidenceChosen
  BY DEF FollowInv
<1>2. window \in [Neighbors -> 0 .. Window] /\ ema \in [Neighbors -> Losses] /\ Window \in Nat
  BY <1>1, SteeringAssumption DEF TypeOK
<1>3. window' = [n \in Neighbors |-> IF n = Charged THEN Window ELSE Elapsed(window[n])]
  BY DEF Measure
<1>4. \A n \in Neighbors : Elapsed(window[n]) \in 0 .. Window /\ (Elapsed(window[n]) > 0 => window[n] > 0)
  BY <1>2, ElapsedType
<1>5. window' \in [Neighbors -> 0 .. Window]
  BY <1>2, <1>3, <1>4
<1>6. ema' \in [Neighbors -> Losses]
  BY <1>2 DEF Measure
<1>7. ASSUME NEW n \in Neighbors, window'[n] > 0
      PROVE  n \in chosen
  <2>1. CASE n = Charged
    BY <1>1, <2>1, SteeringAssumption DEF Charged, TrieChosen
  <2>2. CASE n # Charged
    BY <1>1, <1>3, <1>4, <1>7, <2>2 DEF EvidenceChosen
  <2>3. QED
    BY <2>1, <2>2
<1>8. QED
  BY <1>5, <1>6, <1>7

(* A tick promotes only neighbors with evidence.                           *)
LEMMA TickActuate ==
    ASSUME FollowInv, Actuate, cached' \subseteq Neighbors,
           \A n \in Neighbors : window'[n] > 0 => n \in chosen
    PROVE  /\ tiers' \in [Neighbors -> Tiers] /\ hold' \in [Neighbors -> 0 .. MinDwell]
           /\ \A n \in Neighbors : tiers'[n] # Default => n \in chosen
<1> DEFINE evidence == [n \in Neighbors |-> window'[n] > 0]
           cost == [n \in Neighbors |-> Cost(n, evidence[n], ema'[n])]
           ranked == Ranked(cached', cost, evidence)
           free == {n \in cached' : Elapsed(hold[n]) = 0}
           tier(n) == IF n \notin cached' THEN Default ELSE IF n \in free THEN ranked[n] ELSE tiers[n]
<1>1. /\ tiers' = [n \in Neighbors |-> tier(n)]
      /\ hold' = [n \in Neighbors |-> IF n \in free THEN MinDwell ELSE Elapsed(hold[n])]
  BY DEF Actuate
<1>2. /\ tiers \in [Neighbors -> Tiers] /\ hold \in [Neighbors -> 0 .. MinDwell]
      /\ MinDwell \in Nat /\ Default \in Tiers
  BY SteeringAssumption DEF FollowInv, TypeOK, Tiers
<1>3. \A n \in cached' : ranked[n] \in Tiers /\ (ranked[n] # Default => evidence[n])
  BY RankedIsTier
<1>4. \A n \in Neighbors : evidence[n] => n \in chosen
  OBVIOUS
<1> HIDE DEF evidence, cost, ranked
<1>5. \A n \in Neighbors : tier(n) \in Tiers /\ (tier(n) # Default => n \in chosen)
  BY <1>2, <1>3, <1>4 DEF FollowInv, PromotedChosen
<1>6. \A n \in Neighbors : Elapsed(hold[n]) \in 0 .. MinDwell
  BY <1>2, ElapsedType
<1>7. hold' \in [Neighbors -> 0 .. MinDwell]
  BY <1>1, <1>2, <1>6
<1> HIDE DEF free, tier
<1>8. QED
  BY <1>1, <1>5, <1>7

(* A tick of the daemon keeps the invariant.                               *)
LEMMA FollowInvTick == ASSUME NEW loss \in Losses PROVE FollowInv /\ Tick(loss) => FollowInv'
<1> SUFFICES ASSUME FollowInv, Tick(loss)
             PROVE  FollowInv'
  OBVIOUS
<1>1. Refresh /\ Measure(loss) /\ Actuate /\ UNCHANGED <<netVars, chosen, calm>>
  BY DEF Tick
<1>2. /\ refreshIn' \in 0 .. RefreshEvery - 1 /\ cached' \subseteq Neighbors
      /\ trie' \in Neighbors \cup {None}
      /\ trie' # None => trie' \in chosen
  BY <1>1, TickRefresh
<1>3. /\ window' \in [Neighbors -> 0 .. Window] /\ ema' \in [Neighbors -> Losses]
      /\ \A n \in Neighbors : window'[n] > 0 => n \in chosen
  BY <1>1, TickMeasure
<1>4. /\ tiers' \in [Neighbors -> Tiers] /\ hold' \in [Neighbors -> 0 .. MinDwell]
      /\ \A n \in Neighbors : tiers'[n] # Default => n \in chosen
  BY <1>1, <1>2, <1>3, TickActuate
<1>5. TypeOK'
  BY <1>1, <1>2, <1>3, <1>4 DEF FollowInv, TypeOK, netVars
<1>6. TrieChosen' /\ EvidenceChosen' /\ PromotedChosen'
  BY <1>1, <1>2, <1>3, <1>4 DEF TrieChosen, EvidenceChosen, PromotedChosen
<1>7. OwnChoiceChosen'
  <2>1. OwnChoice(up)' = OwnChoice(up)
    BY <1>1 DEF netVars, OwnChoice, Best, Prefers
  <2>2. QED
    BY <1>1, <2>1 DEF FollowInv, OwnChoiceChosen
<1>8. QED
  BY <1>5, <1>6, <1>7 DEF FollowInv

(* The network changes: what BGP chooses by itself is recorded.            *)
LEMMA FollowInvNetwork ==
    ASSUME FollowInv, daemonVars' = daemonVars, chosen \subseteq chosen',
           chosen' \subseteq chosen \cup ({OwnChoice(up')} \ {None}), OwnChoice(up') \in chosen' \cup {None},
           up' \subseteq Neighbors, path' \in [Neighbors -> Qualities],
           traffic' \in BOOLEAN, calm' \in BOOLEAN
    PROVE  FollowInv'
<1>1. OwnChoice(up') \in Neighbors \cup {None} /\ OwnChoice(up)' = OwnChoice(up')
  BY OwnChoiceType DEF OwnChoice, Best, Prefers
<1>2. TypeOK'
  BY <1>1 DEF FollowInv, TypeOK, daemonVars
<1>3. TrieChosen' /\ EvidenceChosen' /\ PromotedChosen'
  BY DEF FollowInv, TrieChosen, EvidenceChosen, PromotedChosen, daemonVars
<1>4. OwnChoiceChosen'
  BY <1>1 DEF OwnChoiceChosen
<1>5. QED
  BY <1>2, <1>3, <1>4 DEF FollowInv

(* Every step keeps it.                                                    *)
LEMMA FollowInvNext == FollowInv /\ [Next]_vars => FollowInv'
<1> SUFFICES ASSUME FollowInv, [Next]_vars
             PROVE  FollowInv'
  OBVIOUS
<1>1. TypeOK /\ OwnChoice(up) \in chosen \cup {None}
  BY DEF FollowInv, OwnChoiceChosen
<1>2. ASSUME NEW loss \in Losses, Tick(loss)
      PROVE  FollowInv'
  BY <1>2, FollowInvTick
<1>3. ASSUME NEW ns \in SUBSET Neighbors, Flap(ns)
      PROVE  FollowInv'
  BY <1>1, <1>3, FollowInvNetwork DEF Flap, NetworkChanges, TypeOK
<1>4. ASSUME NEW n \in Neighbors, NEW quality \in Qualities, Turns(n, quality)
      PROVE  FollowInv'
  BY <1>1, <1>4, FollowInvNetwork DEF Turns, NetworkChanges, TypeOK
<1>5. CASE TrafficChanges
  BY <1>1, <1>5, FollowInvNetwork DEF TrafficChanges, NetworkChanges, TypeOK
<1>6. CASE DaemonRestart
  <2>1. OwnChoice(up)' = OwnChoice(up) /\ OwnChoice(up) \in Neighbors \cup {None}
    BY <1>1, <1>6, OwnChoiceType DEF DaemonRestart, netVars, OwnChoice, Best, Prefers, TypeOK
  <2>2. 0 \in 0 .. RefreshEvery - 1 /\ 0 \in 0 .. Window /\ 0 \in 0 .. MinDwell /\ 0 \in Losses
    BY SteeringAssumption DEF Losses
  <2>3. Default \in Tiers
    BY DEF Tiers
  <2>4. TypeOK'
    BY <1>1, <1>6, <2>1, <2>2, <2>3 DEF DaemonRestart, TypeOK, netVars
  <2>5. TrieChosen' /\ EvidenceChosen' /\ PromotedChosen' /\ OwnChoiceChosen'
    BY <1>6, <2>1 DEF DaemonRestart, TrieChosen, EvidenceChosen, PromotedChosen, OwnChoiceChosen
  <2>6. QED
    BY <2>4, <2>5 DEF FollowInv
<1>7. CASE Settle
  BY <1>1, <1>7, FollowInvNetwork DEF Settle, netVars, TypeOK
<1>8. CASE UNCHANGED vars
  BY <1>1, <1>8, FollowInvNetwork DEF vars, netVars, TypeOK
<1>9. QED
  BY <1>2, <1>3, <1>4, <1>5, <1>6, <1>7, <1>8 DEF Next

(* The invariant holds in every reachable state: trie, evidence and        *)
(* promotions name only neighbors BGP has chosen by itself.                *)
THEOREM FollowInvariant == Spec => []FollowInv
<1>1. QED
  BY FollowInvInit, FollowInvNext, PTL DEF Spec

----------------------------------------------------------------------------
(* The types, with a dwell and a window never longer than configured, hold *)
(* for any number of neighbors.                                            *)
THEOREM SteeringTypes == Spec => []TypeOK
<1>1. FollowInv => TypeOK
  BY DEF FollowInv
<1>2. QED
  BY <1>1, FollowInvariant, PTL

(* Whatever is measured, promoted and restarted, no traffic takes a        *)
(* neighbor BGP has not preferred by itself since the daemon started: the  *)
(* control loop prolongs BGP's choices and makes none of its own.          *)
THEOREM SteeringFollowsBGP == Spec => []FollowsBGP
<1>1. QED
  BY FollowInvFollows, FollowInvariant, PTL

----------------------------------------------------------------------------
(* A path without answer is cheap once its traffic is the evidence.        *)

(* What is lost of the forwarded traffic costs less than the whole loss    *)
(* term, what a live path costs is its RTT at least.                       *)
LEMMA DeadIsCheap ==
    ASSUME NEW n \in Neighbors, NEW m \in Neighbors, NEW loss \in Losses,
           NEW evidence \in BOOLEAN, NEW other \in Losses,
           path[n] = "dead", path[m] # "dead", Rtt[m] > EgressLoss
    PROVE  Cost(n, TRUE, loss) < Cost(m, evidence, other)
<1>. DEFINE r == Rtt[m]
            k == IF evidence THEN other ELSE LossOf(path[m])
            s == LossSteps
<1>1. r \in Nat /\ r > 500 /\ s \in Nat /\ s > 1 /\ loss \in 0 .. s - 1 /\ other \in 0 .. s - 1
  <2>1. Rtt[m] \in 1 .. Lost
    BY SteeringAssumption, SMT
  <2>2. Lost \in Int
    BY SMT DEF Lost
  <2>3. Rtt[m] \in Nat
    BY <2>1, <2>2, SMT
  <2>. QED  BY <2>3, SteeringAssumption, SMT DEF EgressLoss, Losses
<1>2. k \in Nat
  BY <1>1 DEF LossOf
<1>3. Cost(n, TRUE, loss) = 500 * loss
  BY <1>1, SMT DEF Cost, EgressLoss, Losses
<1>4. Cost(m, evidence, other) = r * s + 500 * k
  BY DEF Cost, EgressLoss
<1>. HIDE DEF r, k, s
<1>5. r * s \in Nat /\ 500 * s <= r * s
  BY <1>1, SMT
<1>. DEFINE rs == r * s
<1>6. rs \in Nat /\ 500 * s <= rs /\ Cost(m, evidence, other) = rs + 500 * k
  BY <1>4, <1>5
<1>. HIDE DEF rs
<1>7. 500 * loss < rs + 500 * k
  BY <1>1, <1>2, <1>6, SMT
<1>. QED  BY <1>3, <1>6, <1>7

(* A candidate with evidence that is cheaper than all the others gets the  *)
(* top tier.                                                               *)
LEMMA CheapestIsTop ==
    ASSUME NEW cands, cands # {}, NEW cost, NEW evidence, NEW n \in cands, cands # {n}, evidence[n],
           \A m \in cands \ {n} : cost[n] < cost[m]
    PROVE  Ranked(cands, cost, evidence)[n] = Top
BY DEF Ranked

(* The EMA of the neighbor that is charged is a loss rate.                 *)
LEMMA ChargedTick ==
    ASSUME TypeOK, NEW loss \in Losses, Measure(loss), NEW n \in Neighbors, Charged = n
    PROVE  /\ window'[n] > 0 /\ ema'[n] \in Losses
           /\ ema' \in [Neighbors -> Losses] /\ window' \in [Neighbors -> 0 .. Window]
<1>1. n # None /\ window \in [Neighbors -> 0 .. Window] /\ ema \in [Neighbors -> Losses] /\ Window \in Nat \ {0}
  BY SteeringAssumption DEF TypeOK
<1>2. window' = [m \in Neighbors |-> IF m = Charged THEN Window ELSE Elapsed(window[m])]
  BY DEF Measure
<1>3. \A m \in Neighbors : Elapsed(window[m]) \in 0 .. Window
  BY <1>1, ElapsedType
<1>4. window' \in [Neighbors -> 0 .. Window] /\ window'[n] > 0
  BY <1>1, <1>2, <1>3
<1>5. ema' \in [Neighbors -> Losses]
  BY <1>1 DEF Measure
<1>. QED  BY <1>4, <1>5

(* The retransmits of a path that died, counted as evidence, keep its top  *)
(* tier (FromProbeResult, RecomputeComposite, RankByTier): for any number  *)
(* of neighbors, all slower than the loss term.                            *)
THEOREM DeadStaysOnAlways == Spec => DeadStaysOn
<1>. DEFINE Stays(n) ==
         /\ Route = n /\ trie = n /\ tiers[n] = Top /\ traffic /\ path[n] = "dead"
         /\ cached' = up /\ up # {n}
         /\ \A m \in up \ {n} : path[m] # "dead" /\ Rtt[m] > EgressLoss
         => tiers'[n] = Top
<1>1. TypeOK /\ [Next]_vars => [\A n \in Neighbors : Stays(n)]_vars
  <2>. SUFFICES ASSUME TypeOK, Next, NEW n \in Neighbors,
                       Route = n, trie = n, tiers[n] = Top, traffic, path[n] = "dead",
                       cached' = up, up # {n},
                       \A m \in up \ {n} : path[m] # "dead" /\ Rtt[m] > EgressLoss
                PROVE  tiers'[n] = Top
    OBVIOUS
  <2>1. n # None /\ up \subseteq Neighbors /\ up # {} /\ n \in up
    <3>1. n # None
      BY SteeringAssumption
    <3>2. up # {} /\ up \subseteq Neighbors
      BY <3>1 DEF Route, Best, TypeOK
    <3>. QED  BY <3>1, <3>2, BestExists DEF Route, TypeOK
  <2>2. CASE UNCHANGED tiers
    BY <2>2
  <2>3. ~ DaemonRestart
    BY <2>1 DEF DaemonRestart
  <2>4. ASSUME NEW loss \in Losses, Tick(loss)
        PROVE  tiers'[n] = Top
    <3>. DEFINE evidence == [m \in Neighbors |-> window'[m] > 0]
                cost == [m \in Neighbors |-> Cost(m, evidence[m], ema'[m])]
                ranked == Ranked(cached', cost, evidence)
                free == {m \in cached' : Elapsed(hold[m]) = 0}
    <3>1. Measure(loss) /\ Actuate /\ Charged = n
      BY <2>1, <2>4 DEF Tick, Charged
    <3>2. tiers' = [m \in Neighbors |->
                      IF m \notin cached' THEN Default ELSE IF m \in free THEN ranked[m] ELSE tiers[m]]
      BY <3>1 DEF Actuate
    <3>3. window'[n] > 0 /\ ema' \in [Neighbors -> Losses]
      BY <3>1, ChargedTick
    <3>4. ASSUME NEW m \in up \ {n} PROVE cost[n] < cost[m]
      <4>1. m \in Neighbors /\ ema'[n] \in Losses /\ ema'[m] \in Losses /\ (window'[m] > 0) \in BOOLEAN
        BY <2>1, <3>3
      <4>2. Cost(n, TRUE, ema'[n]) < Cost(m, window'[m] > 0, ema'[m])
        BY <4>1, DeadIsCheap
      <4>3. cost[n] = Cost(n, window'[n] > 0, ema'[n]) /\ cost[m] = Cost(m, window'[m] > 0, ema'[m])
        BY <4>1
      <4>4. (window'[n] > 0) = TRUE
        BY <3>3
      <4>. QED  BY <4>2, <4>3, <4>4
    <3>5. evidence[n]
      BY <3>3
    <3>. HIDE DEF evidence, cost
    <3>6. ranked[n] = Top
      BY <2>1, <3>4, <3>5, CheapestIsTop
    <3>. HIDE DEF ranked
    <3>. QED  BY <2>1, <3>2, <3>6
  <2>. QED  BY <2>2, <2>3, <2>4 DEF Next, Flap, Turns, TrafficChanges, NetworkChanges, Settle, daemonVars
<1>. QED  BY <1>1, SteeringTypes, PTL DEF Spec, DeadStaysOn
=============================================================================
