------------------------------ MODULE Steering ------------------------------
(***************************************************************************)
(* The loop closed over the network, for one prefix: BGP routes by the     *)
(* local-prefs the daemon sets, the route decides which neighbor the       *)
(* traffic takes, the last refresh of dst_to_nexthop decides to whom it is *)
(* charged, and the evidence charged to a neighbor is what may promote it. *)
(*                                                                         *)
(* A neighbor is a number, reached over one leg with a first hop of its    *)
(* own, and BGP prefers the least one among equal local-prefs; there is no *)
(* multipath.  One tick of the daemon is one step.  Ranking, ControlLoop   *)
(* and TransitWindow have the detail; here the commands to FRR succeed,    *)
(* the RIB is never empty (it has other prefixes), a probe measures a path *)
(* as it is, and a tick of traffic is enough for a confidence.             *)
(***************************************************************************)
EXTENDS TierContract

CONSTANTS
    Neighbors,
    Rtt,               \* neighbor -> RTT of its path, in microseconds
    LossSteps,         \* loss rates are in 1/LossSteps
    MinDwell,          \* --min-dwell, in ticks
    Window,            \* the instant window, in ticks
    RefreshEvery,      \* probe.interval_seconds, in ticks
    None

EgressLoss == 500
Lost == 1000000

ASSUME SteeringAssumption ==
    /\ Neighbors \subseteq Nat
    /\ LossSteps \in Nat \ {0, 1} /\ MinDwell \in Nat
    /\ Window \in Nat \ {0} /\ RefreshEvery \in Nat \ {0}
    /\ Rtt \in [Neighbors -> 1 .. Lost]
    /\ None \notin Neighbors

VARIABLES
    \* the network
    up,           \* neighbors that announce the prefix
    path,         \* neighbor -> "clean", "lossy" or "dead"
    traffic,      \* hosts send to the prefix
    \* FRR
    tiers,        \* neighbor -> local-pref of its path, Default without a route-map
    \* the daemon
    cached,       \* neighbors with a path in the last RIB
    trie,         \* the neighbor dst_to_nexthop charges the prefix to
    refreshIn,    \* ticks until the next refresh
    window,       \* neighbor -> ticks its last charged segment stays in the window
    ema,          \* neighbor -> loss rate of its forwarded traffic
    hold,         \* neighbor -> ticks left of the dwell
    \* history
    chosen,       \* neighbors BGP preferred by itself since the daemon started
    calm          \* the network does not change from here on

netVars == <<up, path, traffic>>
daemonVars == <<tiers, cached, trie, refreshIn, window, ema, hold>>
vars == <<netVars, daemonVars, chosen, calm>>

Losses == 0 .. LossSteps - 1
Qualities == {"clean", "lossy", "dead"}

(* The types; a dwell and a window are never longer than configured.       *)
TypeOK ==
    /\ up \subseteq Neighbors /\ path \in [Neighbors -> Qualities] /\ traffic \in BOOLEAN
    /\ tiers \in [Neighbors -> Tiers]
    /\ cached \subseteq Neighbors /\ trie \in Neighbors \cup {None}
    /\ refreshIn \in 0 .. RefreshEvery - 1
    /\ window \in [Neighbors -> 0 .. Window] /\ ema \in [Neighbors -> Losses]
    /\ hold \in [Neighbors -> 0 .. MinDwell]
    /\ chosen \subseteq Neighbors /\ calm \in BOOLEAN

----------------------------------------------------------------------------
(* BGP's best path: the highest local-pref, then the least neighbor.       *)
Prefers(pref, n, m) == pref[n] > pref[m] \/ (pref[n] = pref[m] /\ n <= m)
Best(pref, ns) == IF ns = {} THEN None ELSE CHOOSE n \in ns : \A m \in ns : Prefers(pref, n, m)

(* What BGP would choose without the daemon.                               *)
OwnChoice(ns) == Best([n \in Neighbors |-> Default], ns)

Route == Best(tiers, up)

----------------------------------------------------------------------------
(* The share of retransmits on a path.  It is not 1 on a dead path either, *)
(* as a segment is sent once before it is sent again.                      *)
LossOf(quality) == IF quality = "clean" THEN 0 ELSE IF quality = "lossy" THEN 1 ELSE LossSteps - 1

(* Mutation: a path without answer keeps the cost of a lost probe.         *)
CostSentinelKept(n, evidence, loss) ==
    IF path[n] = "dead" THEN Lost * LossSteps
    ELSE Rtt[n] * LossSteps + EgressLoss * (IF evidence THEN loss ELSE LossOf(path[n]))

(* FromProbeResult, and the override where there is evidence: the RTT of a *)
(* path without answer is 0, and the composite is computed again from it.  *)
Cost(n, evidence, loss) ==
    IF evidence
    THEN (IF path[n] = "dead" THEN 0 ELSE Rtt[n]) * LossSteps + EgressLoss * loss
    ELSE IF path[n] = "dead" THEN Lost * LossSteps
    ELSE Rtt[n] * LossSteps + EgressLoss * LossOf(path[n])

(* Mutation: the best candidate needs no confidence.                       *)
RankedByCost(cands, cost, evidence) ==
    LET first(n) == \A m \in cands \ {n} : cost[n] < cost[m] \/ (cost[n] = cost[m] /\ n < m)
    IN  [n \in cands |-> IF cands # {n} /\ first(n) THEN Top ELSE Default]

(* RankByTier: only a best candidate with a confidence gets the top tier,  *)
(* and only below it the second gets the mid tier.                         *)
Ranked(cands, cost, evidence) ==
    LET before(m, n) == cost[m] < cost[n] \/ (cost[m] = cost[n] /\ m < n)
        first(n) == \A m \in cands \ {n} : before(n, m)
        second(n) == \E m \in cands \ {n} : first(m) /\ evidence[m] /\ \A l \in cands \ {m, n} : before(n, l)
    IN  [n \in cands |->
            IF cands # {n} /\ evidence[n] /\ first(n) THEN Top
            ELSE IF evidence[n] /\ second(n) THEN Mid
            ELSE Default]

(* Mutation: ticks are counted below zero.                                 *)
ElapsedUnfloored(ticks) == ticks - 1

Elapsed(ticks) == IF ticks = 0 THEN 0 ELSE ticks - 1

(* The EMA comes closer to the loss the traffic sees, by how much is a     *)
(* matter of its half-life.                                                *)
Towards(old, new) ==
    {l \in Losses : IF old < new THEN old < l /\ l <= new ELSE new <= l /\ (l < old \/ l = new)}

----------------------------------------------------------------------------
Init ==
    /\ up \in SUBSET Neighbors
    /\ path \in [Neighbors -> Qualities]
    /\ traffic \in BOOLEAN
    /\ tiers = [n \in Neighbors |-> Default]
    /\ cached = {} /\ trie = None /\ refreshIn = 0
    /\ window = [n \in Neighbors |-> 0] /\ ema = [n \in Neighbors |-> 0]
    /\ hold = [n \in Neighbors |-> 0]
    /\ chosen = {OwnChoice(up)} \ {None}
    /\ calm = FALSE

(* The traffic since the last tick is counted for the neighbor the trie    *)
(* named, with the loss of the route it took.                              *)
Charged == IF traffic /\ Route # None THEN trie ELSE None

Measure(loss) ==
    /\ IF Charged = None THEN ema' = ema
       ELSE loss \in Towards(ema[Charged], LossOf(path[Route])) /\ ema' = [ema EXCEPT ![Charged] = loss]
    /\ window' = [n \in Neighbors |-> IF n = Charged THEN Window ELSE Elapsed(window[n])]

(* Mutation: dst_to_nexthop is populated once.                             *)
PopulatedOnce == IF trie = None THEN Route ELSE trie

(* The entry of the prefix is overwritten, if the kernel has a route.      *)
Populated == IF Route = None THEN trie ELSE Route

(* The refresh is the first thing in a tick that is due.                   *)
Refresh ==
    IF refreshIn = 0
    THEN refreshIn' = RefreshEvery - 1 /\ cached' = up /\ trie' = Populated
    ELSE refreshIn' = refreshIn - 1 /\ UNCHANGED <<cached, trie>>

(* A neighbor with an update is set unless it is held; one without is      *)
(* torn down.                                                              *)
Actuate ==
    LET evidence == [n \in Neighbors |-> window'[n] > 0]
        cost == [n \in Neighbors |-> Cost(n, evidence[n], ema'[n])]
        ranked == Ranked(cached', cost, evidence)
        free == {n \in cached' : Elapsed(hold[n]) = 0}
    IN  /\ tiers' = [n \in Neighbors |->
                        IF n \notin cached' THEN Default ELSE IF n \in free THEN ranked[n] ELSE tiers[n]]
        /\ hold' = [n \in Neighbors |-> IF n \in free THEN MinDwell ELSE Elapsed(hold[n])]

Tick(loss) ==
    /\ Refresh
    /\ Measure(loss)
    /\ Actuate
    /\ UNCHANGED <<netVars, chosen, calm>>

NetworkChanges ==
    /\ ~ calm
    /\ UNCHANGED <<daemonVars, calm>>

Flap(ns) ==
    /\ NetworkChanges
    /\ up' = ns
    /\ chosen' = chosen \cup ({OwnChoice(ns)} \ {None})
    /\ UNCHANGED <<path, traffic>>

Turns(n, quality) ==
    /\ NetworkChanges
    /\ path' = [path EXCEPT ![n] = quality]
    /\ UNCHANGED <<up, traffic, chosen>>

TrafficChanges ==
    /\ NetworkChanges
    /\ traffic' = ~ traffic
    /\ UNCHANGED <<up, path, chosen>>

(* The daemon dies; the next process removes its route-maps and loads its  *)
(* maps afresh.                                                            *)
DaemonRestart ==
    /\ ~ calm
    /\ tiers' = [n \in Neighbors |-> Default]
    /\ cached' = {} /\ trie' = None /\ refreshIn' = 0
    /\ window' = [n \in Neighbors |-> 0] /\ ema' = [n \in Neighbors |-> 0]
    /\ hold' = [n \in Neighbors |-> 0]
    /\ chosen' = {OwnChoice(up)} \ {None}
    /\ UNCHANGED <<netVars, calm>>

Settle ==
    /\ ~ calm
    /\ calm' = TRUE
    /\ UNCHANGED <<netVars, daemonVars, chosen>>

Next ==
    \/ \E loss \in Losses : Tick(loss)
    \/ \E ns \in SUBSET Neighbors : Flap(ns)
    \/ \E n \in Neighbors, quality \in Qualities : Turns(n, quality)
    \/ TrafficChanges
    \/ DaemonRestart
    \/ Settle

Spec == Init /\ [][Next]_vars
FairSpec == Spec /\ WF_vars(\E loss \in Losses : Tick(loss))
----------------------------------------------------------------------------
(* Traffic only ever takes a neighbor that BGP preferred by itself at some *)
(* time since the daemon started, whatever the losses: as long as BGP does *)
(* not change its own choice, no path is so bad that traffic leaves it.    *)
FollowsBGP == Route # None => Route \in chosen

(* A promoted neighbor whose path dies while its session stays up is not   *)
(* left for a live one slower than the loss term: the retransmits are the  *)
(* evidence that keeps its top tier.                                       *)
DeadStaysOn ==
    [][\A n \in Neighbors :
         /\ Route = n /\ trie = n /\ tiers[n] = Top /\ traffic /\ path[n] = "dead"
         /\ cached' = up /\ up # {n}
         /\ \A m \in up \ {n} : path[m] # "dead" /\ Rtt[m] > EgressLoss
         => tiers'[n] = Top]_vars

(* When the network is stable the traffic comes to rest, in spite of       *)
(* dwell, late refreshes and evidence charged to the wrong neighbor: on    *)
(* the neighbor BGP prefers by itself, or on one measured no worse than    *)
(* any other.                                                              *)
NoneCheaper(n) ==
    \A m \in up : Cost(n, window[n] > 0, ema[n]) <= Cost(m, window[m] > 0, ema[m])

ComesToRest ==
    calm ~> \E n \in Neighbors \cup {None} : [](Route = n /\ (n = OwnChoice(up) \/ NoneCheaper(n)))
=============================================================================
