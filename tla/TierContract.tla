---------------------------- MODULE TierContract ----------------------------
(***************************************************************************)
(* The tiers of cfg.Tiers, and what the ranking of one prefix promises the *)
(* control loop about them.  Ranking.tla shows that RankByTier keeps the   *)
(* promise; ControlLoop.tla relies on it.                                  *)
(***************************************************************************)
EXTENDS Integers

CONSTANTS Top, Mid, Default     \* cfg.Tiers: Local, Dedicated, Default

ASSUME TierOrder ==
    /\ Top \in Int /\ Mid \in Int /\ Default \in Int
    /\ Top > Mid /\ Mid > Default

Tiers == {Top, Mid, Default}

(* A sole candidate gets the default tier; otherwise at most one candidate *)
(* gets the top tier, and the mid tier is given, once, only below a top.   *)
TierAssignments(cands) ==
    { f \in [cands -> Tiers] :
        /\ \A x, y \in cands : x # y /\ f[x] = f[y] => f[x] = Default
        /\ (\E x \in cands : f[x] = Mid) => \E x \in cands : f[x] = Top
        /\ \A x \in cands : cands = {x} => f[x] = Default }
=============================================================================
