----------------------------- MODULE MCRanking -----------------------------
(* Small instances of Ranking for TLC: up to two legs per neighbor.        *)
EXTENDS Ranking

(* Legs named by neighbor; a1 and a2 are two interfaces to one next hop.   *)
LegSet == {"a1", "a2", "b1", "c1"}
LegNeighbor == [l \in LegSet |-> IF l \in {"a1", "a2"} THEN "a" ELSE IF l = "b1" THEN "b" ELSE "c"]
LegNextHop == [l \in LegSet |-> IF l \in {"a1", "a2"} THEN 3 ELSE IF l = "b1" THEN 2 ELSE 1]

(* A fast clean path, a slow one, a lossy one and one that does not answer. *)
Bursts == {[rtt |-> 200, loss |-> 0, err |-> 100], [rtt |-> 600, loss |-> 0, err |-> 0],
           [rtt |-> 200, loss |-> 2, err |-> 400], [rtt |-> 0, loss |-> 4, err |-> 0]}

(* Too few segments, enough segments, and a lossy window.                  *)
Windows == {[window |-> 2, loss |-> 2, err |-> 300], [window |-> 4, loss |-> 0, err |-> 0],
            [window |-> 8, loss |-> 0, err |-> 40], [window |-> 3, loss |-> 4, err |-> 0]}

NoTransit == {}
=============================================================================
