----------------------------- MODULE MCSteering -----------------------------
(* Two neighbors; the one BGP prefers by itself has the longer RTT.  Loss  *)
(* outweighs the difference, and both RTTs outweigh any loss.              *)
EXTENDS Steering

TwoNeighbors == {1, 2}
Rtts == [n \in TwoNeighbors |-> IF n = 1 THEN 700 ELSE 600]
=============================================================================
