---------------------------- MODULE MCTransitBloom ----------------------------
(* Two flows on two CPUs.  The bits of the first fall in two words, one of   *)
(* which the second shares with it.                                          *)
EXTENDS TransitBloom, TLC

CONSTANTS k1, k2, b1, b2, b3, w1, w2

TwoHashes == (k1 :> <<b1, b3>>) @@ (k2 :> <<b2>>)

SharedWord == (b1 :> w1) @@ (b2 :> w1) @@ (b3 :> w2)

(* CPUs and paths are interchangeable in every action.                       *)
Symmetry == Permutations(Cpus) \cup Permutations(Paths)
=============================================================================
