------------------------------ MODULE MCActuate ------------------------------
(* Small instances of Actuate for TLC.                                     *)
EXTENDS Actuate, TLC

(* Neighbors and prefixes are interchangeable in every action.             *)
Symmetry == Permutations(Neighbors) \cup Permutations(Prefixes)
=============================================================================
