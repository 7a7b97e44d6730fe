---------------------------- MODULE MCControlLoop ----------------------------
(* Small instances of ControlLoop for TLC.                                 *)
EXTENDS ControlLoop, TLC

(* Neighbors and prefixes are interchangeable in every action.             *)
Symmetry == Permutations(Neighbors) \cup Permutations(Prefixes)
=============================================================================
