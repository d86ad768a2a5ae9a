-------------------------- MODULE MCCandidateBatch --------------------------
(* Instances of CandidateBatch for the model checker.                      *)
EXTENDS CandidateBatch, TLC

(* Slots and humans are interchangeable.                                   *)
Symmetry == Permutations(Slots) \cup Permutations(Humans)
=============================================================================
