--------------------------- MODULE MCProjectStore ---------------------------
(* Instances of ProjectStore for the model checker.                        *)
EXTENDS ProjectStore, TLC

(* Branches other than the first, and states, are interchangeable.         *)
Symmetry == Permutations(Branches \ {Main}) \cup Permutations(States)
=============================================================================
