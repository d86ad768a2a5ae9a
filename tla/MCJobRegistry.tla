--------------------------- MODULE MCJobRegistry ---------------------------
(* Instances of JobRegistry for the model checker.                         *)
EXTENDS JobRegistry, TLC

(* Jobs, workers, projects and keys are interchangeable.                   *)
Symmetry == Permutations(Jobs) \cup Permutations(Workers)
            \cup Permutations(Projects) \cup Permutations(Keys)
=============================================================================
