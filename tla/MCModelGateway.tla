--------------------------- MODULE MCModelGateway ---------------------------
(* Instances of ModelGateway for the model checker.                        *)
EXTENDS ModelGateway, TLC

(* Keys and humans are interchangeable.                                    *)
Symmetry == Permutations(Keys) \cup Permutations(Humans)
=============================================================================
