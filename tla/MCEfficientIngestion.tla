------------------------ MODULE MCEfficientIngestion ------------------------
(* Small instances of EfficientIngestion for TLC. *)
EXTENDS EfficientIngestion, TLC

CONSTANTS e1, e2, c1, c2

\* Two embedders of the same, or of different vector sizes.
SameSize == [e \in Embedders |-> 1]
OtherSize == [e \in Embedders |-> IF e = e2 THEN 2 ELSE 1]

WorkerSymmetry == Permutations(Workers)

=============================================================================
