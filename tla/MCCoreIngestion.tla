--------------------------- MODULE MCCoreIngestion ---------------------------
\* Instances of the core ingestion engine for TLC.
EXTENDS CoreIngestion, TLC

CONSTANTS e1, e2, e3

\* Two embedders of one size and one of another.
MCSize == [e \in Embedders |-> IF e = e3 THEN 2 ELSE 1]
Symmetry == Permutations(Uploads) \union Permutations(Agents)
=============================================================================
