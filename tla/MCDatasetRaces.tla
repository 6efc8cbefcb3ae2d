--------------------------- MODULE MCDatasetRaces ---------------------------
(* A small instance of DatasetRaces for TLC. *)
EXTENDS DatasetRaces, TLC

CONSTANTS c1, c2

\* One source is complete, the other leaves flooded areas uncovered.
MCContents == {c1, c2}
MCCovered == {c1}
MCFeatureCount == c1 :> 100 @@ c2 :> 120
==============================================================================
