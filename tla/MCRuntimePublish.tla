-------------------------- MODULE MCRuntimePublish --------------------------
(* Small instances of RuntimePublish for TLC. *)
EXTENDS RuntimePublish, TLC

Symmetry == Permutations(Versions) \cup Permutations(Writers)
                \cup Permutations(Valid)
=============================================================================
