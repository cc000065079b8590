------------------------- MODULE MCStreamReplicator -------------------------
(* TLC instances of StreamReplicator. *)
EXTENDS StreamReplicator

\* Replicas differ in nothing; CHOOSE is not used.
Symmetry == Permutations(Replicas)
=============================================================================
