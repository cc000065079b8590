------------------------ MODULE MCLiveCamFramedSource ------------------------
(* TLC instances of LiveCamFramedSource. *)
EXTENDS LiveCamFramedSource

\* The cameras differ in nothing; only the safety runs use this.
Symmetry == Permutations(Cameras)
=============================================================================
