--------------------------- MODULE MCReplayNonces ---------------------------
(* Instances of ReplayNonces for TLC. *)
EXTENDS ReplayNonces, TLC

Symmetry == Permutations(Workers) \cup Permutations(Nonces)
=============================================================================
