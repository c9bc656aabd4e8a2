---------------------------- MODULE MCEnrollment ----------------------------
(* Instances of Enrollment for TLC. *)
EXTENDS Enrollment, TLC

Symmetry == Permutations(Procs) \cup Permutations(Ids) \cup Permutations(Nonces)
                \cup Permutations(Cns) \cup Permutations(Serials)
=============================================================================
