---------------------------- MODULE MCApplication ----------------------------
(* Instances of CandidateApplication for TLC. *)
EXTENDS CandidateApplication, TLC
Symmetry == Permutations(Apps)
=============================================================================
