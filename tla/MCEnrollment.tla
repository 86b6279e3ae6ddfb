---------------------------- MODULE MCEnrollment ----------------------------
(***************************************************************************)
(* Three program runs, enough for two that overlap and one that follows.   *)
(***************************************************************************)
EXTENDS Enrollment, TLC

CONSTANTS r1, r2, r3

Symmetry == Permutations(Runs)
=============================================================================
