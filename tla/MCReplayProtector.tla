------------------------- MODULE MCReplayProtector -------------------------
(***************************************************************************)
(* ReplayProtector on small instances.  An i64 is a number of -8 .. 7: the *)
(* readings are small, -8 is the timestamp whose age wraps, 7 the one      *)
(* farthest in the future.                                                 *)
(***************************************************************************)
EXTENDS ReplayProtector, TLC

MCTimestamps == 0 .. MaxClock \cup {-8, 7}

Symmetry == Permutations(Callers) \cup Permutations(Nonces)
=============================================================================
