------------------------------ MODULE MCEngine ------------------------------
(***************************************************************************)
(* The engine over the group of order 5, with two nonces and a hash with   *)
(* collisions, one value of which is not a scalar.                         *)
(***************************************************************************)
EXTENDS Engine

MCHash(r, y, t, n) == (r + 2 * y * y + 3 * t + 4 * n) % 6
MCNonces == 0 .. 1

\* Wrap is the remainder form on every result of one i64 operation.
ASSUME WrapIsRemainder ==
  \A x \in -2 * Half .. 2 * Half - 1 :
    Rel!Wrap(x) = ((x + Half) % (2 * Half)) - Half
=============================================================================
