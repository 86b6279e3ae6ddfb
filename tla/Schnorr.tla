------------------------------ MODULE Schnorr ------------------------------
(***************************************************************************)
(* The algebra of ZkpEngine (zkp_core_engine.rs).  A point of the group is *)
(* named by its discrete logarithm: GENERATOR * k is k, the sum of points  *)
(* and their multiples are sums and products modulo the order, and 0 is    *)
(* the identity.  A scalar is a number below the order.                    *)
(*                                                                         *)
(* Bytes are kept as far as decoding tells them apart.  The identity as a  *)
(* compressed point is 33 zero bytes, which no decoder takes back.         *)
(***************************************************************************)
EXTENDS Integers

CONSTANTS
  Order,             \* the order of the group
  Hash(_, _, _, _)   \* SHA-256 of R, y, timestamp and nonce, as a number

Scalars == 0 .. Order - 1

\* The order is prime.
ASSUME SchnorrAssumption ==
  /\ Order \in Nat \ {0, 1}
  /\ \A a, b \in 1 .. Order - 1 : (a * b) % Order # 0

NoFormat == -1       \* no tag or length of an encoded point
OffCurve == -2       \* the format of a point that is not on the curve

Encode(point) == IF point = 0 THEN NoFormat ELSE point

PublicKey(sk) == sk

\* compute_challenge panics when the hash is not a scalar.
ChallengeNoNonce(r, y, ts, nonce) == Hash(r, y, ts, 0)  \* update(nonce) left out

Challenge(r, y, ts, nonce) == Hash(r, y, ts, nonce)
IsScalar(e) == e \in Scalars

(***************************************************************************)
(* generate_proof with the commitment k it draws; sized says whether the   *)
(* scalar is 32 bytes long.                                                *)
(***************************************************************************)
Generate(sk, k, ts, nonce) ==
  [r |-> Encode(k),
   s |-> (k + Challenge(k, PublicKey(sk), ts, nonce) * sk) % Order,
   sized |-> TRUE, ts |-> ts, nonce |-> nonce]

Parses(p) == p.r # OffCurve /\ p.s < Order

Equation(y, p) == p.s = (p.r + Challenge(p.r, y, p.ts, p.nonce) * y) % Order

VerifySwapped(y, p) ==       \* R + e for R + e * y
  IF p.r = NoFormat THEN "error"
  ELSE IF ~p.sized THEN "panic"
  ELSE IF ~Parses(p) THEN "error"
  ELSE IF ~IsScalar(Challenge(p.r, y, p.ts, p.nonce)) THEN "panic"
  ELSE IF p.s = (p.r + Challenge(p.r, y, p.ts, p.nonce)) % Order THEN "verified"
  ELSE "invalid"

Verify(y, p) ==
  IF p.r = NoFormat THEN "error"
  ELSE IF ~p.sized THEN "panic"
  ELSE IF ~Parses(p) THEN "error"
  ELSE IF ~IsScalar(Challenge(p.r, y, p.ts, p.nonce)) THEN "panic"
  ELSE IF Equation(y, p) THEN "verified"
  ELSE "invalid"
-----------------------------------------------------------------------------
\* An honest proof is verified, whatever key, commitment and context.
Complete(sk, k, ts, nonce) ==
  IsScalar(Challenge(k, sk, ts, nonce))
    => Verify(PublicKey(sk), Generate(sk, k, ts, nonce)) = "verified"

\* No other scalar serves in its place.
ScalarBound(y, p, s) ==
  Verify(y, p) = "verified" /\ s # p.s
    => Verify(y, [p EXCEPT !.s = s]) # "verified"

\* No other timestamp or nonce, but for a collision of the whole hash.
ContextBound(y, p, ts, nonce) ==
  /\ Verify(y, p) = "verified"
  /\ Verify(y, [p EXCEPT !.ts = ts, !.nonce = nonce]) = "verified"
  => Hash(p.r, y, ts, nonce) = Hash(p.r, y, p.ts, p.nonce)
=============================================================================
