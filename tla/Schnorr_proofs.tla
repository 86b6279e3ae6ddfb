--------------------------- MODULE Schnorr_proofs ---------------------------
(***************************************************************************)
(* What verify accepts, for every group of prime order and every hash.     *)
(***************************************************************************)
EXTENDS Schnorr, TLAPS

Anything == [r : Int, s : Nat, sized : BOOLEAN, ts : Int, nonce : Nat]

(***************************************************************************)
(* The division of an integer by the order.                                *)
(***************************************************************************)
LEMMA Division ==
  ASSUME NEW x \in Int
  PROVE  \E d \in Int : x = Order * d + (x % Order) /\ x % Order \in Scalars
  <1>1. Order \in Nat /\ Order > 0
    BY SchnorrAssumption
  <1>2. x = Order * (x \div Order) + (x % Order) /\ x \div Order \in Int
    BY <1>1
  <1>3. x % Order \in 0 .. Order - 1
    BY <1>1
  <1>. QED
    BY <1>2, <1>3 DEF Scalars

(***************************************************************************)
(* A multiple of the order has the remainder 0.                            *)
(***************************************************************************)
LEMMA MultipleOfOrder ==
  ASSUME NEW d \in Int
  PROVE  (Order * d) % Order = 0
  <1>1. Order \in Nat /\ Order > 0
    BY SchnorrAssumption
  <1>2. PICK c \in Int : /\ Order * d = Order * c + ((Order * d) % Order)
                         /\ (Order * d) % Order \in Scalars
    BY <1>1, Division
  <1>3. (Order * d) % Order = Order * (d - c)
    BY <1>1, <1>2
  <1>4. CASE d - c >= 1
    <2>1. Order * (d - c) >= Order
      BY <1>1, <1>4
    <2>. QED
      BY <2>1, <1>1, <1>2, <1>3 DEF Scalars
  <1>5. CASE d - c <= -1
    <2>1. Order * (d - c) <= -Order
      BY <1>1, <1>5
    <2>. QED
      BY <2>1, <1>1, <1>2, <1>3 DEF Scalars
  <1>6. CASE d = c
    BY <1>1, <1>3, <1>6
  <1>. QED
    BY <1>4, <1>5, <1>6

(***************************************************************************)
(* Different challenges move a point of the group to different places:     *)
(* here the order must be prime.                                           *)
(***************************************************************************)
LEMMA ChallengeMatters ==
  ASSUME NEW y \in 1 .. Order - 1, NEW r \in Int,
         NEW e \in Scalars, NEW f \in Scalars, e < f
  PROVE  (r + e * y) % Order # (r + f * y) % Order
  <1>1. Order \in Nat /\ Order > 1 /\ y \in Int /\ e \in Int /\ f \in Int
    BY SchnorrAssumption DEF Scalars
  <1>2. e * y \in Int /\ f * y \in Int /\ (f - e) * y \in Int
    BY <1>1
  <1>3. SUFFICES ASSUME (r + e * y) % Order = (r + f * y) % Order
                 PROVE  FALSE
    OBVIOUS
  <1>4. PICK c \in Int : r + e * y = Order * c + ((r + e * y) % Order)
    BY <1>2, Division
  <1>5. PICK d \in Int : r + f * y = Order * d + ((r + f * y) % Order)
    BY <1>2, Division
  <1>6. (r + f * y) % Order \in Int
    BY <1>1, <1>2, Division DEF Scalars
  <1>7. (f - e) * y = Order * (d - c)
    <2>1. (f - e) * y = f * y - e * y
      BY <1>1
    <2>2. Order * (d - c) = Order * d - Order * c
      BY <1>1
    <2>3. Order * d \in Int /\ Order * c \in Int
      BY <1>1
    <2>. QED
      BY <2>1, <2>2, <2>3, <1>2, <1>3, <1>4, <1>5, <1>6
  <1>8. ((f - e) * y) % Order = 0
    BY <1>7, MultipleOfOrder
  <1>9. f - e \in 1 .. Order - 1
    BY <1>1 DEF Scalars
  <1>. QED
    BY <1>8, <1>9, SchnorrAssumption

(***************************************************************************)
(* An accepted proof passed every test.                                    *)
(***************************************************************************)
LEMMA Accepted ==
  ASSUME NEW y, NEW p, Verify(y, p) = "verified"
  PROVE  /\ Equation(y, p)
         /\ IsScalar(Challenge(p.r, y, p.ts, p.nonce))
  BY DEF Verify

(***************************************************************************)
(* verify accepts what generate_proof makes.  The commitment 0 is left out *)
(* because its point does not survive the encoding.                        *)
(***************************************************************************)
THEOREM Completeness ==
  ASSUME NEW sk \in 1 .. Order - 1, NEW k \in 1 .. Order - 1, NEW ts, NEW nonce
  PROVE  Complete(sk, k, ts, nonce)
  <1> DEFINE e == Challenge(k, sk, ts, nonce)
  <1> DEFINE p == Generate(sk, k, ts, nonce)
  <1>1. SUFFICES ASSUME IsScalar(e)
                 PROVE  Verify(sk, p) = "verified"
    BY DEF Complete, PublicKey
  <1>2. Order \in Nat /\ Order > 1 /\ k \in Int /\ sk \in Int /\ k > 0
    BY SchnorrAssumption
  <1>3. p.r = k /\ p.sized = TRUE /\ p.ts = ts /\ p.nonce = nonce
    BY <1>2 DEF Generate, Encode
  <1>4. p.s = (k + e * sk) % Order
    BY DEF Generate, PublicKey
  <1>5. p.s \in Scalars
    <2>1. e \in Int
      BY <1>1 DEF IsScalar, Scalars
    <2>2. e * sk \in Int
      BY <2>1, <1>2
    <2>. QED
      BY <2>2, <1>2, <1>4, Division
  <1>6. p.r # NoFormat /\ Parses(p)
    BY <1>2, <1>3, <1>5 DEF NoFormat, OffCurve, Parses, Scalars
  <1>7. Equation(sk, p)
    BY <1>3, <1>4 DEF Equation
  <1> HIDE DEF p, e
  <1>8. IsScalar(Challenge(p.r, sk, p.ts, p.nonce))
    BY <1>1, <1>3 DEF e
  <1>. QED
    BY <1>3, <1>6, <1>7, <1>8 DEF Verify

(***************************************************************************)
(* An accepted proof is accepted with no other scalar: the program's       *)
(* --tamper, and any other change of the scalar, is refused.               *)
(***************************************************************************)
THEOREM OneScalar ==
  ASSUME NEW y, NEW p \in Anything, NEW s \in Nat
  PROVE  ScalarBound(y, p, s)
  <1> DEFINE q == [p EXCEPT !.s = s]
  <1>1. SUFFICES ASSUME Verify(y, p) = "verified", Verify(y, q) = "verified"
                 PROVE  s = p.s
    BY DEF ScalarBound
  <1>2. Equation(y, p) /\ Equation(y, q)
    BY <1>1, Accepted
  <1>3. q.s = s /\ q.r = p.r /\ q.ts = p.ts /\ q.nonce = p.nonce
    BY DEF Anything
  <1> HIDE DEF q
  <1>. QED
    BY <1>2, <1>3 DEF Equation

(***************************************************************************)
(* An accepted proof is accepted with another timestamp or nonce only when *)
(* the hash of the whole context is the same: a recorded proof cannot be   *)
(* made fresh, nor given a nonce that is not used.                         *)
(***************************************************************************)
THEOREM OneContext ==
  ASSUME NEW y \in 1 .. Order - 1, NEW p \in Anything,
         NEW ts \in Int, NEW nonce \in Nat
  PROVE  ContextBound(y, p, ts, nonce)
  <1> DEFINE q == [p EXCEPT !.ts = ts, !.nonce = nonce]
  <1> DEFINE e == Challenge(p.r, y, p.ts, p.nonce)
  <1> DEFINE f == Challenge(p.r, y, ts, nonce)
  <1>1. SUFFICES ASSUME Verify(y, p) = "verified", Verify(y, q) = "verified"
                 PROVE  e = f
    BY DEF ContextBound, Challenge
  <1>2. q.s = p.s /\ q.r = p.r /\ q.ts = ts /\ q.nonce = nonce /\ p.r \in Int
    BY DEF Anything
  <1> HIDE DEF q
  <1>3. e \in Scalars /\ f \in Scalars
    BY <1>1, <1>2, Accepted DEF IsScalar
  <1>4. (p.r + e * y) % Order = (p.r + f * y) % Order
    BY <1>1, <1>2, Accepted DEF Equation
  <1> HIDE DEF e, f
  <1>5. ~(e < f) /\ ~(f < e)
    BY <1>2, <1>3, <1>4, ChallengeMatters
  <1>. QED
    BY <1>3, <1>5, SchnorrAssumption DEF Scalars
=============================================================================
