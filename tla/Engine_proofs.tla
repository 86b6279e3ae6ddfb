---------------------------- MODULE Engine_proofs ----------------------------
(***************************************************************************)
(* The properties of the engine over time, from the theorems about its     *)
(* arithmetic and its algebra, for an i64 of any width, any prime order,   *)
(* any hash and any nonces.                                                *)
(***************************************************************************)
EXTENDS Engine, Schnorr_proofs

DevP == INSTANCE Freshness_proofs WITH OverflowChecks <- TRUE
RelP == INSTANCE Freshness_proofs WITH OverflowChecks <- FALSE

\* The clock stays among the readings, the timestamp an i64.
EngineInv == now \in Rel!Readings /\ ts \in Rel!I64

\* It does in every behaviour.
LEMMA EngineInvariant == Spec => []EngineInv
  <1>1. Init => EngineInv
    BY EngineAssumption DEF Init, EngineInv, Rel!Readings
  <1>2. EngineInv /\ [Next]_vars => EngineInv'
    BY DEF EngineInv, Next, Age, Stop, vars
  <1>. QED
    BY <1>1, <1>2, PTL DEF Spec

(***************************************************************************)
(* The window tests of check_and_record (replay.rs) pass exactly what is   *)
(* in the window, in a dev and in a release build, whatever i64 arrives    *)
(* and whatever the clock reads.                                           *)
(***************************************************************************)
THEOREM WindowExact == Spec => []FreshnessExact
  <1>1. EngineInv => FreshnessExact
    <2>. SUFFICES ASSUME EngineInv PROVE FreshnessExact
      OBVIOUS
    <2>1. DevP!FreshnessAssumption /\ RelP!FreshnessAssumption
      BY EngineAssumption DEF DevP!FreshnessAssumption, RelP!FreshnessAssumption
    <2>2. now \in DevP!Readings /\ now \in RelP!Readings /\ ts \in DevP!I64 /\ ts \in RelP!I64
      BY DEF EngineInv, Rel!Readings, Rel!I64, DevP!Readings, RelP!Readings,
             DevP!I64, RelP!I64
    <2>3. DevP!CheckFreshness(now, ts) = "fresh" <=> DevP!InWindow(now, ts)
      BY <2>1, <2>2, DevP!FreshIffInWindow
    <2>4. RelP!CheckFreshness(now, ts) = "fresh" <=> RelP!InWindow(now, ts)
      BY <2>1, <2>2, RelP!FreshIffInWindow
    <2>5. /\ Dev!CheckFreshness(now, ts) = "fresh" <=> Dev!InWindow(now, ts)
      BY <2>3 DEF Dev!CheckFreshness, DevP!CheckFreshness, Dev!InWindow, DevP!InWindow,
                  Dev!Wrap, DevP!Wrap, Dev!I64, DevP!I64
    <2>6. /\ Rel!CheckFreshness(now, ts) = "fresh" <=> Rel!InWindow(now, ts)
      BY <2>4 DEF Rel!CheckFreshness, RelP!CheckFreshness, Rel!InWindow, RelP!InWindow,
                  Rel!Wrap, RelP!Wrap, Rel!I64, RelP!I64
    <2>. QED
      BY <2>5, <2>6 DEF FreshnessExact
  <1>. QED
    BY <1>1, EngineInvariant, PTL

(***************************************************************************)
(* verify (zkp_core_engine.rs) accepts what generate_proof makes, for      *)
(* every key, every commitment but 0, every timestamp and every nonce.     *)
(***************************************************************************)
THEOREM HonestProofs == Spec => []HonestVerified
  <1>1. HonestVerified
    BY Completeness DEF HonestVerified
  <1>. QED
    BY <1>1, PTL

\* A proof that generate_proof makes and verify accepts is made of numbers.
LEMMA GeneratedIsTyped ==
  ASSUME NEW y \in 1 .. Order - 1, NEW k \in Scalars, NEW t \in Int, NEW n \in Nat,
         Verify(y, Generate(y, k, t, n)) = "verified"
  PROVE  Generate(y, k, t, n) \in Anything
  <1>. DEFINE p == Generate(y, k, t, n)
  <1>1. p.r = Encode(k) /\ p.ts = t /\ p.nonce = n /\ p.sized = TRUE
    BY DEF Generate
  <1>2. p = [r |-> p.r, s |-> p.s, sized |-> p.sized, ts |-> p.ts, nonce |-> p.nonce]
    BY DEF Generate
  <1>3. p.s = (k + Challenge(k, y, t, n) * y) % Order
    BY DEF Generate, PublicKey
  <1>4. Verify(y, p) = "verified"
    OBVIOUS
  <1>. HIDE DEF p
  <1>5. p.r # NoFormat /\ k \in Int /\ y \in Int
    BY <1>4, SchnorrAssumption DEF Verify, Scalars
  <1>6. p.r = k /\ p.r \in Int /\ k \in Int /\ y \in Int
    BY <1>1, <1>5 DEF Encode
  <1>7. Challenge(k, y, t, n) \in Int
    <2>1. IsScalar(Challenge(p.r, y, p.ts, p.nonce))
      BY <1>4, Accepted
    <2>. QED
      BY <1>1, <1>6, <2>1, SchnorrAssumption DEF IsScalar, Scalars
  <1>8. k + Challenge(k, y, t, n) * y \in Int
    BY <1>6, <1>7
  <1>9. p.s \in Nat
    <2>1. PICK x \in Int : x = k + Challenge(k, y, t, n) * y
      BY <1>8
    <2>2. x % Order \in Scalars
      BY Division
    <2>. QED
      BY <1>3, <2>1, <2>2, SchnorrAssumption DEF Scalars
  <1>. QED
    BY <1>1, <1>2, <1>6, <1>9 DEF Anything, p

(***************************************************************************)
(* A proof that verify accepts is accepted with no other scalar, and with  *)
(* another timestamp or nonce only under a collision of the hash: what the *)
(* replay protection takes from the proof is what its maker put in.        *)
(***************************************************************************)
THEOREM ProofsBound == Spec => []ProofBound
  <1>1. EngineInv => ProofBound
    <2>. SUFFICES ASSUME EngineInv,
                         NEW y \in 1 .. Order - 1, NEW k \in Scalars,
                         NEW n \in Nonces, NEW m \in Nonces
                  PROVE  LET p == Generate(y, k, ts, n) IN
                         /\ \A s \in 0 .. 2 * Order : ScalarBound(y, p, s)
                         /\ \A t \in {now, ts} : ContextBound(y, p, t, m)
      BY DEF ProofBound
    <2>. DEFINE p == Generate(y, k, ts, n)
    <2>1. now \in Int /\ ts \in Int /\ n \in Nat /\ m \in Nat
      BY EngineAssumption DEF EngineInv, Rel!Readings, Rel!I64
    <2>2. Verify(y, p) = "verified" => p \in Anything
      BY <2>1, GeneratedIsTyped
    <2>. HIDE DEF p
    <2>3. ASSUME NEW s \in 0 .. 2 * Order PROVE ScalarBound(y, p, s)
      <3>1. s \in Nat
        BY SchnorrAssumption
      <3>. QED
        BY <2>2, <3>1, OneScalar DEF ScalarBound
    <2>4. ASSUME NEW t \in {now, ts} PROVE ContextBound(y, p, t, m)
      <3>1. t \in Int
        BY <2>1
      <3>. QED
        BY <2>1, <2>2, <3>1, OneContext DEF ContextBound
    <2>. QED
      BY <2>3, <2>4 DEF p
  <1>. QED
    BY <1>1, EngineInvariant, PTL
=============================================================================
