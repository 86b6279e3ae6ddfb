------------------------------- MODULE Engine -------------------------------
(***************************************************************************)
(* The engine over time.  A proof with a fixed timestamp, any i64, is      *)
(* presented second after second while the clock runs from 1970 to the end *)
(* of the readings, to a dev build and to a release build.  For that       *)
(* timestamp the group is gone through: all keys, commitments, nonces and  *)
(* alterations.                                                            *)
(***************************************************************************)
EXTENDS Schnorr

CONSTANTS Half, MaxDrift, Nonces

ASSUME EngineAssumption ==
  /\ Half \in Nat \ {0} /\ MaxDrift \in 0 .. Half - 1
  /\ Nonces \subseteq Nat

VARIABLES
  now,    \* Utc::now().timestamp()
  ts      \* the timestamp of the proof
vars == <<now, ts>>

Dev == INSTANCE Freshness WITH OverflowChecks <- TRUE
Rel == INSTANCE Freshness WITH OverflowChecks <- FALSE

Init == now = 0 /\ ts \in Rel!I64

Age == /\ now + 1 \in Rel!Readings
       /\ now' = now + 1
       /\ UNCHANGED ts

Stop == now + 1 \notin Rel!Readings /\ UNCHANGED vars

Next == Age \/ Stop

Spec == Init /\ [][Next]_vars
-----------------------------------------------------------------------------
(***************************************************************************)
(* check_and_record (replay.rs) lets a proof past its two window tests     *)
(* exactly when the timestamp is within max_drift_secs of the reading,     *)
(* whatever i64 the network delivered: a subtraction that wraps never      *)
(* lands inside the window, and a build that traps on overflow traps only  *)
(* on timestamps that were outside it anyway.                              *)
(***************************************************************************)
FreshnessExact ==
  /\ Rel!CheckFreshness(now, ts) = "fresh" <=> Rel!InWindow(now, ts)
  /\ Dev!CheckFreshness(now, ts) = "fresh" <=> Dev!InWindow(now, ts)

(***************************************************************************)
(* verify (zkp_core_engine.rs) accepts every proof generate_proof makes    *)
(* for the key, but for the commitment 0.                                  *)
(***************************************************************************)
HonestVerified ==
  \A sk, k \in 1 .. Order - 1, n \in Nonces : Complete(sk, k, ts, n)

(***************************************************************************)
(* A proof that verify accepts is accepted with no other scalar, also none *)
(* beyond the order, and with no other timestamp or nonce unless the hash  *)
(* of all four parts collides: what the replay protection takes from the   *)
(* proof is what its maker put in.                                         *)
(***************************************************************************)
ProofBound ==
  \A y \in 1 .. Order - 1, k \in Scalars, n, m \in Nonces :
    LET p == Generate(y, k, ts, n) IN
    /\ \A s \in 0 .. 2 * Order : ScalarBound(y, p, s)
    /\ \A t \in {now, ts} : ContextBound(y, p, t, m)

(***************************************************************************)
(* ZkpEngine::is_fresh (zkp_core_engine.rs:154) "Validates if proof's      *)
(* timestamp is within allowed clock drift": it says fresh exactly inside  *)
(* the window.                                                             *)
(***************************************************************************)
IsFreshExact == Rel!IsFresh(now, ts) = "fresh" <=> Rel!InWindow(now, ts)
=============================================================================
