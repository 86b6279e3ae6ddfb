----------------------------- MODULE Freshness -----------------------------
(***************************************************************************)
(* The age arithmetic of the replay protection: the subtraction of two i64 *)
(* Unix timestamps and the two window tests built on it, one in            *)
(* ReplayProtector::check_and_record and one in ZkpEngine::is_fresh.       *)
(*                                                                         *)
(* The timestamp of a proof arrives from the network, so it is any i64.    *)
(* Half stands for 2^63.  Cargo.toml sets no profile, so an overflowing    *)
(* subtraction panics in a dev build and wraps in a release build:         *)
(* OverflowChecks says which build is meant.                               *)
(***************************************************************************)
EXTENDS Integers

CONSTANTS
  Half,             \* an i64 lies in -Half .. Half - 1
  MaxDrift,         \* ReplayProtector.max_drift_secs (60 by default)
  OverflowChecks    \* TRUE: dev profile.  FALSE: release profile

ASSUME FreshnessAssumption ==
  /\ Half \in Nat \ {0}
  /\ MaxDrift \in 0 .. Half - 1
  /\ OverflowChecks \in BOOLEAN

I64 == -Half .. Half - 1

(***************************************************************************)
(* Clock readings: after 1970 and far enough from the end of time that     *)
(* now - max_drift_secs and now + max_drift_secs stay inside an i64.       *)
(***************************************************************************)
Readings == 0 .. Half - 1 - MaxDrift

(***************************************************************************)
(* Two's complement result of ONE addition, subtraction or negation of     *)
(* i64 values, i.e. ((x + Half) % (2 * Half)) - Half for such an x.        *)
(***************************************************************************)
Wrap(x) ==
  IF x >= Half THEN x - 2 * Half
  ELSE IF x < -Half THEN x + 2 * Half
  ELSE x

(***************************************************************************)
(* The first half of check_and_record.  diff = now - proof.timestamp; the  *)
(* error of a future timestamp carries -diff, a second operation that      *)
(* overflows when diff is i64::MIN.                                        *)
(***************************************************************************)
CheckFreshnessOneSided(now, ts) ==     \* the future test left out
  LET diff == Wrap(now - ts) IN
  IF OverflowChecks /\ (now - ts \notin I64 \/ now - ts = -Half) THEN "panic"
  ELSE IF diff > MaxDrift THEN "expired"
  ELSE "fresh"

CheckFreshnessNoExpiry(now, ts) ==     \* the expiry test left out
  LET diff == Wrap(now - ts) IN
  IF OverflowChecks /\ (now - ts \notin I64 \/ now - ts = -Half) THEN "panic"
  ELSE IF diff < -MaxDrift THEN "future"
  ELSE "fresh"

CheckFreshness(now, ts) ==
  LET diff == Wrap(now - ts) IN
  IF OverflowChecks /\ (now - ts \notin I64 \/ now - ts = -Half) THEN "panic"
  ELSE IF diff < -MaxDrift THEN "future"
  ELSE IF diff > MaxDrift THEN "expired"
  ELSE "fresh"

(***************************************************************************)
(* ZkpEngine::is_fresh: (now - proof.timestamp).abs() <= max_drift_secs.   *)
(***************************************************************************)
Abs(x) == IF x < 0 THEN Wrap(-x) ELSE x

IsFresh(now, ts) ==
  LET diff == Wrap(now - ts) IN
  IF OverflowChecks /\ (now - ts \notin I64 \/ now - ts = -Half) THEN "panic"
  ELSE IF Abs(diff) <= MaxDrift THEN "fresh" ELSE "stale"

(***************************************************************************)
(* What both tests mean to decide, in unbounded arithmetic.                *)
(***************************************************************************)
InWindow(now, ts) == ts \in now - MaxDrift .. now + MaxDrift
=============================================================================
