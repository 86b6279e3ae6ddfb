-------------------------- MODULE Freshness_proofs --------------------------
(***************************************************************************)
(* What the window tests of check_and_record decide, for every width of    *)
(* the integers, every drift and both builds.                              *)
(***************************************************************************)
EXTENDS Freshness, TLAPS

(***************************************************************************)
(* One i64 subtraction, wrapped, names the window exactly: an age that     *)
(* overflows wraps to a number whose distance from zero exceeds the drift, *)
(* because a clock reading keeps at least the drift from the end of time.  *)
(***************************************************************************)
LEMMA WrappedAge ==
  ASSUME NEW now \in Readings, NEW ts \in I64
  PROVE  /\ Wrap(now - ts) \in I64
         /\ Wrap(now - ts) \in -MaxDrift .. MaxDrift <=> InWindow(now, ts)
  <1>1. now \in Int /\ 0 <= now /\ now <= Half - 1 - MaxDrift
    BY FreshnessAssumption DEF Readings
  <1>2. ts \in Int /\ -Half <= ts /\ ts <= Half - 1
    BY FreshnessAssumption DEF I64
  <1>3. CASE now - ts >= Half
    BY <1>1, <1>2, <1>3, FreshnessAssumption DEF Wrap, InWindow, I64
  <1>4. CASE now - ts < Half
    BY <1>1, <1>2, <1>4, FreshnessAssumption DEF Wrap, InWindow, I64
  <1>. QED
    BY <1>1, <1>2, <1>3, <1>4, FreshnessAssumption

(***************************************************************************)
(* check_and_record lets a proof past its window tests exactly when the    *)
(* timestamp is within the drift of the reading, in a build that wraps and *)
(* in one that traps.                                                      *)
(***************************************************************************)
THEOREM FreshIffInWindow ==
  ASSUME NEW now \in Readings, NEW ts \in I64
  PROVE  CheckFreshness(now, ts) = "fresh" <=> InWindow(now, ts)
  <1>1. now \in Int /\ 0 <= now /\ now <= Half - 1 - MaxDrift
    BY FreshnessAssumption DEF Readings
  <1>2. ts \in Int /\ -Half <= ts /\ ts <= Half - 1
    BY FreshnessAssumption DEF I64
  <1>3. Wrap(now - ts) \in Int
    BY WrappedAge, FreshnessAssumption DEF I64
  <1>4. Wrap(now - ts) \in -MaxDrift .. MaxDrift <=> InWindow(now, ts)
    BY WrappedAge
  <1>5. InWindow(now, ts) => now - ts \in I64 /\ now - ts # -Half
    BY <1>1, <1>2, FreshnessAssumption DEF InWindow, I64
  <1>. QED
    BY <1>3, <1>4, <1>5, FreshnessAssumption DEF CheckFreshness

(***************************************************************************)
(* The four outcomes are the only ones.                                    *)
(***************************************************************************)
LEMMA FreshnessOutcomes ==
  ASSUME NEW now, NEW ts
  PROVE  CheckFreshness(now, ts) \in {"panic", "future", "expired", "fresh"}
  BY DEF CheckFreshness

(***************************************************************************)
(* A proof that one reading has put past the window is refused by every    *)
(* later reading: what the table forgets never comes back by waiting.      *)
(***************************************************************************)
THEOREM ExpiredStaysExpired ==
  ASSUME NEW now \in Readings, NEW later \in Readings, NEW ts \in I64,
         ts < now - MaxDrift, now <= later
  PROVE  CheckFreshness(later, ts) # "fresh"
  <1>1. ~InWindow(later, ts)
    BY FreshnessAssumption DEF InWindow, Readings, I64
  <1>. QED
    BY <1>1, FreshIffInWindow
=============================================================================
