---------------------------- MODULE AuthRequests ----------------------------
(***************************************************************************)
(* The requests both front ends serve (AuthRequest, KafkaAuthRequest) and  *)
(* the part of serving them that touches no shared state: the comparison   *)
(* of keys and ZkpEngine::verify.                                          *)
(*                                                                         *)
(* A proof is abstracted to the key it was made for, its nonce and         *)
(* timestamp, and what became of its bytes on the way: "good" as           *)
(* generate_proof made it, "altered" in R, s, timestamp or nonce,          *)
(* "unparsable" when R or a 32 byte s does not decode, "shortscalar" when  *)
(* R has the format of a point and s is not 32 bytes long.                 *)
(***************************************************************************)
CONSTANTS Users, Keys, Nonces, Timestamps,
  NoKey       \* what the registry holds for a user who is not registered

Forms == {"good", "altered", "unparsable", "shortscalar"}

AuthRequest == [user : Users, pk : Keys, signer : Keys,
                nonce : Nonces, ts : Timestamps, form : Forms]

ASSUME NoKeyAssumption == NoKey \notin Keys

(***************************************************************************)
(* What check_and_record is given of a request.                            *)
(***************************************************************************)
ProofOf(r) == [user |-> r.user, nonce |-> r.nonce, ts |-> r.ts]

(***************************************************************************)
(* UserRegistry::get_public_key and the key comparison of both handlers.   *)
(* held is what the registry holds for the user at the lookup; dbError     *)
(* stands for a locked database or a stored key that does not decode.      *)
(***************************************************************************)
LookupNoCompare(r, held, dbError) ==      \* the key comparison left out
  IF dbError THEN "storage"
  ELSE IF held = NoKey THEN "unregistered"
  ELSE "match"

LookupCompareFirst(r, held, dbError) ==   \* the keys are compared first
  IF dbError THEN "storage"
  ELSE IF r.pk # held THEN "mismatch"
  ELSE "match"

Lookup(r, held, dbError) ==
  IF dbError THEN "storage"
  ELSE IF held = NoKey THEN "unregistered"
  ELSE IF r.pk # held THEN "mismatch"
  ELSE "match"

(***************************************************************************)
(* ZkpEngine::verify under the key pk: from_slice panics on a scalar of    *)
(* another length than 32, after R has been parsed and before anything     *)
(* else; the equation holds for the key the proof was made for and for     *)
(* unaltered bytes.                                                        *)
(***************************************************************************)
VerifyAny(pk, r) ==                       \* the equation is not tested
  CASE r.form = "shortscalar" -> "panic"
    [] r.form = "unparsable" -> "error"
    [] OTHER -> "verified"

Verify(pk, r) ==
  CASE r.form = "shortscalar" -> "panic"
    [] r.form = "unparsable" -> "error"
    [] r.form = "good" /\ r.signer = pk -> "verified"
    [] OTHER -> "invalid"

\* The prover of r knew the secret key of the key that r names.
Genuine(r) == r.form = "good" /\ r.signer = r.pk
=============================================================================
