-------------------------- MODULE MCKafkaPipeline --------------------------
(***************************************************************************)
(* A prover that may replay, and another producer under the same user and  *)
(* key, each of whose requests may be appended any number of times:        *)
(*   Good:      a request that can be verified, under an id of its own;    *)
(*   Malformed: one on which verify panics.                                *)
(***************************************************************************)
EXTENDS KafkaPipeline

CONSTANTS u, k, n1, n2, p1

MCTimestamps == 0 .. MaxClock
MCUserOf == [p \in Provers |-> u]
MCKeyOf == [p \in Provers |-> k]
MCNonceOf == [p \in Provers |-> n1]

Good == [user |-> u, pk |-> k, signer |-> k, nonce |-> n2, ts |-> 0, form |-> "good"]
Malformed == [Good EXCEPT !.form = "shortscalar"]

GoodForeign == {Good}
PanicForeign == {Malformed}
BothForeign == {Good, Malformed}
=============================================================================
