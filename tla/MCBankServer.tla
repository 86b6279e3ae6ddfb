---------------------------- MODULE MCBankServer ----------------------------
(***************************************************************************)
(* Two instances of the bank server.                                       *)
(*   Race: two connections with one frame each: the holder's request, a    *)
(* copy altered on the way, a request for the second key the user may be   *)
(* re-enrolled with, and one with a later timestamp whose acceptance       *)
(* prunes the others.                                                      *)
(*   Live: one connection with up to two frames, among them every kind     *)
(* that ends a connection (a short scalar, a long id, a timestamp whose    *)
(* age traps, a frame that does not decode), beside a silent one.          *)
(***************************************************************************)
EXTENDS BankServer, TLC

CONSTANTS u, k1, k2, n1, n2, long, c1, c2

RaceTimestamps == 0 .. MaxClock
LiveTimestamps == {0, -Half}

Good == [user |-> u, pk |-> k1, signer |-> k1, nonce |-> n1, ts |-> 0, form |-> "good"]

RaceRequests == {Good,
               [Good EXCEPT !.form = "altered"],
               [Good EXCEPT !.pk = k2],
               [Good EXCEPT !.nonce = n2, !.ts = MaxClock]}

LiveRequests == {Good,
                 [Good EXCEPT !.form = "shortscalar"],
                 [Good EXCEPT !.user = long],
                 [Good EXCEPT !.ts = -Half]}

OneSend == [c \in Conns |-> 1]
LiveSends == [c \in Conns |-> IF c = c1 THEN 2 ELSE 0]

Symmetry == Permutations(Conns)
=============================================================================
