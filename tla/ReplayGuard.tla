---------------------------- MODULE ReplayGuard ----------------------------
(***************************************************************************)
(* What ReplayProtector promises, with a call as one indivisible step and  *)
(* no table at all: the guard judges a proof by the clock and by what it   *)
(* has admitted since the process started.                                 *)
(*                                                                         *)
(* A nonce is burned for a user while a proof admitted with it is still    *)
(* inside the window; a proof in the window with a nonce that is not       *)
(* burned is admitted, any other proof is refused with the reason.         *)
(***************************************************************************)
EXTENDS Integers

CONSTANTS MaxDrift, Callers, Proofs, Clocks

VARIABLES clock, used, verdict
gvars == <<clock, used, verdict>>

Fresh(p) == p.ts \in clock - MaxDrift .. clock + MaxDrift

Burned(p) == \E q \in used : /\ q.user = p.user
                             /\ q.nonce = p.nonce
                             /\ q.ts >= clock - MaxDrift

Answer(c, v) == verdict' = [verdict EXCEPT ![c] = v]

Init == /\ clock \in Clocks
        /\ used = {}
        /\ verdict = [c \in Callers |-> "none"]

Ask(c) == Answer(c, "none") /\ UNCHANGED <<clock, used>>

RefuseStale(c, p) == /\ ~Fresh(p)
                     /\ \E v \in {"future", "expired", "panic"} : Answer(c, v)
                     /\ UNCHANGED <<clock, used>>

RefuseReplay(c, p) == /\ Fresh(p) /\ Burned(p)
                      /\ Answer(c, "replay")
                      /\ UNCHANGED <<clock, used>>

Admit(c, p) == /\ Fresh(p) /\ ~Burned(p)
               /\ Answer(c, "ok")
               /\ used' = used \cup {p}
               /\ UNCHANGED clock

Tick == clock' = clock + 1 /\ clock' \in Clocks /\ UNCHANGED <<used, verdict>>

Restart == /\ used' = {}
           /\ verdict' = [c \in Callers |-> "none"]
           /\ UNCHANGED clock

Next ==
  \/ \E c \in Callers : Ask(c)
  \/ \E c \in Callers, p \in Proofs :
       RefuseStale(c, p) \/ RefuseReplay(c, p) \/ Admit(c, p)
  \/ Tick
  \/ Restart

Spec == Init /\ [][Next]_gvars
=============================================================================
