---------------------------- MODULE AuthService ----------------------------
(***************************************************************************)
(* What both front ends promise, without connections, topics, a nonce      *)
(* table or a lock: requests are asked in slots and each is given one      *)
(* verdict, or abandoned.  A proof is admitted as ReplayGuard admits it,   *)
(* and only for a key the registry held since the request was asked; every *)
(* verdict is true at some moment between question and answer.             *)
(***************************************************************************)
EXTENDS AuthRequests, Integers

CONSTANTS
  Slots, MaxDrift, Clocks,
  NoRequest        \* an idle slot

VARIABLES
  clock, registry,
  spent,           \* proofs admitted since the process started
  asked,           \* slot -> the request in it
  held,            \* slot -> what the registry held since then
  stage,           \* "idle", "asked", "admitted", "answered"
  answer           \* slot -> the verdict

avars == <<clock, registry, spent, asked, held, stage, answer>>

G == INSTANCE ReplayGuard WITH
  used <- spent, verdict <- answer, Callers <- Slots,
  Proofs <- [user : Users, nonce : Nonces, ts : Timestamps]

Init == /\ clock \in Clocks
        /\ registry \in [Users -> Keys \cup {NoKey}]
        /\ spent = {}
        /\ asked = [s \in Slots |-> NoRequest]
        /\ held = [s \in Slots |-> {}]
        /\ stage = [s \in Slots |-> "idle"]
        /\ answer = [s \in Slots |-> "none"]

Holder(s) == asked[s].pk \in held[s]
Proof(s) == ProofOf(asked[s])

Become(s, st, a) == /\ stage'[s] = st
                    /\ stage' = [stage EXCEPT ![s] = st]
                    /\ answer' = [answer EXCEPT ![s] = a]

Ask(s) ==
  /\ stage[s] = "idle"
  /\ Become(s, "asked", "none")
  /\ asked'[s] \in AuthRequest
  /\ asked' = [asked EXCEPT ![s] = asked'[s]]
  /\ held' = [held EXCEPT ![s] = {registry[asked'[s].user]}]
  /\ UNCHANGED <<clock, registry, spent>>

Change(u, k) ==
  /\ registry' = [registry EXCEPT ![u] = k]
  /\ held' = [s \in Slots |-> IF stage[s] # "idle" /\ asked[s].user = u
                                THEN held[s] \cup {k} ELSE held[s]]
  /\ UNCHANGED <<clock, spent, asked, stage, answer>>

Admit(s) ==
  /\ stage[s] = "asked" /\ Become(s, "admitted", "none")
  /\ Holder(s) /\ G!Fresh(Proof(s)) /\ ~G!Burned(Proof(s))
  /\ spent' = spent \cup {Proof(s)}
  /\ UNCHANGED <<clock, registry, asked, held>>

(***************************************************************************)
(* The reasons for a verdict.                                              *)
(***************************************************************************)
Justified(s, v) ==
  \/ stage[s] = "asked" /\ v = "storage"
  \/ stage[s] = "asked" /\ v = "unregistered" /\ NoKey \in held[s]
  \/ stage[s] = "asked" /\ v = "mismatch" /\ held[s] \ {NoKey, asked[s].pk} # {}
  \/ stage[s] = "asked" /\ v = "stale" /\ Holder(s) /\ ~G!Fresh(Proof(s))
  \/ /\ stage[s] = "asked" /\ v = "replay" /\ Holder(s)
     /\ G!Fresh(Proof(s)) /\ G!Burned(Proof(s))
  \/ stage[s] = "admitted" /\ v = "verified" /\ Genuine(asked[s])
  \/ stage[s] = "admitted" /\ v \in {"invalid", "error"} /\ ~Genuine(asked[s])

Answer(s) ==
  /\ Justified(s, answer'[s])
  /\ Become(s, "answered", answer'[s])
  /\ UNCHANGED <<clock, registry, spent, asked, held>>

\* The answer is on its way, or the request is abandoned.
Finish(s) ==
  /\ stage[s] # "idle" /\ Become(s, "idle", "none")
  /\ asked' = [asked EXCEPT ![s] = NoRequest]
  /\ held' = [held EXCEPT ![s] = {}]
  /\ UNCHANGED <<clock, registry, spent>>

Time == /\ clock' \in Clocks /\ clock' = clock + 1
        /\ UNCHANGED <<registry, spent, asked, held, stage, answer>>

Restart == /\ stage' = [s \in Slots |-> "idle"]
           /\ asked' = [s \in Slots |-> NoRequest]
           /\ held' = [s \in Slots |-> {}]
           /\ spent' = {}
           /\ answer' = [s \in Slots |-> "none"]
           /\ UNCHANGED <<clock, registry>>

Next ==
  \/ \E s \in Slots : Ask(s) \/ Admit(s) \/ Answer(s) \/ Finish(s)
  \/ \E u \in Users, k \in Keys \cup {NoKey} : Change(u, k)
  \/ Time
  \/ Restart

Spec == Init /\ [][Next]_avars
=============================================================================
