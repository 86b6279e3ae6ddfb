-------------------------- MODULE BankServer_proofs --------------------------
(***************************************************************************)
(* Safety of the bank server, for any set of connections, requests and     *)
(* users, any interleaving of the tasks, any clock.                        *)
(***************************************************************************)
EXTENDS BankServer, TLAPS

\* The parts of the state the arguments below look into, typed.
Shape ==
  /\ clock \in 0 .. MaxClock
  /\ registry \in [Users -> Keys \cup {NoKey}]
  /\ phase \in [Conns -> Phases]
  /\ sent \in [Conns -> Seq(Requests \cup {Garbage})]
  /\ got \in [Conns -> Nat]
  /\ outbox \in [Conns -> Seq(Responses)]
  /\ reply \in [Conns -> Responses]
  /\ held \in [Conns -> SUBSET (Keys \cup {NoKey})]
  /\ call \in [Conns -> RP!Proofs \cup {NoCall}]
  /\ verdict \in [Conns -> RP!Verdicts]
  /\ gone \subseteq Conns /\ killed \subseteq Conns

\* The request in service has been received and decoded.
InService ==
  \A c \in Conns :
    /\ Len(outbox[c]) <= got[c] /\ got[c] <= Len(sent[c])
    /\ phase[c] \in {"idle", "backlog"} => got[c] = 0
    /\ Serving(c) => got[c] > 0 /\ Req(c) \in Requests

\* A task waits for the mutex exactly where the code takes it, with the proof
\* of its request.
AtMutex ==
  \A c \in Conns :
    /\ phase[c] = "locked" => call[c] = ProofOf(Req(c))
    /\ call[c] # NoCall => phase[c] = "locked"

\* Past the look-up the bank has held the key of the request, past the mutex
\* its nonce is recorded.
Earned ==
  \A c \in Conns :
    /\ phase[c] \in {"check", "locked", "verify"} => Req(c).pk \in held[c]
    /\ phase[c] = "verify" => ProofOf(Req(c)) \in accepted
    /\ phase[c] = "reply" => reply[c].user = Req(c).user
    /\ Serving(c) => registry[Req(c).user] \in held[c]

BankInv ==
  /\ Shape /\ InService /\ AtMutex /\ Earned
  /\ SuccessIsEarned /\ RefusalIsEarned
  /\ AnswersInStep /\ UnansweredHasCause

\* The request of a serving task is one of the requests, and what is made of
\* it is typed.
LEMMA RequestTyped ==
  ASSUME BankInv, NEW c \in Conns, Serving(c)
  PROVE  /\ Req(c) \in AuthRequest
         /\ ProofOf(Req(c)) \in RP!Proofs
         /\ \A w \in Why : Reply(c, w) \in Responses
  BY BankServerAssumption
  DEF BankInv, InService, AuthRequest, ProofOf, Reply, Responses, RP!Proofs

\* The ways out of the registry look-up.
LEMMA LookupCases ==
  ASSUME BankInv, NEW c \in Conns, LookupKey(c)
  PROVE  \/ Goto(c, "check") /\ UNCHANGED reply /\ Req(c).pk = registry[Req(c).user]
         \/ \E w \in {"storage", "unregistered", "mismatch"} :
              /\ Answer(c, w)
              /\ w = "unregistered" => registry[Req(c).user] = NoKey
              /\ w = "mismatch" => registry[Req(c).user] \notin {NoKey, Req(c).pk}
  BY DEF LookupKey, Lookup

\* The ways out of the freshness test.  It traps only on an age that does not
\* fit an i64, which a clock in 0 .. MaxClock meets below MaxClock - Half.
LEMMA FreshCases ==
  ASSUME BankInv, NEW c \in Conns, CheckFresh(c)
  PROVE  \/ Goto(c, "locked") /\ UNCHANGED reply /\ RP!Enter(c, ProofOf(Req(c)))
         \/ Done(c, "closed") /\ RP!Refuse(c, ProofOf(Req(c)))
              /\ OverflowChecks /\ Req(c).ts <= MaxClock - Half
         \/ Answer(c, "stale") /\ RP!Refuse(c, ProofOf(Req(c)))
  <1>1. Req(c).ts \in RP!I64 /\ ProofOf(Req(c)).ts = Req(c).ts
    BY RequestTyped, ProtectorAssumption DEF CheckFresh, Serving, AuthRequest, ProofOf
  <1>2. /\ verdict \in [Conns -> RP!Verdicts] /\ clock \in 0 .. MaxClock
        /\ MaxClock \in Nat /\ Half \in Nat \ {0}
    BY ProtectorAssumption DEF RP!Readings, BankInv, Shape
  <1>3. ASSUME RP!Refuse(c, ProofOf(Req(c))), verdict'[c] = "panic"
        PROVE  OverflowChecks /\ Req(c).ts <= MaxClock - Half
    <2>1. RP!CheckFreshness(clock, Req(c).ts) = "panic"
      BY <1>1, <1>2, <1>3 DEF RP!Refuse
    <2>. QED
      BY <2>1, <1>1, <1>2 DEF RP!CheckFreshness, RP!I64
  <1>. QED
    BY <1>3 DEF CheckFresh

\* The ways out of the section under the mutex.
LEMMA NonceCases ==
  ASSUME BankInv, NEW c \in Conns, CheckNonce(c)
  PROVE  \/ Answer(c, "replay") /\ UNCHANGED accepted
         \/ /\ Goto(c, "verify") /\ UNCHANGED reply
            /\ accepted' = accepted \cup {call[c]}
  BY DEF CheckNonce, RP!Replayed, RP!Record

\* The ways out of the verification.
LEMMA VerifyCases ==
  ASSUME BankInv, NEW c \in Conns, VerifyProof(c)
  PROVE  \/ Done(c, "closed") /\ Req(c).form = "shortscalar"
         \/ \E w \in {"error", "verified", "invalid"} :
              Answer(c, w) /\ (w = "verified" <=> Genuine(Req(c)))
  BY RequestTyped DEF VerifyProof, Verify, Genuine, Serving, AuthRequest, Forms

\* The ways out of the send.
LEMMA SendCases ==
  ASSUME BankInv, NEW c \in Conns, SendReply(c)
  PROVE  \/ Write(c, reply[c]) /\ Done(c, "read")
         \/ Done(c, "closed") /\ UNCHANGED outbox
              /\ (c \in gone \/ reply[c].user \in LongUsers)
  BY DEF SendReply, TooLong

-----------------------------------------------------------------------------
\* What a step of the task of c between receiving and sending leaves alone.
Within(c) ==
  /\ Serving(c)
  /\ UNCHANGED <<clock, registry, sent, got, gone, outbox, killed, held>>
  /\ accepted \subseteq accepted'
  /\ call' \in [Conns -> RP!Proofs \cup {NoCall}]
  /\ verdict' \in [Conns -> RP!Verdicts]
  /\ \A d \in Conns \ {c} : call'[d] = call[d]

\* The task goes on to look at the next thing.
LEMMA GoesOn ==
  ASSUME BankInv, NEW c \in Conns, Within(c),
         NEW p \in {"check", "locked", "verify"}, Goto(c, p), UNCHANGED reply,
         p = "locked" => call'[c] = ProofOf(Req(c)),
         p # "locked" => call'[c] = NoCall,
         Req(c).pk \in held[c],
         p = "verify" => ProofOf(Req(c)) \in accepted'
  PROVE  BankInv'
  <1>. USE DEF BankInv, Within, Goto, Serving, Req, Shape
  <1>1. Shape'
    BY DEF Phases
  <1>2. InService'
    BY DEF InService
  <1>3. AtMutex'
    BY DEF AtMutex
  <1>4. Earned'
    BY DEF Earned
  <1>5. SuccessIsEarned'
    BY DEF SuccessIsEarned
  <1>6. RefusalIsEarned'
    BY DEF RefusalIsEarned
  <1>7. AnswersInStep'
    BY DEF AnswersInStep
  <1>8. UnansweredHasCause'
    BY DEF UnansweredHasCause
  <1>. QED
    BY <1>1, <1>2, <1>3, <1>4, <1>5, <1>6, <1>7, <1>8

\* The task decides on the response w.
LEMMA Decides ==
  ASSUME BankInv, NEW c \in Conns, Within(c),
         NEW w \in Why, Answer(c, w), call'[c] = NoCall,
         w = "verified" => /\ Genuine(Req(c)) /\ Req(c).pk \in held[c]
                           /\ ProofOf(Req(c)) \in accepted',
         w = "unregistered" => NoKey \in held[c],
         w = "mismatch" => held[c] \ {NoKey, Req(c).pk} # {}
  PROVE  BankInv'
  <1>. USE DEF BankInv, Within, Answer, Goto, Serving, Req, Shape
  <1>0. Reply(c, w) \in Responses
    BY RequestTyped
  <1>1. Shape'
    BY <1>0 DEF Phases
  <1>2. InService'
    BY DEF InService
  <1>3. AtMutex'
    BY DEF AtMutex
  <1>4. Earned'
    BY DEF Earned, Reply
  <1>5. SuccessIsEarned'
    BY DEF SuccessIsEarned, Reply
  <1>6. RefusalIsEarned'
    BY DEF RefusalIsEarned, Reply
  <1>7. AnswersInStep'
    BY DEF AnswersInStep
  <1>8. UnansweredHasCause'
    BY DEF UnansweredHasCause
  <1>. QED
    BY <1>1, <1>2, <1>3, <1>4, <1>5, <1>6, <1>7, <1>8

\* The task dies of its request.
LEMMA Dies ==
  ASSUME BankInv, NEW c \in Conns, Within(c),
         Done(c, "closed"), call'[c] = NoCall, Hopeless(Req(c))
  PROVE  BankInv'
  <1>. USE DEF BankInv, Within, Done, Goto, Serving, Req, Shape
  <1>1. Shape'
    BY DEF Phases, NoReply, Responses, Why
  <1>2. InService'
    BY DEF InService
  <1>3. AtMutex'
    BY DEF AtMutex
  <1>4. Earned'
    BY DEF Earned
  <1>5. SuccessIsEarned'
    BY DEF SuccessIsEarned
  <1>6. RefusalIsEarned'
    BY DEF RefusalIsEarned
  <1>7. AnswersInStep'
    BY DEF AnswersInStep
  <1>8. UnansweredHasCause'
    BY DEF UnansweredHasCause, AnswersInStep
  <1>. QED
    BY <1>1, <1>2, <1>3, <1>4, <1>5, <1>6, <1>7, <1>8

-----------------------------------------------------------------------------
\* LookupKey keeps the invariant.
LEMMA LookupKeeps ==
  ASSUME BankInv, NEW c \in Conns, LookupKey(c)
  PROVE  BankInv'
  <1>1. Within(c) /\ call'[c] = NoCall /\ registry[Req(c).user] \in held[c]
    BY DEF LookupKey, Within, Serving, rpvars, history, BankInv, Shape, AtMutex, Earned
  <1>2. CASE /\ Goto(c, "check") /\ UNCHANGED reply
             /\ Req(c).pk = registry[Req(c).user]
    BY <1>1, <1>2, GoesOn
  <1>3. ASSUME NEW w \in {"storage", "unregistered", "mismatch"}, Answer(c, w),
               w = "unregistered" => registry[Req(c).user] = NoKey,
               w = "mismatch" => registry[Req(c).user] \notin {NoKey, Req(c).pk}
        PROVE  BankInv'
    BY <1>1, <1>3, Decides DEF Why
  <1>. QED
    BY <1>2, <1>3, LookupCases

\* CheckFresh keeps the invariant.
LEMMA CheckFreshKeeps ==
  ASSUME BankInv, NEW c \in Conns, CheckFresh(c)
  PROVE  BankInv'
  <1>1. /\ Serving(c) /\ call[c] = NoCall /\ Req(c).pk \in held[c]
        /\ call \in [Conns -> RP!Proofs \cup {NoCall}]
        /\ verdict \in [Conns -> RP!Verdicts]
        /\ UNCHANGED <<registry, sent, got, gone, outbox, killed, held>>
        /\ ProofOf(Req(c)) \in RP!Proofs
    BY RequestTyped
    DEF CheckFresh, Serving, history, BankInv, Shape, AtMutex, Earned
  <1>2. ASSUME RP!Enter(c, ProofOf(Req(c)))
        PROVE  Within(c) /\ call'[c] = ProofOf(Req(c))
    BY <1>1, <1>2 DEF RP!Enter, RP!history, RP!Verdicts, Within
  <1>3. ASSUME RP!Refuse(c, ProofOf(Req(c)))
        PROVE  Within(c) /\ call'[c] = NoCall
    <2>1. RP!CheckFreshness(clock, ProofOf(Req(c)).ts) \in RP!Verdicts
      BY <1>3 DEF RP!Refuse, RP!CheckFreshness, RP!Verdicts
    <2>. QED
      BY <1>1, <1>3, <2>1 DEF RP!Refuse, RP!history, Within
  <1>4. CASE /\ Goto(c, "locked") /\ UNCHANGED reply
             /\ RP!Enter(c, ProofOf(Req(c)))
    BY <1>1, <1>2, <1>4, GoesOn
  <1>5. CASE /\ Done(c, "closed") /\ RP!Refuse(c, ProofOf(Req(c)))
             /\ OverflowChecks /\ Req(c).ts <= MaxClock - Half
    BY <1>3, <1>5, Dies DEF Hopeless
  <1>6. CASE Answer(c, "stale") /\ RP!Refuse(c, ProofOf(Req(c)))
    BY <1>3, <1>6, Decides DEF Why
  <1>. QED
    BY <1>4, <1>5, <1>6, FreshCases

\* CheckNonce keeps the invariant.
LEMMA CheckNonceKeeps ==
  ASSUME BankInv, NEW c \in Conns, CheckNonce(c)
  PROVE  BankInv'
  <1>1. /\ Serving(c) /\ call[c] = ProofOf(Req(c)) /\ Req(c).pk \in held[c]
        /\ call \in [Conns -> RP!Proofs \cup {NoCall}]
        /\ verdict \in [Conns -> RP!Verdicts]
    BY DEF CheckNonce, Serving, BankInv, Shape, AtMutex, Earned
  <1>2. Within(c) /\ call'[c] = NoCall
    BY <1>1
    DEF CheckNonce, Within, RP!Replayed, RP!Record, RP!Return, RP!Verdicts, history
  <1>3. CASE Answer(c, "replay") /\ UNCHANGED accepted
    BY <1>2, <1>3, Decides DEF Why
  <1>4. CASE /\ Goto(c, "verify") /\ UNCHANGED reply
             /\ accepted' = accepted \cup {call[c]}
    BY <1>1, <1>2, <1>4, GoesOn
  <1>. QED
    BY <1>3, <1>4, NonceCases

\* VerifyProof keeps the invariant.
LEMMA VerifyKeeps ==
  ASSUME BankInv, NEW c \in Conns, VerifyProof(c)
  PROVE  BankInv'
  <1>1. /\ Within(c) /\ call'[c] = NoCall /\ Req(c).pk \in held[c]
        /\ ProofOf(Req(c)) \in accepted'
    BY DEF VerifyProof, Within, Serving, rpvars, history, BankInv, Shape, AtMutex, Earned
  <1>2. CASE Done(c, "closed") /\ Req(c).form = "shortscalar"
    BY <1>1, <1>2, Dies DEF Hopeless
  <1>3. ASSUME NEW w \in {"error", "verified", "invalid"}, Answer(c, w),
               w = "verified" => Genuine(Req(c))
        PROVE  BankInv'
    BY <1>1, <1>3, Decides DEF Why
  <1>. QED
    BY <1>2, <1>3, VerifyCases

\* A response joins the ones written before it.
LEMMA Written ==
  ASSUME BankInv, NEW c \in Conns, NEW m \in Responses, Write(c, m)
  PROVE  /\ outbox' \in [Conns -> Seq(Responses)]
         /\ Len(outbox'[c]) = Len(outbox[c]) + 1
         /\ outbox'[c][Len(outbox[c]) + 1] = m
         /\ \A i \in 1 .. Len(outbox[c]) : outbox'[c][i] = outbox[c][i]
         /\ \A d \in Conns \ {c} : outbox'[d] = outbox[d]
  BY DEF Write, BankInv, Shape

\* SendReply keeps the invariant.
LEMMA SendReplyKeeps ==
  ASSUME BankInv, NEW c \in Conns, SendReply(c)
  PROVE  BankInv'
  <1>1. /\ phase[c] = "reply" /\ held' = [held EXCEPT ![c] = {}]
        /\ UNCHANGED <<clock, call, verdict, accepted, registry, sent, got, gone, killed>>
    BY DEF SendReply, rpvars
  <1>2. /\ Len(outbox[c]) = got[c] - 1 /\ got[c] > 0 /\ got[c] <= Len(sent[c])
        /\ Req(c) \in Requests /\ reply[c].user = Req(c).user
        /\ reply[c].why = "verified" => Genuine(Req(c))
        /\ reply[c] \in Responses /\ Req(c) # Garbage
    BY <1>1, BankServerAssumption
    DEF BankInv, Shape, InService, Earned, AnswersInStep, SuccessIsEarned, Serving
  <1>. USE <1>1, <1>2 DEF BankInv, Shape, Done, Goto, Serving, Req
  <1>3. CASE Write(c, reply[c]) /\ Done(c, "read")
    <2>1. /\ outbox' \in [Conns -> Seq(Responses)]
          /\ Len(outbox'[c]) = got[c] /\ outbox'[c][got[c]] = reply[c]
          /\ \A i \in 1 .. Len(outbox[c]) : outbox'[c][i] = outbox[c][i]
          /\ \A d \in Conns \ {c} : outbox'[d] = outbox[d]
      BY <1>3, Written
    <2>2. Shape'
      BY <1>3, <2>1 DEF Phases, NoReply, Responses, Why
    <2>3. InService'
      BY <1>3, <2>1 DEF InService
    <2>4. AtMutex'
      BY <1>3 DEF AtMutex
    <2>5. Earned' /\ SuccessIsEarned' /\ RefusalIsEarned'
      BY <1>3 DEF Earned, SuccessIsEarned, RefusalIsEarned
    <2>6. AnswersInStep'
      <3>1. /\ outbox'[c][got[c]].user = sent[c][got[c]].user
            /\ outbox'[c][got[c]].why = "verified" => Genuine(sent[c][got[c]])
            /\ sent[c][got[c]] # Garbage
        BY <2>1
      <3>2. \A i \in 1 .. Len(outbox'[c]) : i = got[c] \/ i \in 1 .. Len(outbox[c])
        BY <2>1
      <3>3. \A i \in 1 .. Len(outbox[c]) :
              IF sent[c][i] = Garbage THEN outbox'[c][i] = NoReply
              ELSE /\ outbox'[c][i].user = sent[c][i].user
                   /\ outbox'[c][i].why = "verified" => Genuine(sent[c][i])
        BY <2>1 DEF AnswersInStep
      <3>4. \A i \in 1 .. Len(outbox'[c]) :
              IF sent[c][i] = Garbage THEN outbox'[c][i] = NoReply
              ELSE /\ outbox'[c][i].user = sent[c][i].user
                   /\ outbox'[c][i].why = "verified" => Genuine(sent[c][i])
        BY <3>1, <3>2, <3>3
      <3>. QED
        BY <1>3, <2>1, <3>4 DEF AnswersInStep, NoReply, Genuine
    <2>7. UnansweredHasCause'
      BY <1>3, <2>1 DEF UnansweredHasCause
    <2>. QED
      BY <2>2, <2>3, <2>4, <2>5, <2>6, <2>7
  <1>4. CASE /\ Done(c, "closed") /\ UNCHANGED outbox
             /\ c \in gone \/ reply[c].user \in LongUsers
    <2>2. Shape'
      BY <1>4 DEF Phases, NoReply, Responses, Why
    <2>3. InService'
      BY <1>4 DEF InService
    <2>4. AtMutex'
      BY <1>4 DEF AtMutex
    <2>5. Earned' /\ SuccessIsEarned' /\ RefusalIsEarned'
      BY <1>4 DEF Earned, SuccessIsEarned, RefusalIsEarned
    <2>6. AnswersInStep'
      BY <1>4 DEF AnswersInStep
    <2>7. UnansweredHasCause'
      BY <1>4 DEF UnansweredHasCause, Hopeless
    <2>. QED
      BY <2>2, <2>3, <2>4, <2>5, <2>6, <2>7
  <1>. QED
    BY <1>3, <1>4, SendCases

\* Receive keeps the invariant.
LEMMA ReceiveKeeps ==
  ASSUME BankInv, NEW c \in Conns, Receive(c)
  PROVE  BankInv'
  <1>. USE DEF BankInv, Shape, Receive, Goto, Serving, Req, rpvars
  <1>1. /\ sent[c][got[c] + 1] \in Requests
        /\ got'[c] = got[c] + 1 /\ got'[c] <= Len(sent[c])
        /\ sent[c][got[c] + 1].user \in Users
    BY BankServerAssumption DEF InService, AuthRequest
  <1>2. Shape'
    BY <1>1 DEF Phases
  <1>3. InService'
    BY <1>1 DEF InService
  <1>4. AtMutex'
    BY DEF AtMutex
  <1>5. Earned' /\ SuccessIsEarned' /\ RefusalIsEarned'
    BY <1>1 DEF Earned, SuccessIsEarned, RefusalIsEarned
  <1>6. AnswersInStep'
    BY DEF AnswersInStep
  <1>7. UnansweredHasCause'
    BY DEF UnansweredHasCause
  <1>. QED
    BY <1>2, <1>3, <1>4, <1>5, <1>6, <1>7

\* ReceiveGarbage keeps the invariant.
LEMMA ReceiveGarbageKeeps ==
  ASSUME BankInv, NEW c \in Conns, ReceiveGarbage(c)
  PROVE  BankInv'
  <1>0. /\ phase[c] = "read" /\ phase' = [phase EXCEPT ![c] = "closed"]
        /\ got[c] < Len(sent[c]) /\ sent[c][got[c] + 1] = Garbage
        /\ got' = [got EXCEPT ![c] = @ + 1]
        /\ UNCHANGED <<clock, call, verdict, accepted, registry, sent, gone,
                       reply, killed, held>>
    BY DEF ReceiveGarbage, Goto, rpvars, history
  <1>. USE <1>0 DEF BankInv, Shape, Serving, Req
  <1>1. /\ got'[c] = got[c] + 1 /\ got'[c] <= Len(sent[c])
        /\ Len(outbox[c]) = got[c] /\ sent[c][got'[c]] = Garbage
        /\ NoReply \in Responses
    BY DEF InService, AnswersInStep, NoReply, Responses, Why
  <1>2. AtMutex' /\ Earned' /\ SuccessIsEarned' /\ RefusalIsEarned'
    BY DEF AtMutex, Earned, SuccessIsEarned, RefusalIsEarned
  <1>3. CASE Write(c, NoReply)
    <2>0. outbox' \in [Conns -> Seq(Responses)]
      BY <1>1, <1>3, Written
    <2>1. /\ outbox' \in [Conns -> Seq(Responses)]
          /\ Len(outbox'[c]) = got'[c] /\ outbox'[c][got'[c]] = NoReply
          /\ \A i \in 1 .. Len(outbox[c]) : outbox'[c][i] = outbox[c][i]
          /\ \A d \in Conns \ {c} : outbox'[d] = outbox[d]
      BY <1>1, <1>3, Written
    <2>2. Shape'
      <3>1. phase' \in [Conns -> Phases] /\ got' \in [Conns -> Nat]
        BY <1>0 DEF Phases
      <3>. QED
        BY <1>0, <2>0, <3>1 DEF Responses
    <2>3. InService'
      BY <1>1, <2>1 DEF InService
    <2>4. AnswersInStep'
      <3>1. \A i \in 1 .. Len(outbox'[c]) : i = got'[c] \/ i \in 1 .. Len(outbox[c])
        BY <1>1, <2>1
      <3>2. \A i \in 1 .. Len(outbox[c]) :
              IF sent[c][i] = Garbage THEN outbox'[c][i] = NoReply
              ELSE /\ outbox'[c][i].user = sent[c][i].user
                   /\ outbox'[c][i].why = "verified" => Genuine(sent[c][i])
        BY <1>1, <2>1 DEF AnswersInStep
      <3>3. \A i \in 1 .. Len(outbox'[c]) :
              IF sent[c][i] = Garbage THEN outbox'[c][i] = NoReply
              ELSE /\ outbox'[c][i].user = sent[c][i].user
                   /\ outbox'[c][i].why = "verified" => Genuine(sent[c][i])
        BY <1>1, <2>1, <3>1, <3>2
      <3>. QED
        BY <1>1, <2>1, <3>3 DEF AnswersInStep, NoReply, Genuine
    <2>5. UnansweredHasCause'
      BY <1>1, <2>1 DEF UnansweredHasCause
    <2>. QED
      BY <1>2, <2>2, <2>3, <2>4, <2>5
  <1>4. CASE c \in gone /\ UNCHANGED outbox
    <2>1. Shape'
      BY <1>4 DEF Phases
    <2>2. InService'
      BY <1>1, <1>4 DEF InService
    <2>3. AnswersInStep'
      BY <1>4 DEF AnswersInStep
    <2>4. UnansweredHasCause'
      BY <1>1, <1>4 DEF UnansweredHasCause
    <2>. QED
      BY <1>2, <2>1, <2>2, <2>3, <2>4
  <1>. QED
    BY <1>3, <1>4 DEF ReceiveGarbage

\* EndOfStream keeps the invariant.
LEMMA EndOfStreamKeeps ==
  ASSUME BankInv, NEW c \in Conns, EndOfStream(c)
  PROVE  BankInv'
  <1>. USE DEF BankInv, Shape, EndOfStream, Goto, Serving, Req, rpvars, history
  <1>1. Shape'
    BY DEF Phases
  <1>2. InService'
    BY DEF InService
  <1>3. AtMutex' /\ Earned' /\ SuccessIsEarned' /\ RefusalIsEarned'
    BY DEF AtMutex, Earned, SuccessIsEarned, RefusalIsEarned
  <1>4. AnswersInStep' /\ UnansweredHasCause'
    BY DEF AnswersInStep, UnansweredHasCause
  <1>. QED
    BY <1>1, <1>2, <1>3, <1>4

-----------------------------------------------------------------------------
\* Accepting a connection, and what a client does.
LEMMA ClientKeeps ==
  ASSUME BankInv, NEW c \in Conns, Connect(c) \/ Leave(c) \/ Accept(c)
  PROVE  BankInv'
  <1>. USE DEF BankInv, Shape, Connect, Leave, Accept, Goto, Serving, Req, rpvars, history
  <1>1. Shape'
    BY DEF Phases
  <1>2. InService'
    BY DEF InService
  <1>3. AtMutex'
    BY DEF AtMutex
  <1>4. Earned'
    BY DEF Earned
  <1>5. SuccessIsEarned' /\ RefusalIsEarned'
    BY DEF SuccessIsEarned, RefusalIsEarned
  <1>6. AnswersInStep'
    BY DEF AnswersInStep, InService
  <1>7. UnansweredHasCause'
    BY DEF UnansweredHasCause
  <1>. QED
    BY <1>1, <1>2, <1>3, <1>4, <1>5, <1>6, <1>7

\* A client's frame joins the ones sent before it.
LEMMA SendKeeps ==
  ASSUME BankInv, NEW c \in Conns, NEW m \in Requests \cup {Garbage}, Send(c, m)
  PROVE  BankInv'
  <1>. USE DEF BankInv, Send, rpvars, history
  <1>1. /\ sent' \in [Conns -> Seq(Requests \cup {Garbage})]
        /\ \A d \in Conns : /\ Len(sent[d]) <= Len(sent'[d])
                            /\ \A i \in 1 .. Len(sent[d]) : sent'[d][i] = sent[d][i]
    BY DEF Shape
  <1>2. /\ got \in [Conns -> Nat]
        /\ UNCHANGED <<call, verdict, accepted, phase, got, gone, killed,
                       registry, held, reply, outbox>>
        /\ \A d \in Conns : Serving(d) => /\ Req(d)' = Req(d) /\ Serving(d)'
                                          /\ got[d] \in 1 .. Len(sent[d])
    BY <1>1 DEF Shape, InService, Serving, Req
  <1>3. Shape'
    BY <1>1 DEF Shape
  <1>4. InService'
    BY <1>1, <1>2 DEF InService, Serving, Shape
  <1>5. AtMutex' /\ Earned'
    BY <1>2 DEF AtMutex, Earned, Serving
  <1>6. SuccessIsEarned' /\ RefusalIsEarned'
    BY <1>2 DEF SuccessIsEarned, RefusalIsEarned, Serving
  <1>7. AnswersInStep'
    BY <1>1, <1>2 DEF AnswersInStep, InService, Shape, Serving
  <1>8. UnansweredHasCause'
    BY <1>1, <1>2 DEF UnansweredHasCause, InService, Shape, Req
  <1>. QED
    BY <1>3, <1>4, <1>5, <1>6, <1>7, <1>8

\* A change of the registry is seen by every request it concerns.
LEMMA RegistryKeeps ==
  ASSUME BankInv, NEW u \in Users, NEW k \in Keys \cup {NoKey}, RegistryBecomes(u, k)
  PROVE  BankInv'
  <1>. USE DEF BankInv, Shape, RegistryBecomes, Serving, Req, rpvars, conn
  <1>1. Shape' /\ InService'
    BY DEF InService
  <1>2. AtMutex' /\ Earned'
    BY DEF AtMutex, Earned
  <1>3. SuccessIsEarned' /\ RefusalIsEarned'
    BY DEF SuccessIsEarned, RefusalIsEarned
  <1>4. AnswersInStep' /\ UnansweredHasCause'
    BY DEF AnswersInStep, UnansweredHasCause
  <1>. QED
    BY <1>1, <1>2, <1>3, <1>4

-----------------------------------------------------------------------------
\* StopAccepting keeps the invariant.
LEMMA StopKeeps ==
  ASSUME BankInv, StopAccepting
  PROVE  BankInv'
  <1>. USE DEF BankInv, Shape, StopAccepting, Serving, Req, rpvars
  <1>1. Shape' /\ InService'
    BY DEF Phases, InService
  <1>2. AtMutex' /\ Earned' /\ SuccessIsEarned' /\ RefusalIsEarned'
    BY DEF AtMutex, Earned, SuccessIsEarned, RefusalIsEarned
  <1>3. AnswersInStep'
    BY DEF AnswersInStep
  <1>4. UnansweredHasCause'
    <2>1. \A c \in Conns : phase[c] = "backlog" => got[c] = 0
      BY DEF InService
    <2>2. \A c \in Conns : phase'[c] = "closed" /\ Len(outbox[c]) < got[c]
                            => phase[c] = "closed"
      BY <2>1
    <2>. QED
      BY <2>2 DEF UnansweredHasCause
  <1>. QED
    BY <1>1, <1>2, <1>3, <1>4

\* ProcessEnds keeps the invariant: what it cuts off is in killed.
LEMMA ProcessEndsKeeps ==
  ASSUME BankInv, ProcessEnds
  PROVE  BankInv'
  <1>. USE DEF BankInv, Shape, ProcessEnds, RP!Forget, Serving, Req
  <1>1. Shape'
    BY DEF Phases, NoReply, Responses, Why, RP!Verdicts
  <1>2. InService' /\ AtMutex'
    BY DEF InService, AtMutex
  <1>3. Earned' /\ SuccessIsEarned' /\ RefusalIsEarned'
    BY DEF Earned, SuccessIsEarned, RefusalIsEarned
  <1>4. AnswersInStep'
    BY DEF AnswersInStep
  <1>5. UnansweredHasCause'
    <2>1. \A c \in Conns : Len(outbox[c]) < got[c] /\ phase[c] # "closed"
                            => c \in killed' /\ Len(outbox[c]) = got[c] - 1
      BY DEF InService, AnswersInStep, Phases
    <2>. QED
      BY <2>1 DEF UnansweredHasCause
  <1>. QED
    BY <1>1, <1>2, <1>3, <1>4, <1>5

\* A signal, a boot, the passing of time and stuttering touch no part of it.
LEMMA RestKeeps ==
  ASSUME BankInv,
         ShutdownSignal \/ Boot \/ Tick \/ StepBack \/ UNCHANGED vars
  PROVE  BankInv'
  <1>1. /\ UNCHANGED <<call, verdict, accepted, registry, conn, history>>
        /\ clock' \in 0 .. MaxClock
    BY ProtectorAssumption
    DEF ShutdownSignal, Boot, Tick, StepBack, RP!Tick, RP!StepBack, RP!history,
        RP!Readings, rpvars, vars, BankInv, Shape
  <1>. USE <1>1 DEF BankInv, Shape, conn, history, Serving, Req
  <1>2. Shape' /\ InService'
    BY DEF InService
  <1>3. AtMutex' /\ Earned' /\ SuccessIsEarned' /\ RefusalIsEarned'
    BY DEF AtMutex, Earned, SuccessIsEarned, RefusalIsEarned
  <1>4. AnswersInStep' /\ UnansweredHasCause'
    BY DEF AnswersInStep, UnansweredHasCause
  <1>. QED
    BY <1>2, <1>3, <1>4

-----------------------------------------------------------------------------
\* The invariant holds at the start.
LEMMA Initially ==
  ASSUME Init
  PROVE  BankInv
  <1>. USE DEF Init, RP!Init, BankInv, Serving
  <1>1. Shape
    BY DEF Shape, Phases, NoReply, Responses, Why, RP!Verdicts
  <1>2. InService /\ AtMutex /\ Earned /\ SuccessIsEarned /\ RefusalIsEarned
    BY DEF InService, AtMutex, Earned, SuccessIsEarned, RefusalIsEarned
  <1>3. AnswersInStep /\ UnansweredHasCause
    BY DEF AnswersInStep, UnansweredHasCause
  <1>. QED
    BY <1>1, <1>2, <1>3

\* Every step keeps the invariant.
LEMMA Steps ==
  ASSUME BankInv, [Next]_vars
  PROVE  BankInv'
  <1>1. ASSUME NEW c \in Conns, Handle(c)
        PROVE  BankInv'
    BY <1>1, ReceiveKeeps, ReceiveGarbageKeeps, EndOfStreamKeeps, LookupKeeps,
       CheckFreshKeeps, CheckNonceKeeps, VerifyKeeps, SendReplyKeeps DEF Handle
  <1>2. ASSUME NEW u \in Users, Remove(u) \/ \E k \in Keys : Register(u, k)
        PROVE  BankInv'
    BY <1>2, RegistryKeeps DEF Register, Remove
  <1>. QED
    BY <1>1, <1>2, ClientKeeps, SendKeeps, StopKeeps, ProcessEndsKeeps, RestKeeps
    DEF Next

\* The inductive invariant holds of every behaviour.
LEMMA Invariant == Spec => []BankInv
  <1>1. Init => BankInv
    BY Initially
  <1>2. BankInv /\ [Next]_vars => BankInv'
    BY Steps
  <1>. QED
    BY <1>1, <1>2, PTL DEF Spec

-----------------------------------------------------------------------------
(***************************************************************************)
(* What is known of the protector's own steps, whoever its callers are.    *)
(***************************************************************************)
PP == INSTANCE ReplayProtector_proofs WITH
  Callers <- Conns, Restarts <- TRUE, earlier <- {}, restartedAt <- 0

\* The assumptions under which those results hold are met here.
LEMMA ProtectorReady == PP!FreshnessAssumption /\ PP!ReplayProtectorAssumption
  BY ProtectorAssumption
  DEF RP!Readings, RP!I64, RP!Proofs, PP!Readings, PP!I64, PP!Proofs

\* The operators of the two instances of the protector are the same.
LEMMA SameProtector ==
  /\ RP!Proofs = PP!Proofs
  /\ RP!Init <=> PP!Init
  /\ RP!TypeOK <=> PP!TypeOK
  /\ RP!Tick \/ RP!StepBack <=> PP!Tick \/ PP!StepBack
  /\ RP!Forget <=> PP!Forget
  /\ \A c \in Conns : /\ RP!Waiting(c) <=> PP!Waiting(c)
                      /\ RP!Replayed(c) <=> PP!Replayed(c)
                      /\ RP!Record(c) <=> PP!Record(c)
  /\ \A c \in Conns, p \in RP!Proofs :
       /\ RP!Enter(c, p) <=> PP!Enter(c, p)
       /\ RP!Refuse(c, p) <=> PP!Refuse(c, p)
  <1>1. /\ RP!Proofs = PP!Proofs
        /\ RP!Init <=> PP!Init
        /\ RP!Forget <=> PP!Forget
    BY DEF RP!Proofs, PP!Proofs, RP!Init, PP!Init, RP!Forget, PP!Forget
  <1>2. RP!TypeOK <=> PP!TypeOK
    BY DEF RP!TypeOK, PP!TypeOK, RP!Proofs, PP!Proofs, RP!Verdicts, PP!Verdicts
  <1>3. RP!Tick \/ RP!StepBack <=> PP!Tick \/ PP!StepBack
    BY DEF RP!Tick, RP!StepBack, PP!Tick, PP!StepBack, RP!history, PP!history, RP!Waiting, PP!Waiting
  <1>4. ASSUME NEW c \in Conns
        PROVE  /\ RP!Waiting(c) <=> PP!Waiting(c)
               /\ RP!Replayed(c) <=> PP!Replayed(c)
               /\ RP!Record(c) <=> PP!Record(c)
    BY DEF RP!Record, PP!Record, RP!Replayed, PP!Replayed, RP!Waiting, PP!Waiting, RP!Key, PP!Key, RP!Kept, PP!Kept,
           RP!Restrict, PP!Restrict, RP!Return, PP!Return
  <1>5. ASSUME NEW c \in Conns, NEW p \in RP!Proofs
        PROVE  /\ RP!Enter(c, p) <=> PP!Enter(c, p)
               /\ RP!Refuse(c, p) <=> PP!Refuse(c, p)
    BY DEF RP!Enter, PP!Enter, RP!Refuse, PP!Refuse, RP!history, PP!history, RP!Waiting, PP!Waiting,
      RP!CheckFreshness, PP!CheckFreshness, RP!Wrap, PP!Wrap, RP!I64, PP!I64
  <1>. QED
    BY <1>1, <1>2, <1>3, <1>4, <1>5, Zenon

\* Every step of the server is one of the protector's, or the end of the process.
LEMMA ProtectorSteps ==
  ASSUME BankInv, [Next]_vars
  PROVE  [PP!Next]_(PP!vars) \/ RP!Forget
  <1>1. UNCHANGED rpvars => UNCHANGED PP!vars
    BY DEF rpvars, PP!vars
  <1>2. ASSUME NEW c \in Conns, CheckFresh(c) \/ CheckNonce(c)
        PROVE  PP!Next
    <2>1. CASE CheckFresh(c)
      <3>1. ProofOf(Req(c)) \in RP!Proofs
        BY <2>1, RequestTyped DEF CheckFresh, Serving
      <3>. QED
        BY <2>1, <3>1, SameProtector DEF CheckFresh, PP!Next
    <2>2. CASE CheckNonce(c)
      BY <2>2, SameProtector DEF CheckNonce, PP!Next
    <2>. QED
      BY <1>2, <2>1, <2>2
  <1>3. Tick \/ StepBack => PP!Next
    BY SameProtector DEF Tick, StepBack, PP!Next
  <1>4. ProcessEnds => RP!Forget
    BY DEF ProcessEnds
  <1>5. ASSUME NEW c \in Conns,
               \/ Connect(c) \/ Leave(c) \/ Accept(c)
               \/ \E m \in Requests \cup {Garbage} : Send(c, m)
               \/ Receive(c) \/ ReceiveGarbage(c) \/ EndOfStream(c)
               \/ LookupKey(c) \/ VerifyProof(c) \/ SendReply(c)
        PROVE  UNCHANGED rpvars
    BY <1>5 DEF Connect, Leave, Accept, Send, Receive, ReceiveGarbage, EndOfStream,
                LookupKey, VerifyProof, SendReply
  <1>6. ASSUME \/ ShutdownSignal \/ StopAccepting \/ Boot \/ UNCHANGED vars
               \/ \E u \in Users : Remove(u) \/ \E k \in Keys : Register(u, k)
        PROVE  UNCHANGED rpvars
    BY <1>6 DEF ShutdownSignal, StopAccepting, Boot, vars, Remove, Register, RegistryBecomes
  <1>. QED
    BY <1>1, <1>2, <1>3, <1>4, <1>5, <1>6 DEF Next, Handle

\* So the protector's invariant holds of the table the tasks share.
LEMMA ProtectorInvariant == Spec => []PP!ReplayInv
  <1>1. Init => PP!ReplayInv
    BY ProtectorReady, SameProtector, PP!InitReplayInv DEF Init
  <1>2. BankInv /\ PP!ReplayInv /\ [Next]_vars => PP!ReplayInv'
    BY ProtectorSteps, ProtectorReady, SameProtector, PP!StepReplayInv, PP!ForgetReplayInv
  <1>. QED
    BY <1>1, <1>2, Invariant, PTL DEF Spec

ServerTyped == server \in {"up", "signalled", "draining", "down"}

(***************************************************************************)
(* Every reachable state of the server, its tasks, its table and its       *)
(* clients (handle_connection, check_and_record) is well typed.            *)
(***************************************************************************)
THEOREM BankTypeCorrect == Spec => []BankTypeOK
  <1>1. PP!ReplayInv => RP!TypeOK
    BY SameProtector DEF PP!ReplayInv
  <1>2. Init => ServerTyped
    BY DEF Init, ServerTyped
  <1>3. ServerTyped /\ [Next]_vars => ServerTyped'
    BY DEF ServerTyped, Next, Handle, Connect, Leave, Accept, Send, Receive, ReceiveGarbage,
       EndOfStream, LookupKey, CheckFresh, CheckNonce, VerifyProof, SendReply,
       Register, Remove, RegistryBecomes, ShutdownSignal, StopAccepting,
       ProcessEnds, Boot, Tick, StepBack, vars
  <1>4. BankInv /\ RP!TypeOK /\ ServerTyped => BankTypeOK
    BY DEF ServerTyped, BankInv, Shape, InService, BankTypeOK
  <1>. QED
    BY <1>1, <1>2, <1>3, <1>4, Invariant, ProtectorInvariant, PTL DEF Spec

-----------------------------------------------------------------------------
(***************************************************************************)
(* "verified" is said only of a request made with the secret key of the    *)
(* key it names, held by the bank for its user since the request arrived,  *)
(* and with its nonce recorded (handle_connection).                        *)
(***************************************************************************)
THEOREM VerdictsEarned == Spec => []SuccessIsEarned
  BY Invariant, PTL DEF BankInv

(***************************************************************************)
(* "not registered" and "mismatch" are said only of what the registry held *)
(* at some moment since the request arrived.                               *)
(***************************************************************************)
THEOREM RefusalsEarned == Spec => []RefusalIsEarned
  BY Invariant, PTL DEF BankInv

(***************************************************************************)
(* Responses answer the requests of their connection one for one, in       *)
(* order, and no "verified" stands where no genuine request stood.         *)
(***************************************************************************)
THEOREM AnswersMatch == Spec => []AnswersInStep
  BY Invariant, PTL DEF BankInv

(***************************************************************************)
(* A received request goes unanswered only for one of the named causes.    *)
(***************************************************************************)
THEOREM SilenceHasCause == Spec => []UnansweredHasCause
  BY Invariant, PTL DEF BankInv

(***************************************************************************)
(* A nonce is spent only by a request that names a key the bank held.      *)
(***************************************************************************)
THEOREM SpentUnderHeldKey == Spec => NonceSpentUnderHeldKey
  <1>1. ASSUME BankInv, [Next]_vars
        PROVE  \A c \in Conns, p \in RP!Proofs :
                 RP!Accepts(c, p) => p = ProofOf(Req(c)) /\ Req(c).pk \in held[c]
    <2>1. ASSUME NEW c \in Conns, NEW p \in RP!Proofs, RP!Accepts(c, p)
          PROVE  phase[c] = "locked" /\ p = call[c]
      BY <1>1, <2>1, ProtectorAssumption DEF RP!Accepts, BankInv, AtMutex
    <2>. QED
      BY <1>1, <2>1 DEF BankInv, AtMutex, Earned
  <1>2. BankInv /\ [Next]_vars
        => [\A c \in Conns, p \in RP!Proofs :
              RP!Accepts(c, p) => /\ p = ProofOf(Req(c))
                                  /\ Req(c).pk \in held[c]]_vars
    BY <1>1
  <1>. QED
    BY <1>2, Invariant, PTL DEF Spec, NonceSpentUnderHeldKey
-----------------------------------------------------------------------------
(***************************************************************************)
(* The service.  What the tasks do is what the service promises while no   *)
(* lock wait spans a second and the clock is not set back.                 *)
(***************************************************************************)
ServiceInv == BankInv /\ PP!ReplayInv /\ PP!ReadingsCurrent

\* The stage of a request follows the place where its task stands.
LEMMA StageValues ==
  /\ \A p \in {"lookup", "check", "locked"} : StageFor(p) = "asked"
  /\ StageFor("verify") = "admitted" /\ StageFor("reply") = "answered"
  /\ \A p \in {"idle", "backlog", "read", "closed"} : StageFor(p) = "idle"
  <1>1. ASSUME NEW p \in {"lookup", "check", "locked"}
        PROVE  StageFor(p) = "asked"
    BY DEF StageFor
  <1>2. StageFor("verify") = "admitted" /\ StageFor("reply") = "answered"
    BY DEF StageFor
  <1>3. ASSUME NEW p \in {"idle", "backlog", "read", "closed"}
        PROVE  StageFor(p) = "idle"
    BY DEF StageFor
  <1>. QED
    BY <1>1, <1>2, <1>3

\* What the service sees of a task that goes on with its request,
LEMMA StaysInService ==
  ASSUME Shape, NEW c \in Conns, Serving(c),
         NEW p \in {"lookup", "check", "locked", "verify", "reply"}, Goto(c, p),
         UNCHANGED <<sent, got, held>>,
         \A d \in Conns \ {c} : reply'[d] = reply[d]
  PROVE  /\ UNCHANGED <<Asked, Known>>
         /\ Stage' = [Stage EXCEPT ![c] = StageFor(p)]
         /\ Told' = [Told EXCEPT ![c] = IF p = "reply" THEN reply'[c].why ELSE "none"]
  BY DEF Shape, Goto, Serving, Req, Asked, Known, Stage, Told

\* in particular of one that has decided nothing yet,
LEMMA StaysAsked ==
  ASSUME Shape, NEW c \in Conns, phase[c] \in {"lookup", "check"},
         NEW p \in {"check", "locked"}, Goto(c, p),
         UNCHANGED <<clock, registry, accepted, sent, got, held, reply>>
  PROVE  UNCHANGED Service!avars
  <1>1. /\ \A d \in Conns : StageFor(phase'[d]) = StageFor(phase[d])
        /\ \A d \in Conns : phase'[d] = "reply" <=> phase[d] = "reply"
        /\ \A d \in Conns : Serving(d)' <=> Serving(d)
    BY StageValues DEF Shape, Goto, Serving
  <1>2. UNCHANGED <<Asked, Known, Stage, Told>>
    BY <1>1 DEF Asked, Known, Stage, Told, Req
  <1>. QED
    BY <1>2 DEF Service!avars

\* of one that is done with it,
LEMMA LeavesService ==
  ASSUME Shape, NEW c \in Conns, Serving(c),
         NEW p \in {"read", "closed"}, Done(c, p),
         UNCHANGED <<clock, registry, accepted, sent, got>>,
         \A d \in Conns \ {c} : held'[d] = held[d]
  PROVE  Service!Finish(c)
  <1>1. /\ Asked' = [Asked EXCEPT ![c] = Garbage]
        /\ Known' = [Known EXCEPT ![c] = {}]
        /\ Stage' = [Stage EXCEPT ![c] = "idle"]
        /\ Told' = [Told EXCEPT ![c] = "none"]
    BY StageValues DEF Shape, Done, Goto, Serving, Req, Asked, Known, Stage, Told
  <1>2. Stage[c] # "idle" /\ Stage'[c] = "idle"
    BY <1>1, StageValues DEF Serving, Stage
  <1>. QED
    BY <1>1, <1>2 DEF Service!Finish, Service!Become

\* and of one that has decided, given that the service may decide so.
LEMMA AnswersService ==
  ASSUME Shape, NEW c \in Conns, Serving(c), phase[c] # "reply",
         NEW w \in Why, Answer(c, w),
         UNCHANGED <<clock, registry, accepted, sent, got, held>>,
         Service!Justified(c, w)
  PROVE  Service!Answer(c)
  <1>1. /\ phase' = [phase EXCEPT ![c] = "reply"] /\ reply'[c].why = w
        /\ \A d \in Conns \ {c} : reply'[d] = reply[d]
    BY DEF Answer, Goto, Shape, Reply
  <1>2. /\ UNCHANGED <<Asked, Known>>
        /\ Stage' = [Stage EXCEPT ![c] = "answered"]
        /\ Told' = [Told EXCEPT ![c] = w]
    BY <1>1, StageValues, StaysInService DEF Goto
  <1>3. Stage'[c] = "answered" /\ Told'[c] = w
    BY <1>2 DEF Stage, Told
  <1>. QED
    BY <1>2, <1>3 DEF Service!Answer, Service!Become

\* The request of a task, and what is known of it, as the service has them.
LEMMA AsSeen ==
  ASSUME NEW c \in Conns, Serving(c)
  PROVE  /\ Asked[c] = Req(c) /\ Known[c] = held[c]
         /\ Stage[c] = StageFor(phase[c])
         /\ Service!Proof(c) = ProofOf(Req(c))
         /\ Service!Holder(c) <=> Req(c).pk \in held[c]
         /\ Service!Genuine(Asked[c]) <=> Genuine(Req(c))
  BY DEF Asked, Known, Stage, Service!Proof, Service!ProofOf, ProofOf,
         Service!Holder, Service!Genuine, Genuine

\* Receiving a request asks the service.
LEMMA ReceiveAsks ==
  ASSUME BankInv, NEW c \in Conns, Receive(c)
  PROVE  Service!Ask(c)
  <1>. DEFINE m == sent[c][got[c] + 1]
  <1>1. /\ phase[c] = "read" /\ phase' = [phase EXCEPT ![c] = "lookup"]
        /\ got' = [got EXCEPT ![c] = got[c] + 1] /\ m \in Requests
        /\ held' = [held EXCEPT ![c] = {registry[m.user]}]
        /\ UNCHANGED <<clock, accepted, registry, sent, reply>>
    BY DEF Receive, Goto, rpvars, BankInv, Shape
  <1>2. /\ Asked' = [Asked EXCEPT ![c] = m]
        /\ Known' = [Known EXCEPT ![c] = {registry[m.user]}]
        /\ Told' = [Told EXCEPT ![c] = "none"]
    BY <1>1 DEF BankInv, Shape, Serving, Req, Asked, Known, Told
  <1>3. Stage' = [Stage EXCEPT ![c] = "asked"]
    BY <1>1, StageValues DEF BankInv, Shape, Stage
  <1>4. m \in Service!AuthRequest
    BY <1>1, BankServerAssumption DEF Service!AuthRequest, AuthRequest, Service!Forms, Forms
  <1>5. Stage[c] = "idle" /\ Stage'[c] = "asked" /\ Asked'[c] = m
    BY <1>1, <1>2, <1>3, StageValues DEF Stage, Asked
  <1>. QED
    BY <1>1, <1>2, <1>3, <1>4, <1>5 DEF Service!Ask, Service!Become

\* The registry look-up answers by what the registry holds, or goes on.
LEMMA LookupServes ==
  ASSUME BankInv, NEW c \in Conns, LookupKey(c)
  PROVE  Service!Answer(c) \/ UNCHANGED Service!avars
  <1>1. /\ Serving(c) /\ phase[c] = "lookup" /\ registry[Req(c).user] \in held[c]
        /\ UNCHANGED <<clock, registry, accepted, sent, got, held>>
    BY DEF LookupKey, Serving, rpvars, history, BankInv, Earned
  <1>2. CASE Goto(c, "check") /\ UNCHANGED reply
    BY <1>1, <1>2, StaysAsked DEF BankInv
  <1>3. ASSUME NEW w \in {"storage", "unregistered", "mismatch"}, Answer(c, w),
               w = "unregistered" => registry[Req(c).user] = NoKey,
               w = "mismatch" => registry[Req(c).user] \notin {NoKey, Req(c).pk}
        PROVE  Service!Answer(c)
    <2>1. Service!Justified(c, w)
      BY <1>1, <1>3, AsSeen, StageValues DEF Service!Justified
    <2>. QED
      BY <1>1, <1>3, <2>1, AnswersService DEF BankInv, Why
  <1>. QED
    BY <1>2, <1>3, LookupCases

\* The freshness test goes on, traps, or answers of a proof that is stale.
LEMMA FreshServes ==
  ASSUME ServiceInv, NEW c \in Conns, CheckFresh(c)
  PROVE  Service!Answer(c) \/ Service!Finish(c) \/ UNCHANGED Service!avars
  <1>. USE DEF ServiceInv
  <1>1. /\ Serving(c) /\ phase[c] = "check" /\ Req(c).pk \in held[c]
        /\ UNCHANGED <<clock, registry, accepted, sent, got, held>>
    BY DEF CheckFresh, Serving, RP!Enter, RP!Refuse, RP!history, history, BankInv, Earned
  <1>2. CASE Goto(c, "locked") /\ UNCHANGED reply
    BY <1>1, <1>2, StaysAsked DEF BankInv
  <1>3. CASE Done(c, "closed")
    BY <1>1, <1>3, LeavesService DEF BankInv
  <1>4. CASE Answer(c, "stale") /\ RP!Refuse(c, ProofOf(Req(c)))
    <2>1. ProofOf(Req(c)).ts \notin clock - MaxDrift .. clock + MaxDrift
      BY <1>1, <1>4, RequestTyped, ProtectorReady, SameProtector, PP!RefusedIsStale
      DEF PP!ReplayInv
    <2>2. Service!Justified(c, "stale")
      BY <1>1, <2>1, AsSeen, StageValues DEF Service!Justified, Service!G!Fresh
    <2>. QED
      BY <1>1, <1>4, <2>2, AnswersService DEF BankInv, Why
  <1>. QED
    BY <1>2, <1>3, <1>4, FreshCases

\* Under the mutex a proof is admitted, or answered for as a replay.
LEMMA NonceServes ==
  ASSUME ServiceInv, NEW c \in Conns, CheckNonce(c)
  PROVE  Service!Answer(c) \/ Service!Admit(c)
  <1>. USE DEF ServiceInv
  <1>1. /\ Serving(c) /\ phase[c] = "locked" /\ Req(c).pk \in held[c]
        /\ call[c] = ProofOf(Req(c)) /\ PP!Waiting(c)
        /\ UNCHANGED <<clock, registry, sent, got, held>>
    BY SameProtector
    DEF CheckNonce, Serving, RP!Replayed, RP!Record, RP!Return, history, BankInv,
        AtMutex, Earned
  <1>2. Service!G!Fresh(Service!Proof(c))
    BY <1>1, AsSeen, ProtectorReady, PP!WaitingIsFresh DEF Service!G!Fresh
  <1>3. CASE RP!Replayed(c) /\ Answer(c, "replay")
    <2>1. PICK q \in accepted : /\ PP!Key(q) = PP!Key(call[c])
                                /\ q.ts >= clock - MaxDrift
      BY <1>3, ProtectorReady, SameProtector, PP!ReplayedIsBurned
    <2>2. Service!G!Burned(Service!Proof(c))
      BY <1>1, <2>1, AsSeen DEF PP!Key, Service!G!Burned
    <2>3. Service!Justified(c, "replay")
      BY <1>1, <1>2, <2>2, AsSeen, StageValues DEF Service!Justified
    <2>. QED
      BY <1>1, <1>3, <2>3, AnswersService DEF RP!Replayed, BankInv, Why
  <1>4. CASE RP!Record(c) /\ Goto(c, "verify") /\ UNCHANGED reply
    <2>1. \A q \in accepted : PP!Key(q) = PP!Key(call[c]) => ~(q.ts >= clock - MaxDrift)
      BY <1>4, ProtectorReady, SameProtector, PP!RecordIsUnburned
    <2>2. ~Service!G!Burned(Service!Proof(c))
      BY <1>1, <2>1, AsSeen DEF PP!Key, Service!G!Burned
    <2>3. accepted' = accepted \cup {Service!Proof(c)}
      BY <1>1, <1>4, AsSeen DEF RP!Record
    <2>4. /\ UNCHANGED <<Asked, Known>> /\ Stage' = [Stage EXCEPT ![c] = "admitted"]
          /\ Told' = [Told EXCEPT ![c] = "none"]
      BY <1>1, <1>4, StaysInService, StageValues DEF BankInv
    <2>5. Stage[c] = "asked" /\ Stage'[c] = "admitted" /\ Service!Holder(c)
      BY <1>1, <2>4, AsSeen, StageValues DEF Stage
    <2>. QED
      BY <1>1, <1>2, <2>2, <2>3, <2>4, <2>5 DEF Service!Admit, Service!Become
  <1>. QED
    BY <1>3, <1>4 DEF CheckNonce

\* The verification answers as the service does, or panics.
LEMMA VerifyServes ==
  ASSUME BankInv, NEW c \in Conns, VerifyProof(c)
  PROVE  Service!Answer(c) \/ Service!Finish(c)
  <1>1. /\ Serving(c) /\ phase[c] = "verify"
        /\ UNCHANGED <<clock, registry, accepted, sent, got, held>>
    BY DEF VerifyProof, Serving, rpvars, history
  <1>2. CASE Done(c, "closed")
    BY <1>1, <1>2, LeavesService DEF BankInv
  <1>3. ASSUME NEW w \in {"error", "verified", "invalid"}, Answer(c, w),
               w = "verified" <=> Genuine(Req(c))
        PROVE  Service!Answer(c)
    <2>1. Service!Justified(c, w)
      BY <1>1, <1>3, AsSeen, StageValues DEF Service!Justified
    <2>. QED
      BY <1>1, <1>3, <2>1, AnswersService DEF BankInv, Why
  <1>. QED
    BY <1>2, <1>3, VerifyCases

\* Sending, or failing to, is the end of the request.
LEMMA SendFinishes ==
  ASSUME BankInv, NEW c \in Conns, SendReply(c)
  PROVE  Service!Finish(c)
  <1>1. /\ Serving(c)
        /\ UNCHANGED <<clock, registry, accepted, sent, got>>
        /\ \A d \in Conns \ {c} : held'[d] = held[d]
        /\ Done(c, "read") \/ Done(c, "closed")
    BY DEF SendReply, Serving, rpvars, BankInv, Shape
  <1>. QED
    BY <1>1, LeavesService DEF BankInv

\* A change of the registry is known wherever its user is being served.
LEMMA RegistryServes ==
  ASSUME BankInv, NEW u \in Users, NEW k \in Keys \cup {NoKey}, RegistryBecomes(u, k)
  PROVE  Service!Change(u, k)
  <1>1. /\ registry' = [registry EXCEPT ![u] = k]
        /\ UNCHANGED <<clock, accepted, Asked, Stage, Told>>
    BY DEF RegistryBecomes, rpvars, conn, Asked, Stage, Told, Serving, Req
  <1>2. \A c \in Conns : Serving(c) <=> Stage[c] # "idle"
    BY StageValues DEF BankInv, Shape, Phases, Serving, Stage
  <1>3. Known' = [c \in Conns |-> IF Stage[c] # "idle" /\ Asked[c].user = u
                                    THEN Known[c] \cup {k} ELSE Known[c]]
    BY <1>2 DEF RegistryBecomes, conn, Known, Asked, Serving, Req
  <1>. QED
    BY <1>1, <1>3 DEF Service!Change

\* The end of the process ends all service.
LEMMA EndServes ==
  ASSUME BankInv, ProcessEnds
  PROVE  Service!Restart
  <1>1. \A c \in Conns : phase'[c] \in {"idle", "closed"} /\ ~Serving(c)'
    BY DEF ProcessEnds, Serving
  <1>2. /\ Stage' = [c \in Conns |-> "idle"] /\ Told' = [c \in Conns |-> "none"]
        /\ Asked' = [c \in Conns |-> Garbage] /\ Known' = [c \in Conns |-> {}]
    BY <1>1, StageValues DEF Stage, Told, Asked, Known
  <1>. QED
    BY <1>2 DEF ProcessEnds, RP!Forget, Service!Restart

\* The rest the service does not see: connections come, go and send.
LEMMA RestStutters ==
  ASSUME BankInv,
         \/ ShutdownSignal \/ StopAccepting \/ Boot \/ UNCHANGED vars
         \/ \E c \in Conns : \/ Connect(c) \/ Leave(c) \/ Accept(c)
                             \/ ReceiveGarbage(c) \/ EndOfStream(c)
                             \/ \E m \in Requests \cup {Garbage} : Send(c, m)
  PROVE  UNCHANGED Service!avars
  <1>. USE DEF BankInv, Shape
  <1>1. UNCHANGED <<clock, registry, accepted, held, reply>>
    BY DEF ShutdownSignal, StopAccepting, Boot, vars, Connect, Leave, Accept,
           ReceiveGarbage, EndOfStream, Send, rpvars, conn, history
  <1>2. \A c \in Conns : \/ phase'[c] = phase[c]
                         \/ {phase[c], phase'[c]} \subseteq {"idle", "backlog", "read", "closed"}
    BY DEF ShutdownSignal, StopAccepting, Boot, vars, Connect, Leave, Accept,
           ReceiveGarbage, EndOfStream, Send, Goto, conn
  <1>3. ASSUME NEW c \in Conns, Serving(c)
        PROVE  got'[c] = got[c] /\ sent'[c][got[c]] = sent[c][got[c]]
    <2>1. got[c] \in 1 .. Len(sent[c]) /\ phase[c] \notin {"read", "closed"}
      BY <1>3 DEF InService, Serving
    <2>2. got'[c] = got[c]
      BY <2>1 DEF ShutdownSignal, StopAccepting, Boot, vars, Connect, Leave, Accept,
             ReceiveGarbage, EndOfStream, Send, conn
    <2>3. ASSUME NEW d \in Conns, NEW m \in Requests \cup {Garbage}, Send(d, m)
          PROVE  sent'[c][got[c]] = sent[c][got[c]]
      BY <2>1, <2>3 DEF Send
    <2>. QED
      BY <2>2, <2>3 DEF ShutdownSignal, StopAccepting, Boot, vars, Connect, Leave,
             Accept, ReceiveGarbage, EndOfStream, conn
  <1>4. \A c \in Conns : /\ Serving(c)' <=> Serving(c)
                         /\ phase'[c] = "reply" <=> phase[c] = "reply"
                         /\ StageFor(phase'[c]) = StageFor(phase[c])
    BY <1>2, StageValues DEF Serving
  <1>5. UNCHANGED <<Asked, Known, Stage, Told>>
    BY <1>1, <1>3, <1>4 DEF Asked, Known, Stage, Told, Req
  <1>. QED
    BY <1>1, <1>5 DEF Service!avars

\* Every step of the server is a step of the service, or none.
LEMMA StepServes ==
  ASSUME ServiceInv, ~ClockStepsBack, [Next]_vars
  PROVE  [Service!Next]_(Service!avars)
  <1>. USE DEF ServiceInv, Service!Next
  <1>1. ASSUME NEW c \in Conns, Handle(c)
        PROVE  [Service!Next]_(Service!avars)
    BY <1>1, ReceiveAsks, LookupServes, FreshServes, NonceServes, VerifyServes,
       SendFinishes, RestStutters DEF Handle
  <1>2. ASSUME NEW u \in Users, Remove(u) \/ \E k \in Keys : Register(u, k)
        PROVE  Service!Next
    BY <1>2, RegistryServes DEF Register, Remove
  <1>3. CASE Tick
    <2>1. Service!Time
      BY <1>3, ProtectorAssumption
      DEF Tick, RP!Tick, RP!history, conn, history, Service!Time, RP!Readings,
          BankInv, Shape, Asked, Known, Stage, Told, Serving, Req
    <2>. QED
      BY <2>1
  <1>4. ~StepBack
    BY DEF StepBack, RP!StepBack
  <1>5. ASSUME \/ ShutdownSignal \/ StopAccepting \/ Boot \/ UNCHANGED vars
               \/ \E c \in Conns : \/ Connect(c) \/ Leave(c) \/ Accept(c)
                                   \/ \E m \in Requests \cup {Garbage} : Send(c, m)
        PROVE  UNCHANGED Service!avars
    BY <1>5, RestStutters
  <1>. QED
    BY <1>1, <1>2, <1>3, <1>4, <1>5, EndServes DEF Next

(***************************************************************************)
(* handle_connection, its tasks, the table and the lock implement the      *)
(* service, for any connections and requests, while no lock wait spans a   *)
(* second and the clock is not set back.                                   *)
(***************************************************************************)
THEOREM BankImplementsService ==
  ~LockWaitSpansSeconds /\ ~ClockStepsBack /\ Spec => ImplementsService
  <1>. SUFFICES ASSUME ~LockWaitSpansSeconds, ~ClockStepsBack
                PROVE  Spec => Service!Spec
    BY DEF ImplementsService
  <1>0. PP!Prompt
    BY DEF PP!Prompt
  <1>1. Init => Service!Init
    BY StageValues
    DEF Init, RP!Init, Service!Init, Asked, Known, Stage, Told, Serving
  <1>2. Init => PP!ReadingsCurrent
    BY ProtectorAssumption
    DEF Init, RP!Init, RP!Readings, PP!ReadingsCurrent, PP!Waiting
  <1>3. BankInv /\ PP!ReplayInv /\ PP!ReadingsCurrent /\ [Next]_vars
          => PP!ReadingsCurrent'
    BY <1>0, ProtectorSteps, ProtectorReady, SameProtector, PP!StepReadings,
       PP!ForgetReadings DEF PP!ReplayInv
  <1>4. ServiceInv /\ [Next]_vars => [Service!Next]_(Service!avars)
    BY StepServes
  <1>. QED
    BY <1>1, <1>2, <1>3, <1>4, Invariant, ProtectorInvariant, PTL
    DEF Spec, ServiceInv, Service!Spec
=============================================================================
