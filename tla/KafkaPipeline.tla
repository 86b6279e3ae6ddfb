--------------------------- MODULE KafkaPipeline ---------------------------
(***************************************************************************)
(* The Kafka pipeline: provers (kafka/prover.rs, bin/kafka_prover.rs)      *)
(* append requests to one topic, the verifier worker (kafka/verifier.rs,   *)
(* bin/kafka_verifier.rs) reads them in order by an offset of its own and  *)
(* appends responses to another, which every prover scans from its start   *)
(* for its request id.                                                     *)
(*                                                                         *)
(* A topic partition is an append-only sequence; the record at offset n is *)
(* its element n + 1.  Producing is not idempotent: it may report an error *)
(* whether or not the record was appended, and the client library, which   *)
(* repeats an append whose acknowledgement it missed, may append a record  *)
(* twice.  The worker commits no offset to the broker: it starts at the    *)
(* end of the topic, or at 0 when asking for the end fails.                *)
(***************************************************************************)
EXTENDS AuthRequests, Integers, Sequences

CONSTANTS
  Half, MaxDrift, OverflowChecks, NoCall, MaxClock,
  LockWaitSpansSeconds,
  Worker,           \* the worker, the only caller of its replay protector
  Provers,          \* runs of kafka_prover; also their request ids
  UserOf, KeyOf,    \* prover -> the user it names and the key it holds
  NonceOf,          \* prover -> the nonce its generate_proof draws
  Foreign,          \* requests other producers append, under the id Other
  Other,
  Junk,             \* a record without value, or that neither decoder takes
  OffsetErrors,     \* TRUE: get_offset may fail when the worker starts
  SignalErrors,     \* TRUE: waiting for Ctrl+C may fail
  MaxLog,           \* bound: records in the request topic
  MaxLives          \* bound: starts of the worker

ASSUME KafkaAssumption ==
  /\ UserOf \in [Provers -> Users] /\ KeyOf \in [Provers -> Keys]
  /\ NonceOf \in [Provers -> Nonces]
  /\ Foreign \subseteq AuthRequest
  /\ Other \notin Provers
  /\ Junk \notin [rid : Provers \cup {Other}, req : AuthRequest]
  /\ OffsetErrors \in BOOLEAN /\ SignalErrors \in BOOLEAN
  /\ 0 .. MaxClock \subseteq Timestamps
  /\ MaxLog \in Nat /\ MaxLives \in Nat

VARIABLES
  clock, seen, call, now, verdict,              \* see ReplayProtector
  accepted, horizon,
  registry,    \* user -> key or NoKey
  requests,    \* the request topic
  responses,   \* the response topic; pos and life are history
  wphase,      \* where the worker stands
  offset,      \* its variable offset
  batchEnd,    \* the offset after the last record it has fetched
  outcome,     \* the outcome of the record being processed
  signalled,   \* "no", "yes" after Ctrl+C, "deaf" when nobody waits for it
  life,        \* history: how often the worker was started
  taken,       \* history: offsets + 1 of the records it has processed
  lost,        \* history: those whose response was not appended
  verified,    \* history: <<life, offset + 1>> of the successful ones
  held,        \* history: what the registry held since the record was taken
  pphase,      \* where a prover stands
  mine,        \* the request it has submitted
  scan,        \* its variable offset in wait_for_response
  first,       \* what it reports for its submission
  second       \* what it reports for its replay

rpvars == <<clock, seen, call, now, verdict,
            accepted, horizon>>
worker == <<wphase, offset, batchEnd, outcome, signalled, life>>
history == <<taken, lost, verified, held>>
prover == <<pphase, mine, scan, first, second>>
vars == <<rpvars, registry, requests, responses, worker, history, prover>>

RP == INSTANCE ReplayProtector WITH
  Callers <- {Worker}, Restarts <- TRUE,
  ClockStepsBack <- FALSE,            \* not modelled here
  earlier <- {}, restartedAt <- 0     \* its history over restarts is not kept

ASSUME ProtectorAssumption ==
  /\ Half \in Nat \ {0} /\ MaxDrift \in 0 .. Half - 1
  /\ OverflowChecks \in BOOLEAN /\ LockWaitSpansSeconds \in BOOLEAN
  /\ MaxClock \in RP!Readings
  /\ Timestamps \subseteq RP!I64
  /\ NoCall \notin RP!Proofs

Outcomes == {"unregistered", "storage", "mismatch", "stale", "replay",
             "verified", "invalid", "error"}
Reports == Outcomes \cup {"none", "timeout"}
Processing == wphase \in {"lookup", "check", "locked", "verify", "publish"}

\* The record being processed: offset has already moved past it.
Current == requests[offset]

Init ==
  /\ RP!Init
  /\ registry \in [Users -> Keys \cup {NoKey}]
  /\ requests = <<>> /\ responses = <<>>
  /\ wphase = "down" /\ offset = 0 /\ batchEnd = 0
  /\ outcome = "none" /\ signalled = "no" /\ life = 0
  /\ taken = {} /\ lost = {} /\ verified = {} /\ held = {}
  /\ pphase = [p \in Provers |-> "idle"]
  /\ mine = [p \in Provers |-> Junk]
  /\ scan = [p \in Provers |-> 0]
  /\ first = [p \in Provers |-> "none"]
  /\ second = [p \in Provers |-> "none"]
-----------------------------------------------------------------------------
(***************************************************************************)
(* Producers.  A prover draws a nonce and the current time for its proof,  *)
(* spoils it when run with --tamper, and keeps the request for a replay.   *)
(***************************************************************************)
ProofBy(p, form) ==
  [user |-> UserOf[p], pk |-> KeyOf[p], signer |-> KeyOf[p],
   nonce |-> NonceOf[p], ts |-> clock, form |-> form]

\* Bound: how often one produce call may append its record.
Copies == 0 .. 2

Appended(log, m, copies) == log \o [i \in 1 .. copies |-> m]

\* produce(..).await?: an error ends the prover, appended or not.
Produce(p, m, next) ==
  \E copies \in Copies :
    /\ Len(requests) + copies <= MaxLog
    /\ requests' = Appended(requests, m, copies)
    /\ \/ copies > 0 /\ pphase' = [pphase EXCEPT ![p] = next]
       \/ pphase' = [pphase EXCEPT ![p] = "failed"]

Submit(p) ==
  /\ pphase[p] = "idle"
  /\ \E form \in {"good", "altered"} :
       LET m == [rid |-> p, req |-> ProofBy(p, form)] IN
       Produce(p, m, "waiting") /\ mine' = [mine EXCEPT ![p] = m]
  /\ scan' = [scan EXCEPT ![p] = 0]
  /\ UNCHANGED <<rpvars, registry, responses, worker, history, first, second>>

\* --replay: the same record again, under the same request id.
Resubmit(p) ==
  /\ pphase[p] = "reported"
  /\ Produce(p, mine[p], "rewaiting")
  /\ scan' = [scan EXCEPT ![p] = 0]
  /\ UNCHANGED <<rpvars, registry, responses, worker, history, mine, first, second>>

AppendForeign(m) ==
  /\ Len(requests) < MaxLog
  /\ requests' = Append(requests, IF m = Junk THEN Junk ELSE [rid |-> Other, req |-> m])
  /\ UNCHANGED <<rpvars, registry, responses, worker, history, prover>>

(***************************************************************************)
(* wait_for_response: fetch what follows scan; the first record with the   *)
(* request id is the answer, otherwise scan moves past what was fetched.   *)
(***************************************************************************)
MatchAny(p, n) == scan[p] + 1 .. n    \* the first response is taken, whoever's

Match(p, n) == {i \in scan[p] + 1 .. n : responses[i].rid = p}

Earliest(S) == CHOOSE i \in S : \A j \in S : i <= j

\* The wait is over, its offset forgotten.
Report(p, r) ==
  /\ scan' = [scan EXCEPT ![p] = 0]
  /\ IF pphase[p] = "waiting"
       THEN /\ first' = [first EXCEPT ![p] = r] /\ UNCHANGED second
            /\ pphase' = [pphase EXCEPT ![p] = "reported"]
       ELSE /\ second' = [second EXCEPT ![p] = r] /\ UNCHANGED first
            /\ pphase' = [pphase EXCEPT ![p] = "finished"]

Poll(p) ==
  /\ pphase[p] \in {"waiting", "rewaiting"}
  /\ \E n \in scan[p] + 1 .. Len(responses) :
       IF Match(p, n) = {}
         THEN scan' = [scan EXCEPT ![p] = n] /\ UNCHANGED <<pphase, first, second>>
         ELSE Report(p, responses[Earliest(Match(p, n))].why)
  /\ UNCHANGED <<rpvars, registry, requests, responses, worker, history, mine>>

TimeOut(p) ==
  /\ pphase[p] \in {"waiting", "rewaiting"}
  /\ Report(p, "timeout")
  /\ UNCHANGED <<rpvars, registry, requests, responses, worker, history, mine>>
-----------------------------------------------------------------------------
(***************************************************************************)
(* The registry as other processes change it.                              *)
(***************************************************************************)
Enrol(u, k) ==
  /\ registry[u] # k
  /\ registry' = [registry EXCEPT ![u] = k]
  /\ held' = IF Processing /\ Current.req.user = u THEN held \cup {k} ELSE held
  /\ UNCHANGED <<rpvars, requests, responses, worker, taken, lost, verified, prover>>
-----------------------------------------------------------------------------
(***************************************************************************)
(* The worker process.                                                     *)
(***************************************************************************)
StartAtEarliest ==        \* OffsetAt::Earliest for OffsetAt::Latest
  /\ wphase = "down" /\ life < MaxLives
  /\ offset' = 0 /\ batchEnd' = 0
  /\ wphase' = "select" /\ life' = life + 1
  /\ UNCHANGED <<rpvars, registry, requests, responses, outcome, signalled,
                 history, prover>>

Start ==
  /\ wphase = "down" /\ life < MaxLives
  /\ \/ offset' = Len(requests)
     \/ OffsetErrors /\ offset' = 0
  /\ batchEnd' = offset'
  /\ wphase' = "select" /\ life' = life + 1
  /\ UNCHANGED <<rpvars, registry, requests, responses, outcome, signalled,
                 history, prover>>

(***************************************************************************)
(* The task of ctrl_c() sends the signal; or it panics, and the sender is  *)
(* dropped: from then on changed() returns at once, with an error that the *)
(* pattern _ ignores.                                                      *)
(***************************************************************************)
CtrlC ==
  /\ wphase # "down" /\ signalled = "no"
  /\ \/ signalled' = "yes"
     \/ SignalErrors /\ signalled' = "deaf"
  /\ UNCHANGED <<rpvars, registry, requests, responses, wphase, offset, batchEnd,
                 outcome, life, history, prover>>

\* The process is gone: its table and its offset with it.
End ==
  /\ RP!Forget
  /\ wphase' = "down" /\ offset' = 0 /\ batchEnd' = 0
  /\ outcome' = "none" /\ signalled' = "no" /\ held' = {}
  /\ UNCHANGED <<registry, requests, responses, life, taken, lost, verified, prover>>

Exit == wphase = "select" /\ signalled = "yes" /\ End

Crash == wphase # "down" /\ End

(***************************************************************************)
(* A fetch that fails or returns nothing only costs time.  A deaf worker   *)
(* never completes one: select! drops it whenever changed() is ready.      *)
(***************************************************************************)
Fetch ==
  /\ wphase = "select" /\ signalled # "deaf"
  /\ batchEnd' \in offset + 1 .. Len(requests)
  /\ wphase' = "next"
  /\ UNCHANGED <<rpvars, registry, requests, responses, offset, outcome,
                 signalled, life, history, prover>>

NextRecordOffByOne ==     \* offset + 2 for offset + 1
  /\ wphase = "next" /\ offset < batchEnd
  /\ offset' = offset + 2
  /\ UNCHANGED <<rpvars, registry, requests, responses, wphase, batchEnd, outcome,
                 signalled, life, history, prover>>

NextRecordPoison ==       \* the offset moves only past what decodes
  /\ wphase = "next" /\ offset < batchEnd
  /\ IF requests[offset + 1] = Junk
       THEN wphase' = "select" /\ UNCHANGED <<offset, taken, held>>
       ELSE /\ wphase' = "lookup" /\ offset' = offset + 1
            /\ taken' = taken \cup {offset + 1}
            /\ held' = {registry[requests[offset + 1].req.user]}
  /\ UNCHANGED <<rpvars, registry, requests, responses, batchEnd, outcome,
                 signalled, life, lost, verified, prover>>

\* for record_and_offset in records: the offset moves before the processing.
NextRecord ==
  /\ wphase = "next" /\ offset < batchEnd
  /\ offset' = offset + 1
  /\ IF requests[offset + 1] = Junk
       THEN UNCHANGED <<wphase, taken, held>>
       ELSE /\ wphase' = "lookup"
            /\ taken' = taken \cup {offset + 1}
            /\ held' = {registry[requests[offset + 1].req.user]}
  /\ UNCHANGED <<rpvars, registry, requests, responses, batchEnd, outcome,
                 signalled, life, lost, verified, prover>>

BatchDoneForgets ==       \* offset is a variable of the loop body
  /\ wphase = "next" /\ offset = batchEnd
  /\ wphase' = "select" /\ offset' = 0
  /\ UNCHANGED <<rpvars, registry, requests, responses, batchEnd, outcome,
                 signalled, life, history, prover>>

BatchDone ==
  /\ wphase = "next" /\ offset = batchEnd
  /\ wphase' = "select"
  /\ UNCHANGED <<rpvars, registry, requests, responses, offset, batchEnd, outcome,
                 signalled, life, history, prover>>
-----------------------------------------------------------------------------
(***************************************************************************)
(* process_record.                                                         *)
(***************************************************************************)
Outcome(o) == outcome' = o /\ wphase' = "publish"

LookupKey ==
  /\ wphase = "lookup"
  /\ \E dbError \in BOOLEAN :
       LET found == Lookup(Current.req, registry[Current.req.user], dbError) IN
       IF found = "match" THEN wphase' = "check" /\ UNCHANGED outcome
                          ELSE Outcome(found)
  /\ UNCHANGED <<rpvars, registry, requests, responses, offset, batchEnd,
                 signalled, life, history, prover>>

\* check_and_record up to the mutex.
CheckFresh ==
  /\ wphase = "check"
  /\ \/ /\ RP!Enter(Worker, ProofOf(Current.req))
        /\ wphase' = "locked" /\ UNCHANGED outcome
     \/ /\ RP!Refuse(Worker, ProofOf(Current.req))
        /\ verdict'[Worker] # "panic"
        /\ Outcome("stale")
  /\ UNCHANGED <<registry, requests, responses, offset, batchEnd,
                 signalled, life, history, prover>>

CheckNonceIgnored ==      \* the verdict on the nonce is dropped
  /\ wphase = "locked"
  /\ RP!Replayed(Worker) \/ RP!Record(Worker)
  /\ wphase' = "verify"
  /\ UNCHANGED <<outcome, registry, requests, responses, offset, batchEnd,
                 signalled, life, history, prover>>

\* check_and_record under the mutex.
CheckNonce ==
  /\ wphase = "locked"
  /\ \/ RP!Replayed(Worker) /\ Outcome("replay")
     \/ RP!Record(Worker) /\ wphase' = "verify" /\ UNCHANGED outcome
  /\ UNCHANGED <<registry, requests, responses, offset, batchEnd,
                 signalled, life, history, prover>>

VerifyProof ==
  /\ wphase = "verify"
  /\ LET result == Verify(Current.req.pk, Current.req) IN
     /\ result # "panic"
     /\ Outcome(result)
     /\ verified' = IF result = "verified" THEN verified \cup {<<life, offset>>}
                                           ELSE verified
  /\ UNCHANGED <<rpvars, registry, requests, responses, offset, batchEnd,
                 signalled, life, taken, lost, held, prover>>

\* The worker runs in main's task: a panic in it ends the process.
Panic ==
  /\ \/ wphase = "verify" /\ Verify(Current.req.pk, Current.req) = "panic"
     \/ wphase = "check" /\ RP!CheckFreshness(clock, Current.req.ts) = "panic"
  /\ End

PublishRetried ==         \* the record is processed again on a produce error
  /\ wphase = "publish"
  /\ \/ /\ responses' = Append(responses,
             [rid |-> Current.rid, why |-> outcome, pos |-> offset, life |-> life])
        /\ wphase' = "next"
     \/ UNCHANGED responses /\ wphase' = "lookup"
  /\ outcome' = "none"
  /\ UNCHANGED <<rpvars, registry, requests, offset, batchEnd, signalled, life,
                 history, prover>>

\* A produce error is logged by run; the response is not tried again.
Publish ==
  /\ wphase = "publish"
  /\ \E copies \in Copies :
       /\ responses' = Appended(responses, [rid |-> Current.rid, why |-> outcome,
                                           pos |-> offset, life |-> life], copies)
       /\ lost' = IF copies = 0 THEN lost \cup {offset} ELSE lost
  /\ wphase' = "next" /\ outcome' = "none" /\ held' = {}
  /\ UNCHANGED <<rpvars, registry, requests, offset, batchEnd, signalled, life,
                 taken, verified, prover>>
-----------------------------------------------------------------------------
Tick == RP!Tick /\ UNCHANGED <<registry, requests, responses, worker, history, prover>>

Work == \/ Fetch \/ NextRecord \/ BatchDone \/ LookupKey \/ CheckFresh
        \/ CheckNonce \/ VerifyProof \/ Panic \/ Publish

Next ==
  \/ \E p \in Provers : Submit(p) \/ Resubmit(p) \/ Poll(p) \/ TimeOut(p)
  \/ \E m \in Foreign \cup {Junk} : AppendForeign(m)
  \/ \E u \in Users, k \in Keys \cup {NoKey} : Enrol(u, k)
  \/ Start \/ CtrlC \/ Exit \/ Crash
  \/ Work
  \/ Tick

Spec == Init /\ [][Next]_vars

(***************************************************************************)
(* The worker's loop goes on while its process lives: broker calls return  *)
(* (rskafka's produce and fetch either succeed or fail) and the mutex has  *)
(* one user.  Nothing is assumed of provers, operators or the clock.       *)
(***************************************************************************)
FairSpec == Spec /\ WF_vars(Work)
-----------------------------------------------------------------------------
Records == [rid : Provers \cup {Other}, req : AuthRequest] \cup {Junk}

KafkaTypeOK ==
  /\ RP!TypeOK
  /\ registry \in [Users -> Keys \cup {NoKey}]
  /\ \A i \in 1 .. Len(requests) : requests[i] \in Records
  /\ \A i \in 1 .. Len(responses) :
       responses[i] \in [rid : Provers \cup {Other}, why : Outcomes,
                        pos : 1 .. MaxLog, life : 1 .. MaxLives]
  /\ wphase \in {"down", "select", "next", "lookup", "check", "locked",
                 "verify", "publish"}
  /\ offset \in 0 .. batchEnd /\ batchEnd \in 0 .. Len(requests)
  /\ outcome \in Outcomes \cup {"none"}
  /\ signalled \in {"no", "yes", "deaf"} /\ life \in 0 .. MaxLives
  /\ lost \subseteq taken /\ taken \subseteq 1 .. MaxLog
  /\ verified \subseteq (1 .. MaxLives) \X taken
  /\ held \subseteq Keys \cup {NoKey}
  /\ pphase \in [Provers -> {"idle", "waiting", "reported", "rewaiting",
                            "finished", "failed"}]
  /\ mine \in [Provers -> Records]
  /\ scan \in [Provers -> 0 .. Len(responses)]
  /\ first \in [Provers -> Reports] /\ second \in [Provers -> Reports]

(***************************************************************************)
(* When the worker finds the end of the topic at every start, a request is *)
(* processed at most once, over crashes and restarts: one that makes the   *)
(* worker panic cannot make it panic again.                                *)
(***************************************************************************)
NeverReprocessed ==
  [][\A i \in 1 .. MaxLog :
       wphase = "next" /\ wphase' = "lookup" /\ offset' = i => i \notin taken]_vars

(***************************************************************************)
(* The responses of one life of the worker stand in the order of their     *)
(* requests, and two to one request only because the library repeated the  *)
(* append: they follow one another and say the same.                       *)
(***************************************************************************)
ResponsesInOrder ==
  \A i, j \in 1 .. Len(responses) :
    i < j /\ responses[i].life = responses[j].life
      => \/ responses[i].pos < responses[j].pos
         \/ j = i + 1 /\ responses[i] = responses[j]

(***************************************************************************)
(* A published success carries the id of a request that was made with the  *)
(* secret key of the key it names, and is published only for a key the     *)
(* bank held since the worker took the request.                            *)
(***************************************************************************)
SuccessIsEarned ==
  /\ \A i \in 1 .. Len(responses) :
       responses[i].why = "verified"
         => /\ Genuine(requests[responses[i].pos].req)
            /\ requests[responses[i].pos].rid = responses[i].rid
            /\ <<responses[i].life, responses[i].pos>> \in verified
  /\ wphase = "publish" /\ outcome = "verified" => Current.req.pk \in held

(***************************************************************************)
(* The worker implements the service the bank server implements, also when *)
(* it starts at offset 0 and reads old requests again.                     *)
(***************************************************************************)
Slot == {Worker}

StageFor(w) == CASE w \in {"lookup", "check", "locked"} -> "asked"
                 [] w = "verify" -> "admitted"
                 [] w = "publish" -> "answered"
                 [] OTHER -> "idle"

Asked == [s \in Slot |-> IF Processing THEN Current.req ELSE Junk]
Known == [s \in Slot |-> held]
Stage == [s \in Slot |-> StageFor(wphase)]
Told == [s \in Slot |-> outcome]

Service == INSTANCE AuthService WITH
  Slots <- Slot, Clocks <- 0 .. MaxClock, NoRequest <- Junk,
  spent <- accepted, asked <- Asked, held <- Known, stage <- Stage, answer <- Told

ImplementsService == Service!Spec

(***************************************************************************)
(* One life of the worker verifies a proof as valid at most once, however  *)
(* often the topic holds it and whether or not a response was lost.        *)
(***************************************************************************)
VerifiedOncePerLife ==
  \A v, w \in verified :
    v[1] = w[1] /\ ProofOf(requests[v[2]].req) = ProofOf(requests[w[2]].req)
      => v = w

(***************************************************************************)
(* A prover that has submitted once is told that its own proof is a replay *)
(* only if the topic held a copy the worker had already processed and      *)
(* whose response was lost.                                                *)
(***************************************************************************)
AccusationHasCause ==
  \A p \in Provers :
    first[p] = "replay" => \E i \in lost : requests[i] = mine[p]

(***************************************************************************)
(* A prover that reports VERIFIED for its submission did not tamper with   *)
(* it, and the worker verified that very request.                          *)
(***************************************************************************)
FirstReportTruthful ==
  \A p \in Provers :
    first[p] = "verified"
      => /\ mine[p].req.form = "good"
         /\ \E v \in verified : requests[v[2]] = mine[p]

(***************************************************************************)
(* kafka_prover --replay exists "to test replay defense" (:55) and reports *)
(* VULNERABLE (:153) when the answer it waits for is a success: it does so *)
(* only if the worker really verified the proof a second time, whatever    *)
(* the prover was told of its submission, if anything in time.             *)
(***************************************************************************)
ReplayReportTruthful ==
  \A p \in Provers :
    second[p] = "verified"
      => \E v, w \in verified : /\ v # w
                               /\ requests[v[2]] = mine[p]
                               /\ requests[w[2]] = mine[p]

(***************************************************************************)
(* Every request that is in the topic ahead of a running worker is given a *)
(* response, or the attempt to publish it failed, or the worker stopped or *)
(* went deaf.  Records that do not decode hold nobody up.                  *)
(***************************************************************************)
EveryRequestAnswered ==
  \A i \in 1 .. MaxLog, l \in 1 .. MaxLives :
    life = l /\ wphase # "down" /\ offset < i /\ i <= Len(requests)
      ~> \/ wphase = "down" \/ life # l \/ signalled = "deaf"
         \/ i <= Len(requests) /\ requests[i] = Junk
         \/ i \in lost
         \/ \E j \in 1 .. Len(responses) : responses[j].pos = i
=============================================================================
