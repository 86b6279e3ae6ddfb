------------------------- MODULE KafkaPipeline_proofs -------------------------
(***************************************************************************)
(* Safety of the Kafka pipeline, for any provers, foreign producers and    *)
(* crashes of the worker, and for a topic of any length.                   *)
(***************************************************************************)
EXTENDS KafkaPipeline, SequenceTheorems, WellFoundedInduction, TLAPS

Responses == [rid : Provers \cup {Other}, why : Outcomes, pos : Nat, life : Nat]

\* The parts of the state the arguments below look into, typed.
WorkerShape ==
  /\ clock \in 0 .. MaxClock
  /\ registry \in [Users -> Keys \cup {NoKey}]
  /\ requests \in Seq(Records) /\ Len(requests) <= MaxLog
  /\ responses \in Seq(Responses)
  /\ wphase \in {"down", "select", "next", "lookup", "check", "locked",
                 "verify", "publish"}
  /\ batchEnd \in 0 .. Len(requests) /\ offset \in 0 .. batchEnd
  /\ outcome \in Outcomes \cup {"none"}
  /\ signalled \in {"no", "yes", "deaf"} /\ life \in 0 .. MaxLives
  /\ lost \subseteq taken /\ taken \subseteq 1 .. Len(requests)
  /\ verified \subseteq (1 .. life) \X taken
  /\ held \subseteq Keys \cup {NoKey}

ProverShape ==
  /\ pphase \in [Provers -> {"idle", "waiting", "reported", "rewaiting",
                            "finished", "failed"}]
  /\ mine \in [Provers -> Records]
  /\ scan \in [Provers -> Nat] /\ \A p \in Provers : scan[p] <= Len(responses)
  /\ first \in [Provers -> Reports] /\ second \in [Provers -> Reports]

\* The record being processed decodes, has been taken, and names a key the bank
\* has held once the look-up is past; the outcome to publish is that record's.
Working ==
  /\ wphase # "down" => life > 0
  /\ Processing => /\ offset \in taken /\ Current # Junk
                   /\ registry[Current.req.user] \in held
  /\ wphase \in {"check", "locked", "verify"} => Current.req.pk \in held
  /\ wphase = "publish" => outcome # "none"
  /\ wphase = "publish" /\ outcome = "verified"
       => /\ Genuine(Current.req) /\ Current.req.pk \in held
          /\ <<life, offset>> \in verified

\* A response stands for a record that was processed, the present one excepted.
Answers(r) ==
  /\ r.pos \in taken /\ requests[r.pos] # Junk
  /\ r.rid = requests[r.pos].rid
  /\ r.why = "verified" => /\ Genuine(requests[r.pos].req)
                           /\ <<r.life, r.pos>> \in verified
  /\ r.life \in 1 .. life
  /\ r.life = life /\ wphase # "down"
       => r.pos <= offset /\ (Processing => r.pos < offset)

Published == \A i \in 1 .. Len(responses) : Answers(responses[i])

\* What stands in the topic under the id of a prover is that prover's request.
Owns(p) ==
  /\ \A i \in 1 .. Len(requests) :
       requests[i] # Junk /\ requests[i].rid = p
         => requests[i] = mine[p] /\ pphase[p] # "idle"
  /\ pphase[p] # "idle" => mine[p] # Junk /\ mine[p].rid = p
  /\ first[p] # "none" => pphase[p] # "idle"

Owned == \A p \in Provers : Owns(p)

KafkaInv ==
  /\ WorkerShape /\ ProverShape /\ Working /\ Published /\ Owned
  /\ ResponsesInOrder /\ FirstReportTruthful

\* What has been taken lies behind the offset, and behind the end of the topic
\* where the worker starts.
TakenBehind == wphase # "down" => \A i \in taken : i <= offset

-----------------------------------------------------------------------------
\* A produce call leaves what is there and adds its copies behind it.
LEMMA Copied ==
  ASSUME NEW S, NEW s \in Seq(S), NEW m \in S, NEW n \in Copies
  PROVE  /\ Appended(s, m, n) \in Seq(S)
         /\ Len(Appended(s, m, n)) = Len(s) + n
         /\ \A i \in 1 .. Len(s) : Appended(s, m, n)[i] = s[i]
         /\ \A i \in Len(s) + 1 .. Len(s) + n : Appended(s, m, n)[i] = m
  <1>. DEFINE c == [i \in 1 .. n |-> m]
  <1>1. n \in Nat
    BY DEF Copies
  <1>2. c \in Seq(S) /\ Len(c) = n /\ \A i \in 1 .. n : c[i] = m
    BY <1>1
  <1>. HIDE DEF c
  <1>3. /\ s \o c \in Seq(S) /\ Len(s \o c) = Len(s) + n
        /\ \A i \in 1 .. Len(s) + n :
             (s \o c)[i] = IF i <= Len(s) THEN s[i] ELSE c[i - Len(s)]
    BY <1>1, <1>2, ConcatProperties
  <1>4. \A i \in Len(s) + 1 .. Len(s) + n : (s \o c)[i] = m
    BY <1>1, <1>2, <1>3
  <1>. QED
    BY <1>1, <1>3, <1>4 DEF c, Appended

\* The same of the topic of requests.
LEMMA RequestsGrow ==
  ASSUME requests \in Seq(Records), NEW m \in Records, NEW n \in Copies,
         requests' = Appended(requests, m, n)
  PROVE  /\ requests' \in Seq(Records)
         /\ Len(requests') = Len(requests) + n
         /\ Len(requests) <= Len(requests')
         /\ \A i \in 1 .. Len(requests) : requests'[i] = requests[i]
         /\ \A i \in Len(requests) + 1 .. Len(requests') : requests'[i] = m
  <1>1. n \in Nat /\ Len(requests) \in Nat
    BY DEF Copies
  <1>2. PICK t : t = Appended(requests, m, n)
    OBVIOUS
  <1>3. t \in Seq(Records)
    BY <1>2, Copied
  <1>4. Len(t) = Len(requests) + n
    BY <1>2, Copied
  <1>5. \A i \in 1 .. Len(requests) : t[i] = requests[i]
    BY <1>2, Copied
  <1>6. \A i \in Len(requests) + 1 .. Len(requests) + n : t[i] = m
    BY <1>2, Copied
  <1>7. requests' = t
    BY <1>2
  <1>. QED
    BY <1>1, <1>3, <1>4, <1>5, <1>6, <1>7

-----------------------------------------------------------------------------
\* The topic of requests grows and the worker does not move.
Grows ==
  /\ requests' \in Seq(Records) /\ Len(requests') <= MaxLog
  /\ Len(requests) <= Len(requests')
  /\ \A i \in 1 .. Len(requests) : requests'[i] = requests[i]
  /\ UNCHANGED <<rpvars, registry, responses, worker, history>>

\* What the worker has done is about offsets that are there to stay.
LEMMA GrowthKeeps ==
  ASSUME KafkaInv, Grows
  PROVE  /\ WorkerShape' /\ Working' /\ Published' /\ ResponsesInOrder'
         /\ \A i \in taken : requests'[i] = requests[i]
  <1>. USE DEF KafkaInv, WorkerShape, Grows, rpvars, worker, history, Processing, Current
  <1>1. \A i \in taken : i \in 1 .. Len(requests) /\ requests'[i] = requests[i]
    OBVIOUS
  <1>2. Processing => Current' = Current
    BY <1>1 DEF Working
  <1>3. Working'
    BY <1>2 DEF Working, Genuine
  <1>4. ASSUME NEW r \in Responses, Answers(r)
        PROVE  Answers(r)'
    BY <1>1, <1>4 DEF Answers, Genuine
  <1>5. ResponsesInOrder'
    BY DEF ResponsesInOrder
  <1>6. Published'
    BY <1>4 DEF Published
  <1>7. WorkerShape'
    BY DEF Outcomes
  <1>. QED
    BY <1>1, <1>3, <1>5, <1>6, <1>7

\* The reports stay truthful when no prover reports.
LEMMA ReportsKeep ==
  ASSUME KafkaInv, Grows, UNCHANGED first,
         \A p \in Provers : first[p] # "none" => mine'[p] = mine[p]
  PROVE  FirstReportTruthful'
  <1>1. \A v \in verified : requests'[v[2]] = requests[v[2]]
    BY GrowthKeeps DEF KafkaInv, WorkerShape
  <1>. QED
    BY <1>1 DEF KafkaInv, FirstReportTruthful, Grows, history

\* A submission puts the prover's own request into the topic, or nothing.
LEMMA SubmitKeeps ==
  ASSUME KafkaInv, NEW p \in Provers, Submit(p)
  PROVE  KafkaInv'
  <1>1. PICK form \in {"good", "altered"} :
          LET m == [rid |-> p, req |-> ProofBy(p, form)] IN
          Produce(p, m, "waiting") /\ mine' = [mine EXCEPT ![p] = m]
    BY DEF Submit
  <1>. DEFINE m == [rid |-> p, req |-> ProofBy(p, form)]
  <1>2. m \in Records /\ m # Junk /\ m.rid = p
    <2>1. clock \in Timestamps
      <3>1. clock \in 0 .. MaxClock
        BY DEF KafkaInv, WorkerShape
      <3>. QED
        BY <3>1, KafkaAssumption
    <2>2. ProofBy(p, form) \in AuthRequest
      BY <2>1, KafkaAssumption DEF ProofBy, AuthRequest, Forms
    <2>. QED
      BY <2>2, KafkaAssumption DEF Records
  <1>. HIDE DEF m
  <1>3. PICK copies \in Copies :
          /\ Len(requests) + copies <= MaxLog
          /\ requests' = Appended(requests, m, copies)
          /\ \/ copies > 0 /\ pphase' = [pphase EXCEPT ![p] = "waiting"]
             \/ pphase' = [pphase EXCEPT ![p] = "failed"]
    BY <1>1 DEF Produce, m
  <1>4. /\ requests' \in Seq(Records) /\ Len(requests') = Len(requests) + copies
        /\ Len(requests) <= Len(requests')
        /\ \A i \in 1 .. Len(requests) : requests'[i] = requests[i]
        /\ \A i \in Len(requests) + 1 .. Len(requests') : requests'[i] = m
    <2>1. requests \in Seq(Records)
      BY DEF KafkaInv, WorkerShape
    <2>. QED
      BY <1>2, <1>3, <2>1, RequestsGrow
  <1>5. Grows
    BY <1>3, <1>4 DEF Grows, Submit
  <1>6. /\ mine' = [mine EXCEPT ![p] = m] /\ first[p] = "none" /\ pphase[p] = "idle"
        /\ UNCHANGED <<first, second, responses>> /\ scan' = [scan EXCEPT ![p] = 0]
    BY <1>1 DEF Submit, m, KafkaInv, Owned, Owns
  <1>7. ProverShape'
    BY <1>2, <1>3, <1>6 DEF KafkaInv, WorkerShape, ProverShape
  <1>10. /\ mine'[p] = m /\ pphase'[p] # "idle"
         /\ \A q \in Provers \ {p} : mine'[q] = mine[q] /\ pphase'[q] = pphase[q]
    BY <1>3, <1>6 DEF KafkaInv, ProverShape
  <1>8. ASSUME NEW q \in Provers
        PROVE  Owns(q)'
    <2>1. /\ \A i \in 1 .. Len(requests') : \/ i \in 1 .. Len(requests)
                                            \/ i \in Len(requests) + 1 .. Len(requests')
          /\ Owns(q)
      BY <1>4 DEF KafkaInv, Owned, WorkerShape
    <2>2. CASE q = p
      BY <1>2, <1>4, <1>6, <1>10, <2>1, <2>2 DEF Owns
    <2>3. CASE q # p
      BY <1>2, <1>4, <1>6, <1>10, <2>1, <2>3 DEF Owns
    <2>. QED
      BY <2>2, <2>3
  <1>9. FirstReportTruthful'
    BY <1>5, <1>6, ReportsKeep DEF KafkaInv, ProverShape
  <1>. QED
    BY <1>5, <1>7, <1>8, <1>9, GrowthKeeps DEF KafkaInv, Owned

\* A replay puts the same request there again.
LEMMA ResubmitKeeps ==
  ASSUME KafkaInv, NEW p \in Provers, Resubmit(p)
  PROVE  KafkaInv'
  <1>1. PICK copies \in Copies :
          /\ Len(requests) + copies <= MaxLog
          /\ requests' = Appended(requests, mine[p], copies)
          /\ \/ copies > 0 /\ pphase' = [pphase EXCEPT ![p] = "rewaiting"]
             \/ pphase' = [pphase EXCEPT ![p] = "failed"]
    BY DEF Resubmit, Produce
  <1>2. /\ requests' \in Seq(Records) /\ Len(requests') = Len(requests) + copies
        /\ Len(requests) <= Len(requests')
        /\ \A i \in 1 .. Len(requests) : requests'[i] = requests[i]
        /\ \A i \in Len(requests) + 1 .. Len(requests') : requests'[i] = mine[p]
    <2>1. requests \in Seq(Records) /\ mine[p] \in Records
      BY DEF KafkaInv, WorkerShape, ProverShape
    <2>. QED
      BY <1>1, <2>1, RequestsGrow
  <1>3. Grows
    BY <1>1, <1>2 DEF Grows, Resubmit
  <1>4. /\ pphase[p] = "reported" /\ scan' = [scan EXCEPT ![p] = 0]
        /\ UNCHANGED <<mine, first, second, responses>>
    BY DEF Resubmit
  <1>5. ProverShape'
    <2>1. \/ pphase' = [pphase EXCEPT ![p] = "rewaiting"]
          \/ pphase' = [pphase EXCEPT ![p] = "failed"]
      BY <1>1
    <2>2. Len(responses) \in Nat
      BY DEF KafkaInv, WorkerShape
    <2>. QED
      BY <1>4, <2>1, <2>2 DEF KafkaInv, ProverShape
  <1>6. ASSUME NEW q \in Provers
        PROVE  Owns(q)'
    <2>1. /\ \A i \in 1 .. Len(requests') : \/ i \in 1 .. Len(requests)
                                            \/ i \in Len(requests) + 1 .. Len(requests')
          /\ Owns(q) /\ Owns(p)
      BY <1>2 DEF KafkaInv, Owned, WorkerShape
    <2>2. pphase'[q] # "idle" <=> pphase[q] # "idle"
      BY <1>1, <1>4 DEF KafkaInv, ProverShape
    <2>. QED
      BY <1>2, <1>4, <2>1, <2>2 DEF Owns
  <1>7. FirstReportTruthful'
    BY <1>3, <1>4, ReportsKeep
  <1>. QED
    BY <1>3, <1>5, <1>6, <1>7, GrowthKeeps DEF KafkaInv, Owned

\* What others produce stands under no prover's id.
LEMMA AppendForeignKeeps ==
  ASSUME KafkaInv, NEW m \in Foreign \cup {Junk}, AppendForeign(m)
  PROVE  KafkaInv'
  <1>. DEFINE r == IF m = Junk THEN Junk ELSE [rid |-> Other, req |-> m]
  <1>1. r \in Records /\ (r # Junk => r.rid \notin Provers)
    BY KafkaAssumption DEF Records
  <1>. HIDE DEF r
  <1>2. requests' = Append(requests, r) /\ Len(requests) < MaxLog
    BY DEF AppendForeign, r
  <1>3. /\ requests' \in Seq(Records) /\ Len(requests') = Len(requests) + 1
        /\ \A i \in 1 .. Len(requests) : requests'[i] = requests[i]
        /\ requests'[Len(requests) + 1] = r
    BY <1>1, <1>2 DEF KafkaInv, WorkerShape
  <1>4. Grows /\ UNCHANGED prover
    BY <1>2, <1>3, KafkaAssumption DEF Grows, AppendForeign, KafkaInv, WorkerShape
  <1>5. ProverShape'
    BY <1>4 DEF KafkaInv, ProverShape, Grows, prover
  <1>6. ASSUME NEW q \in Provers
        PROVE  Owns(q)'
    <2>1. /\ \A i \in 1 .. Len(requests') : \/ i \in 1 .. Len(requests)
                                            \/ i = Len(requests) + 1
          /\ Owns(q)
      BY <1>3 DEF KafkaInv, Owned, WorkerShape
    <2>. QED
      BY <1>1, <1>3, <1>4, <2>1 DEF Owns, prover
  <1>7. FirstReportTruthful'
    BY <1>4, ReportsKeep DEF prover
  <1>. QED
    BY <1>4, <1>5, <1>6, <1>7, GrowthKeeps DEF KafkaInv, Owned

-----------------------------------------------------------------------------
\* The earliest of some offsets is one of them, and none is earlier.
LEMMA EarliestIsOne ==
  ASSUME NEW S \in SUBSET Nat, S # {}
  PROVE  Earliest(S) \in S /\ \A j \in S : Earliest(S) <= j
  <1>1. PICK i \in S : \A j \in S : <<j, i>> \notin OpToRel(<, Nat)
    BY WFMin, NatLessThanWellFounded, Zenon
  <1>2. ASSUME NEW j \in S
        PROVE  i <= j
    <2>1. <<j, i>> \in Nat \X Nat /\ <<j, i>>[1] = j /\ <<j, i>>[2] = i
      OBVIOUS
    <2>2. j < i => <<j, i>> \in OpToRel(<, Nat)
      BY <2>1, Zenon DEF OpToRel
    <2>3. ~ (j < i)
      BY <1>1, <2>2, Zenon
    <2>. QED
      BY <2>3
  <1>. QED
    BY <1>2 DEF Earliest

\* The wait of a prover ends with a report that the response topic bears out,
\* or with a timeout.
LEMMA ReportKeeps ==
  ASSUME KafkaInv, NEW p \in Provers, NEW w \in Reports, Report(p, w),
         pphase[p] \in {"waiting", "rewaiting"},
         w = "verified" => /\ mine[p].req.form = "good"
                           /\ \E v \in verified : requests[v[2]] = mine[p],
         UNCHANGED <<rpvars, registry, requests, responses, worker, history, mine>>
  PROVE  KafkaInv'
  <1>1. Grows
    BY DEF Grows, KafkaInv, WorkerShape
  <1>2. /\ scan' = [scan EXCEPT ![p] = 0]
        /\ \/ /\ first' = [first EXCEPT ![p] = w] /\ UNCHANGED second
              /\ pphase' = [pphase EXCEPT ![p] = "reported"]
           \/ /\ second' = [second EXCEPT ![p] = w] /\ UNCHANGED first
              /\ pphase' = [pphase EXCEPT ![p] = "finished"]
    BY DEF Report
  <1>3. ProverShape'
    <2>1. Len(responses) \in Nat
      BY DEF KafkaInv, WorkerShape
    <2>2. scan' \in [Provers -> Nat] /\ \A q \in Provers : scan'[q] <= Len(responses)
      BY <1>2, <2>1 DEF KafkaInv, ProverShape
    <2>3. /\ pphase' \in [Provers -> {"idle", "waiting", "reported", "rewaiting",
                                      "finished", "failed"}]
          /\ first' \in [Provers -> Reports] /\ second' \in [Provers -> Reports]
      BY <1>2 DEF KafkaInv, ProverShape
    <2>. QED
      BY <2>2, <2>3 DEF KafkaInv, ProverShape, Records, AuthRequest, Forms, Reports, Outcomes
  <1>4. \A q \in Provers : pphase'[q] # "idle" <=> pphase[q] # "idle"
    BY <1>2 DEF KafkaInv, ProverShape
  <1>5. Owned'
    BY <1>2, <1>4 DEF KafkaInv, ProverShape, Owned, Owns
  <1>6. FirstReportTruthful'
    BY <1>2 DEF KafkaInv, ProverShape, FirstReportTruthful, history
  <1>. QED
    BY <1>1, <1>3, <1>5, <1>6, GrowthKeeps DEF KafkaInv

\* The response at which a scan ends, and what it has passed.
LEMMA PollFinds ==
  ASSUME KafkaInv, NEW p \in Provers, Poll(p)
  PROVE  \/ \E n \in scan[p] + 1 .. Len(responses) :
              /\ UNCHANGED <<pphase, first, second>> /\ scan' = [scan EXCEPT ![p] = n]
              /\ \A j \in scan[p] + 1 .. n : responses[j].rid # p
         \/ \E j \in scan[p] + 1 .. Len(responses) :
              /\ Report(p, responses[j].why) /\ responses[j].rid = p
              /\ \A i \in scan[p] + 1 .. j - 1 : responses[i].rid # p
  <1>1. PICK n \in scan[p] + 1 .. Len(responses) :
          IF Match(p, n) = {}
            THEN scan' = [scan EXCEPT ![p] = n] /\ UNCHANGED <<pphase, first, second>>
            ELSE Report(p, responses[Earliest(Match(p, n))].why)
    BY DEF Poll
  <1>2. scan[p] \in Nat /\ Len(responses) \in Nat
    BY DEF KafkaInv, WorkerShape, ProverShape
  <1>3. CASE Match(p, n) = {}
    BY <1>1, <1>3 DEF Match
  <1>4. CASE Match(p, n) # {}
    <2>1. Match(p, n) \in SUBSET Nat
      BY <1>2 DEF Match
    <2>2. PICK j : j = Earliest(Match(p, n))
      OBVIOUS
    <2>3. j \in Match(p, n) /\ \A i \in Match(p, n) : j <= i
      BY <1>4, <2>1, <2>2, EarliestIsOne
    <2>4. Report(p, responses[j].why)
      BY <1>1, <1>4, <2>2
    <2>. QED
      BY <1>1, <1>2, <2>3, <2>4 DEF Match
  <1>. QED
    BY <1>3, <1>4

\* A scan of the responses ends with the response to the prover's own request.
LEMMA PollKeeps ==
  ASSUME KafkaInv, NEW p \in Provers, Poll(p)
  PROVE  KafkaInv'
  <1>1. /\ pphase[p] \in {"waiting", "rewaiting"}
        /\ UNCHANGED <<rpvars, registry, requests, responses, worker, history, mine>>
    BY DEF Poll
  <1>2. /\ responses \in Seq(Responses) /\ Len(responses) \in Nat /\ scan[p] \in Nat
        /\ \A j \in scan[p] + 1 .. Len(responses) : j \in 1 .. Len(responses)
    BY DEF KafkaInv, WorkerShape, ProverShape
  <1>3. ASSUME NEW n \in scan[p] + 1 .. Len(responses),
               UNCHANGED <<pphase, first, second>>, scan' = [scan EXCEPT ![p] = n]
        PROVE  KafkaInv'
    <2>1. Grows
      BY <1>1 DEF Grows, KafkaInv, WorkerShape
    <2>2. ProverShape'
      BY <1>1, <1>2, <1>3 DEF KafkaInv, ProverShape
    <2>3. Owned' /\ FirstReportTruthful'
      BY <1>1, <1>3 DEF KafkaInv, Owned, Owns, FirstReportTruthful, history
    <2>. QED
      BY <2>1, <2>2, <2>3, GrowthKeeps DEF KafkaInv
  <1>4. ASSUME NEW j \in scan[p] + 1 .. Len(responses), Report(p, responses[j].why),
               responses[j].rid = p
        PROVE  KafkaInv'
    <2>1. PICK r \in Responses : r = responses[j]
      BY <1>2
    <2>2. r.rid = p /\ Answers(r) /\ r.why \in Reports /\ Report(p, r.why)
      BY <1>2, <1>4, <2>1 DEF KafkaInv, Published, Responses, Reports
    <2>3. r.pos \in 1 .. Len(requests) /\ requests[r.pos] = mine[p]
      BY <2>2 DEF Answers, KafkaInv, WorkerShape, Owned, Owns
    <2>4. r.why = "verified" => /\ mine[p].req.form = "good"
                                /\ \E v \in verified : requests[v[2]] = mine[p]
      BY <2>2, <2>3 DEF Answers, Genuine
    <2>. QED
      BY <1>1, <2>2, <2>4, ReportKeeps
  <1>. QED
    BY <1>3, <1>4, PollFinds

\* A wait that times out reports no success.
LEMMA TimeOutKeeps ==
  ASSUME KafkaInv, NEW p \in Provers, TimeOut(p)
  PROVE  KafkaInv'
  BY ReportKeeps DEF TimeOut, Reports

-----------------------------------------------------------------------------
\* A step of the worker that publishes nothing: it stops, it starts, or its
\* offset moves on before the next record is processed.
LEMMA WorkerMoves ==
  ASSUME KafkaInv, WorkerShape', Working',
         UNCHANGED <<requests, responses, prover>>,
         taken \subseteq taken', verified \subseteq verified',
         \/ wphase' = "down" /\ life' = life
         \/ wphase = "down" /\ life' = life + 1
         \/ /\ wphase # "down" /\ life' = life /\ offset <= offset'
            /\ Processing' => Processing \/ offset < offset'
  PROVE  KafkaInv'
  <1>. USE DEF KafkaInv
  <1>1. ProverShape' /\ Owned' /\ ResponsesInOrder'
    BY DEF ProverShape, Owned, Owns, ResponsesInOrder, prover
  <1>2. FirstReportTruthful'
    BY DEF FirstReportTruthful, prover
  <1>3. /\ life \in Nat /\ life' \in Nat /\ offset \in Nat /\ offset' \in Nat
        /\ life <= life'
    BY KafkaAssumption DEF WorkerShape
  <1>4. ASSUME NEW r \in Responses, Answers(r)
        PROVE  Answers(r)'
    <2>1. /\ r.pos \in taken' /\ requests'[r.pos] # Junk
          /\ r.rid = requests'[r.pos].rid
          /\ r.why = "verified" => /\ Genuine(requests'[r.pos].req)
                                   /\ <<r.life, r.pos>> \in verified'
      BY <1>4 DEF Answers
    <2>2. r.life \in 1 .. life'
      BY <1>3, <1>4 DEF Answers
    <2>3. r.life = life' /\ wphase' # "down"
            => r.pos <= offset' /\ (Processing' => r.pos < offset')
      BY <1>3, <1>4 DEF Answers, Responses
    <2>. QED
      BY <2>1, <2>2, <2>3 DEF Answers, Genuine
  <1>5. Published'
    BY <1>4 DEF Published, WorkerShape
  <1>. QED
    BY <1>1, <1>2, <1>5

\* A key that the bank has held stays among those it has held.
LEMMA EnrolKeeps ==
  ASSUME KafkaInv, NEW u \in Users, NEW k \in Keys \cup {NoKey}, Enrol(u, k)
  PROVE  KafkaInv'
  <1>. USE DEF Enrol, KafkaInv, rpvars, worker
  <1>1. WorkerShape'
    BY DEF WorkerShape
  <1>2. Working'
    BY DEF Working, WorkerShape, Processing, Current, Genuine
  <1>3. wphase # "down" => Processing' = Processing /\ offset <= offset'
    BY DEF Processing, WorkerShape
  <1>. QED
    BY <1>1, <1>2, <1>3, WorkerMoves DEF Processing

\* A new life of the worker has published nothing yet.
LEMMA StartKeeps ==
  ASSUME KafkaInv, Start
  PROVE  KafkaInv'
  <1>1. /\ wphase = "down" /\ life < MaxLives /\ life' = life + 1
        /\ wphase' = "select" /\ offset' \in 0 .. Len(requests) /\ batchEnd' = offset'
        /\ UNCHANGED <<rpvars, registry, requests, responses, outcome, signalled,
                       history, prover>>
    BY DEF Start, KafkaInv, WorkerShape
  <1>2. /\ life' \in 0 .. MaxLives /\ life' > 0
        /\ \A i \in 1 .. life : i \in 1 .. life'
    BY <1>1, KafkaAssumption DEF KafkaInv, WorkerShape
  <1>3. WorkerShape'
    BY <1>1, <1>2 DEF KafkaInv, WorkerShape, rpvars, history
  <1>4. Working'
    BY <1>1, <1>2 DEF Working, Processing
  <1>. QED
    BY <1>1, <1>3, <1>4, WorkerMoves DEF history

\* Being signalled, taking a batch and finishing it.
LEMMA LoopKeeps ==
  ASSUME KafkaInv, CtrlC \/ Fetch \/ BatchDone
  PROVE  KafkaInv'
  <1>1. /\ wphase # "down" /\ offset' = offset
        /\ UNCHANGED <<rpvars, registry, requests, responses, outcome, life,
                       history, prover>>
        /\ wphase' = wphase \/ wphase' \in {"next", "select"}
        /\ batchEnd' \in offset .. Len(requests)
        /\ wphase' \in {"next", "select"} \/ batchEnd' = batchEnd
        /\ signalled' \in {"no", "yes", "deaf"}
    BY DEF CtrlC, Fetch, BatchDone, KafkaInv, WorkerShape
  <1>2. WorkerShape'
    BY <1>1 DEF KafkaInv, WorkerShape, rpvars, history
  <1>3. Working'
    BY <1>1 DEF KafkaInv, Working, Processing, Current, Genuine, history
  <1>. QED
    BY <1>1, <1>2, <1>3, WorkerMoves DEF Processing, KafkaInv, WorkerShape, history

\* A worker that is killed or stops leaves the topics as they are.
LEMMA EndKeeps ==
  ASSUME KafkaInv, End
  PROVE  KafkaInv'
  <1>. USE DEF End, RP!Forget, KafkaInv
  <1>1. WorkerShape'
    BY DEF WorkerShape
  <1>2. Working'
    BY DEF Working, Processing
  <1>. QED
    BY <1>1, <1>2, WorkerMoves

\* The next record lies behind everything this life has published.
LEMMA NextRecordKeeps ==
  ASSUME KafkaInv, NextRecord
  PROVE  KafkaInv'
  <1>1. /\ wphase = "next" /\ offset < batchEnd /\ offset' = offset + 1
        /\ offset' \in 1 .. Len(requests) /\ requests[offset'] \in Records
        /\ UNCHANGED <<rpvars, registry, requests, responses, batchEnd, outcome,
                       signalled, life, lost, verified, prover>>
    BY DEF NextRecord, KafkaInv, WorkerShape
  <1>2. CASE requests[offset'] = Junk
    <2>1. UNCHANGED <<wphase, taken, held>>
      BY <1>1, <1>2 DEF NextRecord
    <2>2. WorkerShape' /\ Working'
      BY <1>1, <2>1 DEF KafkaInv, WorkerShape, Working, Processing, rpvars
    <2>. QED
      BY <1>1, <2>1, <2>2, WorkerMoves DEF Processing, KafkaInv, WorkerShape
  <1>3. CASE requests[offset'] # Junk
    <2>1. /\ wphase' = "lookup" /\ taken' = taken \cup {offset'}
          /\ held' = {registry[requests[offset'].req.user]}
      BY <1>1, <1>3 DEF NextRecord
    <2>2. requests[offset'].req.user \in Users
      BY <1>1, <1>3 DEF Records, AuthRequest
    <2>3. WorkerShape'
      BY <1>1, <2>1, <2>2 DEF KafkaInv, WorkerShape, rpvars
    <2>4. Working'
      BY <1>1, <1>3, <2>1 DEF KafkaInv, Working, Processing, Current
    <2>5. offset <= offset' /\ offset < offset'
      BY <1>1 DEF KafkaInv, WorkerShape
    <2>. QED
      BY <1>1, <2>1, <2>3, <2>4, <2>5, WorkerMoves
  <1>. QED
    BY <1>2, <1>3

\* Processing a record up to its outcome.
LEMMA ProcessKeeps ==
  ASSUME KafkaInv, Processing, Processing', wphase # "publish",
         UNCHANGED <<clock, registry, requests, responses, offset, batchEnd, signalled,
                     life, taken, lost, held, prover>>,
         \/ /\ wphase' \in {"check", "locked", "verify"} /\ outcome' = outcome
            /\ Current.req.pk \in held
         \/ wphase' = "publish" /\ outcome' \in Outcomes,
         IF wphase' = "publish" /\ outcome' = "verified"
           THEN /\ Genuine(Current.req) /\ Current.req.pk \in held
                /\ verified' = verified \cup {<<life, offset>>}
           ELSE UNCHANGED verified
  PROVE  KafkaInv'
  <1>1. life \in 1 .. life /\ offset \in taken
    BY DEF KafkaInv, WorkerShape, Working, Processing
  <1>2. WorkerShape'
    BY <1>1 DEF KafkaInv, WorkerShape
  <1>3. Working'
    BY DEF KafkaInv, Working, Processing, Current, Genuine, Outcomes
  <1>. QED
    BY <1>2, <1>3, WorkerMoves DEF KafkaInv, WorkerShape, Processing

\* The look-up goes on only with the key that the bank holds.
LEMMA LookupKeeps ==
  ASSUME KafkaInv, LookupKey
  PROVE  KafkaInv'
  <1>1. /\ wphase = "lookup" /\ registry[Current.req.user] \in held
        /\ UNCHANGED <<rpvars, registry, requests, responses, offset, batchEnd,
                       signalled, life, history, prover>>
    BY DEF LookupKey, KafkaInv, Working, Processing
  <1>2. \/ /\ wphase' = "check" /\ outcome' = outcome
           /\ Current.req.pk = registry[Current.req.user]
        \/ /\ wphase' = "publish"
           /\ outcome' \in {"storage", "unregistered", "mismatch"}
    BY DEF LookupKey, Lookup, Outcome
  <1>. QED
    BY <1>1, <1>2, ProcessKeeps DEF Processing, Outcomes, rpvars, history

\* The replay protector decides nothing but whether to go on.
LEMMA CheckKeeps ==
  ASSUME KafkaInv, CheckFresh \/ CheckNonce
  PROVE  KafkaInv'
  <1>1. /\ wphase \in {"check", "locked"} /\ Current.req.pk \in held
        /\ UNCHANGED <<clock, registry, requests, responses, offset, batchEnd,
                       signalled, life, history, prover>>
    BY DEF CheckFresh, CheckNonce, RP!Enter, RP!Refuse, RP!Replayed, RP!Record,
           RP!Return, KafkaInv, Working
  <1>2. \/ wphase' \in {"locked", "verify"} /\ outcome' = outcome
        \/ wphase' = "publish" /\ outcome' \in {"stale", "replay"}
    BY DEF CheckFresh, CheckNonce, Outcome
  <1>. QED
    BY <1>1, <1>2, ProcessKeeps DEF Processing, Outcomes, history

\* A success is published only of a proof that was verified in this life.
LEMMA VerifyKeeps ==
  ASSUME KafkaInv, VerifyProof
  PROVE  KafkaInv'
  <1>1. /\ wphase = "verify" /\ Current.req.pk \in held
        /\ UNCHANGED <<rpvars, registry, requests, responses, offset, batchEnd,
                       signalled, life, taken, lost, held, prover>>
    BY DEF VerifyProof, KafkaInv, Working
  <1>2. /\ wphase' = "publish" /\ outcome' \in {"error", "verified", "invalid"}
        /\ verified' = IF outcome' = "verified" THEN verified \cup {<<life, offset>>}
                                                ELSE verified
        /\ outcome' = "verified" => Genuine(Current.req)
    BY DEF VerifyProof, Verify, Outcome, Genuine
  <1>. QED
    BY <1>1, <1>2, ProcessKeeps DEF Processing, Outcomes, rpvars

-----------------------------------------------------------------------------
\* Responses written for the record in process stand behind the older ones.
LEMMA PublishKeeps ==
  ASSUME KafkaInv, Publish
  PROVE  KafkaInv'
  <1>0. PICK m : m = [rid |-> Current.rid, why |-> outcome, pos |-> offset, life |-> life]
    OBVIOUS
  <1>1. PICK copies \in Copies :
          /\ responses' = Appended(responses, m, copies)
          /\ lost' = IF copies = 0 THEN lost \cup {offset} ELSE lost
    BY <1>0 DEF Publish
  <1>2. /\ wphase = "publish" /\ wphase' = "next" /\ outcome' = "none" /\ held' = {}
        /\ UNCHANGED <<rpvars, registry, requests, offset, batchEnd, signalled, life,
                       taken, verified, prover>>
    BY DEF Publish
  <1>3. /\ offset \in taken /\ offset \in 1 .. Len(requests) /\ Current # Junk
        /\ Current \in Records /\ life \in Nat /\ life > 0 /\ outcome \in Outcomes
        /\ outcome = "verified" => Genuine(Current.req) /\ <<life, offset>> \in verified
    BY <1>2 DEF KafkaInv, WorkerShape, Working, Processing, Current
  <1>4. m \in Responses /\ Answers(m)'
    BY <1>0, <1>2, <1>3 DEF Responses, Answers, Current, Records, Processing, Genuine
  <1>5. /\ m.pos = offset /\ m.life = life
        /\ copies \in Nat /\ copies <= 2 /\ Len(responses) \in Nat
    BY <1>0 DEF Copies, KafkaInv, WorkerShape
  <1>6. /\ responses' \in Seq(Responses) /\ Len(responses') = Len(responses) + copies
        /\ \A i \in 1 .. Len(responses) : responses'[i] = responses[i]
        /\ \A i \in Len(responses) + 1 .. Len(responses') : responses'[i] = m
    <2>. DEFINE t == Appended(responses, m, copies)
    <2>1. /\ t \in Seq(Responses) /\ Len(t) = Len(responses) + copies
          /\ \A i \in 1 .. Len(responses) : t[i] = responses[i]
          /\ \A i \in Len(responses) + 1 .. Len(responses) + copies : t[i] = m
      BY <1>4, Copied DEF KafkaInv, WorkerShape
    <2>2. responses' = t
      BY <1>1
    <2>. HIDE DEF t
    <2>. QED
      BY <1>5, <2>1, <2>2
  <1>7. \A i \in 1 .. Len(responses') :
          \/ i \in 1 .. Len(responses) /\ responses'[i] = responses[i]
          \/ i \in Len(responses) + 1 .. Len(responses) + 2 /\ responses'[i] = m
    BY <1>5, <1>6
  <1>8. WorkerShape' /\ Working'
    BY <1>1, <1>2, <1>3, <1>6
    DEF KafkaInv, WorkerShape, Working, Processing, rpvars
  <1>9. ProverShape' /\ Owned' /\ FirstReportTruthful'
    BY <1>2, <1>5, <1>6
    DEF KafkaInv, ProverShape, Owned, Owns, FirstReportTruthful, prover
  <1>10. ASSUME NEW r \in Responses, Answers(r)
         PROVE  Answers(r)' /\ (r.life = life => r.pos < offset)
    BY <1>2, <1>10 DEF Answers, Processing, Genuine, Responses, KafkaInv, WorkerShape
  <1>13. \A i \in 1 .. Len(responses) : responses[i] \in Responses /\ Answers(responses[i])
    BY DEF KafkaInv, WorkerShape, Published
  <1>11. Published'
    BY <1>4, <1>7, <1>10, <1>13 DEF Published
  <1>12. ResponsesInOrder'
    <2>. SUFFICES ASSUME NEW i \in 1 .. Len(responses'), NEW j \in 1 .. Len(responses'),
                         i < j, responses'[i].life = responses'[j].life
                  PROVE  \/ responses'[i].pos < responses'[j].pos
                         \/ j = i + 1 /\ responses'[i] = responses'[j]
      BY DEF ResponsesInOrder
    <2>1. CASE i \in 1 .. Len(responses) /\ j \in 1 .. Len(responses)
      BY <1>6, <2>1 DEF KafkaInv, ResponsesInOrder
    <2>2. CASE i \in 1 .. Len(responses) /\ j \notin 1 .. Len(responses)
      BY <1>5, <1>7, <1>10, <1>13, <2>2
    <2>3. CASE i \notin 1 .. Len(responses)
      BY <1>5, <1>7, <2>3
    <2>. QED
      BY <2>1, <2>2, <2>3
  <1>. QED
    BY <1>8, <1>9, <1>11, <1>12 DEF KafkaInv

\* The passing of time.
LEMMA RestKeeps ==
  ASSUME KafkaInv, Tick \/ UNCHANGED vars
  PROVE  KafkaInv'
  <1>1. /\ UNCHANGED <<registry, requests, responses, worker, history, prover>>
        /\ clock' \in 0 .. MaxClock
    BY ProtectorAssumption
    DEF Tick, RP!Tick, RP!Readings, vars, rpvars, KafkaInv, WorkerShape
  <1>2. WorkerShape' /\ Working'
    BY <1>1 DEF KafkaInv, WorkerShape, Working, Processing, Current, Genuine, worker, history
  <1>. QED
    BY <1>1, <1>2, WorkerMoves DEF Processing, KafkaInv, WorkerShape, worker, history

-----------------------------------------------------------------------------
\* The inductive invariant holds before anything has happened.
LEMMA Initially ==
  ASSUME Init
  PROVE  KafkaInv /\ TakenBehind
  <1>. USE KafkaAssumption DEF Init, RP!Init
  <1>1. WorkerShape
    BY DEF WorkerShape, Records, Outcomes
  <1>2. ProverShape
    BY DEF ProverShape, Records, Reports
  <1>3. Working /\ Published /\ TakenBehind
    BY DEF Working, Processing, Published, TakenBehind
  <1>4. Owned /\ ResponsesInOrder /\ FirstReportTruthful
    BY DEF Owned, Owns, ResponsesInOrder, FirstReportTruthful
  <1>. QED
    BY <1>1, <1>2, <1>3, <1>4 DEF KafkaInv

\* Every step keeps it.
LEMMA Steps ==
  ASSUME KafkaInv, [Next]_vars
  PROVE  KafkaInv'
  <1>1. CASE Work
    BY <1>1, LoopKeeps, NextRecordKeeps, LookupKeeps, CheckKeeps, VerifyKeeps,
       EndKeeps, PublishKeeps DEF Work, Panic
  <1>2. ASSUME NEW p \in Provers, Submit(p) \/ Resubmit(p) \/ Poll(p) \/ TimeOut(p)
        PROVE  KafkaInv'
    BY <1>2, SubmitKeeps, ResubmitKeeps, PollKeeps, TimeOutKeeps
  <1>3. CASE Start \/ CtrlC \/ Exit \/ Crash
    BY <1>3, StartKeeps, LoopKeeps, EndKeeps DEF Exit, Crash
  <1>. QED
    BY <1>1, <1>2, <1>3, AppendForeignKeeps, EnrolKeeps, RestKeeps DEF Next

\* The inductive invariant holds of every behaviour.
LEMMA Invariant == Spec => []KafkaInv
  <1>1. Init => KafkaInv
    BY Initially
  <1>2. KafkaInv /\ [Next]_vars => KafkaInv'
    BY Steps
  <1>. QED
    BY <1>1, <1>2, PTL DEF Spec

-----------------------------------------------------------------------------
(***************************************************************************)
(* The responses of one life of the worker (run, process_record) stand in  *)
(* the order of their requests, for any batches, crashes and repeated      *)
(* appends.                                                                *)
(***************************************************************************)
THEOREM InOrder == Spec => []ResponsesInOrder
  BY Invariant, PTL DEF KafkaInv

(***************************************************************************)
(* A published success answers the id of a request made with the secret    *)
(* key of the key it names, for a key the bank held meanwhile              *)
(* (process_record).                                                       *)
(***************************************************************************)
THEOREM SuccessesEarned == Spec => []SuccessIsEarned
  <1>1. KafkaInv => SuccessIsEarned
    BY DEF KafkaInv, Published, Answers, Working, SuccessIsEarned
  <1>. QED
    BY <1>1, Invariant, PTL

(***************************************************************************)
(* A prover that reports VERIFIED for its submission (wait_for_response)   *)
(* did not tamper with it, and the worker verified that very request.      *)
(***************************************************************************)
THEOREM ReportsTruthful == Spec => []FirstReportTruthful
  BY Invariant, PTL DEF KafkaInv

\* What the worker has taken stays behind its offset where it starts at the end.
LEMMA StepTakenBehind ==
  ASSUME KafkaInv, TakenBehind, ~OffsetErrors, [Next]_vars
  PROVE  TakenBehind'
  <1>. USE DEF TakenBehind, KafkaInv, WorkerShape
  <1>1. CASE Start
    BY <1>1 DEF Start, history
  <1>2. CASE NextRecord
    <2>1. /\ offset' = offset + 1 /\ taken' \subseteq taken \cup {offset + 1}
          /\ wphase # "down"
      BY <1>2 DEF NextRecord
    <2>. QED
      BY <2>1
  <1>3. CASE End
    BY <1>3 DEF End
  <1>4. CASE /\ UNCHANGED <<offset, taken>>
             /\ wphase' # "down" => wphase # "down"
    BY <1>4
  <1>5. ASSUME NEW p \in Provers, Submit(p) \/ Resubmit(p) \/ Poll(p) \/ TimeOut(p)
        PROVE  UNCHANGED <<offset, taken, wphase>>
    BY <1>5 DEF Submit, Resubmit, Poll, TimeOut, worker, history
  <1>6. ASSUME \/ \E m \in Foreign \cup {Junk} : AppendForeign(m)
               \/ \E u \in Users, k \in Keys \cup {NoKey} : Enrol(u, k)
               \/ CtrlC \/ Tick \/ UNCHANGED vars
        PROVE  UNCHANGED <<offset, taken, wphase>>
    BY <1>6 DEF AppendForeign, Enrol, CtrlC, Tick, vars, worker, history
  <1>7. ASSUME \/ Fetch \/ BatchDone \/ LookupKey \/ CheckFresh \/ CheckNonce
               \/ VerifyProof \/ Publish
        PROVE  UNCHANGED <<offset, taken>> /\ wphase # "down"
    BY <1>7 DEF Fetch, BatchDone, LookupKey, CheckFresh, CheckNonce, VerifyProof,
                Publish, history
  <1>. QED
    BY <1>1, <1>2, <1>3, <1>4, <1>5, <1>6, <1>7 DEF Next, Work, Exit, Crash, Panic

(***************************************************************************)
(* A worker that finds the end of the topic at every start (run) processes *)
(* a request at most once, over all its lives.                             *)
(***************************************************************************)
THEOREM ProcessedOnce == ~OffsetErrors /\ Spec => NeverReprocessed
  <1>. SUFFICES ASSUME ~OffsetErrors PROVE Spec => NeverReprocessed
    OBVIOUS
  <1>1. Init => TakenBehind
    BY Initially
  <1>2. KafkaInv /\ TakenBehind /\ [Next]_vars => TakenBehind'
    BY StepTakenBehind
  <1>3. ASSUME KafkaInv, TakenBehind, [Next]_vars, wphase = "next", wphase' = "lookup"
        PROVE  offset' \notin taken
    <2>1. NextRecord
      BY <1>3 DEF Next, Work, Exit, Crash, Panic, End, Submit, Resubmit, Poll, TimeOut,
         AppendForeign, Enrol, Start, CtrlC, Tick, Fetch, BatchDone, LookupKey,
         CheckFresh, CheckNonce, VerifyProof, Publish, vars, worker
    <2>. QED
      BY <1>3, <2>1 DEF NextRecord, TakenBehind, KafkaInv, WorkerShape
  <1>4. KafkaInv /\ TakenBehind /\ [Next]_vars
        => [\A i \in 1 .. MaxLog :
              wphase = "next" /\ wphase' = "lookup" /\ offset' = i => i \notin taken]_vars
    BY <1>3
  <1>. QED
    BY <1>1, <1>2, <1>4, Invariant, PTL DEF Spec, NeverReprocessed

-----------------------------------------------------------------------------
(***************************************************************************)
(* What is known of the protector's own steps; the worker is its only      *)
(* caller.                                                                 *)
(***************************************************************************)
PP == INSTANCE ReplayProtector_proofs WITH
  Callers <- {Worker}, Restarts <- TRUE, ClockStepsBack <- FALSE,
  earlier <- {}, restartedAt <- 0

\* The assumptions under which those results hold are met here.
LEMMA ProtectorReady == PP!FreshnessAssumption /\ PP!ReplayProtectorAssumption
  BY ProtectorAssumption
  DEF RP!Readings, RP!I64, RP!Proofs, PP!Readings, PP!I64, PP!Proofs

\* The operators of the two instances of the protector are the same.
LEMMA SameProtector ==
  /\ RP!Proofs = PP!Proofs
  /\ RP!Init <=> PP!Init
  /\ RP!TypeOK <=> PP!TypeOK
  /\ RP!Tick <=> PP!Tick
  /\ RP!Forget <=> PP!Forget
  /\ RP!Waiting(Worker) <=> PP!Waiting(Worker)
  /\ RP!Replayed(Worker) <=> PP!Replayed(Worker)
  /\ RP!Record(Worker) <=> PP!Record(Worker)
  /\ \A p \in RP!Proofs : /\ RP!Enter(Worker, p) <=> PP!Enter(Worker, p)
                          /\ RP!Refuse(Worker, p) <=> PP!Refuse(Worker, p)
  <1>1. /\ RP!Proofs = PP!Proofs
        /\ RP!Init <=> PP!Init
        /\ RP!Forget <=> PP!Forget
    BY DEF RP!Proofs, PP!Proofs, RP!Init, PP!Init, RP!Forget, PP!Forget
  <1>2. RP!TypeOK <=> PP!TypeOK
    BY DEF RP!TypeOK, PP!TypeOK, RP!Proofs, PP!Proofs, RP!Verdicts, PP!Verdicts
  <1>3. RP!Tick <=> PP!Tick
    BY DEF RP!Tick, PP!Tick, RP!history, PP!history, RP!Waiting, PP!Waiting
  <1>4. /\ RP!Waiting(Worker) <=> PP!Waiting(Worker)
        /\ RP!Replayed(Worker) <=> PP!Replayed(Worker)
        /\ RP!Record(Worker) <=> PP!Record(Worker)
    BY DEF RP!Record, PP!Record, RP!Replayed, PP!Replayed, RP!Waiting, PP!Waiting,
           RP!Key, PP!Key, RP!Kept, PP!Kept, RP!Restrict, PP!Restrict,
           RP!Return, PP!Return
  <1>5. ASSUME NEW p \in RP!Proofs
        PROVE  /\ RP!Enter(Worker, p) <=> PP!Enter(Worker, p)
               /\ RP!Refuse(Worker, p) <=> PP!Refuse(Worker, p)
    BY DEF RP!Enter, PP!Enter, RP!Refuse, PP!Refuse, RP!history, PP!history,
           RP!Waiting, PP!Waiting, RP!CheckFreshness, PP!CheckFreshness,
           RP!Wrap, PP!Wrap, RP!I64, PP!I64
  <1>. QED
    BY <1>1, <1>2, <1>3, <1>4, <1>5, Zenon

\* The record in process and what is made of it are typed.
LEMMA CurrentTyped ==
  ASSUME KafkaInv, Processing
  PROVE  /\ offset \in taken /\ offset \in 1 .. Len(requests)
         /\ Current \in Records /\ Current # Junk
         /\ Current.req \in AuthRequest /\ ProofOf(Current.req) \in RP!Proofs
  <1>1. /\ offset \in taken /\ offset \in 1 .. Len(requests)
        /\ Current \in Records /\ Current # Junk
    BY DEF KafkaInv, WorkerShape, Working, Current
  <1>. QED
    BY <1>1 DEF Records, AuthRequest, ProofOf, RP!Proofs

\* The steps that are none of the protector's.
Unprotected ==
  \/ \E p \in Provers : Submit(p) \/ Resubmit(p) \/ Poll(p) \/ TimeOut(p)
  \/ \E m \in Foreign \cup {Junk} : AppendForeign(m)
  \/ \E u \in Users, k \in Keys \cup {NoKey} : Enrol(u, k)
  \/ Start \/ CtrlC \/ Fetch \/ NextRecord \/ BatchDone
  \/ LookupKey \/ VerifyProof \/ Publish \/ UNCHANGED vars

\* They leave its table, its caller and its clock alone.
LEMMA UnprotectedKeeps == Unprotected => UNCHANGED rpvars
  BY DEF Unprotected, Submit, Resubmit, Poll, TimeOut, AppendForeign, Enrol, Start,
         CtrlC, Fetch, NextRecord, BatchDone, LookupKey, VerifyProof, Publish, vars

\* What a step is: one of those, one of the protector's, or the end of the process.
LEMMA StepCases ==
  ASSUME [Next]_vars
  PROVE  Unprotected \/ CheckFresh \/ CheckNonce \/ Tick \/ End
  BY DEF Next, Work, Exit, Crash, Panic, Unprotected

\* Every step of the pipeline is one of the protector's, or the end of the process.
LEMMA ProtectorSteps ==
  ASSUME KafkaInv, [Next]_vars
  PROVE  [PP!Next]_(PP!vars) \/ RP!Forget
  <1>1. Unprotected => UNCHANGED PP!vars
    BY UnprotectedKeeps DEF rpvars, PP!vars
  <1>2. CheckFresh => PP!Next
    BY CurrentTyped, SameProtector DEF CheckFresh, Processing, PP!Next
  <1>3. CheckNonce => PP!Next
    BY SameProtector DEF CheckNonce, PP!Next
  <1>4. Tick => PP!Next
    BY SameProtector DEF Tick, PP!Next
  <1>. QED
    BY <1>1, <1>2, <1>3, <1>4, StepCases DEF End

\* So the protector's invariant holds of the worker's table.
LEMMA ProtectorInvariant == Spec => []PP!ReplayInv
  <1>1. Init => PP!ReplayInv
    BY ProtectorReady, SameProtector, PP!InitReplayInv DEF Init
  <1>2. KafkaInv /\ PP!ReplayInv /\ [Next]_vars => PP!ReplayInv'
    BY ProtectorSteps, ProtectorReady, SameProtector, PP!StepReplayInv, PP!ForgetReplayInv
  <1>. QED
    BY <1>1, <1>2, Invariant, PTL DEF Spec

(***************************************************************************)
(* Every reachable state of the topics, the worker and the provers (run,   *)
(* process_record, submit_proof, wait_for_response) is well typed.         *)
(***************************************************************************)
THEOREM KafkaTypeCorrect == Spec => []KafkaTypeOK
  <1>1. PP!ReplayInv => RP!TypeOK
    BY SameProtector DEF PP!ReplayInv
  <1>2. KafkaInv /\ RP!TypeOK => KafkaTypeOK
    <2>. SUFFICES ASSUME KafkaInv, RP!TypeOK PROVE KafkaTypeOK
      OBVIOUS
    <2>. USE DEF KafkaInv, WorkerShape, ProverShape
    <2>1. /\ Len(requests) \in Nat /\ life \in Nat
          /\ \A i \in 1 .. Len(requests) : requests[i] \in Records /\ i \in 1 .. MaxLog
          /\ \A i \in 1 .. life : i \in 1 .. MaxLives
      BY KafkaAssumption
    <2>2. \A i \in 1 .. Len(responses) :
            responses[i] \in [rid : Provers \cup {Other}, why : Outcomes,
                             pos : 1 .. MaxLog, life : 1 .. MaxLives]
      <3>1. ASSUME NEW r \in Responses, Answers(r)
            PROVE  r \in [rid : Provers \cup {Other}, why : Outcomes,
                         pos : 1 .. MaxLog, life : 1 .. MaxLives]
        BY <2>1, <3>1 DEF Answers, Responses
      <3>. QED
        BY <3>1 DEF Published
    <2>3. taken \subseteq 1 .. MaxLog /\ verified \subseteq (1 .. MaxLives) \X taken
      BY <2>1
    <2>4. scan \in [Provers -> 0 .. Len(responses)]
      OBVIOUS
    <2>. QED
      BY <2>1, <2>2, <2>3, <2>4 DEF KafkaTypeOK
  <1>. QED
    BY <1>1, <1>2, Invariant, ProtectorInvariant, PTL DEF Spec
-----------------------------------------------------------------------------
(***************************************************************************)
(* What a step never does: no record of either topic changes its place or  *)
(* its content, and nothing that was processed or lost is taken back.      *)
(***************************************************************************)
Onward ==
  /\ Len(requests) <= Len(requests')
  /\ \A i \in 1 .. Len(requests) : requests'[i] = requests[i]
  /\ Len(responses) <= Len(responses')
  /\ \A j \in 1 .. Len(responses) : responses'[j] = responses[j]
  /\ taken \subseteq taken' /\ lost \subseteq lost' /\ verified \subseteq verified'

\* A produce call leaves the records that are there, whatever it appends.
LEMMA Produced ==
  ASSUME NEW S, NEW s \in Seq(S), NEW m, NEW n \in Copies
  PROVE  /\ Len(Appended(s, m, n)) = Len(s) + n /\ n \in Nat /\ Len(s) \in Nat
         /\ \A i \in 1 .. Len(s) : Appended(s, m, n)[i] = s[i]
         /\ \A i \in Len(s) + 1 .. Len(s) + n : Appended(s, m, n)[i] = m
  <1>1. s \in Seq(S \cup {m}) /\ m \in S \cup {m} /\ n \in Nat /\ Len(s) \in Nat
    BY DEF Copies
  <1>2. PICK t : t = Appended(s, m, n)
    OBVIOUS
  <1>3. PICK T : T = S \cup {m}
    OBVIOUS
  <1>4. s \in Seq(T) /\ m \in T
    BY <1>1, <1>3
  <1>5. /\ Len(t) = Len(s) + n
        /\ \A i \in 1 .. Len(s) : t[i] = s[i]
        /\ \A i \in Len(s) + 1 .. Len(s) + n : t[i] = m
    BY <1>2, <1>4, Copied
  <1>. QED
    BY <1>1, <1>2, <1>5

\* The requests a producer's step adds, and the end of the topic before it.
LEMMA RequestsStay ==
  ASSUME KafkaInv, [Next]_vars
  PROVE  /\ Len(requests) \in Nat /\ Len(requests') \in Nat
         /\ Len(requests) <= Len(requests')
         /\ \A i \in 1 .. Len(requests) : requests'[i] = requests[i]
         /\ \A i \in Len(requests) + 1 .. Len(requests') :
              \/ requests'[i].rid \in Provers
              \/ requests'[i] = Junk
              \/ requests'[i].req \in Foreign
  <1>0. requests \in Seq(Records) /\ Len(requests) \in Nat
    BY DEF KafkaInv, WorkerShape
  <1>1. ASSUME NEW p \in Provers, NEW m, m.rid = p, NEW n \in Copies,
               requests' = Appended(requests, m, n)
        PROVE  /\ Len(requests') \in Nat /\ Len(requests) <= Len(requests')
               /\ \A i \in 1 .. Len(requests) : requests'[i] = requests[i]
               /\ \A i \in Len(requests) + 1 .. Len(requests') :
                    requests'[i].rid \in Provers
    <2>1. PICK t : t = Appended(requests, m, n)
      OBVIOUS
    <2>2. /\ Len(t) = Len(requests) + n /\ n \in Nat
          /\ \A i \in 1 .. Len(requests) : t[i] = requests[i]
          /\ \A i \in Len(requests) + 1 .. Len(requests) + n : t[i] = m
      BY <1>0, <2>1, Produced
    <2>3. requests' = t
      BY <1>1, <2>1
    <2>. QED
      BY <1>0, <1>1, <2>2, <2>3
  <1>2. ASSUME NEW p \in Provers, Submit(p)
        PROVE  \E m : \E n \in Copies : m.rid = p /\ requests' = Appended(requests, m, n)
    <2>1. PICK form \in {"good", "altered"} :
            \E n \in Copies :
              requests' = Appended(requests, [rid |-> p, req |-> ProofBy(p, form)], n)
      BY <1>2 DEF Submit, Produce
    <2>. DEFINE m == [rid |-> p, req |-> ProofBy(p, form)]
    <2>2. m.rid = p /\ \E n \in Copies : requests' = Appended(requests, m, n)
      BY <2>1
    <2>. HIDE DEF m
    <2>. QED
      BY <2>2
  <1>3. ASSUME NEW p \in Provers, Resubmit(p)
        PROVE  \E n \in Copies : /\ mine[p].rid = p
                                 /\ requests' = Appended(requests, mine[p], n)
    BY <1>3 DEF Resubmit, Produce, KafkaInv, Owned, Owns
  <1>4. ASSUME NEW m \in Foreign \cup {Junk}, AppendForeign(m)
        PROVE  /\ Len(requests') = Len(requests) + 1
               /\ \A i \in 1 .. Len(requests) : requests'[i] = requests[i]
               /\ \/ requests'[Len(requests) + 1] = Junk
                  \/ requests'[Len(requests) + 1].req \in Foreign
    <2>. DEFINE r == IF m = Junk THEN Junk ELSE [rid |-> Other, req |-> m]
    <2>1. r = Junk \/ r.req \in Foreign
      OBVIOUS
    <2>. HIDE DEF r
    <2>2. requests' = Append(requests, r)
      BY <1>4 DEF AppendForeign, r
    <2>. QED
      BY <1>0, <2>1, <2>2
  <1>5. CASE UNCHANGED requests
    BY <1>0, <1>5
  <1>6. ASSUME NEW p \in Provers, Poll(p) \/ TimeOut(p)
        PROVE  UNCHANGED requests
    BY <1>6 DEF Poll, TimeOut
  <1>7. ASSUME \/ CheckFresh \/ CheckNonce \/ Tick \/ End
               \/ \E u \in Users, k \in Keys \cup {NoKey} : Enrol(u, k)
               \/ Start \/ CtrlC \/ Fetch \/ NextRecord \/ BatchDone
               \/ LookupKey \/ VerifyProof \/ Publish \/ UNCHANGED vars
        PROVE  UNCHANGED requests
    BY <1>7 DEF CheckFresh, CheckNonce, Tick, End, Enrol, Start, CtrlC, Fetch, NextRecord,
                BatchDone, LookupKey, VerifyProof, Publish, vars
  <1>8. CASE \E p \in Provers : Submit(p) \/ Resubmit(p)
    BY <1>0, <1>1, <1>2, <1>3, <1>8
  <1>9. CASE \E m \in Foreign \cup {Junk} : AppendForeign(m)
    BY <1>0, <1>4, <1>9
  <1>. QED
    BY <1>5, <1>6, <1>7, <1>8, <1>9, StepCases DEF Unprotected

\* Responses, and the worker's record of what it did, only grow; what is new is
\* the response to the record in process.
LEMMA ResponsesStay ==
  ASSUME KafkaInv, [Next]_vars
  PROVE  /\ Len(responses) \in Nat /\ Len(responses') \in Nat
         /\ Len(responses) <= Len(responses')
         /\ \A j \in 1 .. Len(responses) : responses'[j] = responses[j]
         /\ taken \subseteq taken' /\ lost \subseteq lost' /\ verified \subseteq verified'
         /\ \A j \in Len(responses) + 1 .. Len(responses') :
              Publish /\ responses'[j].why = outcome /\ responses'[j].pos = offset
         /\ Publish => offset \in lost' \/ Len(responses) < Len(responses')
  <1>0. responses \in Seq(Responses) /\ Len(responses) \in Nat
    BY DEF KafkaInv, WorkerShape
  <1>1. CASE Publish
    <2>1. PICK m : m = [rid |-> Current.rid, why |-> outcome, pos |-> offset, life |-> life]
      OBVIOUS
    <2>2. PICK n \in Copies : /\ responses' = Appended(responses, m, n)
                              /\ lost' = IF n = 0 THEN lost \cup {offset} ELSE lost
      BY <1>1, <2>1 DEF Publish
    <2>3. PICK t : t = Appended(responses, m, n)
      OBVIOUS
    <2>4. /\ Len(t) = Len(responses) + n /\ n \in Nat
          /\ \A j \in 1 .. Len(responses) : t[j] = responses[j]
          /\ \A j \in Len(responses) + 1 .. Len(responses) + n : t[j] = m
      BY <1>0, <2>3, Produced
    <2>5. responses' = t /\ m.why = outcome /\ m.pos = offset
      BY <2>1, <2>2, <2>3
    <2>6. /\ taken \subseteq taken' /\ lost \subseteq lost' /\ verified \subseteq verified'
          /\ n = 0 => offset \in lost'
      BY <1>1, <2>2 DEF Publish
    <2>. QED
      BY <1>0, <1>1, <2>4, <2>5, <2>6
  <1>2. CASE /\ UNCHANGED responses /\ ~Publish
             /\ taken \subseteq taken' /\ lost \subseteq lost' /\ verified \subseteq verified'
    BY <1>0, <1>2
  <1>3. ~Publish => /\ UNCHANGED <<responses, lost>>
                    /\ taken \subseteq taken' /\ verified \subseteq verified'
    <2>1. ASSUME NEW p \in Provers, Submit(p) \/ Resubmit(p) \/ Poll(p) \/ TimeOut(p)
          PROVE  UNCHANGED <<responses, taken, lost, verified>>
      BY <2>1 DEF Submit, Resubmit, Poll, TimeOut, history
    <2>2. ASSUME \/ CheckFresh \/ CheckNonce \/ Tick \/ End
                 \/ \E m \in Foreign \cup {Junk} : AppendForeign(m)
                 \/ \E u \in Users, k \in Keys \cup {NoKey} : Enrol(u, k)
                 \/ Start \/ CtrlC \/ Fetch \/ BatchDone \/ LookupKey \/ UNCHANGED vars
          PROVE  UNCHANGED <<responses, taken, lost, verified>>
      BY <2>2 DEF CheckFresh, CheckNonce, Tick, End, AppendForeign, Enrol, Start, CtrlC,
                  Fetch, BatchDone, LookupKey, vars, history
    <2>3. CASE NextRecord \/ VerifyProof
      BY <2>3 DEF NextRecord, VerifyProof
    <2>. QED
      BY <2>1, <2>2, <2>3, StepCases DEF Unprotected
  <1>. QED
    BY <1>1, <1>2, <1>3

\* So a step goes on from where it finds the topics.
LEMMA AlwaysOnward ==
  ASSUME KafkaInv, [Next]_vars
  PROVE  Onward
  BY RequestsStay, ResponsesStay DEF Onward

-----------------------------------------------------------------------------
(***************************************************************************)
(* Once per life.  The worker is the only caller, so its readings come in  *)
(* order; between records it holds nothing; and what it has verified in    *)
(* this life is among the accepted proofs, whose nonces are burned.        *)
(***************************************************************************)
ReadingsOrdered ==
  /\ horizon <= clock
  /\ PP!Waiting(Worker) => horizon <= now[Worker] /\ now[Worker] <= clock

Resting ==
  /\ ~Processing => held = {}
  /\ wphase # "publish" => outcome = "none"
  /\ wphase = "down" => accepted = {}
  /\ wphase = "locked" <=> PP!Waiting(Worker)
  /\ wphase = "locked" => call[Worker] = ProofOf(Current.req)

ProofAt(i) == ProofOf(requests[i].req)

Spent ==
  /\ \A v \in verified : wphase # "down" /\ v[1] = life => ProofAt(v[2]) \in accepted
  /\ wphase = "verify" =>
       /\ ProofAt(offset) \in accepted
       /\ \A v \in verified : v[1] = life => ProofAt(v[2]) # ProofAt(offset)

\* What is known of the worker between and within records.
OnceInv == /\ KafkaInv /\ PP!ReplayInv /\ ReadingsOrdered /\ Resting
           /\ Spent /\ VerifiedOncePerLife

\* One caller's readings come in order.
LEMMA StepOrdered ==
  ASSUME KafkaInv, PP!ReplayInv, ReadingsOrdered, [Next]_vars
  PROVE  ReadingsOrdered'
  <1>1. /\ clock \in Int /\ horizon \in Int /\ now[Worker] \in Int /\ clock >= 0
        /\ now \in [{Worker} -> 0 .. MaxClock] /\ MaxClock \in Int
        /\ call \in [{Worker} -> PP!Proofs \cup {NoCall}] /\ clock \in 0 .. MaxClock
    BY ProtectorReady, PP!ConstantsTyped DEF PP!ReplayInv, PP!TypeOK
  <1>. USE <1>1 DEF ReadingsOrdered, PP!Waiting
  <1>2. CASE UNCHANGED rpvars
    BY <1>2 DEF rpvars
  <1>3. CASE CheckFresh
    BY <1>3 DEF CheckFresh, RP!Enter, RP!Refuse, RP!history
  <1>4. CASE CheckNonce
    BY <1>4, SameProtector DEF CheckNonce, RP!Replayed, RP!Record, RP!Return
  <1>5. CASE Tick
    BY <1>5 DEF Tick, RP!Tick, RP!history
  <1>6. CASE End
    BY <1>6 DEF End, RP!Forget
  <1>. QED
    BY <1>2, <1>3, <1>4, <1>5, <1>6, StepCases, UnprotectedKeeps

\* Between records the worker holds nothing.
LEMMA StepResting ==
  ASSUME KafkaInv, PP!ReplayInv, Resting, [Next]_vars
  PROVE  Resting'
  <1>. USE DEF Resting, Processing, PP!Waiting
  <1>0. call \in [{Worker} -> PP!Proofs \cup {NoCall}] /\ NoCall \notin PP!Proofs
    BY ProtectorReady DEF PP!ReplayInv, PP!TypeOK, PP!ReplayProtectorAssumption
  <1>1. wphase = "locked" => Current' = Current \/ offset' # offset
    BY RequestsStay, CurrentTyped DEF Current
  <1>2. ASSUME NEW p \in Provers, Submit(p) \/ Resubmit(p) \/ Poll(p) \/ TimeOut(p)
        PROVE  Resting'
    BY <1>1, <1>2 DEF Submit, Resubmit, Poll, TimeOut, rpvars, worker, history
  <1>3. ASSUME \/ \E m \in Foreign \cup {Junk} : AppendForeign(m)
               \/ \E u \in Users, k \in Keys \cup {NoKey} : Enrol(u, k)
               \/ CtrlC \/ UNCHANGED vars
        PROVE  Resting'
    BY <1>1, <1>3 DEF AppendForeign, Enrol, CtrlC, vars, rpvars, worker, history
  <1>4. ASSUME \/ Start \/ Fetch \/ NextRecord \/ BatchDone \/ LookupKey
               \/ VerifyProof \/ Publish
        PROVE  Resting'
    BY <1>4 DEF Start, Fetch, NextRecord, BatchDone, LookupKey, VerifyProof, Publish,
                Outcome, rpvars, history
  <1>5. CASE CheckFresh
    <2>1. ProofOf(Current.req) \in PP!Proofs
      BY <1>5, CurrentTyped, SameProtector DEF CheckFresh
    <2>. QED
      BY <1>0, <1>5, <2>1 DEF CheckFresh, Outcome, RP!Enter, RP!Refuse, RP!history,
         Current, history
  <1>6. CASE CheckNonce
    BY <1>0, <1>6 DEF CheckNonce, Outcome, RP!Replayed, RP!Record, RP!Return, history
  <1>7. CASE Tick
    BY <1>1, <1>7 DEF Tick, RP!Tick, RP!history, worker, history
  <1>8. CASE End
    BY <1>0, <1>8 DEF End, RP!Forget
  <1>. QED
    BY <1>2, <1>3, <1>4, <1>5, <1>6, <1>7, <1>8, StepCases DEF Unprotected

\* The worker lets no proof past the mutex that it has accepted in this life.
LEMMA RecordsNew ==
  ASSUME PP!ReplayInv, ReadingsOrdered, RP!Record(Worker)
  PROVE  call[Worker] \notin accepted /\ accepted' = accepted \cup {call[Worker]}
  <1>1. PP!Waiting(Worker) /\ PP!Key(call[Worker]) \notin DOMAIN PP!Kept(now[Worker])
    BY SameProtector DEF PP!Record
  <1>2. /\ now[Worker] \in 0 .. MaxClock /\ call[Worker].ts \in Int
        /\ call[Worker].ts >= now[Worker] - MaxDrift
    BY <1>1, ProtectorReady, PP!UnderMutex
  <1>3. /\ horizon \in Int /\ horizon <= now[Worker] /\ MaxDrift \in Int
    BY <1>1, ProtectorReady, PP!ConstantsTyped
    DEF ReadingsOrdered, PP!ReplayInv, PP!TypeOK
  <1>4. ASSUME call[Worker] \in accepted
        PROVE  \/ call[Worker].ts < now[Worker] - MaxDrift
               \/ call[Worker].ts < horizon - MaxDrift
    BY <1>1, <1>2, <1>4, ProtectorReady, PP!KeptOrOut
  <1>5. call[Worker] \notin accepted
    BY <1>2, <1>3, <1>4
  <1>. QED
    BY <1>5 DEF RP!Record

\* A step that neither starts a life, nor lets a proof past the mutex, nor
\* verifies one.
LEMMA SpentStays ==
  ASSUME KafkaInv, Spent, VerifiedOncePerLife, Onward, UNCHANGED <<verified, life>>,
         wphase' # "down" => wphase # "down" /\ accepted \subseteq accepted',
         wphase' = "verify" => UNCHANGED <<wphase, offset>>
  PROVE  Spent' /\ VerifiedOncePerLife'
  <1>1. \A v \in verified : ProofAt(v[2])' = ProofAt(v[2])
    BY DEF KafkaInv, WorkerShape, Onward, ProofAt, ProofOf
  <1>2. wphase = "verify" /\ wphase' = "verify" => ProofAt(offset)' = ProofAt(offset)
    BY CurrentTyped DEF Processing, Onward, ProofAt, ProofOf
  <1>. QED
    BY <1>1, <1>2 DEF Spent, VerifiedOncePerLife, ProofAt

\* No step breaks them.
LEMMA StepSpent ==
  ASSUME OnceInv, [Next]_vars
  PROVE  Spent' /\ VerifiedOncePerLife'
  <1>. USE DEF OnceInv
  <1>1. CASE Start
    <2>1. /\ life' = life + 1 /\ wphase' = "select"
          /\ UNCHANGED <<requests, verified>> /\ life \in Nat
      BY <1>1, KafkaAssumption DEF Start, history, KafkaInv, WorkerShape
    <2>2. \A v \in verified : v[1] # life'
      BY <2>1 DEF KafkaInv, WorkerShape
    <2>. QED
      BY <2>1, <2>2 DEF Spent, VerifiedOncePerLife, ProofAt
  <1>2. CASE CheckNonce
    <2>1. /\ wphase = "locked" /\ call[Worker] = ProofAt(offset)
          /\ UNCHANGED <<requests, offset, life, verified>>
      BY <1>2 DEF CheckNonce, history, Resting, Current, ProofAt
    <2>2. CASE RP!Replayed(Worker) /\ Outcome("replay")
      BY <1>2, <2>1, <2>2, AlwaysOnward, SpentStays DEF Outcome, RP!Replayed
    <2>3. CASE RP!Record(Worker) /\ wphase' = "verify"
      BY <2>1, <2>3, RecordsNew DEF Spent, VerifiedOncePerLife, ProofAt
    <2>. QED
      BY <1>2, <2>2, <2>3 DEF CheckNonce
  <1>3. CASE VerifyProof
    <2>1. /\ wphase = "verify" /\ wphase' = "publish"
          /\ UNCHANGED <<accepted, requests, life, offset>>
          /\ verified' \in {verified, verified \cup {<<life, offset>>}}
      BY <1>3 DEF VerifyProof, Outcome, rpvars
    <2>2. \A v \in verified' : v \in verified \/ v = <<life, offset>>
      BY <2>1
    <2>3. /\ ProofAt(offset) \in accepted
          /\ \A v \in verified : v[1] = life => ProofAt(v[2]) # ProofAt(offset)
          /\ <<life, offset>>[1] = life /\ <<life, offset>>[2] = offset
      BY <2>1 DEF Spent
    <2>4. Spent'
      BY <2>1, <2>2, <2>3 DEF Spent, ProofAt
    <2>5. VerifiedOncePerLife'
      BY <2>1, <2>2, <2>3 DEF VerifiedOncePerLife, ProofAt
    <2>. QED
      BY <2>4, <2>5
  <1>4. CASE /\ UNCHANGED <<verified, life>>
             /\ wphase' # "down" => wphase # "down" /\ accepted \subseteq accepted'
             /\ wphase' = "verify" => UNCHANGED <<wphase, offset>>
    BY <1>4, AlwaysOnward, SpentStays
  <1>5. ASSUME NEW p \in Provers, Submit(p) \/ Resubmit(p) \/ Poll(p) \/ TimeOut(p)
        PROVE  UNCHANGED <<verified, life, wphase, offset, accepted>>
    BY <1>5 DEF Submit, Resubmit, Poll, TimeOut, rpvars, worker, history
  <1>6. ASSUME \/ \E m \in Foreign \cup {Junk} : AppendForeign(m)
               \/ \E u \in Users, k \in Keys \cup {NoKey} : Enrol(u, k)
               \/ CtrlC \/ Tick \/ UNCHANGED vars
        PROVE  UNCHANGED <<verified, life, wphase, offset, accepted>>
    BY <1>6 DEF AppendForeign, Enrol, CtrlC, Tick, RP!Tick, RP!history, vars, rpvars,
                worker, history
  <1>7. ASSUME \/ Fetch \/ NextRecord \/ BatchDone \/ LookupKey \/ CheckFresh \/ Publish
        PROVE  /\ UNCHANGED <<verified, life, accepted>> /\ wphase # "down"
               /\ wphase' # "verify"
    BY <1>7 DEF Fetch, NextRecord, BatchDone, LookupKey, CheckFresh, Publish, Outcome,
                RP!Enter, RP!Refuse, RP!history, rpvars, history
  <1>8. End => UNCHANGED <<verified, life>> /\ wphase' = "down"
    BY DEF End
  <1>. QED
    BY <1>1, <1>2, <1>3, <1>4, <1>5, <1>6, <1>7, <1>8, StepCases DEF Unprotected

\* All of it is inductive.
LEMMA OnceInvariant == Spec => []OnceInv
  <1>1. Init => ReadingsOrdered /\ Resting /\ Spent /\ VerifiedOncePerLife
    BY ProtectorAssumption
    DEF Init, RP!Init, RP!Readings, ReadingsOrdered, Resting, Processing, PP!Waiting,
        Spent, VerifiedOncePerLife
  <1>2. OnceInv /\ [Next]_vars => ReadingsOrdered' /\ Resting' /\ Spent'
                                    /\ VerifiedOncePerLife'
    BY StepOrdered, StepResting, StepSpent DEF OnceInv
  <1>. QED
    BY <1>1, <1>2, Invariant, ProtectorInvariant, PTL DEF Spec, OnceInv

(***************************************************************************)
(* One life of the worker verifies a proof as valid at most once           *)
(* (process_record), however long a lock wait or a crash is, however often *)
(* the topic holds it, and whether or not a response was lost.             *)
(***************************************************************************)
THEOREM OncePerLife == Spec => []VerifiedOncePerLife
  <1>1. OnceInv => VerifiedOncePerLife
    BY DEF OnceInv
  <1>. QED
    BY <1>1, OnceInvariant, PTL

-----------------------------------------------------------------------------
(***************************************************************************)
(* Accusations.  A nonce in the table of this life was put there by a      *)
(* record that is answered, or whose response was lost, or that is in      *)
(* process; a response "replay" therefore stands behind the answer to an   *)
(* earlier record with that nonce, and a prover who is scanning has not    *)
(* passed a response to itself.                                            *)
(***************************************************************************)
NonceAt(i) == <<requests[i].req.user, requests[i].req.nonce>>

Settled(i, n) == i \in lost \/ \E h \in 1 .. n : responses[h].pos = i

Traced ==
  \A q \in accepted : \E i \in taken :
    /\ ProofAt(i) = q
    /\ \/ Settled(i, Len(responses))
       \/ i = offset /\ wphase \in {"verify", "publish"}

Caused(i, n) == \E h \in taken : NonceAt(h) = NonceAt(i) /\ Settled(h, n)

ReplaysCaused ==
  /\ wphase = "publish" /\ outcome = "replay" => Caused(offset, Len(responses))
  /\ \A j \in 1 .. Len(responses) :
       responses[j].why = "replay" => Caused(responses[j].pos, j - 1)

\* Where the nonces in the topic come from.
OwnNonce ==
  /\ \A i \in taken : requests[i] # Junk
  /\ \A p \in Provers : mine[p] # Junk => /\ mine[p].req.user = UserOf[p]
                                          /\ mine[p].req.nonce = NonceOf[p]
  /\ \A i \in 1 .. Len(requests) : \/ requests[i] = Junk
                                   \/ requests[i].rid \in Provers
                                   \/ requests[i].req \in Foreign

Scanned == \A p \in Provers : pphase[p] = "waiting"
             => \A j \in 1 .. scan[p] : responses[j].rid # p

CauseInv == /\ KafkaInv /\ PP!ReplayInv /\ Resting
            /\ OwnNonce /\ Traced /\ ReplaysCaused /\ Scanned

\* What is settled stays settled, and what is caused stays caused.
LEMMA SettledStays ==
  ASSUME KafkaInv, Onward, NEW i, NEW n \in Nat, n <= Len(responses),
         NEW m \in Nat, n <= m, Settled(i, n)
  PROVE  i \in lost' \/ \E h \in 1 .. m : responses'[h].pos = i
  <1>1. Len(responses) \in Nat
    BY DEF KafkaInv, WorkerShape
  <1>. QED
    BY <1>1 DEF Onward, Settled

\* The nonce of a record that has been taken, likewise.
LEMMA CausedStays ==
  ASSUME KafkaInv, Onward, NEW i \in taken, NEW n \in Nat, n <= Len(responses),
         NEW m \in Nat, n <= m, Caused(i, n)
  PROVE  \E h \in taken' : /\ NonceAt(h)' = NonceAt(i)'
                           /\ h \in lost' \/ \E g \in 1 .. m : responses'[g].pos = h
  <1>1. \A h \in taken : h \in taken' /\ NonceAt(h)' = NonceAt(h)
    BY DEF KafkaInv, WorkerShape, Onward, NonceAt
  <1>2. PICK h \in taken : NonceAt(h) = NonceAt(i) /\ Settled(h, n)
    BY DEF Caused
  <1>. QED
    BY <1>1, <1>2, SettledStays

\* Nobody else's record carries the nonce of a prover.
LEMMA StepOwnNonce ==
  ASSUME KafkaInv, OwnNonce, [Next]_vars
  PROVE  OwnNonce'
  <1>1. \A i \in 1 .. Len(requests') : \/ requests'[i] = Junk
                                       \/ requests'[i].rid \in Provers
                                       \/ requests'[i].req \in Foreign
    BY RequestsStay DEF OwnNonce
  <1>2. ASSUME NEW p \in Provers, mine'[p] # Junk
        PROVE  mine'[p].req.user = UserOf[p] /\ mine'[p].req.nonce = NonceOf[p]
    <2>1. ASSUME NEW r \in Provers, Submit(r)
          PROVE  mine'[p].req.user = UserOf[p] /\ mine'[p].req.nonce = NonceOf[p]
      <3>1. PICK form \in {"good", "altered"} :
              mine' = [mine EXCEPT ![r] = [rid |-> r, req |-> ProofBy(r, form)]]
        BY <2>1 DEF Submit
      <3>. QED
        BY <1>2, <3>1 DEF OwnNonce, ProofBy, KafkaInv, ProverShape
    <2>2. ASSUME NEW r \in Provers, Resubmit(r) \/ Poll(r) \/ TimeOut(r)
          PROVE  UNCHANGED mine
      BY <2>2 DEF Resubmit, Poll, TimeOut
    <2>3. ASSUME \/ CheckFresh \/ CheckNonce \/ Tick \/ End
                 \/ \E m \in Foreign \cup {Junk} : AppendForeign(m)
                 \/ \E u \in Users, k \in Keys \cup {NoKey} : Enrol(u, k)
                 \/ Start \/ CtrlC \/ Fetch \/ NextRecord \/ BatchDone
                 \/ LookupKey \/ VerifyProof \/ Publish \/ UNCHANGED vars
          PROVE  UNCHANGED mine
      BY <2>3 DEF CheckFresh, CheckNonce, Tick, End, AppendForeign, Enrol, Start, CtrlC,
                  Fetch, NextRecord, BatchDone, LookupKey, VerifyProof, Publish, vars, prover
    <2>. QED
      BY <1>2, <2>1, <2>2, <2>3, StepCases DEF Unprotected, OwnNonce
  <1>3. \A i \in taken' : requests'[i] # Junk
    <2>1. \A i \in taken : requests'[i] = requests[i]
      BY RequestsStay DEF KafkaInv, WorkerShape
    <2>2. CASE NextRecord
      BY <2>1, <2>2 DEF NextRecord, OwnNonce
    <2>3. ~NextRecord => taken' = taken
      <3>1. ASSUME NEW r \in Provers, Submit(r) \/ Resubmit(r) \/ Poll(r) \/ TimeOut(r)
            PROVE  taken' = taken
        BY <3>1 DEF Submit, Resubmit, Poll, TimeOut, history
      <3>2. ASSUME \/ CheckFresh \/ CheckNonce \/ Tick \/ End
                   \/ \E m \in Foreign \cup {Junk} : AppendForeign(m)
                   \/ \E u \in Users, k \in Keys \cup {NoKey} : Enrol(u, k)
                   \/ Start \/ CtrlC \/ Fetch \/ BatchDone
                   \/ LookupKey \/ VerifyProof \/ Publish \/ UNCHANGED vars
            PROVE  taken' = taken
        BY <3>2 DEF CheckFresh, CheckNonce, Tick, End, AppendForeign, Enrol, Start, CtrlC,
                    Fetch, BatchDone, LookupKey, VerifyProof, Publish, vars, history
      <3>. QED
        BY <3>1, <3>2, StepCases DEF Unprotected
    <2>. QED
      BY <2>1, <2>2, <2>3 DEF OwnNonce
  <1>. QED
    BY <1>1, <1>2, <1>3 DEF OwnNonce

\* A nonce in the table comes from a record that is settled, or is in process.
LEMMA StepTraced ==
  ASSUME CauseInv, [Next]_vars
  PROVE  Traced'
  <1>. USE DEF CauseInv
  <1>1. Onward /\ Len(responses) \in Nat /\ Len(responses') \in Nat
        /\ Len(responses) <= Len(responses')
    BY AlwaysOnward, ResponsesStay
  <1>2. \A i \in taken : i \in taken' /\ ProofAt(i)' = ProofAt(i)
    BY <1>1 DEF KafkaInv, WorkerShape, Onward, ProofAt, ProofOf
  <1>3. \A i \in taken : Settled(i, Len(responses)) => Settled(i, Len(responses))'
    BY <1>1, SettledStays DEF Settled
  <1>4. CASE CheckNonce
    <2>1. /\ wphase = "locked" /\ offset \in taken /\ call[Worker] = ProofAt(offset)
          /\ UNCHANGED offset
      BY <1>4, CurrentTyped DEF CheckNonce, Processing, Resting, Current, ProofAt
    <2>2. \/ accepted' = accepted
          \/ accepted' = accepted \cup {call[Worker]} /\ wphase' = "verify"
      BY <1>4 DEF CheckNonce, RP!Replayed, RP!Record
    <2>. QED
      BY <1>2, <1>3, <2>1, <2>2 DEF Traced
  <1>5. CASE Publish
    <2>1. offset \in lost' \/ Len(responses) < Len(responses')
      BY <1>5, ResponsesStay
    <2>2. Len(responses) < Len(responses') =>
            /\ Len(responses) + 1 \in 1 .. Len(responses')
            /\ responses'[Len(responses) + 1].pos = offset
      BY <1>1, ResponsesStay
    <2>3. Settled(offset, Len(responses))'
      BY <1>5, <2>1, <2>2 DEF Settled, Publish
    <2>. QED
      BY <1>2, <1>3, <1>5, <2>3 DEF Traced, Publish, rpvars
  <1>6. CASE /\ UNCHANGED accepted
             /\ wphase \in {"verify", "publish"}
                  => UNCHANGED offset /\ wphase' \in {"verify", "publish"}
    BY <1>2, <1>3, <1>6 DEF Traced
  <1>7. CASE End
    BY <1>7 DEF End, RP!Forget, Traced
  <1>8. ASSUME NEW p \in Provers, Submit(p) \/ Resubmit(p) \/ Poll(p) \/ TimeOut(p)
        PROVE  UNCHANGED <<accepted, wphase, offset>>
    BY <1>8 DEF Submit, Resubmit, Poll, TimeOut, rpvars, worker
  <1>9. ASSUME \/ \E m \in Foreign \cup {Junk} : AppendForeign(m)
               \/ \E u \in Users, k \in Keys \cup {NoKey} : Enrol(u, k)
               \/ CtrlC \/ Tick \/ UNCHANGED vars
        PROVE  UNCHANGED <<accepted, wphase, offset>>
    BY <1>9 DEF AppendForeign, Enrol, CtrlC, Tick, RP!Tick, RP!history, vars, rpvars, worker
  <1>10. ASSUME \/ Start \/ Fetch \/ NextRecord \/ BatchDone \/ LookupKey \/ CheckFresh
                \/ VerifyProof
         PROVE  /\ UNCHANGED accepted
                /\ wphase \in {"verify", "publish"}
                     => UNCHANGED offset /\ wphase' \in {"verify", "publish"}
    BY <1>10 DEF Start, Fetch, NextRecord, BatchDone, LookupKey, CheckFresh, VerifyProof,
                 Outcome, RP!Enter, RP!Refuse, RP!history, rpvars
  <1>. QED
    BY <1>4, <1>5, <1>6, <1>7, <1>8, <1>9, <1>10, StepCases DEF Unprotected

\* A response "replay" stands behind the answer to what burned the nonce.
LEMMA StepReplaysCaused ==
  ASSUME CauseInv, [Next]_vars
  PROVE  ReplaysCaused'
  <1>. USE DEF CauseInv
  <1>0. Onward /\ Len(responses) \in Nat /\ Len(responses') \in Nat
        /\ Len(responses) <= Len(responses')
    BY AlwaysOnward, ResponsesStay
  <1>1. ASSUME wphase = "publish", outcome = "replay", NEW m \in Nat, Len(responses) <= m
        PROVE  \E h \in taken' :
                 /\ NonceAt(h)' = <<requests'[offset].req.user, requests'[offset].req.nonce>>
                 /\ h \in lost' \/ \E g \in 1 .. m : responses'[g].pos = h
    <2>1. offset \in taken /\ Caused(offset, Len(responses))
      BY <1>1, CurrentTyped DEF ReplaysCaused, Processing
    <2>. QED
      BY <1>0, <1>1, <2>1, CausedStays DEF NonceAt
  <1>2. ASSUME wphase' = "publish", outcome' = "replay"
        PROVE  Caused(offset, Len(responses))'
    <2>1. CASE UNCHANGED <<wphase, outcome, offset>>
      BY <1>0, <1>1, <1>2, <2>1 DEF Caused, Settled, NonceAt
    <2>2. CASE CheckNonce
      <3>1. /\ wphase = "locked" /\ call[Worker] = ProofAt(offset) /\ RP!Replayed(Worker)
            /\ UNCHANGED <<offset, requests, responses, taken, lost>>
        BY <1>2, <2>2 DEF CheckNonce, Resting, Current, ProofAt, history, Outcome
      <3>2. PICK q \in accepted : PP!Key(q) = PP!Key(call[Worker])
        <4>1. PP!Key(call[Worker]) \in DOMAIN PP!Kept(now[Worker])
          BY <3>1, SameProtector DEF PP!Replayed
        <4>2. PP!Key(call[Worker]) \in DOMAIN seen
          BY <4>1, ProtectorReady, PP!KeptIsPart
        <4>. QED
          BY <4>2 DEF PP!ReplayInv, PP!TableFromAccepted
      <3>3. PICK i \in taken : ProofAt(i) = q /\ Settled(i, Len(responses))
        BY <3>1 DEF Traced
      <3>4. NonceAt(i) = NonceAt(offset)
        BY <3>1, <3>2, <3>3 DEF NonceAt, ProofAt, ProofOf, PP!Key
      <3>5. Caused(offset, Len(responses))
        BY <3>3, <3>4 DEF Caused
      <3>. QED
        BY <3>1, <3>5 DEF Caused, Settled, NonceAt
    <2>3. ASSUME NEW p \in Provers, Submit(p) \/ Resubmit(p) \/ Poll(p) \/ TimeOut(p)
          PROVE  UNCHANGED <<wphase, outcome, offset>>
      BY <2>3 DEF Submit, Resubmit, Poll, TimeOut, worker
    <2>4. ASSUME \/ \E m \in Foreign \cup {Junk} : AppendForeign(m)
                 \/ \E u \in Users, k \in Keys \cup {NoKey} : Enrol(u, k)
                 \/ CtrlC \/ Tick \/ UNCHANGED vars
          PROVE  UNCHANGED <<wphase, outcome, offset>>
      BY <2>4 DEF AppendForeign, Enrol, CtrlC, Tick, vars, worker
    <2>5. ~(Start \/ Fetch \/ NextRecord \/ BatchDone \/ Publish \/ End)
      BY <1>2 DEF Start, Fetch, NextRecord, BatchDone, Publish, End
    <2>6. ~LookupKey /\ ~CheckFresh
      BY <1>2 DEF LookupKey, Lookup, CheckFresh, Outcome
    <2>7. ~VerifyProof
      BY <1>2 DEF VerifyProof, Verify, Outcome
    <2>. QED
      BY <2>1, <2>2, <2>3, <2>4, <2>5, <2>6, <2>7, StepCases DEF Unprotected
  <1>3. ASSUME NEW j \in 1 .. Len(responses'), responses'[j].why = "replay"
        PROVE  Caused(responses[j].pos, j - 1)'
    <2>1. CASE j \in 1 .. Len(responses)
      <3>1. responses'[j] = responses[j] /\ j - 1 \in Nat /\ j - 1 <= Len(responses)
        BY <1>0, <2>1 DEF Onward
      <3>2. responses[j].pos \in taken
        BY <2>1 DEF KafkaInv, Published, Answers
      <3>3. Caused(responses[j].pos, j - 1)
        BY <1>3, <2>1, <3>1 DEF ReplaysCaused
      <3>4. PICK i \in taken : i = responses[j].pos
        BY <3>2
      <3>5. PICK n \in Nat : n = j - 1
        BY <3>1
      <3>6. Caused(i, n) /\ n <= Len(responses)
        BY <3>1, <3>3, <3>4, <3>5
      <3>7. \E h \in taken' :
              /\ NonceAt(h)' = NonceAt(i)'
              /\ h \in lost' \/ \E g \in 1 .. n : responses'[g].pos = h
        BY <1>0, <3>6, CausedStays
      <3>. QED
        BY <3>1, <3>4, <3>5, <3>7 DEF Caused, Settled, NonceAt
    <2>2. CASE j \notin 1 .. Len(responses)
      <3>1. j \in Len(responses) + 1 .. Len(responses')
        BY <1>0, <2>2
      <3>2. /\ wphase = "publish" /\ outcome = "replay" /\ responses'[j].pos = offset
            /\ UNCHANGED offset
        BY <1>3, <3>1, ResponsesStay DEF Publish
      <3>3. j - 1 \in Nat /\ Len(responses) <= j - 1
        BY <1>0, <2>2
      <3>. QED
        BY <1>1, <3>2, <3>3 DEF Caused, Settled, NonceAt
    <2>. QED
      BY <2>1, <2>2
  <1>. QED
    BY <1>2, <1>3 DEF ReplaysCaused

\* A wait has passed no response to itself.
LEMMA StepScanned ==
  ASSUME KafkaInv, Scanned, [Next]_vars
  PROVE  Scanned'
  <1>1. /\ \A p \in Provers : scan[p] \in Nat /\ scan[p] <= Len(responses)
        /\ scan \in [Provers -> Nat]
        /\ DOMAIN pphase = Provers /\ Len(responses) \in Nat
    BY DEF KafkaInv, WorkerShape, ProverShape
  <1>2. \A j \in 1 .. Len(responses) : responses'[j] = responses[j]
    BY ResponsesStay
  <1>3. ASSUME NEW p \in Provers, Submit(p) \/ Resubmit(p) \/ TimeOut(p)
        PROVE  Scanned'
    <2>1. /\ scan' = [scan EXCEPT ![p] = 0]
          /\ \A q \in Provers \ {p} : pphase'[q] = pphase[q]
      BY <1>1, <1>3 DEF Submit, Resubmit, TimeOut, Report, Produce
    <2>. QED
      BY <1>1, <1>2, <2>1 DEF Scanned
  <1>4. ASSUME NEW p \in Provers, Poll(p)
        PROVE  Scanned'
    <2>1. CASE \E n \in scan[p] + 1 .. Len(responses) :
                 /\ UNCHANGED <<pphase, first, second>> /\ scan' = [scan EXCEPT ![p] = n]
                 /\ \A j \in scan[p] + 1 .. n : responses[j].rid # p
      <3>1. PICK n \in scan[p] + 1 .. Len(responses) :
              /\ UNCHANGED pphase /\ scan' = [scan EXCEPT ![p] = n]
              /\ \A j \in scan[p] + 1 .. n : responses[j].rid # p
        BY <2>1
      <3>2. pphase[p] = "waiting" => \A j \in 1 .. n : responses[j].rid # p
        BY <1>1, <3>1 DEF Scanned
      <3>. QED
        BY <1>1, <1>2, <3>1, <3>2 DEF Scanned
    <2>2. ASSUME NEW r, Report(p, r)
          PROVE  Scanned'
      <3>1. /\ scan' = [scan EXCEPT ![p] = 0]
            /\ \A q \in Provers \ {p} : pphase'[q] = pphase[q]
        BY <1>1, <2>2 DEF Report
      <3>. QED
        BY <1>1, <1>2, <3>1 DEF Scanned
    <2>. QED
      BY <1>4, <2>1, <2>2, PollFinds
  <1>5. ASSUME \/ CheckFresh \/ CheckNonce \/ Tick \/ End
               \/ \E m \in Foreign \cup {Junk} : AppendForeign(m)
               \/ \E u \in Users, k \in Keys \cup {NoKey} : Enrol(u, k)
               \/ Start \/ CtrlC \/ Fetch \/ NextRecord \/ BatchDone
               \/ LookupKey \/ VerifyProof \/ Publish \/ UNCHANGED vars
        PROVE  UNCHANGED <<scan, pphase>>
    BY <1>5 DEF CheckFresh, CheckNonce, Tick, End, AppendForeign, Enrol, Start, CtrlC,
                Fetch, NextRecord, BatchDone, LookupKey, VerifyProof, Publish, vars, prover
  <1>6. CASE UNCHANGED <<scan, pphase>>
    BY <1>1, <1>2, <1>6 DEF Scanned
  <1>. QED
    BY <1>3, <1>4, <1>5, <1>6, StepCases DEF Unprotected

\* No two producers use a nonce for the same user: provers draw theirs at random.
NoncesFresh ==
  /\ \A p, q \in Provers : UserOf[p] = UserOf[q] /\ NonceOf[p] = NonceOf[q] => p = q
  /\ \A p \in Provers, r \in Foreign : ~(r.user = UserOf[p] /\ r.nonce = NonceOf[p])

\* A prover's nonce is burned by its own request, and by a copy of it that the
\* worker did not answer where the prover has looked.
LEMMA ReplayReported ==
  ASSUME CauseInv, NoncesFresh, NEW p \in Provers, pphase[p] = "waiting",
         NEW j \in scan[p] + 1 .. Len(responses),
         responses[j].why = "replay", responses[j].rid = p,
         \A i \in scan[p] + 1 .. j - 1 : responses[i].rid # p
  PROVE  \E i \in lost : requests[i] = mine[p]
  <1>. USE DEF CauseInv
  <1>1. /\ scan[p] \in Nat /\ scan[p] <= Len(responses) /\ Len(responses) \in Nat
        /\ j \in 1 .. Len(responses)
    BY DEF KafkaInv, WorkerShape, ProverShape
  <1>2. PICK k \in taken : k = responses[j].pos /\ requests[k].rid = p
    BY <1>1 DEF KafkaInv, Published, Answers
  <1>3. \A i \in taken : i \in 1 .. Len(requests) /\ requests[i] # Junk
    BY DEF KafkaInv, WorkerShape, OwnNonce
  <1>4. \A i \in taken : requests[i].rid \in Provers => requests[i] = mine[requests[i].rid]
    BY <1>3 DEF KafkaInv, Owned, Owns
  <1>5. NonceAt(k) = <<UserOf[p], NonceOf[p]>>
    BY <1>2, <1>3, <1>4 DEF OwnNonce, NonceAt
  <1>6. PICK h \in taken : NonceAt(h) = NonceAt(k) /\ Settled(h, j - 1)
    BY <1>1, <1>2 DEF ReplaysCaused, Caused
  <1>7. requests[h].req.user = UserOf[p] /\ requests[h].req.nonce = NonceOf[p]
    BY <1>5, <1>6 DEF NonceAt
  <1>8. requests[h].rid \in Provers
    BY <1>3, <1>7 DEF OwnNonce, NoncesFresh
  <1>9. requests[h].rid = p /\ requests[h] = mine[p]
    BY <1>3, <1>4, <1>7, <1>8 DEF OwnNonce, NoncesFresh
  <1>10. ASSUME NEW g \in 1 .. j - 1, responses[g].pos = h
         PROVE  FALSE
    <2>1. g \in 1 .. Len(responses) /\ (g <= scan[p] \/ g \in scan[p] + 1 .. j - 1)
      BY <1>1
    <2>2. responses[g].rid = requests[h].rid
      BY <1>10, <2>1 DEF KafkaInv, Published, Answers
    <2>. QED
      BY <1>1, <1>9, <2>1, <2>2 DEF Scanned
  <1>. QED
    BY <1>6, <1>9, <1>10 DEF Settled

\* No step accuses a prover without a cause.
LEMMA StepAccusation ==
  ASSUME CauseInv, NoncesFresh, AccusationHasCause, [Next]_vars
  PROVE  AccusationHasCause'
  <1>. USE DEF CauseInv
  <1>1. Onward /\ \A i \in lost : i \in lost' /\ requests'[i] = requests[i]
    BY AlwaysOnward DEF KafkaInv, WorkerShape, Onward
  <1>2. CASE \A p \in Provers : first'[p] = "replay"
               => first[p] = "replay" /\ mine'[p] = mine[p]
    BY <1>1, <1>2 DEF AccusationHasCause
  <1>3. ASSUME NEW p \in Provers, Submit(p)
        PROVE  \A q \in Provers : first'[q] = "replay"
                 => first[q] = "replay" /\ mine'[q] = mine[q]
    <2>1. PICK m : mine' = [mine EXCEPT ![p] = m]
      BY <1>3 DEF Submit
    <2>2. first[p] = "none" /\ UNCHANGED first
      BY <1>3 DEF Submit, KafkaInv, Owned, Owns
    <2>. QED
      BY <2>1, <2>2 DEF KafkaInv, ProverShape
  <1>4. ASSUME NEW p \in Provers, TimeOut(p)
        PROVE  \A q \in Provers : first'[q] = "replay"
                 => first[q] = "replay" /\ mine'[q] = mine[q]
    BY <1>4 DEF TimeOut, Report, KafkaInv, ProverShape
  <1>5. ASSUME NEW p \in Provers, Poll(p)
        PROVE  AccusationHasCause'
    <2>1. UNCHANGED <<mine, requests, lost>>
      BY <1>5 DEF Poll, history
    <2>2. CASE UNCHANGED first
      BY <2>1, <2>2 DEF AccusationHasCause
    <2>3. CASE \E j \in scan[p] + 1 .. Len(responses) :
                 /\ Report(p, responses[j].why) /\ responses[j].rid = p
                 /\ \A i \in scan[p] + 1 .. j - 1 : responses[i].rid # p
      <3>1. PICK j \in scan[p] + 1 .. Len(responses) :
              /\ Report(p, responses[j].why) /\ responses[j].rid = p
              /\ \A i \in scan[p] + 1 .. j - 1 : responses[i].rid # p
        BY <2>3
      <3>2. pphase[p] = "waiting" /\ responses[j].why = "replay"
              => \E i \in lost : requests[i] = mine[p]
        BY <3>1, ReplayReported
      <3>3. \/ UNCHANGED first
            \/ pphase[p] = "waiting" /\ first' = [first EXCEPT ![p] = responses[j].why]
        BY <3>1 DEF Report
      <3>. QED
        BY <2>1, <3>2, <3>3 DEF AccusationHasCause, KafkaInv, ProverShape
    <2>. QED
      BY <1>5, <2>2, <2>3, PollFinds
  <1>6. ASSUME \/ CheckFresh \/ CheckNonce \/ Tick \/ End
               \/ \E p \in Provers : Resubmit(p)
               \/ \E m \in Foreign \cup {Junk} : AppendForeign(m)
               \/ \E u \in Users, k \in Keys \cup {NoKey} : Enrol(u, k)
               \/ Start \/ CtrlC \/ Fetch \/ NextRecord \/ BatchDone
               \/ LookupKey \/ VerifyProof \/ Publish \/ UNCHANGED vars
        PROVE  UNCHANGED <<first, mine>>
    BY <1>6 DEF CheckFresh, CheckNonce, Tick, End, Resubmit, AppendForeign, Enrol, Start,
                CtrlC, Fetch, NextRecord, BatchDone, LookupKey, VerifyProof, Publish,
                vars, prover
  <1>. QED
    BY <1>2, <1>3, <1>4, <1>5, <1>6, StepCases DEF Unprotected

\* All of it is inductive.
LEMMA CauseInvariant == NoncesFresh /\ Spec => [](CauseInv /\ AccusationHasCause)
  <1>. SUFFICES ASSUME NoncesFresh PROVE Spec => [](CauseInv /\ AccusationHasCause)
    OBVIOUS
  <1>1. Init => /\ Resting /\ OwnNonce /\ Traced /\ ReplaysCaused /\ Scanned
                /\ AccusationHasCause
    BY DEF Init, RP!Init, Resting, Processing, PP!Waiting, OwnNonce, Traced,
           ReplaysCaused, Scanned, AccusationHasCause
  <1>2. CauseInv /\ AccusationHasCause /\ [Next]_vars
          => /\ Resting' /\ OwnNonce' /\ Traced' /\ ReplaysCaused' /\ Scanned'
             /\ AccusationHasCause'
    BY StepResting, StepOwnNonce, StepTraced, StepReplaysCaused, StepScanned,
       StepAccusation DEF CauseInv
  <1>. QED
    BY <1>1, <1>2, Invariant, ProtectorInvariant, PTL DEF Spec, CauseInv

(***************************************************************************)
(* While no two producers use a nonce for the same user, a prover is told  *)
(* that its first submission is a replay (wait_for_response) only when the *)
(* worker had processed a copy of it whose response was lost; whatever     *)
(* other provers, repeated appends and crashes do.                         *)
(***************************************************************************)
THEOREM AccusationsCaused == NoncesFresh /\ Spec => []AccusationHasCause
  BY CauseInvariant, PTL

-----------------------------------------------------------------------------
(***************************************************************************)
(* The worker serves.  What the service sees of the pipeline is one slot,  *)
(* the record the worker has in process; it needs the protector's readings *)
(* to be those of the clock, so no lock wait may span a second.            *)
(***************************************************************************)
ServiceInv == KafkaInv /\ PP!ReplayInv /\ PP!ReadingsCurrent /\ Resting

\* The stage of a request follows the place where the worker stands.
LEMMA StageValues ==
  /\ \A w \in {"lookup", "check", "locked"} : StageFor(w) = "asked"
  /\ StageFor("verify") = "admitted" /\ StageFor("publish") = "answered"
  /\ \A w \in {"down", "select", "next"} : StageFor(w) = "idle"
  <1>1. ASSUME NEW w \in {"lookup", "check", "locked"}
        PROVE  StageFor(w) = "asked"
    BY DEF StageFor
  <1>2. StageFor("verify") = "admitted" /\ StageFor("publish") = "answered"
    BY DEF StageFor
  <1>3. ASSUME NEW w \in {"down", "select", "next"}
        PROVE  StageFor(w) = "idle"
    BY DEF StageFor
  <1>. QED
    BY <1>1, <1>2, <1>3

\* What the service sees in the slot of the worker,
LEMMA InSlot ==
  /\ Asked[Worker] = IF Processing THEN Current.req ELSE Junk
  /\ Known[Worker] = held /\ Stage[Worker] = StageFor(wphase) /\ Told[Worker] = outcome
  /\ Service!Proof(Worker) = ProofOf(Asked[Worker])
  /\ Service!Holder(Worker) <=> Asked[Worker].pk \in held
  /\ Service!Genuine(Asked[Worker]) <=> Genuine(Asked[Worker])
  BY DEF Slot, Asked, Known, Stage, Told, Service!Proof, Service!ProofOf, ProofOf,
         Service!Holder, Service!Genuine, Genuine

\* what it sees of a step of the worker,
LEMMA SlotMoves ==
  /\ Asked' = [Asked EXCEPT ![Worker] = Asked'[Worker]]
  /\ Known' = [Known EXCEPT ![Worker] = held']
  /\ Stage' = [Stage EXCEPT ![Worker] = StageFor(wphase')]
  /\ Told' = [Told EXCEPT ![Worker] = outcome']
  /\ Asked'[Worker] = IF Processing' THEN Current'.req ELSE Junk
  /\ Stage'[Worker] = StageFor(wphase') /\ Told'[Worker] = outcome'
  BY DEF Slot, Asked, Known, Stage, Told

\* of a step that keeps the slot,
LEMMA SlotStays ==
  /\ (Processing' <=> Processing) /\ (Processing => Current' = Current) => UNCHANGED Asked
  /\ UNCHANGED held => UNCHANGED Known
  /\ StageFor(wphase') = StageFor(wphase) => UNCHANGED Stage
  /\ UNCHANGED outcome => UNCHANGED Told
  BY DEF Asked, Known, Stage, Told

\* and of one that decides, given that the service may decide so.
LEMMA AnswersService ==
  ASSUME Processing, Service!Justified(Worker, outcome'), wphase' = "publish",
         UNCHANGED <<clock, registry, accepted, requests, offset, held>>
  PROVE  Service!Answer(Worker)
  <1>1. Processing' /\ Current' = Current
    BY DEF Processing, Current
  <1>2. UNCHANGED <<Asked, Known>>
    BY <1>1, SlotStays
  <1>3. Stage' = [Stage EXCEPT ![Worker] = "answered"] /\ Stage'[Worker] = "answered"
    BY SlotMoves, StageValues
  <1>. QED
    BY <1>2, <1>3, SlotMoves DEF Service!Answer, Service!Become

\* Taking a record asks the service, unless it does not decode.
LEMMA NextRecordAsks ==
  ASSUME KafkaInv, Resting, NextRecord
  PROVE  Service!Ask(Worker) \/ UNCHANGED Service!avars
  <1>1. /\ wphase = "next" /\ offset' = offset + 1 /\ offset' \in 1 .. Len(requests)
        /\ requests[offset'] \in Records
        /\ UNCHANGED <<clock, registry, accepted, requests, outcome>>
    BY DEF NextRecord, rpvars, KafkaInv, WorkerShape
  <1>2. CASE requests[offset'] = Junk
    <2>1. UNCHANGED <<wphase, held>>
      BY <1>1, <1>2 DEF NextRecord
    <2>. QED
      BY <1>1, <2>1, SlotStays DEF Processing, Service!avars
  <1>3. CASE requests[offset'] # Junk
    <2>1. wphase' = "lookup" /\ held' = {registry[requests[offset'].req.user]}
      BY <1>1, <1>3 DEF NextRecord
    <2>2. Asked'[Worker] = requests[offset'].req
      BY <1>1, <2>1, SlotMoves DEF Processing, Current
    <2>3. Asked'[Worker] \in Service!AuthRequest
      BY <1>1, <1>3, <2>2 DEF Records, AuthRequest, Forms, Service!AuthRequest, Service!Forms
    <2>4. Stage[Worker] = "idle" /\ StageFor(wphase') = "asked" /\ outcome' = "none"
      BY <1>1, <2>1, InSlot, StageValues DEF Resting
    <2>5. Known' = [Known EXCEPT ![Worker] = {registry[Asked'[Worker].user]}]
      BY <2>1, <2>2, SlotMoves
    <2>. QED
      BY <1>1, <2>3, <2>4, <2>5, SlotMoves DEF Service!Ask, Service!Become
  <1>. QED
    BY <1>2, <1>3

\* The look-up goes on, or answers by what the registry holds.
LEMMA LookupServes ==
  ASSUME KafkaInv, LookupKey
  PROVE  Service!Answer(Worker) \/ UNCHANGED Service!avars
  <1>1. /\ wphase = "lookup" /\ Processing /\ registry[Current.req.user] \in held
        /\ UNCHANGED <<clock, registry, accepted, requests, offset, held>>
    BY DEF LookupKey, Processing, rpvars, history, KafkaInv, Working
  <1>2. \/ wphase' = "check" /\ UNCHANGED outcome
        \/ wphase' = "publish" /\ outcome' = "storage"
        \/ /\ wphase' = "publish" /\ outcome' = "unregistered"
           /\ registry[Current.req.user] = NoKey
        \/ /\ wphase' = "publish" /\ outcome' = "mismatch"
           /\ registry[Current.req.user] \notin {NoKey, Current.req.pk}
    BY DEF LookupKey, Lookup, Outcome
  <1>3. CASE wphase' = "check" /\ UNCHANGED outcome
    BY <1>1, <1>3, SlotStays, StageValues DEF Processing, Current, Service!avars
  <1>4. CASE wphase' = "publish"
    <2>1. Service!Justified(Worker, outcome')
      BY <1>1, <1>2, <1>4, InSlot, StageValues DEF Service!Justified
    <2>. QED
      BY <1>1, <1>4, <2>1, AnswersService
  <1>. QED
    BY <1>2, <1>3, <1>4

\* The freshness test goes on, or answers of a proof that is stale.
LEMMA FreshServes ==
  ASSUME ServiceInv, CheckFresh
  PROVE  Service!Answer(Worker) \/ UNCHANGED Service!avars
  <1>. USE DEF ServiceInv
  <1>1. /\ wphase = "check" /\ Processing /\ Current.req.pk \in held
        /\ UNCHANGED <<clock, registry, accepted, requests, offset, held>>
    BY DEF CheckFresh, Processing, RP!Enter, RP!Refuse, RP!history, history,
           KafkaInv, Working
  <1>2. CASE wphase' = "locked" /\ UNCHANGED outcome
    BY <1>1, <1>2, SlotStays, StageValues DEF Processing, Current, Service!avars
  <1>3. CASE Outcome("stale") /\ RP!Refuse(Worker, ProofOf(Current.req))
    <2>1. ProofOf(Current.req).ts \notin clock - MaxDrift .. clock + MaxDrift
      BY <1>1, <1>3, CurrentTyped, ProtectorReady, SameProtector, PP!RefusedIsStale
      DEF PP!ReplayInv
    <2>2. Service!Justified(Worker, outcome') /\ wphase' = "publish"
      BY <1>1, <1>3, <2>1, InSlot, StageValues
      DEF Service!Justified, Service!G!Fresh, Outcome
    <2>. QED
      BY <1>1, <2>2, AnswersService
  <1>. QED
    BY <1>2, <1>3 DEF CheckFresh

\* Under the mutex a proof is admitted, or answered for as a replay.
LEMMA NonceServes ==
  ASSUME ServiceInv, CheckNonce
  PROVE  Service!Answer(Worker) \/ Service!Admit(Worker)
  <1>. USE DEF ServiceInv
  <1>1. /\ wphase = "locked" /\ Processing /\ Current.req.pk \in held
        /\ call[Worker] = ProofOf(Current.req) /\ PP!Waiting(Worker)
        /\ UNCHANGED <<clock, registry, requests, offset, held>>
    BY DEF CheckNonce, Processing, RP!Replayed, RP!Record, RP!Return, history,
           KafkaInv, Working, Resting
  <1>2. Service!Proof(Worker) = call[Worker] /\ Service!G!Fresh(Service!Proof(Worker))
    BY <1>1, InSlot, ProtectorReady, PP!WaitingIsFresh DEF Service!G!Fresh
  <1>3. CASE RP!Replayed(Worker) /\ Outcome("replay")
    <2>1. PICK q \in accepted : /\ PP!Key(q) = PP!Key(call[Worker])
                                /\ q.ts >= clock - MaxDrift
      BY <1>3, ProtectorReady, SameProtector, PP!ReplayedIsBurned
    <2>2. Service!G!Burned(Service!Proof(Worker))
      BY <1>2, <2>1 DEF PP!Key, Service!G!Burned
    <2>3. /\ Service!Justified(Worker, outcome') /\ wphase' = "publish"
          /\ UNCHANGED accepted
      BY <1>1, <1>2, <1>3, <2>2, InSlot, StageValues
      DEF Service!Justified, Outcome, RP!Replayed
    <2>. QED
      BY <1>1, <2>3, AnswersService
  <1>4. CASE RP!Record(Worker) /\ wphase' = "verify" /\ UNCHANGED outcome
    <2>1. \A q \in accepted : PP!Key(q) = PP!Key(call[Worker])
                                => ~(q.ts >= clock - MaxDrift)
      BY <1>4, ProtectorReady, SameProtector, PP!RecordIsUnburned
    <2>2. ~Service!G!Burned(Service!Proof(Worker))
      BY <1>2, <2>1 DEF PP!Key, Service!G!Burned
    <2>3. accepted' = accepted \cup {Service!Proof(Worker)}
      BY <1>2, <1>4 DEF RP!Record
    <2>4. UNCHANGED <<Asked, Known>>
      BY <1>1, <1>4, SlotStays DEF Processing, Current
    <2>5. /\ Stage[Worker] = "asked" /\ StageFor(wphase') = "admitted"
          /\ outcome' = "none" /\ Service!Holder(Worker)
      BY <1>1, <1>4, InSlot, StageValues DEF Resting
    <2>. QED
      BY <1>1, <1>2, <2>2, <2>3, <2>4, <2>5, SlotMoves DEF Service!Admit, Service!Become
  <1>. QED
    BY <1>3, <1>4 DEF CheckNonce

\* The verification answers as the service does.
LEMMA VerifyServes ==
  ASSUME VerifyProof
  PROVE  Service!Answer(Worker)
  <1>1. /\ wphase = "verify" /\ Processing /\ wphase' = "publish"
        /\ UNCHANGED <<clock, registry, accepted, requests, offset, held>>
    BY DEF VerifyProof, Processing, Outcome, rpvars
  <1>2. /\ outcome' \in {"error", "verified", "invalid"}
        /\ outcome' = "verified" <=> Genuine(Current.req)
    <2>1. outcome' = Verify(Current.req.pk, Current.req) /\ outcome' # "panic"
      BY DEF VerifyProof, Outcome
    <2>2. CASE Current.req.form \in {"shortscalar", "unparsable"}
      BY <2>1, <2>2 DEF Verify, Genuine
    <2>3. CASE Current.req.form \notin {"shortscalar", "unparsable"}
      BY <2>1, <2>3 DEF Verify, Genuine
    <2>. QED
      BY <2>2, <2>3
  <1>3. Service!Justified(Worker, outcome')
    BY <1>1, <1>2, InSlot, StageValues DEF Service!Justified
  <1>. QED
    BY <1>1, <1>3, AnswersService

\* Publishing, or failing to, is the end of the request.
LEMMA PublishFinishes ==
  ASSUME KafkaInv, Publish
  PROVE  Service!Finish(Worker)
  <1>1. /\ wphase = "publish" /\ wphase' = "next" /\ outcome' = "none" /\ held' = {}
        /\ UNCHANGED <<clock, registry, accepted>>
    BY DEF Publish, rpvars
  <1>2. Asked'[Worker] = Junk /\ StageFor(wphase') = "idle" /\ Stage[Worker] = "answered"
    BY <1>1, InSlot, SlotMoves, StageValues DEF Processing
  <1>. QED
    BY <1>1, <1>2, SlotMoves DEF Service!Finish, Service!Become

\* A change of the registry is known to the record in process.
LEMMA EnrolServes ==
  ASSUME KafkaInv, NEW u \in Users, NEW k \in Keys \cup {NoKey}, Enrol(u, k)
  PROVE  Service!Change(u, k)
  <1>1. /\ registry' = [registry EXCEPT ![u] = k]
        /\ UNCHANGED <<clock, accepted, requests, wphase, offset, outcome>>
        /\ held' = IF Processing /\ Current.req.user = u THEN held \cup {k} ELSE held
    BY DEF Enrol, rpvars, worker
  <1>2. UNCHANGED <<Asked, Stage, Told>>
    BY <1>1, SlotStays DEF Processing, Current
  <1>3. Processing <=> Stage[Worker] # "idle"
    BY InSlot, StageValues DEF KafkaInv, WorkerShape, Processing
  <1>4. Known' = [s \in Slot |-> IF Stage[s] # "idle" /\ Asked[s].user = u
                                   THEN Known[s] \cup {k} ELSE Known[s]]
    BY <1>1, <1>3, InSlot DEF Slot, Known
  <1>. QED
    BY <1>1, <1>2, <1>4 DEF Service!Change

\* The end of the process ends all service.
LEMMA EndServes ==
  ASSUME End
  PROVE  Service!Restart
  <1>1. /\ wphase' = "down" /\ outcome' = "none" /\ held' = {} /\ ~Processing'
        /\ accepted' = {} /\ UNCHANGED <<clock, registry>>
    BY DEF End, RP!Forget, Processing
  <1>2. /\ Stage' = [s \in Slot |-> "idle"] /\ Told' = [s \in Slot |-> "none"]
        /\ Asked' = [s \in Slot |-> Junk] /\ Known' = [s \in Slot |-> {}]
    BY <1>1, StageValues DEF Stage, Told, Asked, Known
  <1>. QED
    BY <1>1, <1>2 DEF Service!Restart

\* The rest the service does not see: requests come, provers and batches go on.
LEMMA RestStutters ==
  ASSUME KafkaInv, [Next]_vars,
         \/ \E p \in Provers : Submit(p) \/ Resubmit(p) \/ Poll(p) \/ TimeOut(p)
         \/ \E m \in Foreign \cup {Junk} : AppendForeign(m)
         \/ Start \/ CtrlC \/ Fetch \/ BatchDone \/ UNCHANGED vars
  PROVE  UNCHANGED Service!avars
  <1>1. ASSUME NEW p \in Provers, Submit(p) \/ Resubmit(p) \/ Poll(p) \/ TimeOut(p)
        PROVE  UNCHANGED <<clock, registry, accepted, wphase, offset, outcome, held>>
    BY <1>1 DEF Submit, Resubmit, Poll, TimeOut, rpvars, worker, history
  <1>2. ASSUME (\E m \in Foreign \cup {Junk} : AppendForeign(m)) \/ CtrlC \/ UNCHANGED vars
        PROVE  UNCHANGED <<clock, registry, accepted, wphase, offset, outcome, held>>
    BY <1>2 DEF AppendForeign, CtrlC, vars, rpvars, worker, history
  <1>3. ASSUME Start \/ Fetch \/ BatchDone
        PROVE  /\ UNCHANGED <<clock, registry, accepted, outcome, held>>
               /\ wphase \in {"down", "select", "next"} /\ wphase' \in {"down", "select", "next"}
    BY <1>3 DEF Start, Fetch, BatchDone, rpvars, history
  <1>4. UNCHANGED <<clock, registry, accepted, outcome, held>>
    BY <1>1, <1>2, <1>3
  <1>5. \/ UNCHANGED <<wphase, offset>>
        \/ {wphase, wphase'} \subseteq {"down", "select", "next"}
    BY <1>1, <1>2, <1>3
  <1>6. Processing /\ UNCHANGED offset => Current' = Current
    BY RequestsStay, CurrentTyped DEF Current
  <1>7. /\ Processing' <=> Processing
        /\ Processing => Current' = Current
        /\ StageFor(wphase') = StageFor(wphase)
    BY <1>5, <1>6, StageValues DEF Processing
  <1>. QED
    BY <1>4, <1>7, SlotStays DEF Service!avars

\* Every step of the pipeline is a step of the service, or none.
LEMMA StepServes ==
  ASSUME ServiceInv, [Next]_vars
  PROVE  [Service!Next]_(Service!avars)
  <1>. USE DEF ServiceInv
  <1>1. Worker \in Slot
    BY DEF Slot
  <1>2. ASSUME NextRecord \/ LookupKey \/ CheckFresh \/ CheckNonce \/ VerifyProof \/ Publish
        PROVE  [Service!Next]_(Service!avars)
    BY <1>1, <1>2, NextRecordAsks, LookupServes, FreshServes, NonceServes, VerifyServes,
       PublishFinishes DEF Service!Next
  <1>3. ASSUME NEW u \in Users, NEW k \in Keys \cup {NoKey}, Enrol(u, k)
        PROVE  Service!Next
    BY <1>3, EnrolServes DEF Service!Next
  <1>4. CASE Tick
    <2>1. /\ UNCHANGED <<registry, accepted, requests, wphase, offset, outcome, held>>
          /\ clock' \in 0 .. MaxClock /\ clock' = clock + 1
      BY <1>4, ProtectorAssumption
      DEF Tick, RP!Tick, RP!history, RP!Readings, worker, history, KafkaInv, WorkerShape
    <2>2. UNCHANGED <<Asked, Known, Stage, Told>>
      BY <2>1, SlotStays DEF Processing, Current
    <2>. QED
      BY <2>1, <2>2 DEF Service!Next, Service!Time
  <1>5. End => Service!Next
    BY EndServes DEF Service!Next
  <1>. QED
    BY <1>2, <1>3, <1>4, <1>5, RestStutters, StepCases DEF Unprotected

(***************************************************************************)
(* The worker, its table and its two topics (run, process_record)          *)
(* implement the service that the bank server implements, for any          *)
(* producers, batches and crashes and also when it reads old requests      *)
(* again, while no wait for its own lock spans a second.                   *)
(***************************************************************************)
THEOREM KafkaImplementsService == ~LockWaitSpansSeconds /\ Spec => ImplementsService
  <1>. SUFFICES ASSUME ~LockWaitSpansSeconds PROVE Spec => Service!Spec
    BY DEF ImplementsService
  <1>1. PP!Prompt
    BY DEF PP!Prompt
  <1>2. Init => Service!Init /\ PP!ReadingsCurrent /\ Resting
    BY StageValues, ProtectorAssumption
    DEF Init, RP!Init, RP!Readings, Service!Init, Asked, Known, Stage, Told, Processing,
        Resting, PP!ReadingsCurrent, PP!Waiting
  <1>3. ServiceInv /\ [Next]_vars => PP!ReadingsCurrent' /\ Resting'
    BY <1>1, ProtectorSteps, ProtectorReady, SameProtector, PP!StepReadings,
       PP!ForgetReadings, StepResting DEF ServiceInv, PP!ReplayInv
  <1>4. ServiceInv /\ [Next]_vars => [Service!Next]_(Service!avars)
    BY StepServes
  <1>. QED
    BY <1>2, <1>3, <1>4, Invariant, ProtectorInvariant, PTL
    DEF Spec, ServiceInv, Service!Spec
=============================================================================
