----------------------- MODULE ReplayProtector_proofs -----------------------
(***************************************************************************)
(* Safety of the replay protector for any set of callers, users, nonces    *)
(* and timestamps, any drift and either build.                             *)
(***************************************************************************)
EXTENDS ReplayProtector, Freshness_proofs

\* Every modelled clock value is a reading the age arithmetic is safe on.
LEMMA ClockIsReading ==
  ASSUME NEW t \in 0 .. MaxClock
  PROVE  t \in Readings
  BY ReplayProtectorAssumption, FreshnessAssumption DEF Readings

\* The types of the constants, for leaves that do arithmetic.
LEMMA ConstantsTyped ==
  /\ MaxDrift \in Nat /\ Half \in Nat /\ MaxClock \in Nat
  /\ \A t \in Timestamps : t \in Int /\ t \in I64
  BY FreshnessAssumption, ReplayProtectorAssumption DEF I64, Readings

(***************************************************************************)
(* The table after retain is a part of the table: it keeps a key exactly   *)
(* when its timestamp has not passed the cutoff, with that timestamp.      *)
(***************************************************************************)
LEMMA KeptIsPart ==
  ASSUME NEW r
  PROVE  /\ DOMAIN Kept(r) = {k \in DOMAIN seen : seen[k] >= r - MaxDrift}
         /\ \A k \in DOMAIN Kept(r) : Kept(r)[k] = seen[k]
         /\ Kept(r) = [k \in DOMAIN Kept(r) |-> seen[k]]
  BY DEF Kept, Restrict

\* The fields of a proof, and its (user, nonce) key, are well typed.
LEMMA KeyTyped ==
  ASSUME NEW p \in Proofs
  PROVE  /\ Key(p) \in Users \X Nonces
         /\ p.user \in Users /\ p.nonce \in Nonces /\ p.ts \in Timestamps
  BY DEF Proofs, Key

\* A waiting caller holds a proof and a reading.
LEMMA WaitingTyped ==
  ASSUME TypeOK, NEW c \in Callers, Waiting(c)
  PROVE  call[c] \in Proofs /\ now[c] \in 0 .. MaxClock
  BY DEF TypeOK, Waiting

-----------------------------------------------------------------------------
(***************************************************************************)
(* Type correctness.                                                       *)
(***************************************************************************)
LEMMA InitType == Init => TypeOK
  <1>. SUFFICES ASSUME Init PROVE TypeOK
    OBVIOUS
  <1>. USE ReplayProtectorAssumption, FreshnessAssumption DEF Init, Readings
  <1>1. DOMAIN seen = {} /\ seen \in [DOMAIN seen -> Timestamps]
    OBVIOUS
  <1>2. 0 \in 0 .. MaxClock
    OBVIOUS
  <1>. QED
    BY <1>1, <1>2 DEF TypeOK, Verdicts

\* No step of the protector or of its environment breaks the types.
LEMMA StepType == TypeOK /\ [Next]_vars => TypeOK'
  <1>. SUFFICES ASSUME TypeOK, [Next]_vars PROVE TypeOK'
    OBVIOUS
  <1>. USE ConstantsTyped
  <1>1. ASSUME NEW c \in Callers, NEW p \in Proofs, Refuse(c, p)
        PROVE  TypeOK'
    <2>1. CheckFreshness(clock, p.ts) \in {"panic", "future", "expired", "fresh"}
      BY FreshnessOutcomes
    <2>. QED
      BY <1>1, <2>1 DEF TypeOK, Refuse, Verdicts, history
  <1>2. ASSUME NEW c \in Callers, NEW p \in Proofs, Enter(c, p)
        PROVE  TypeOK'
    BY <1>2 DEF TypeOK, Enter, Verdicts, history
  <1>3. ASSUME NEW c \in Callers, Replayed(c) PROVE TypeOK'
    <2>1. now[c] \in 0 .. MaxClock
      BY DEF TypeOK
    <2>2. DOMAIN seen' \subseteq Users \X Nonces /\ seen' \in [DOMAIN seen' -> Timestamps]
      BY <1>3, KeptIsPart DEF TypeOK, Replayed
    <2>3. horizon' \in 0 .. MaxClock
      BY <1>3, <2>1 DEF TypeOK, Replayed, Return
    <2>. QED
      BY <1>3, <2>2, <2>3 DEF TypeOK, Replayed, Return, Verdicts
  <1>4. ASSUME NEW c \in Callers, Record(c) PROVE TypeOK'
    <2>1. call[c] \in Proofs /\ now[c] \in 0 .. MaxClock
      BY <1>4, WaitingTyped DEF Record
    <2>2. Key(call[c]) \in Users \X Nonces /\ call[c].ts \in Timestamps
      BY <2>1, KeyTyped
    <2>3. /\ DOMAIN seen' \subseteq Users \X Nonces
          /\ seen' \in [DOMAIN seen' -> Timestamps]
      <3>. DEFINE kept == Kept(now[c])
                  key == Key(call[c])
      <3>1. /\ DOMAIN kept \subseteq Users \X Nonces
            /\ \A k \in DOMAIN kept : kept[k] \in Timestamps
        BY KeptIsPart DEF TypeOK
      <3>2. seen' = [k \in DOMAIN kept \cup {key} |->
                       IF k = key THEN call[c].ts ELSE kept[k]]
        BY <1>4 DEF Record
      <3>. HIDE DEF kept, key
      <3>3. DOMAIN seen' = DOMAIN kept \cup {key}
        BY <3>2
      <3>4. \A k \in DOMAIN seen' : seen'[k] \in Timestamps
        BY <2>2, <3>1, <3>2
      <3>5. seen' \in [DOMAIN seen' -> Timestamps]
        BY <3>2, <3>3, <3>4
      <3>. QED
        BY <2>2, <3>1, <3>3, <3>5 DEF key
    <2>4. horizon' \in 0 .. MaxClock
      BY <1>4, <2>1 DEF TypeOK, Record, Return
    <2>. QED
      BY <1>4, <2>1, <2>3, <2>4 DEF TypeOK, Record, Return, Verdicts
  <1>5. CASE Tick
    BY <1>5 DEF TypeOK, Tick, history
  <1>6. CASE StepBack
    BY <1>6 DEF TypeOK, StepBack, history
  <1>7. CASE Restart
    <2>1. DOMAIN seen' = {} /\ seen' \in [DOMAIN seen' -> Timestamps]
      BY <1>7 DEF Restart, Forget
    <2>. QED
      BY <1>7, <2>1 DEF TypeOK, Restart, Forget, Verdicts
  <1>8. CASE UNCHANGED vars
    BY <1>8 DEF TypeOK, vars
  <1>. QED
    BY <1>1, <1>2, <1>3, <1>4, <1>5, <1>6, <1>7, <1>8 DEF Next

\* Every reachable state of check_and_record's callers and table (replay.rs)
\* is well typed.
THEOREM TypeCorrect == Spec => []TypeOK
  BY InitType, StepType, PTL DEF Spec

-----------------------------------------------------------------------------
(***************************************************************************)
(* The inductive invariant.  RememberedWhileFresh needs only the types; to *)
(* conclude anything about the verdicts one must also know that a waiting  *)
(* caller's proof is in the window of that caller's own reading, and that  *)
(* the table holds nothing but what was accepted.                          *)
(***************************************************************************)
WaitingInWindow ==
  \A c \in Callers : Waiting(c) => InWindow(now[c], call[c].ts)

WaitingUnanswered ==
  \A c \in Callers : Waiting(c) => verdict[c] = "none"

TableFromAccepted ==
  \A k \in DOMAIN seen : \E q \in accepted : Key(q) = k /\ q.ts = seen[k]

ReplayInv == /\ TypeOK
             /\ WaitingInWindow
             /\ WaitingUnanswered
             /\ RememberedWhileFresh
             /\ TableFromAccepted

(***************************************************************************)
(* The whole of what is known when a caller holds the mutex: its reading   *)
(* is a number, its proof is in the window of that reading, and a proof    *)
(* accepted earlier with the same key is either still kept in the table or *)
(* out of the window of the latest reading.                                *)
(***************************************************************************)
LEMMA UnderMutex ==
  ASSUME ReplayInv, NEW c \in Callers, Waiting(c)
  PROVE  /\ call[c] \in Proofs /\ now[c] \in 0 .. MaxClock
         /\ call[c].ts \in Int /\ call[c].ts >= now[c] - MaxDrift
         /\ call[c].ts <= now[c] + MaxDrift
  <1>1. call[c] \in Proofs /\ now[c] \in 0 .. MaxClock
    BY WaitingTyped DEF ReplayInv
  <1>2. call[c].ts \in Int
    BY <1>1, KeyTyped, ConstantsTyped
  <1>3. InWindow(now[c], call[c].ts)
    BY DEF ReplayInv, WaitingInWindow
  <1>. QED
    BY <1>1, <1>2, <1>3, ConstantsTyped DEF InWindow

\* An accepted proof survives a pruning unless that one, or an earlier one,
\* puts it out of the window.
LEMMA KeptOrOut ==
  ASSUME ReplayInv, NEW q \in accepted, NEW r \in 0 .. MaxClock
  PROVE  /\ q \in Proofs /\ q.ts \in Int
         /\ \/ Key(q) \in DOMAIN Kept(r) /\ Kept(r)[Key(q)] = q.ts
            \/ q.ts < r - MaxDrift
            \/ q.ts < horizon - MaxDrift
  <1>1. q \in Proofs /\ q.ts \in Int
    BY KeyTyped, ConstantsTyped DEF ReplayInv, TypeOK
  <1>2. \/ Key(q) \in DOMAIN seen /\ seen[Key(q)] = q.ts
        \/ q.ts < horizon - MaxDrift
    BY DEF ReplayInv, RememberedWhileFresh
  <1>3. CASE Key(q) \in DOMAIN seen /\ seen[Key(q)] = q.ts
    <2>1. CASE q.ts >= r - MaxDrift
      BY <1>1, <1>3, <2>1, KeptIsPart
    <2>2. CASE ~(q.ts >= r - MaxDrift)
      BY <1>1, <2>2, ConstantsTyped
    <2>. QED
      BY <2>1, <2>2
  <1>. QED
    BY <1>1, <1>2, <1>3

\* The invariant holds of the empty table.
LEMMA InitReplayInv == Init => ReplayInv
  BY InitType DEF Init, ReplayInv, WaitingInWindow, WaitingUnanswered,
                  RememberedWhileFresh, TableFromAccepted, Waiting

\* A caller comes to wait only with a proof in the window of its reading, and
\* keeps both until it returns.
LEMMA StepWaiting ==
  ASSUME ReplayInv, [Next]_vars
  PROVE  WaitingInWindow' /\ WaitingUnanswered'
  <1>. USE DEF ReplayInv, WaitingInWindow, WaitingUnanswered, Waiting
  <1>1. ASSUME NEW c \in Callers, NEW p \in Proofs, Refuse(c, p)
        PROVE  WaitingInWindow' /\ WaitingUnanswered'
    BY <1>1 DEF Refuse
  <1>2. ASSUME NEW c \in Callers, NEW p \in Proofs, Enter(c, p)
        PROVE  WaitingInWindow' /\ WaitingUnanswered'
    <2>1. clock \in Readings /\ p.ts \in I64
      BY ClockIsReading, KeyTyped, ConstantsTyped DEF TypeOK
    <2>2. InWindow(clock, p.ts)
      BY <1>2, <2>1, FreshIffInWindow DEF Enter
    <2>. QED
      BY <1>2, <2>2 DEF Enter, TypeOK
  <1>3. ASSUME NEW c \in Callers, Return(c, "ok") \/ Return(c, "replay")
        PROVE  WaitingInWindow' /\ WaitingUnanswered'
    BY <1>3 DEF Return, TypeOK
  <1>4. CASE Tick \/ StepBack \/ UNCHANGED vars
    BY <1>4 DEF Tick, StepBack, vars
  <1>5. CASE Restart
    BY <1>5 DEF Restart, Forget
  <1>. QED
    BY <1>1, <1>2, <1>3, <1>4, <1>5 DEF Next, Replayed, Record

\* No step forgets an accepted proof before a pruning puts it out of the window.
LEMMA StepRemembered ==
  ASSUME ReplayInv, [Next]_vars
  PROVE  RememberedWhileFresh'
  <1>. USE ConstantsTyped
  <1>1. ASSUME NEW c \in Callers, Replayed(c)
        PROVE  RememberedWhileFresh'
    <2>1. now[c] \in 0 .. MaxClock /\ horizon \in 0 .. MaxClock
      BY DEF ReplayInv, TypeOK
    <2>2. /\ horizon' \in Int /\ horizon' >= now[c] /\ horizon' >= horizon
          /\ seen' = Kept(now[c]) /\ accepted' = accepted
      BY <1>1, <2>1 DEF Replayed, Return
    <2>. QED
      BY <2>1, <2>2, KeptOrOut DEF RememberedWhileFresh
  <1>2. ASSUME NEW c \in Callers, Record(c)
        PROVE  RememberedWhileFresh'
    <2>1. now[c] \in 0 .. MaxClock /\ horizon \in 0 .. MaxClock
      BY DEF ReplayInv, TypeOK
    <2>2. /\ horizon' \in Int /\ horizon' >= now[c] /\ horizon' >= horizon
          /\ accepted' = accepted \cup {call[c]}
          /\ Key(call[c]) \notin DOMAIN Kept(now[c])
          /\ DOMAIN seen' = DOMAIN Kept(now[c]) \cup {Key(call[c])}
          /\ seen'[Key(call[c])] = call[c].ts
          /\ \A k \in DOMAIN Kept(now[c]) : seen'[k] = Kept(now[c])[k]
      BY <1>2, <2>1 DEF Record, Return
    <2>3. ASSUME NEW p \in accepted
          PROVE  \/ Key(p) \in DOMAIN seen' /\ seen'[Key(p)] = p.ts
                 \/ p.ts < horizon' - MaxDrift
      BY <2>1, <2>2, KeptOrOut
    <2>. QED
      BY <2>2, <2>3 DEF RememberedWhileFresh
  <1>3. CASE Tick \/ StepBack \/ UNCHANGED vars
    BY <1>3 DEF ReplayInv, RememberedWhileFresh, Tick, StepBack, vars, history
  <1>4. CASE Restart
    BY <1>4 DEF RememberedWhileFresh, Restart, Forget
  <1>5. ASSUME NEW c \in Callers, NEW p \in Proofs, Refuse(c, p) \/ Enter(c, p)
        PROVE  RememberedWhileFresh'
    BY <1>5 DEF ReplayInv, RememberedWhileFresh, Refuse, Enter, history
  <1>. QED
    BY <1>1, <1>2, <1>3, <1>4, <1>5 DEF Next

\* Pruning and insertion leave only entries of accepted proofs.
LEMMA StepTable ==
  ASSUME ReplayInv, [Next]_vars
  PROVE  TableFromAccepted'
  <1>1. ASSUME NEW c \in Callers, Replayed(c)
        PROVE  TableFromAccepted'
    BY <1>1, KeptIsPart DEF ReplayInv, TableFromAccepted, Replayed
  <1>2. ASSUME NEW c \in Callers, Record(c)
        PROVE  TableFromAccepted'
    <2>1. /\ accepted' = accepted \cup {call[c]}
          /\ DOMAIN seen' = DOMAIN Kept(now[c]) \cup {Key(call[c])}
          /\ seen'[Key(call[c])] = call[c].ts
          /\ \A k \in DOMAIN Kept(now[c]) : k # Key(call[c]) => seen'[k] = seen[k]
      BY <1>2, KeptIsPart DEF Record
    <2>2. ASSUME NEW k \in DOMAIN Kept(now[c]), k # Key(call[c])
          PROVE  \E q \in accepted' : Key(q) = k /\ q.ts = seen'[k]
      BY <2>1, <2>2, KeptIsPart DEF ReplayInv, TableFromAccepted
    <2>3. \E q \in accepted' : /\ Key(q) = Key(call[c])
                               /\ q.ts = seen'[Key(call[c])]
      BY <2>1
    <2>. QED
      BY <2>1, <2>2, <2>3 DEF TableFromAccepted
  <1>3. CASE Tick \/ StepBack \/ UNCHANGED vars
    BY <1>3 DEF ReplayInv, TableFromAccepted, Tick, StepBack, vars, history
  <1>4. CASE Restart
    BY <1>4 DEF TableFromAccepted, Restart, Forget
  <1>5. ASSUME NEW c \in Callers, NEW p \in Proofs, Refuse(c, p) \/ Enter(c, p)
        PROVE  TableFromAccepted'
    BY <1>5 DEF ReplayInv, TableFromAccepted, Refuse, Enter, history
  <1>. QED
    BY <1>1, <1>2, <1>3, <1>4, <1>5 DEF Next

\* Every step of the protector keeps the invariant,
LEMMA StepReplayInv ==
  ASSUME ReplayInv, [Next]_vars
  PROVE  ReplayInv'
  BY StepType, StepWaiting, StepRemembered, StepTable DEF ReplayInv

\* and so does the end of the process, for a host that keeps no history of it.
LEMMA ForgetReplayInv ==
  ASSUME ReplayInv, Forget, UNCHANGED <<earlier, restartedAt>>
  PROVE  ReplayInv'
  <1>1. /\ DOMAIN seen' = {} /\ seen' \in [DOMAIN seen' -> Timestamps]
        /\ accepted' = {} /\ \A c \in Callers : ~Waiting(c)'
    BY DEF Forget, Waiting
  <1>2. TypeOK'
    BY <1>1, ConstantsTyped DEF ReplayInv, TypeOK, Forget, Verdicts
  <1>. QED
    BY <1>1, <1>2
    DEF ReplayInv, WaitingInWindow, WaitingUnanswered, RememberedWhileFresh,
        TableFromAccepted

\* The invariant, whatever the lock waits and the clock.
LEMMA InductiveReplayInv == Spec => []ReplayInv
  BY InitReplayInv, StepReplayInv, PTL DEF Spec

(***************************************************************************)
(* For every interleaving of callers, with the clock free to run and to be *)
(* set back, with and without restarts: what was accepted stays in the     *)
(* table until a reading has put it out of the window.                     *)
(***************************************************************************)
THEOREM Remembered == Spec => []RememberedWhileFresh
  <1>1. ReplayInv => RememberedWhileFresh
    BY DEF ReplayInv
  <1>. QED
    BY <1>1, InductiveReplayInv, PTL

-----------------------------------------------------------------------------
(***************************************************************************)
(* Which step gives a caller a verdict of the locked section.              *)
(***************************************************************************)
LEMMA AcceptsIsRecord ==
  ASSUME TypeOK, [Next]_vars, NEW c \in Callers, NEW p \in Proofs, Accepts(c, p)
  PROVE  Record(c) /\ Waiting(c)
  <1>. USE ReplayProtectorAssumption DEF TypeOK, Accepts, Waiting
  <1>1. Waiting(c)
    OBVIOUS
  <1>2. ASSUME NEW d \in Callers, NEW q \in Proofs, Refuse(d, q) \/ Enter(d, q)
        PROVE  FALSE
    BY <1>1, <1>2 DEF Refuse, Enter
  <1>3. ASSUME NEW d \in Callers, d # c, Replayed(d) \/ Record(d)
        PROVE  FALSE
    BY <1>1, <1>3 DEF Replayed, Record, Return
  <1>4. ~Replayed(c)
    BY DEF Replayed, Return
  <1>5. ~(Tick \/ StepBack \/ UNCHANGED vars \/ Restart)
    BY <1>1 DEF Tick, StepBack, vars, Restart, Forget
  <1>. QED
    BY <1>1, <1>2, <1>3, <1>4, <1>5 DEF Next

\* A waiting caller is told of a replay only by the section under the mutex.
LEMMA ReplayVerdictIsReplayed ==
  ASSUME ReplayInv, [Next]_vars, NEW c \in Callers, Waiting(c),
         verdict'[c] = "replay"
  PROVE  Replayed(c)
  <1>. USE ReplayProtectorAssumption
       DEF ReplayInv, TypeOK, WaitingUnanswered, Waiting
  <1>1. ASSUME NEW d \in Callers, NEW q \in Proofs, Refuse(d, q) \/ Enter(d, q)
        PROVE  FALSE
    BY <1>1 DEF Refuse, Enter
  <1>2. ASSUME NEW d \in Callers, d # c, Replayed(d) \/ Record(d)
        PROVE  FALSE
    BY <1>2 DEF Replayed, Record, Return
  <1>3. ~Record(c)
    BY DEF Record, Return
  <1>4. ~(Tick \/ StepBack \/ UNCHANGED vars \/ Restart)
    BY DEF Tick, StepBack, vars, Restart, Forget
  <1>. QED
    BY <1>1, <1>2, <1>3, <1>4 DEF Next

(***************************************************************************)
(* A nonce is reused for a user only after a reading has put the proof     *)
(* that used it out of the window, and the same proof is accepted again    *)
(* only under a reading older than one that has pruned.  This is the       *)
(* strongest form of "at most once" the code has when the clock may        *)
(* advance, or be set back, between the reading and the mutex.             *)
(***************************************************************************)
THEOREM ReuseOnlyAfterExpiry == Spec => NonceReusedOnlyAfterExpiry
  <1>1. ASSUME ReplayInv, [Next]_vars, NEW c \in Callers,
               NEW p \in Proofs, NEW q \in Proofs,
               Accepts(c, p), q \in accepted, Key(q) = Key(p)
        PROVE  /\ q.ts < horizon' - MaxDrift
               /\ p = q => now[c] < horizon
    <2>1. Record(c) /\ Waiting(c) /\ call[c] = p
      BY <1>1, AcceptsIsRecord DEF ReplayInv, Accepts
    <2>2. /\ now[c] \in 0 .. MaxClock /\ horizon \in 0 .. MaxClock
          /\ p.ts \in Int /\ p.ts >= now[c] - MaxDrift
      BY <1>1, <2>1, UnderMutex DEF ReplayInv, TypeOK
    <2>3. Key(q) \notin DOMAIN Kept(now[c])
      BY <1>1, <2>1 DEF Record
    <2>4. /\ q.ts \in Int
          /\ q.ts < now[c] - MaxDrift \/ q.ts < horizon - MaxDrift
      BY <1>1, <2>2, <2>3, KeptOrOut
    <2>5. horizon' = IF now[c] > horizon THEN now[c] ELSE horizon
      BY <2>1 DEF Record, Return
    <2>. QED
      BY <2>2, <2>4, <2>5, ConstantsTyped
  <1>2. ReplayInv /\ [Next]_vars
        => [\A c \in Callers : \A p, q \in Proofs :
              Accepts(c, p) /\ q \in accepted /\ Key(q) = Key(p)
                => /\ q.ts < horizon' - MaxDrift
                   /\ p = q => now[c] < horizon]_vars
    BY <1>1
  <1>. QED
    BY <1>2, InductiveReplayInv, PTL DEF Spec, NonceReusedOnlyAfterExpiry

(***************************************************************************)
(* Nobody is refused as a replay unless a proof with the same user and     *)
(* nonce was accepted and is still in the window of the caller's reading.  *)
(***************************************************************************)
THEOREM ReplayRefusalJustified == Spec => ReplayVerdictJustified
  <1>1. ASSUME ReplayInv, [Next]_vars, NEW c \in Callers,
               Waiting(c), verdict'[c] = "replay"
        PROVE  \E q \in accepted : /\ Key(q) = Key(call[c])
                                   /\ q.ts >= now[c] - MaxDrift
    <2>1. Key(call[c]) \in DOMAIN Kept(now[c])
      BY <1>1, ReplayVerdictIsReplayed DEF Replayed
    <2>2. /\ Key(call[c]) \in DOMAIN seen
          /\ seen[Key(call[c])] >= now[c] - MaxDrift
      BY <2>1, KeptIsPart
    <2>. QED
      BY <1>1, <2>2 DEF ReplayInv, TableFromAccepted
  <1>2. ReplayInv /\ [Next]_vars
        => [\A c \in Callers :
              Waiting(c) /\ verdict'[c] = "replay"
                => \E q \in accepted : /\ Key(q) = Key(call[c])
                                       /\ q.ts >= now[c] - MaxDrift]_vars
    BY <1>1
  <1>. QED
    BY <1>2, InductiveReplayInv, PTL DEF Spec, ReplayVerdictJustified

-----------------------------------------------------------------------------
(***************************************************************************)
(* The rest holds when no caller waits for the mutex across a second and   *)
(* the wall clock is never set back.                                       *)
(***************************************************************************)
Prompt == ~LockWaitSpansSeconds /\ ~ClockStepsBack

(***************************************************************************)
(* Then every reading in use is the clock, and none is ahead of it.        *)
(***************************************************************************)
ReadingsCurrent ==
  /\ \A c \in Callers : Waiting(c) => now[c] = clock
  /\ horizon <= clock
  /\ restartedAt <= clock

PromptInv == /\ ReplayInv
             /\ ReadingsCurrent
             /\ TableHoldsOneWindow

\* With prompt locks the reading of a waiting caller is the clock.
LEMMA StepReadings ==
  ASSUME Prompt, ReplayInv, ReadingsCurrent, [Next]_vars
  PROVE  ReadingsCurrent'
  <1>. USE ConstantsTyped, ReplayProtectorAssumption
       DEF ReplayInv, TypeOK, ReadingsCurrent, Waiting
  <1>1. ASSUME NEW c \in Callers, NEW p \in Proofs, Refuse(c, p)
        PROVE  ReadingsCurrent'
    BY <1>1 DEF Refuse, history
  <1>2. ASSUME NEW c \in Callers, NEW p \in Proofs, Enter(c, p)
        PROVE  ReadingsCurrent'
    BY <1>2 DEF Enter, history
  <1>3. ASSUME NEW c \in Callers, Waiting(c),
               Return(c, "ok") \/ Return(c, "replay")
        PROVE  ReadingsCurrent'
    BY <1>3 DEF Return
  <1>4. CASE Tick
    BY <1>4 DEF Tick, Prompt, history
  <1>5. CASE Restart
    BY <1>5 DEF Restart, Forget
  <1>6. CASE UNCHANGED vars
    BY <1>6 DEF vars
  <1>7. ~StepBack
    BY DEF Prompt, StepBack
  <1>. QED
    BY <1>1, <1>2, <1>3, <1>4, <1>5, <1>6, <1>7 DEF Next, Replayed, Record

\* The end of the process leaves no reading in use.
LEMMA ForgetReadings ==
  ASSUME TypeOK, ReadingsCurrent, Forget, UNCHANGED <<earlier, restartedAt>>
  PROVE  ReadingsCurrent'
  BY ConstantsTyped DEF TypeOK, ReadingsCurrent, Waiting, Forget

\* With prompt locks pruning and insertion keep the table in the window of the
\* latest reading.
LEMMA StepOneWindow ==
  ASSUME Prompt, PromptInv, [Next]_vars
  PROVE  TableHoldsOneWindow'
  <1>. USE ConstantsTyped DEF PromptInv, ReplayInv
  <1>1. ASSUME NEW c \in Callers, Replayed(c) \/ Record(c)
        PROVE  TableHoldsOneWindow'
    <2>1. /\ now[c] \in 0 .. MaxClock /\ horizon \in 0 .. MaxClock
          /\ call[c].ts \in Int /\ call[c].ts >= now[c] - MaxDrift
          /\ call[c].ts <= now[c] + MaxDrift
      BY <1>1, UnderMutex DEF TypeOK, Replayed, Record
    <2>2. horizon <= now[c]
      BY <1>1 DEF ReadingsCurrent, Replayed, Record
    <2>3. horizon' = now[c]
      BY <1>1, <2>1, <2>2 DEF Replayed, Record, Return
    <2>4. ASSUME NEW k \in DOMAIN Kept(now[c])
          PROVE  Kept(now[c])[k] \in now[c] - MaxDrift .. now[c] + MaxDrift
      <3>1. /\ k \in DOMAIN seen /\ seen[k] >= now[c] - MaxDrift
            /\ Kept(now[c])[k] = seen[k]
        BY KeptIsPart
      <3>2. seen[k] \in horizon - MaxDrift .. horizon + MaxDrift
        BY <3>1 DEF TableHoldsOneWindow
      <3>. QED
        BY <2>1, <2>2, <3>1, <3>2
    <2>5. CASE Replayed(c)
      BY <2>3, <2>4, <2>5 DEF TableHoldsOneWindow, Replayed
    <2>6. CASE Record(c)
      BY <2>1, <2>3, <2>4, <2>6 DEF TableHoldsOneWindow, Record
    <2>. QED
      BY <1>1, <2>5, <2>6
  <1>2. CASE Tick \/ StepBack \/ UNCHANGED vars
    BY <1>2 DEF TableHoldsOneWindow, Tick, StepBack, vars, history
  <1>3. CASE Restart
    BY <1>3 DEF TableHoldsOneWindow, Restart, Forget
  <1>4. ASSUME NEW c \in Callers, NEW p \in Proofs, Refuse(c, p) \/ Enter(c, p)
        PROVE  TableHoldsOneWindow'
    BY <1>4 DEF TableHoldsOneWindow, Refuse, Enter, history
  <1>. QED
    BY <1>1, <1>2, <1>3, <1>4 DEF Next

\* The invariant under prompt locks and a clock that is never set back.
LEMMA InductivePromptInv == Prompt /\ Spec => []PromptInv
  <1>. SUFFICES ASSUME Prompt PROVE Spec => []PromptInv
    OBVIOUS
  <1>1. Init => ReadingsCurrent /\ TableHoldsOneWindow
    BY ConstantsTyped DEF Init, ReadingsCurrent, TableHoldsOneWindow, Waiting
  <1>2. PromptInv /\ ReplayInv' /\ [Next]_vars => PromptInv'
    BY StepReadings, StepOneWindow DEF PromptInv
  <1>3. Init /\ ReplayInv => PromptInv
    BY <1>1 DEF PromptInv
  <1>. QED
    BY <1>2, <1>3, InductiveReplayInv, PTL DEF Spec

(***************************************************************************)
(* Under prompt callers and a monotone clock the table never holds an      *)
(* entry outside the window of its last pruning.                           *)
(***************************************************************************)
THEOREM OneWindow == Prompt /\ Spec => []TableHoldsOneWindow
  <1>1. PromptInv => TableHoldsOneWindow
    BY DEF PromptInv
  <1>. QED
    BY <1>1, InductivePromptInv, PTL

(***************************************************************************)
(* Under prompt callers and a monotone clock no proof is accepted twice in *)
(* the life of the process.                                                *)
(***************************************************************************)
THEOREM AcceptedOnce == Prompt /\ Spec => EachProofOnce
  <1>1. ASSUME PromptInv, [Next]_vars, NEW c \in Callers, NEW p \in Proofs,
               Accepts(c, p), p \in accepted
        PROVE  FALSE
    <2>1. Record(c) /\ Waiting(c) /\ call[c] = p
      BY <1>1, AcceptsIsRecord DEF PromptInv, ReplayInv, Accepts
    <2>2. /\ now[c] \in 0 .. MaxClock /\ horizon \in 0 .. MaxClock
          /\ p.ts \in Int /\ p.ts >= now[c] - MaxDrift
          /\ horizon <= now[c]
      BY <1>1, <2>1, UnderMutex DEF PromptInv, ReplayInv, TypeOK, ReadingsCurrent
    <2>3. Key(p) \notin DOMAIN Kept(now[c])
      BY <2>1 DEF Record
    <2>. QED
      BY <1>1, <2>2, <2>3, KeptOrOut, ConstantsTyped DEF PromptInv
  <1>2. PromptInv /\ [Next]_vars
        => [\A c \in Callers, p \in Proofs : Accepts(c, p) => p \notin accepted]_vars
    BY <1>1
  <1>. QED
    BY <1>2, InductivePromptInv, PTL DEF Spec, EachProofOnce

(***************************************************************************)
(* A restart lets a proof in again only if the process came back while the *)
(* proof was still in the window.                                          *)
(***************************************************************************)
THEOREM RestartWindow == Prompt /\ Spec => RestartForgetsOnlyTheWindow
  <1>1. ASSUME PromptInv, [Next]_vars, NEW c \in Callers, NEW p \in Proofs,
               Accepts(c, p), p \in earlier
        PROVE  restartedAt <= p.ts + MaxDrift
    <2>1. Record(c) /\ Waiting(c) /\ call[c] = p
      BY <1>1, AcceptsIsRecord DEF PromptInv, ReplayInv, Accepts
    <2>2. /\ now[c] \in 0 .. MaxClock /\ restartedAt \in 0 .. MaxClock
          /\ p.ts \in Int /\ p.ts >= now[c] - MaxDrift
          /\ restartedAt <= now[c]
      BY <1>1, <2>1, UnderMutex DEF PromptInv, ReplayInv, TypeOK, ReadingsCurrent
    <2>. QED
      BY <2>2, ConstantsTyped
  <1>2. PromptInv /\ [Next]_vars
        => [\A c \in Callers, p \in Proofs :
              Accepts(c, p) /\ p \in earlier => restartedAt <= p.ts + MaxDrift]_vars
    BY <1>1
  <1>. QED
    BY <1>2, InductivePromptInv, PTL DEF Spec, RestartForgetsOnlyTheWindow

-----------------------------------------------------------------------------
(***************************************************************************)
(* What the verdicts mean while every reading in use is the clock.  They   *)
(* are the cases of the two refinement proofs of the hosts as well.        *)
(***************************************************************************)
LEMMA RefusedIsStale ==
  ASSUME TypeOK, NEW c \in Callers, NEW p \in Proofs, Refuse(c, p)
  PROVE  p.ts \notin clock - MaxDrift .. clock + MaxDrift
  <1>1. clock \in Readings /\ p.ts \in I64
    BY ClockIsReading, KeyTyped, ConstantsTyped DEF TypeOK
  <1>. QED
    BY <1>1, FreshIffInWindow DEF Refuse, InWindow

\* A caller that waits for the mutex holds a proof that is fresh by the clock.
LEMMA WaitingIsFresh ==
  ASSUME ReplayInv, ReadingsCurrent, NEW c \in Callers, Waiting(c)
  PROVE  /\ now[c] = clock /\ clock \in 0 .. MaxClock
         /\ call[c] \in Proofs
         /\ call[c].ts \in clock - MaxDrift .. clock + MaxDrift
  <1>1. /\ call[c] \in Proofs /\ now[c] \in 0 .. MaxClock
        /\ call[c].ts \in Int
        /\ call[c].ts >= now[c] - MaxDrift /\ call[c].ts <= now[c] + MaxDrift
    BY UnderMutex
  <1>2. now[c] = clock /\ clock \in 0 .. MaxClock
    BY DEF ReadingsCurrent, ReplayInv, TypeOK
  <1>. QED
    BY <1>1, <1>2, ConstantsTyped

\* It is told of a replay when an accepted proof with its user and nonce is
\* still in the window,
LEMMA ReplayedIsBurned ==
  ASSUME ReplayInv, ReadingsCurrent, NEW c \in Callers, Replayed(c)
  PROVE  \E q \in accepted : Key(q) = Key(call[c]) /\ q.ts >= clock - MaxDrift
  <1>1. /\ Waiting(c)
        /\ Key(call[c]) \in DOMAIN seen
        /\ seen[Key(call[c])] >= now[c] - MaxDrift
    BY KeptIsPart DEF Replayed
  <1>2. PICK q \in accepted : Key(q) = Key(call[c]) /\ q.ts = seen[Key(call[c])]
    BY <1>1 DEF ReplayInv, TableFromAccepted
  <1>. QED
    BY <1>1, <1>2, WaitingIsFresh

\* and is let through when there is none.
LEMMA RecordIsUnburned ==
  ASSUME ReplayInv, ReadingsCurrent, NEW c \in Callers, Record(c),
         NEW q \in accepted, Key(q) = Key(call[c])
  PROVE  ~(q.ts >= clock - MaxDrift)
  <1>1. Waiting(c) /\ Key(call[c]) \notin DOMAIN Kept(now[c])
    BY DEF Record
  <1>2. now[c] = clock /\ clock \in 0 .. MaxClock
    BY <1>1, WaitingIsFresh
  <1>3. /\ q.ts \in Int
        /\ q.ts < clock - MaxDrift \/ q.ts < horizon - MaxDrift
    BY <1>1, <1>2, KeptOrOut
  <1>4. clock \in Int /\ horizon \in Int /\ horizon <= clock
    BY <1>2, ConstantsTyped DEF ReadingsCurrent, ReplayInv, TypeOK
  <1>. QED
    BY <1>3, <1>4, ConstantsTyped

(***************************************************************************)
(* Under prompt callers and a monotone clock the protector implements the  *)
(* guard: Refuse is the guard's RefuseStale, Enter its Ask, and the        *)
(* section under the mutex answers as the guard does at that moment.       *)
(***************************************************************************)
LEMMA StepGuard ==
  ASSUME Prompt, PromptInv, [Next]_vars
  PROVE  [Guard!Next]_(Guard!gvars)
  <1>. USE DEF PromptInv, ReplayInv, Guard!Next, Guard!gvars
  <1>1. ASSUME NEW c \in Callers, NEW p \in Proofs, Refuse(c, p)
        PROVE  Guard!RefuseStale(c, p)
    <2>1. ~Guard!Fresh(p)
      BY <1>1, RefusedIsStale DEF Guard!Fresh
    <2>2. CheckFreshness(clock, p.ts) \in {"panic", "future", "expired", "fresh"}
      BY FreshnessOutcomes
    <2>. QED
      BY <1>1, <2>1, <2>2 DEF Refuse, history, Guard!RefuseStale, Guard!Answer
  <1>2. ASSUME NEW c \in Callers, NEW p \in Proofs, Enter(c, p)
        PROVE  Guard!Ask(c)
    BY <1>2 DEF Enter, history, Guard!Ask, Guard!Answer
  <1>3. ASSUME NEW c \in Callers, Waiting(c)
        PROVE  call[c] \in Proofs /\ Guard!Fresh(call[c])
    BY <1>3, WaitingIsFresh DEF Guard!Fresh
  <1>4. ASSUME NEW c \in Callers, Replayed(c)
        PROVE  Guard!RefuseReplay(c, call[c])
    <2>1. Guard!Burned(call[c])
      BY <1>4, ReplayedIsBurned DEF Guard!Burned, Key
    <2>. QED
      BY <1>3, <1>4, <2>1
         DEF Replayed, Return, Guard!RefuseReplay, Guard!Answer
  <1>5. ASSUME NEW c \in Callers, Record(c)
        PROVE  Guard!Admit(c, call[c])
    <2>1. ~Guard!Burned(call[c])
      BY <1>5, RecordIsUnburned DEF Guard!Burned, Key
    <2>. QED
      BY <1>3, <1>5, <2>1 DEF Record, Return, Guard!Admit, Guard!Answer
  <1>6. Tick => Guard!Tick
    BY ConstantsTyped DEF Tick, TypeOK, history, Guard!Tick
  <1>7. Restart => Guard!Restart
    BY DEF Restart, Forget, Guard!Restart
  <1>8. ~StepBack
    BY DEF Prompt, StepBack
  <1>9. UNCHANGED vars => UNCHANGED <<clock, accepted, verdict>>
    BY DEF vars
  <1>10. ASSUME NEW c \in Callers, Replayed(c) \/ Record(c)
         PROVE  Waiting(c) /\ call[c] \in Proofs
    BY <1>3, <1>10 DEF Replayed, Record
  <1>. QED
    BY <1>1, <1>2, <1>4, <1>5, <1>6, <1>7, <1>8, <1>9, <1>10 DEF Next

\* check_and_record (replay.rs), with prompt locks and a clock that is never set
\* back, implements the guard without a table.
THEOREM Refinement == Prompt /\ Spec => ImplementsGuard
  <1>. SUFFICES ASSUME Prompt PROVE Spec => Guard!Spec
    BY DEF ImplementsGuard
  <1>1. Init => Guard!Init
    BY DEF Init, Guard!Init
  <1>2. PromptInv /\ [Next]_vars => [Guard!Next]_(Guard!gvars)
    BY StepGuard
  <1>. QED
    BY <1>1, <1>2, InductivePromptInv, PTL DEF Spec, Guard!Spec
=============================================================================
