-------------------------- MODULE ReplayProtector --------------------------
(***************************************************************************)
(* ReplayProtector (replay.rs): one table of seen nonces behind one mutex, *)
(* called concurrently by every connection task of the bank server and by  *)
(* the Kafka worker.                                                       *)
(*                                                                         *)
(* check_and_record takes two steps.  It reads the wall clock and applies  *)
(* the window tests (Refuse, Enter); then it waits for the mutex and, with *)
(* the mutex held, prunes, looks up and inserts (Replayed, Record).  The   *)
(* reading taken in the first step decides in the second what is pruned,   *)
(* however old it has become by then.                                      *)
(*                                                                         *)
(* The clock is Utc::now().timestamp(), which may be set back, and the     *)
(* table dies with the process.  accepted, horizon, earlier and            *)
(* restartedAt are history, kept for the properties.                       *)
(***************************************************************************)
EXTENDS Freshness, Functions

CONSTANTS
  Callers,                \* threads that may be inside check_and_record
  Users, Nonces,
  Timestamps,             \* of the proofs that are presented
  NoCall,                 \* a caller that is not waiting for the mutex
  MaxClock,               \* bound: the last clock reading modelled
  LockWaitSpansSeconds,   \* TRUE: the clock may advance while a caller waits
  ClockStepsBack,         \* TRUE: the wall clock may be set back
  Restarts                \* TRUE: the process may be restarted

Proofs == [user : Users, nonce : Nonces, ts : Timestamps]

Key(p) == <<p.user, p.nonce>>

ASSUME ReplayProtectorAssumption ==
  /\ Timestamps \subseteq I64
  /\ MaxClock \in Readings
  /\ LockWaitSpansSeconds \in BOOLEAN
  /\ ClockStepsBack \in BOOLEAN
  /\ Restarts \in BOOLEAN
  /\ NoCall \notin Proofs

VARIABLES
  clock,        \* Utc::now().timestamp()
  seen,         \* seen_nonces: (user, nonce) -> timestamp
  call,         \* the proof of a caller that waits for the mutex
  now,          \* that caller's local variable now
  verdict,      \* what the caller's last call returned
  accepted,     \* history: proofs accepted since the process started
  horizon,      \* history: the latest reading that has pruned the table
  earlier,      \* history: proofs accepted before the last restart
  restartedAt   \* history: the clock at the last restart

vars == <<clock, seen, call, now, verdict,
          accepted, horizon, earlier, restartedAt>>
history == <<accepted, horizon, earlier, restartedAt>>

Verdicts == {"none", "ok", "future", "expired", "panic", "replay"}

Init == /\ clock \in 0 .. MaxClock
        /\ seen = [k \in {} |-> 0]
        /\ call = [c \in Callers |-> NoCall]
        /\ now = [c \in Callers |-> 0]
        /\ verdict = [c \in Callers |-> "none"]
        /\ accepted = {} /\ horizon = 0
        /\ earlier = {} /\ restartedAt = 0

Waiting(c) == call[c] # NoCall

(***************************************************************************)
(* The early returns: the verdict is reached without the mutex.            *)
(***************************************************************************)
Refuse(c, p) ==
  /\ ~Waiting(c)
  /\ CheckFreshness(clock, p.ts) # "fresh"
  /\ verdict' = [verdict EXCEPT ![c] = CheckFreshness(clock, p.ts)]
  /\ UNCHANGED <<clock, seen, call, now, history>>

Enter(c, p) ==
  /\ ~Waiting(c)
  /\ CheckFreshness(clock, p.ts) = "fresh"
  /\ call' = [call EXCEPT ![c] = p]
  /\ now' = [now EXCEPT ![c] = clock]
  /\ verdict' = [verdict EXCEPT ![c] = "none"]
  /\ UNCHANGED <<clock, seen, history>>

(***************************************************************************)
(* The section under the mutex.  Kept is the table after retain, with the  *)
(* cutoff taken from the caller's own reading.                             *)
(***************************************************************************)
KeptStrict(reading) ==    \* retain(ts > cutoff)
  Restrict(seen, {k \in DOMAIN seen : seen[k] > reading - MaxDrift})

KeptByClock(reading) ==   \* retain(ts >= now): the drift forgotten
  Restrict(seen, {k \in DOMAIN seen : seen[k] >= reading})

KeptAll(reading) == seen  \* nothing is ever pruned

Kept(reading) ==
  Restrict(seen, {k \in DOMAIN seen : seen[k] >= reading - MaxDrift})

Return(c, v) ==
  /\ call' = [call EXCEPT ![c] = NoCall]
  /\ now' = [now EXCEPT ![c] = 0]
  /\ verdict' = [verdict EXCEPT ![c] = v]
  /\ horizon' = IF now[c] > horizon THEN now[c] ELSE horizon
  /\ UNCHANGED <<clock, earlier, restartedAt>>

Replayed(c) ==
  /\ Waiting(c)
  /\ Key(call[c]) \in DOMAIN Kept(now[c])
  /\ seen' = Kept(now[c])
  /\ Return(c, "replay")
  /\ UNCHANGED accepted

RecordExpiry(c) ==        \* the end of the window is stored, not the timestamp
  /\ Waiting(c)
  /\ Key(call[c]) \notin DOMAIN Kept(now[c])
  /\ seen' = [k \in DOMAIN Kept(now[c]) \cup {Key(call[c])} |->
                IF k = Key(call[c]) THEN call[c].ts + MaxDrift ELSE Kept(now[c])[k]]
  /\ Return(c, "ok")
  /\ accepted' = accepted \cup {call[c]}

Record(c) ==
  /\ Waiting(c)
  /\ Key(call[c]) \notin DOMAIN Kept(now[c])
  /\ seen' = [k \in DOMAIN Kept(now[c]) \cup {Key(call[c])} |->
                IF k = Key(call[c]) THEN call[c].ts ELSE Kept(now[c])[k]]
  /\ Return(c, "ok")
  /\ accepted' = accepted \cup {call[c]}

(***************************************************************************)
(* The environment.                                                        *)
(***************************************************************************)
Tick ==
  /\ clock < MaxClock
  /\ LockWaitSpansSeconds \/ \A c \in Callers : ~Waiting(c)
  /\ clock' = clock + 1
  /\ UNCHANGED <<seen, call, now, verdict, history>>

StepBack ==
  /\ ClockStepsBack
  /\ clock > 0
  /\ clock' = clock - 1
  /\ UNCHANGED <<seen, call, now, verdict, history>>

\* The process is gone, and the table and the callers with it.
Forget ==
  /\ seen' = [k \in {} |-> 0]
  /\ call' = [c \in Callers |-> NoCall]
  /\ now' = [c \in Callers |-> 0]
  /\ verdict' = [c \in Callers |-> "none"]
  /\ accepted' = {} /\ horizon' = 0
  /\ UNCHANGED clock

Restart ==
  /\ Restarts
  /\ Forget
  /\ earlier' = earlier \cup accepted
  /\ restartedAt' = clock

Next ==
  \/ \E c \in Callers, p \in Proofs : Refuse(c, p) \/ Enter(c, p)
  \/ \E c \in Callers : Replayed(c) \/ Record(c)
  \/ Tick
  \/ StepBack
  \/ Restart

Spec == Init /\ [][Next]_vars
-----------------------------------------------------------------------------
TypeOK ==
  /\ clock \in 0 .. MaxClock
  /\ DOMAIN seen \subseteq Users \X Nonces
  /\ seen \in [DOMAIN seen -> Timestamps]
  /\ call \in [Callers -> Proofs \cup {NoCall}]
  /\ now \in [Callers -> 0 .. MaxClock]
  /\ verdict \in [Callers -> Verdicts]
  /\ accepted \subseteq Proofs
  /\ earlier \subseteq Proofs
  /\ horizon \in 0 .. MaxClock
  /\ restartedAt \in 0 .. MaxClock

\* The step in which the call of c accepts the proof p.
Accepts(c, p) == /\ call[c] = p /\ ~Waiting(c)'
                 /\ verdict'[c] = "ok"

(***************************************************************************)
(* The table remembers every proof accepted since the process started      *)
(* until some caller's reading has put it out of the window, whatever the  *)
(* order in which callers with older and newer readings get the mutex.     *)
(***************************************************************************)
RememberedWhileFresh ==
  \A p \in accepted :
    \/ Key(p) \in DOMAIN seen /\ seen[Key(p)] = p.ts
    \/ p.ts < horizon - MaxDrift

(***************************************************************************)
(* A (user, nonce) pair is accepted again only when a reading has put the  *)
(* proof that used it out of the window; the very same proof therefore     *)
(* only by a caller whose own reading is older than one that has pruned.   *)
(***************************************************************************)
NonceReusedOnlyAfterExpiry ==
  [][\A c \in Callers : \A p, q \in Proofs :
       Accepts(c, p) /\ q \in accepted /\ Key(q) = Key(p)
         => /\ q.ts < horizon' - MaxDrift
            /\ p = q => now[c] < horizon]_vars

(***************************************************************************)
(* Nobody is told "Nonce has already been used for this user" unless a     *)
(* proof was accepted with it that the caller's own reading still has in   *)
(* the window: a fresh proof with an unused nonce is never refused.        *)
(***************************************************************************)
ReplayVerdictJustified ==
  [][\A c \in Callers :
       Waiting(c) /\ verdict'[c] = "replay"
         => \E q \in accepted : /\ Key(q) = Key(call[c])
                                /\ q.ts >= now[c] - MaxDrift]_vars

(***************************************************************************)
(* check_and_record (replay.rs:39) "ensures nonce has not been previously  *)
(* observed": a proof is accepted at most once in the life of the process. *)
(***************************************************************************)
EachProofOnce ==
  [][\A c \in Callers, p \in Proofs : Accepts(c, p) => p \notin accepted]_vars

(***************************************************************************)
(* The table is bounded by the traffic of one window: it never holds an    *)
(* entry outside the window of the last reading that pruned it.            *)
(***************************************************************************)
TableHoldsOneWindow ==
  \A k \in DOMAIN seen :
    seen[k] \in horizon - MaxDrift .. horizon + MaxDrift

(***************************************************************************)
(* A restart forgets the table, and a proof accepted before it can be      *)
(* accepted again; but only if the process came back while that proof was  *)
(* still in the window.  Staying down for the window loses nothing.        *)
(***************************************************************************)
RestartForgetsOnlyTheWindow ==
  [][\A c \in Callers, p \in Proofs :
       Accepts(c, p) /\ p \in earlier => restartedAt <= p.ts + MaxDrift]_vars

(***************************************************************************)
(* The protector implements the guard without a table: every answer is the *)
(* one the guard gives at the moment the mutex is held.                    *)
(***************************************************************************)
Guard == INSTANCE ReplayGuard WITH used <- accepted, Clocks <- 0 .. MaxClock

ImplementsGuard == Guard!Spec
=============================================================================
