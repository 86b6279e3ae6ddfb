----------------------------- MODULE BankServer -----------------------------
(***************************************************************************)
(* The bank verifier process (tcp/server.rs, bin/bank_server.rs): the      *)
(* accept loop, one task per connection running handle_connection, the     *)
(* replay protector all tasks share, the registry database other processes *)
(* write, and the clients at the far ends of the connections.              *)
(*                                                                         *)
(* handle_connection is split where another thread can act in between: the *)
(* registry lookup, the clock reading, the section under the mutex, the    *)
(* verification, the send.                                                 *)
(***************************************************************************)
EXTENDS AuthRequests, Integers, Sequences

CONSTANTS
  Half, MaxDrift, OverflowChecks, NoCall, MaxClock,
  LockWaitSpansSeconds, ClockStepsBack,
  Conns,          \* TCP connections, each used once
  Requests,       \* what clients send
  Garbage,        \* a frame the codec refuses, or a frame cut off by the end
  LongUsers,      \* ids that fit a frame once and not twice
  MaxSends        \* bound: frames a client sends on each connection

ASSUME BankServerAssumption ==
  /\ Requests \subseteq AuthRequest
  /\ Garbage \notin Requests
  /\ MaxSends \in [Conns -> Nat]

VARIABLES
  clock, seen, call, now, verdict,              \* see ReplayProtector
  accepted, horizon,
  server,     \* "up", "signalled", "draining" (run has returned), "down"
  registry,   \* user_registry: user -> key or NoKey
  phase,      \* where the task of a connection stands
  sent,       \* frames the client has put on the connection, in order
  got,        \* how many of them framed.next() has yielded
  gone,       \* connections whose client has left
  reply,      \* the response the task is about to send
  outbox,     \* responses written to the connection, in order
  killed,     \* history: connections that ended with the process
  held        \* history: what the registry held for the request's user
              \* from the receipt of the current request on

rpvars == <<clock, seen, call, now, verdict,
            accepted, horizon>>
conn == <<phase, sent, got, gone, reply, outbox>>
history == <<killed, held>>
vars == <<rpvars, server, registry, conn, history>>

RP == INSTANCE ReplayProtector WITH
  Callers <- Conns, Restarts <- TRUE,
  earlier <- {}, restartedAt <- 0     \* its history over restarts is not kept

ASSUME ProtectorAssumption ==
  /\ Half \in Nat \ {0} /\ MaxDrift \in 0 .. Half - 1
  /\ OverflowChecks \in BOOLEAN
  /\ LockWaitSpansSeconds \in BOOLEAN /\ ClockStepsBack \in BOOLEAN
  /\ MaxClock \in RP!Readings
  /\ Timestamps \subseteq RP!I64
  /\ NoCall \notin RP!Proofs

Phases == {"idle", "backlog", "read", "lookup", "check", "locked",
           "verify", "reply", "closed"}
Why == {"malformed", "unregistered", "storage", "mismatch", "stale",
        "replay", "verified", "invalid", "error"}
Responses == [user : Users \cup {"unknown"}, why : Why]   \* AuthResponse
NoReply == [user |-> "unknown", why |-> "malformed"]

\* The request the task of c is serving.
Req(c) == sent[c][got[c]]
Serving(c) == phase[c] \in {"lookup", "check", "locked", "verify", "reply"}
Reply(c, w) == [user |-> Req(c).user, why |-> w]

Goto(c, p) == phase' = [phase EXCEPT ![c] = p]
Answer(c, w) == Goto(c, "reply") /\ reply' = [reply EXCEPT ![c] = Reply(c, w)]
Done(c, p) == Goto(c, p) /\ reply' = [reply EXCEPT ![c] = NoReply]
Write(c, m) == outbox' = [outbox EXCEPT ![c] = Append(@, m)]

Init ==
  /\ RP!Init
  /\ server = "up"
  /\ registry \in [Users -> Keys \cup {NoKey}]
  /\ phase = [c \in Conns |-> "idle"]
  /\ sent = [c \in Conns |-> <<>>]
  /\ got = [c \in Conns |-> 0]
  /\ gone = {}
  /\ reply = [c \in Conns |-> NoReply]
  /\ outbox = [c \in Conns |-> <<>>]
  /\ killed = {}
  /\ held = [c \in Conns |-> {}]
-----------------------------------------------------------------------------
(***************************************************************************)
(* Clients.                                                                *)
(***************************************************************************)
Connect(c) ==
  /\ phase[c] = "idle" /\ server \in {"up", "signalled"}
  /\ Goto(c, "backlog")
  /\ UNCHANGED <<rpvars, server, registry, sent, got, gone, reply, outbox, history>>

Send(c, m) ==
  /\ phase[c] \notin {"idle", "closed"} /\ c \notin gone
  /\ Len(sent[c]) < MaxSends[c]
  /\ sent' = [sent EXCEPT ![c] = Append(@, m)]
  /\ UNCHANGED <<rpvars, server, registry, phase, got, gone, reply, outbox, history>>

Leave(c) ==
  /\ phase[c] \notin {"idle", "closed"} /\ c \notin gone
  /\ gone' = gone \cup {c}
  /\ UNCHANGED <<rpvars, server, registry, phase, sent, got, reply, outbox, history>>

(***************************************************************************)
(* The registry as other processes change it: UserRegistry::register is an *)
(* upsert, remove a delete.  Each is one statement under the database's    *)
(* lock.  held collects the values a request in service could have met.    *)
(***************************************************************************)
RegistryBecomes(u, k) ==
  /\ registry' = [registry EXCEPT ![u] = k]
  /\ held' = [c \in Conns |-> IF Serving(c) /\ Req(c).user = u
                                THEN held[c] \cup {k} ELSE held[c]]
  /\ UNCHANGED <<rpvars, server, conn, killed>>

Register(u, k) == registry[u] # k /\ RegistryBecomes(u, k)

Remove(u) == registry[u] # NoKey /\ RegistryBecomes(u, NoKey)
-----------------------------------------------------------------------------
(***************************************************************************)
(* BankServer::run.                                                        *)
(***************************************************************************)
AcceptSerially(c) ==   \* handle_connection awaited, not spawned
  /\ server \in {"up", "signalled"} /\ phase[c] = "backlog"
  /\ \A d \in Conns : phase[d] \in {"idle", "backlog", "closed"}
  /\ Goto(c, "read")
  /\ UNCHANGED <<rpvars, server, registry, sent, got, gone, reply, outbox, history>>

Accept(c) ==
  /\ server \in {"up", "signalled"} /\ phase[c] = "backlog"
  /\ Goto(c, "read")
  /\ UNCHANGED <<rpvars, server, registry, sent, got, gone, reply, outbox, history>>

ShutdownSignal ==
  /\ server = "up"
  /\ server' = "signalled"
  /\ UNCHANGED <<rpvars, registry, conn, history>>

\* run returns and drops the listener: connections not yet accepted end.
StopAccepting ==
  /\ server = "signalled"
  /\ server' = "draining"
  /\ phase' = [c \in Conns |-> IF phase[c] = "backlog" THEN "closed" ELSE phase[c]]
  /\ killed' = killed \cup {c \in Conns : phase[c] = "backlog"}
  /\ UNCHANGED <<rpvars, registry, sent, got, gone, reply, outbox, held>>

(***************************************************************************)
(* main returns after run, or the process dies: the runtime drops every    *)
(* task wherever it stands, and the nonce table goes with the process.     *)
(***************************************************************************)
ProcessEnds ==
  /\ server # "down"
  /\ RP!Forget
  /\ server' = "down"
  /\ phase' = [c \in Conns |-> IF phase[c] = "idle" THEN "idle" ELSE "closed"]
  /\ killed' = killed \cup {c \in Conns : phase[c] \notin {"idle", "closed"}}
  /\ reply' = [c \in Conns |-> NoReply]
  /\ held' = [c \in Conns |-> {}]
  /\ UNCHANGED <<registry, sent, got, gone, outbox>>

Boot ==
  /\ server = "down"
  /\ server' = "up"
  /\ UNCHANGED <<rpvars, registry, conn, history>>
-----------------------------------------------------------------------------
(***************************************************************************)
(* handle_connection.                                                      *)
(***************************************************************************)
ReceiveOffByOne(c) ==  \* a frame is skipped
  /\ phase[c] = "read" /\ got[c] < Len(sent[c])
  /\ got' = [got EXCEPT ![c] = @ + 2]
  /\ Goto(c, "lookup")
  /\ UNCHANGED <<rpvars, server, registry, sent, gone, reply, outbox, history>>

Receive(c) ==
  /\ phase[c] = "read" /\ got[c] < Len(sent[c])
  /\ sent[c][got[c] + 1] # Garbage
  /\ got' = [got EXCEPT ![c] = @ + 1]
  /\ held' = [held EXCEPT ![c] = {registry[sent[c][got[c] + 1].user]}]
  /\ Goto(c, "lookup")
  /\ UNCHANGED <<rpvars, server, registry, sent, gone, reply, outbox, killed>>

\* A decode error is answered, whether or not that succeeds, and ends the task.
ReceiveGarbage(c) ==
  /\ phase[c] = "read" /\ got[c] < Len(sent[c])
  /\ sent[c][got[c] + 1] = Garbage
  /\ got' = [got EXCEPT ![c] = @ + 1]
  /\ \/ Write(c, NoReply)
     \/ c \in gone /\ UNCHANGED outbox
  /\ Goto(c, "closed")
  /\ UNCHANGED <<rpvars, server, registry, sent, gone, reply, history>>

\* The stream ends; a reset also discards what has not been read.
EndOfStream(c) ==
  /\ phase[c] = "read" /\ c \in gone
  /\ Goto(c, "closed")
  /\ UNCHANGED <<rpvars, server, registry, sent, got, gone, reply, outbox, history>>

LookupKeyPropagates(c) ==  \* registry.get_public_key(..)?
  /\ phase[c] = "lookup"
  /\ \E dbError \in BOOLEAN :
       LET found == Lookup(Req(c), registry[Req(c).user], dbError) IN
       CASE found = "match" -> Goto(c, "check") /\ UNCHANGED reply
         [] found = "storage" -> Done(c, "closed")
         [] OTHER -> Answer(c, found)
  /\ UNCHANGED <<rpvars, server, registry, sent, got, gone, outbox, history>>

LookupKey(c) ==
  /\ phase[c] = "lookup"
  /\ \E dbError \in BOOLEAN :
       LET found == Lookup(Req(c), registry[Req(c).user], dbError) IN
       IF found = "match"
         THEN Goto(c, "check") /\ UNCHANGED reply
         ELSE Answer(c, found)
  /\ UNCHANGED <<rpvars, server, registry, sent, got, gone, outbox, history>>

\* check_and_record up to the mutex.  An overflow trap ends the task.
CheckFresh(c) ==
  /\ phase[c] = "check"
  /\ \/ RP!Enter(c, ProofOf(Req(c))) /\ Goto(c, "locked") /\ UNCHANGED reply
     \/ /\ RP!Refuse(c, ProofOf(Req(c)))
        /\ IF verdict'[c] = "panic" THEN Done(c, "closed")
                                    ELSE Answer(c, "stale")
  /\ UNCHANGED <<server, registry, sent, got, gone, outbox, history>>

CheckNonceIgnored(c) ==    \* the verdict on the nonce is dropped
  /\ phase[c] = "locked"
  /\ RP!Replayed(c) \/ RP!Record(c)
  /\ Goto(c, "verify")
  /\ UNCHANGED <<reply, server, registry, sent, got, gone, outbox, history>>

\* check_and_record under the mutex.
CheckNonce(c) ==
  /\ phase[c] = "locked"
  /\ \/ RP!Replayed(c) /\ Answer(c, "replay")
     \/ RP!Record(c) /\ Goto(c, "verify") /\ UNCHANGED reply
  /\ UNCHANGED <<server, registry, sent, got, gone, outbox, history>>

(***************************************************************************)
(* The registered key was equal to the request's, so that is the key the   *)
(* proof is verified under.  A panic unwinds the task and nothing else.    *)
(***************************************************************************)
VerifyProof(c) ==
  /\ phase[c] = "verify"
  /\ LET result == Verify(Req(c).pk, Req(c)) IN
     IF result = "panic" THEN Done(c, "closed")
                         ELSE Answer(c, result)
  /\ UNCHANGED <<rpvars, server, registry, sent, got, gone, outbox, history>>

(***************************************************************************)
(* framed.send(response).await?  The responses that name the user twice    *)
(* exceed the frame limit for a long id, and the encoder's error ends the  *)
(* task as an I/O error does.                                              *)
(***************************************************************************)
TooLong(m) == m.user \in LongUsers /\ m.why \in {"unregistered", "verified"}

SendReplyUnchecked(c) ==   \* let _ = framed.send(response).await
  /\ phase[c] = "reply"
  /\ \/ ~TooLong(reply[c]) /\ Write(c, reply[c])
     \/ (TooLong(reply[c]) \/ c \in gone) /\ UNCHANGED outbox
  /\ Done(c, "read")
  /\ held' = [held EXCEPT ![c] = {}]
  /\ UNCHANGED <<rpvars, server, registry, sent, got, gone, killed>>

SendReply(c) ==
  /\ phase[c] = "reply"
  /\ \/ ~TooLong(reply[c]) /\ Write(c, reply[c]) /\ Done(c, "read")
     \/ /\ TooLong(reply[c]) \/ c \in gone
        /\ Done(c, "closed") /\ UNCHANGED outbox
  /\ held' = [held EXCEPT ![c] = {}]
  /\ UNCHANGED <<rpvars, server, registry, sent, got, gone, killed>>

Tick == RP!Tick /\ UNCHANGED <<server, registry, conn, history>>
StepBack == RP!StepBack /\ UNCHANGED <<server, registry, conn, history>>

Handle(c) ==
  \/ Receive(c) \/ ReceiveGarbage(c) \/ EndOfStream(c)
  \/ LookupKey(c) \/ CheckFresh(c) \/ CheckNonce(c)
  \/ VerifyProof(c) \/ SendReply(c)

Next ==
  \/ \E c \in Conns : Connect(c) \/ Leave(c) \/ Accept(c) \/ Handle(c)
  \/ \E c \in Conns, m \in Requests \cup {Garbage} : Send(c, m)
  \/ \E u \in Users, k \in Keys : Register(u, k)
  \/ \E u \in Users : Remove(u)
  \/ ShutdownSignal \/ StopAccepting \/ ProcessEnds \/ Boot
  \/ Tick \/ StepBack

Spec == Init /\ [][Next]_vars
-----------------------------------------------------------------------------
BankTypeOK ==
  /\ RP!TypeOK
  /\ server \in {"up", "signalled", "draining", "down"}
  /\ registry \in [Users -> Keys \cup {NoKey}]
  /\ phase \in [Conns -> Phases]
  /\ sent \in [Conns -> Seq(Requests \cup {Garbage})]
  /\ got \in [Conns -> Nat] /\ \A c \in Conns : got[c] <= Len(sent[c])
  /\ reply \in [Conns -> Responses] /\ outbox \in [Conns -> Seq(Responses)]
  /\ gone \subseteq Conns /\ killed \subseteq Conns
  /\ held \in [Conns -> SUBSET (Keys \cup {NoKey})]

(***************************************************************************)
(* A client is told "verified" only if its request was made with the       *)
(* secret key of the key it names, the bank held that key for that user at *)
(* some moment since it received the request (although by then the key may *)
(* have been replaced), and the nonce was recorded by this process before. *)
(***************************************************************************)
SuccessIsEarned ==
  \A c \in Conns :
    phase[c] = "reply" /\ reply[c].why = "verified"
      => /\ Genuine(Req(c))
         /\ Req(c).pk \in held[c]
         /\ ProofOf(Req(c)) \in accepted

(***************************************************************************)
(* A client is told that it is not registered, or that its key does not    *)
(* match, only if that was so at some moment since its request arrived.    *)
(***************************************************************************)
RefusalIsEarned ==
  \A c \in Conns : phase[c] = "reply" =>
    /\ reply[c].why = "unregistered" => NoKey \in held[c]
    /\ reply[c].why = "mismatch" => held[c] \ {NoKey, Req(c).pk} # {}

(***************************************************************************)
(* While no lock wait spans a second and the clock is not set back, the    *)
(* server with its tasks, table and lock implements the service: in one    *)
(* life of the process, over all its connections, a proof is admitted at   *)
(* most once and only for a key held meanwhile, and every verdict was true *)
(* when it was reached.                                                    *)
(***************************************************************************)
StageFor(p) == CASE p \in {"lookup", "check", "locked"} -> "asked"
                 [] p = "verify" -> "admitted"
                 [] p = "reply" -> "answered"
                 [] OTHER -> "idle"

Asked == [c \in Conns |-> IF Serving(c) THEN Req(c) ELSE Garbage]
Known == [c \in Conns |-> IF Serving(c) THEN held[c] ELSE {}]
Stage == [c \in Conns |-> StageFor(phase[c])]
Told == [c \in Conns |-> IF phase[c] = "reply" THEN reply[c].why ELSE "none"]

Service == INSTANCE AuthService WITH
  Slots <- Conns, Clocks <- 0 .. MaxClock, NoRequest <- Garbage,
  spent <- accepted, asked <- Asked, held <- Known, stage <- Stage, answer <- Told

ImplementsService == Service!Spec

(***************************************************************************)
(* The responses on a connection answer its requests one for one and in    *)
(* order: while the task reads, everything received has been answered; the *)
(* response in a place names the user of the request in that place.        *)
(***************************************************************************)
AnswersInStep ==
  \A c \in Conns :
    /\ phase[c] = "read" => Len(outbox[c]) = got[c]
    /\ Serving(c) => Len(outbox[c]) = got[c] - 1
    /\ \A i \in 1 .. Len(outbox[c]) :
         IF sent[c][i] = Garbage THEN outbox[c][i] = NoReply
         ELSE /\ outbox[c][i].user = sent[c][i].user
              /\ outbox[c][i].why = "verified" => Genuine(sent[c][i])

(***************************************************************************)
(* A request the server received goes unanswered only if the client left,  *)
(* the process ended under it, the frame did not decode, the scalar made   *)
(* verify panic, the timestamp trapped, or the response did not fit a      *)
(* frame.  There is at most one such request, the last.                    *)
(***************************************************************************)
Hopeless(m) == \/ m = Garbage
               \/ m.form = "shortscalar" \/ m.user \in LongUsers
               \/ OverflowChecks /\ m.ts <= MaxClock - Half

UnansweredHasCause ==
  \A c \in Conns :
    phase[c] = "closed" /\ Len(outbox[c]) < got[c]
      => /\ Len(outbox[c]) = got[c] - 1
         /\ c \in gone \/ c \in killed \/ Hopeless(Req(c))

(***************************************************************************)
(* A nonce is spent only by a request that named the key the bank held for *)
(* its user (whether or not its sender holds the secret of it): unknown    *)
(* users and other keys leave no trace in the nonce table.                 *)
(***************************************************************************)
NonceSpentUnderHeldKey ==
  [][\A c \in Conns, p \in RP!Proofs :
       RP!Accepts(c, p) => /\ p = ProofOf(Req(c))
                           /\ Req(c).pk \in held[c]]_vars
-----------------------------------------------------------------------------
(***************************************************************************)
(* The tokio runtime polls every ready task and the mutex is held for a    *)
(* bounded time, so each task goes on; the listener is polled while run    *)
(* runs; after a signal select! picks the shutdown branch eventually.      *)
(* Nothing is assumed of clients, of enrolment or of the clock.            *)
(***************************************************************************)
Fairness ==
  /\ \A c \in Conns : WF_vars(Accept(c) \/ Handle(c))
  /\ WF_vars(StopAccepting)

FairSpec == Spec /\ Fairness

(***************************************************************************)
(* Every frame put on a connection is answered, in its turn, unless the    *)
(* client leaves, the process stops, or an earlier or this frame is one    *)
(* that ends the connection.  A task that panics, or a connection that     *)
(* stalls, delays nobody else.                                             *)
(***************************************************************************)
EveryRequestAnswered ==
  \A c \in Conns : \A i \in 1 .. MaxSends[c] :
    Len(sent[c]) >= i
      ~> \/ Len(outbox[c]) >= i
         \/ c \in gone \/ c \in killed
         \/ \E j \in 1 .. i : j <= Len(sent[c]) /\ Hopeless(sent[c][j])

(***************************************************************************)
(* No connection waits in the backlog for ever.                            *)
(***************************************************************************)
BacklogDrains == \A c \in Conns : phase[c] = "backlog" ~> phase[c] # "backlog"
=============================================================================
