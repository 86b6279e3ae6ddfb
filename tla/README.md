# ZKP identity verifier: TLA+ models, checks and proofs

The program is a Schnorr identity verifier in Rust with two front ends, a TCP
server and a Kafka worker, over one SQLite registry of public keys and an
in-memory table of seen nonces. Paths below are relative to the repository
(`src/replay.rs` is the crate's file of that name). Everything here is
translated from the code; where a comment or a message of the program says
something else, the difference is listed under Findings.

## 1. Inventory

| part | state | operations | interacts with |
|---|---|---|---|
| replay protector, `src/replay.rs` | `seen_nonces`: (user, nonce) -> timestamp, behind a mutex; lives as long as its process | `check_and_record`, `active_nonces_count` | called by every connection task and by the Kafka worker; reads the wall clock |
| ZKP engine, `src/zkp_core_engine.rs` | none | `generate_proof`, `verify`, `is_fresh`, key conversions | called by provers and both verifiers |
| registry, `src/storage.rs` | one SQLite table user -> key | `register` (upsert), `remove`, `get_public_key`, `is_registered`, `list_users`, `count` | written by enrolment tools in other processes, read by both verifiers |
| bank server, `src/tcp/server.rs`, `src/bin/bank_server.rs` | listener, one task per connection, shutdown flag | accept loop, `handle_connection` | registry, protector, engine, codec |
| TCP client, `src/tcp/client.rs`, `src/bin/user_client.rs` | one connection, a key file | `connect`, `authenticate`, `send_raw_request` | bank server, registry (auto-enrolment) |
| codec, `src/codec.rs` | the read buffer of a connection | `encode`, `decode` | server and client |
| Kafka worker, `src/kafka/verifier.rs`, `src/bin/kafka_verifier.rs` | `offset`, never committed to the broker | `run`, `process_record` | two topics, registry, protector, engine |
| Kafka prover, `src/kafka/prover.rs`, `src/bin/kafka_prover.rs` | request id, scan offset, key file | `submit_verification`, `wait_for_response`, replay | two topics, registry (auto-enrolment) |
| enrolment, `src/bin/enroll_user.rs` | key file, registry entry | enrol, list | registry |
| wire messages, `src/protocol.rs` | none | bincode and JSON conversions | all |

What is hard about them:

- **Replay protection.** `check_and_record` reads the clock *before* it waits
  for the mutex, and uses the reading afterwards for the pruning. Callers with
  older and newer readings get the mutex in any order; the wall clock may be set
  back; a restart forgets the table; the timestamp is any `i64` of the network.
  Correct means: a proof is accepted at most once while it is fresh, nobody
  with an unused nonce is refused, the table stays bounded.
- **Bank server.** Tasks interleave between look-up, freshness check, mutex,
  verification and send; other processes rotate keys meanwhile; `verify` can
  panic; a response may not fit a frame; shutdown drops tasks wherever they
  are. Correct means: success only for the holder of a key the bank held,
  refusals only for a reason, responses in step with requests, and no client
  held up by another.
- **Kafka pipeline.** Production is not idempotent and may fail either way, the
  offset moves before a record is processed, the worker starts at the end of
  the topic or, on an error, at its beginning, and provers look for their
  response by request id from the start of the topic. Correct means: no
  request is processed twice by a worker that starts at the end, responses are
  in order and truthful, an accusation of replay has a cause, and what can be
  answered is answered.
- **Enrolment.** Key file and registry are written in two steps, errors are
  ignored, and nothing excludes two programs from enrolling one user at once.
  The user may be removed meanwhile, and a file that a run left torn is
  somebody's key file. Correct means: after one undisturbed run the two agree;
  a login is told of another key only after an overlap or an interruption, and
  that its user is unknown only after that or a removal; a panic has one of
  these causes too; no login destroys a key.
- **Codec.** Bytes arrive in pieces of any size, and the two ends may be built
  with different limits. Correct means: the reader never loses step with the
  frames, never waits for what it has or will refuse, and ends with its peer.
- **Engine.** Correct means: honest proofs verify, and a proof is bound to the
  scalar, the timestamp and the nonce it carries, which is what the table of
  seen nonces relies on.

`PROJECT.json` lists each hazard at its line with the properties aimed at it.

## 2. Modules

| module | models | composed of |
|---|---|---|
| `Freshness` | the age arithmetic of `i64` timestamps: `CheckFreshness`, `IsFresh` | |
| `Schnorr` | `generate_proof`, `compute_challenge`, `verify` over a group of prime order | |
| `Engine` | a proof presented second after second, in both builds, and all alterations of it | EXTENDS `Schnorr`, INSTANCE `Freshness` |
| `ReplayProtector` | `check_and_record` under concurrency | EXTENDS `Freshness` |
| `ReplayGuard` | abstract: the protector without a table, a call in one step | |
| `AuthRequests` | requests; `Lookup` (registry answer and key comparison), `Verify` | |
| `BankServer` | the server process, its clients, the registry's writers | EXTENDS `AuthRequests`, INSTANCE `ReplayProtector` |
| `KafkaPipeline` | provers, two topics, worker process, registry's writers | EXTENDS `AuthRequests`, INSTANCE `ReplayProtector` |
| `AuthService` | abstract: what both front ends promise for each request | EXTENDS `AuthRequests`, INSTANCE `ReplayGuard` |
| `Codec` | one direction of a framed connection, byte by byte | |
| `FrameChannel` | abstract: a channel of whole items | |
| `Enrollment` | key file and registry entry of a user, the programs that write them | INSTANCE `AuthRequests` |
| `Freshness_proofs`, `Schnorr_proofs`, `Engine_proofs`, `ReplayProtector_proofs`, `BankServer_proofs`, `KafkaPipeline_proofs`, `Codec_proofs`, `Enrollment_proofs` | theorems | each EXTENDS its module; `BankServer_proofs` and `KafkaPipeline_proofs` use an INSTANCE of `ReplayProtector_proofs`, `Engine_proofs` two of `Freshness_proofs` |
| `MCEngine`, `MCReplayProtector`, `MCBankServer`, `MCKafkaPipeline`, `MCCodec`, `MCEnrollment` | instances for TLC | |

How they hang together: `ReplayProtector` implements `ReplayGuard`; `BankServer`
and `KafkaPipeline` are built on `ReplayProtector` and implement `AuthService`,
which is built on `ReplayGuard`; `Codec` implements `FrameChannel`, which is
what `BankServer` assumes of a connection (`sent`, `got`, `outbox` are sequences
of whole frames, `Garbage` is a frame that is refused or cut off, and a response
that does not fit ends the connection); `Schnorr` gives the reason for the
outcomes of `AuthRequests!Verify`; `Enrollment` is one writer of the `registry`
that the other two find changed between any two of their steps.

**Freshness.** `Half` is 2^63. `Cargo.toml` sets no profile, so `now -
proof.timestamp` traps in a dev build and wraps in a release build:
`OverflowChecks` is which. Clock readings lie after 1970 and far enough from
the end of the `i64` range (`Readings`).

**ReplayProtector.** `Refuse` and `Enter` are the code before the mutex: an
early return, or a caller left waiting with its `now`. `Replayed` and `Record`
are the section under the mutex: both first prune (`Kept`) with the caller's
own reading. `Tick`, `StepBack` and `Restart` are the environment. Two
constants say what is assumed of it: `LockWaitSpansSeconds` (the clock may move
on while a caller waits) and `ClockStepsBack`. `accepted`, `horizon`,
`earlier`, `restartedAt` are history.

**ReplayGuard.** What the protector is for: a fresh proof is admitted unless a
proof admitted with its nonce is still in the window. It has no table, so a
table that forgets too early or too late is not an implementation of it. The
refinement maps `used` to `accepted`; `Enter` maps to `Ask`, which only clears
the caller's last verdict, and pruning is invisible.

**Engine.** What `Freshness` and `Schnorr` say of one proof, as a system whose
only event is the clock: `FreshnessExact`, `HonestVerified`, `ProofBound` and
`IsFreshExact` are its properties.

**Schnorr.** A point is named by its discrete logarithm, so `GENERATOR * k` is
k and the sum of points is a sum modulo the order; the hash is a constant, any
function of R, key, timestamp and nonce, whose value may fail to be a scalar
(`compute_challenge` panics then). Of the encodings, what `verify` tells apart
is kept: R without the format of a point or off the curve, a scalar of another
length or beyond the order. The order of the tests is the code's: the panic of
`from_slice` on a short scalar comes after R's format and before its curve test.

**AuthRequests.** A proof keeps what the properties tell apart: user, named
key, key it was made for, nonce, timestamp, and whether its bytes are as made,
altered, unparsable, or carry a scalar of another length than 32 bytes. The
last makes `FieldBytes::from_slice` panic in `verify`; an encoding error of the
same call is an ordinary outcome. The group equation is abstracted by its
meaning: it holds for unaltered bytes under the key the proof was made for.
A challenge hash that is not a scalar (about one in 2^128) is left out here.

**AuthService.** Requests sit in slots (connections, or the one worker) and get
one verdict or are abandoned. A proof is admitted as `ReplayGuard` admits it,
for a key the registry held since the question was asked; each verdict has its
reason in `Justified`. There are no phases, connections, offsets, tables or
locks in it. Both front ends map `accepted` to `spent` and their program
counters to three stages. The mapping needs lock waits that do not span a second
and a clock that is not set back, as for `ReplayGuard`.

**Codec.** `Encode` is `encode` and the flush of `framed.send`; `Read` moves any
number of bytes to the reader's buffer; `DecodeItem`, `DecodeError`,
`DecodeNeedsMore` and `DecodeEof` are the outcomes of `decode` and of the
`decode_eof` that `FramedRead` calls at the end of the stream. Header length and
base are constants, 4 and 256 in the program; `Power` is the power of the base,
and `FrameLen` reads the header digit by digit. The limits of the two ends are
separate, as `with_max_frame_size` allows, and a payload may hold more bytes
than its item (bincode ignores them) or no item of the reader's type.

**Enrollment.** Each run of a program is one process with a program counter:
`enrol` writes the file, registers and checks; `login` loads the file or
generates, registers and writes, ignoring errors, and then authenticates;
`list` reads the users and then their keys. `fs::write` is two steps, so that
another run or a kill finds a torn file; `hex_decode` returns an error on it or,
at an odd length, panics. `Remove` is `UserRegistry::remove` by whoever calls it,
at any moment. `Prove` ends a login with the front end's look-up: a match, an
unknown user, another key, or a storage error, which may happen at any time; or
with no answer at all. `clean`, `disturbed` and `removed` are history: which runs
met neither another run nor an error, whether an overlap or an interrupted run has
happened that no clean run has repaired since, and whether the registry's last
change was a removal.

**BankServer.** A connection's `phase` is the program counter of its task:
`idle` (not connected), `backlog` (not accepted), `read` (`framed.next()`),
`lookup`, `check`, `locked` (waits for the protector's mutex), `verify`,
`reply` (`framed.send`), `closed`. `sent`, `got` and `outbox` are the frames of
the client, how many were read, and the responses. Register and remove are the
writes of other processes. `held` collects what the registry held for the
request's user since the request arrived. `StopAccepting` is `run` returning after the signal,
`ProcessEnds` is main returning or the process dying at any moment. `LongUsers`
are ids that fit a request frame and not a response that names them twice.

**KafkaPipeline.** A topic is a sequence, the record at offset n its element
n + 1. `wphase` is the worker's program counter. `NextRecord` moves the offset
before processing, as the code does. `Produce` and `Publish` append 0, 1 or 2
copies; for the prover an error may be reported after any of them. Panics end
the process (`Panic`), since the worker runs in main's task. A prover submits,
waits or times out, may replay the same record and waits again, always
scanning from the start of the response topic. When the task that waits for
Ctrl+C panics, the sender of the signal is dropped, `changed()` is ready at once
for ever, and `select!` drops every fetch: the worker is `deaf`
(`src/kafka/verifier.rs:97`).

## 3. Runs

| run | asks | bounds and why they are enough |
|---|---|---|
| `engine` | `FreshnessExact`: the two window tests decide the window exactly, for every `i64`, in both builds; `HonestVerified`, `ProofBound` | `Half` = 16: wrapping from either end, the trap and both window edges all occur; a group of order 5 with all its keys, commitments and alterations, under a hash that collides and leaves the scalars; proved for every width and order |
| `isfresh_release` | *violation*, finding 1 | the same |
| `replay_concurrent` | `TypeOK`, `RememberedWhileFresh`, `NonceReusedOnlyAfterExpiry`, `ReplayVerdictJustified` with long lock waits and a clock that steps back | two callers, two nonces, clock 0..3, window 1: an entry is recorded, pruned, and the nonce reused by an older and a newer reading; all proved |
| `replay_prompt` | `TableHoldsOneWindow`, `EachProofOnce`, `RestartForgetsOnlyTheWindow`, `ImplementsGuard`, lock waits under a second, monotone clock, restarts, dev build | two callers, clock 0..2; all proved |
| `replay_race` | *violation*, finding 2 | two callers |
| `bank_race` | `BankTypeOK`, `SuccessIsEarned`, `RefusalIsEarned`, `ImplementsService`, `NonceSpentUnderHeldKey` | two connections with one frame each suffice for a race on one nonce; two keys for a rotation under way; clock 0..1 with window 0 so that a proof expires in the queue; stop and restart at every step; all proved |
| `bank_live` | `AnswersInStep`, `UnansweredHasCause`, `EveryRequestAnswered`, `BacklogDrains` | one connection with two frames, as an earlier frame may end the service of a later one, and a silent one that may hold it up; dev build with a trapping timestamp, a clock that moves both ways during lock waits |
| `kafka` | `KafkaTypeOK`, `ResponsesInOrder`, `SuccessIsEarned`, `AccusationHasCause`, `FirstReportTruthful`, `NeverReprocessed` | a prover and another producer whose requests are verified as well, so that the topic of responses holds successes that are not the prover's; three records, two lives of the worker: a copy before and after a crash, beside the other's; a crash at any step, which is also what a panic comes to (`End`; panics themselves are in `kafka_live`); clock fixed; all proved |
| `kafka_live` | `VerifiedOncePerLife`, `ImplementsService`, `EveryRequestAnswered` with a start offset of 0, a lost signal and a moving clock | two records (a proof and its copy, or a neighbour that is junk or panics), two lives (the second may read both again with an empty table), clock 0..1 with window 0 so that a proof expires and is pruned; no prover, as these properties are about the worker; the invariant and the refinement are proved |
| `kafka_replay_verdict` | *violation*, finding 3 | one prover, three records |
| `codec` | `NeverWaitsInVain`, `ImplementsChannel`, `EveryFrameYielded`, `StreamEnds` | headers of two bits, three frames: payloads that look like headers, one with a byte too many, one of another type, one too long for the reader, one too long for the writer; every chunking and every cut; all but the liveness is proved |
| `enrollment` | `EnrollmentTypeOK`, `PanicHasCause`, `AgreeAtRest`, `LoginHonoured`, `KeyFileKept` | three runs: two that overlap and one that follows; removals at any moment; all proved |

Symmetry is used where only invariants and properties of single steps are
checked (a refinement without fairness is one), over callers, nonces,
connections or runs that the specification treats alike. Named bounds:
`MaxClock`, `MaxSends`, `MaxLog`, `MaxLives`, `MaxItems`, `Runs`, and `Copies`
for a repeated append (`Produce`, `Publish`). Deadlock is checked except in
`codec` and `enrollment`, which stop when the stream has ended and when all runs
have.

What each property says, with the code it is about, stands above it in its
module. Some need a word here:

- `NonceReusedOnlyAfterExpiry` is what remains true of replay protection with
  arbitrary lock waits and clock steps: reuse only after *some* reading put the
  proof out of the window. `EachProofOnce` is the stronger statement users
  expect, and needs the two assumptions (finding 2 is the counterexample).
- `SuccessIsEarned` of the bank says "held at some moment since the request was
  received", not "holds now": the key may be rotated between the look-up and the
  verdict, which the code does not guard against.
- `UnansweredHasCause` names every way a received request can stay without an
  answer; an empty list of causes would be false of this code. One of the causes,
  that the process ended, includes what `src/bin/bank_server.rs:58` announces as a
  graceful shutdown: when `run` returns, `main` returns, and the runtime drops the
  connection tasks wherever they are, also between the recording of a nonce and
  the answer.
- `NonceSpentUnderHeldKey` is about the key a request *names*, which is public:
  a tampered copy under the right key does spend the nonce of the request it
  copies, since the nonce is recorded before the proof is verified.
- `NeverReprocessed` is checked with `OffsetErrors = FALSE`. When asking for
  the end of the topic fails, the worker starts at 0 with an empty nonce table
  and does process old records again; `kafka_live` checks what holds then.
- `AccusationHasCause` is checked where the worker finds the end of the topic; the
  theorem `AccusationsCaused` covers the other starts too.
- `ImplementsService` is checked for both front ends against one module. It is
  what relates the mutex, the table, the registry reads and the verdicts: a
  nonce recorded outside the mutex, a verdict reached from a stale look-up or an
  admission after the refusal of the nonce are steps `AuthService` cannot take.
- `EveryRequestAnswered` of the worker exempts a deaf one, by name: that worker
  answers nothing more until it is killed.
- `AgreeAtRest` says that overlaps and interruptions are the *only* ways for file
  and registry to part, but for a removal, and that one clean run heals them. It is
  not promised that they do not happen; nothing in the code excludes them.
- `PanicHasCause` does not forgive an error or an overlap to the assertion and the
  `unwrap` of `enroll_user`: only a removal between two accesses of one run makes
  them fail. `LoginHonoured` leaves a storage error free to refuse a login at any
  time, as in the code.
- `AccusationHasCause`: a prover whose first submission is called a replay is
  the victim of a repeated append whose first response was lost.

**Fairness.** `BankServer`: weak fairness of each connection task and of
accepting it, and of the shutdown branch once signalled; the tokio runtime polls
every ready task, the mutex is held for a bounded time, and `select!` chooses
among ready branches at random. `Codec`: weak fairness of the reader, whose
socket wakes it when bytes or the end arrive; none of the writer.
`KafkaPipeline`: weak fairness of the worker
while its process lives; broker calls return. Clients, provers, operators,
enrolment and the clock are under no fairness. A failed fetch retries, and is a
stutter: that the broker lets one through eventually is part of that assumption.

## 4. Proofs

Checked by TLAPS, for every value of the constants that satisfies the named
assumptions: `FreshnessAssumption`, `EngineAssumption` (window and width are
numbers, the window is smaller than the width), `ReplayProtectorAssumption`,
`SchnorrAssumption` (the order is prime), `EnrollmentAssumption` (the special
values differ from keys), `NoKeyAssumption`, `BankServerAssumption` and
`ProtectorAssumption` (requests are well formed and their timestamps are `i64`),
`KafkaAssumption` (provers have a user, a key and a nonce, their ids are their
own, junk is no request), `CodecAssumption` (what `encode` lets through fits the
header; an item of the reader's type is told from the bytes behind it). Every
invariant and action property of the passing runs is proved, and so are the
three refinements. A theorem that needs more says so in its statement:

| premise | where | why |
|---|---|---|
| `~LockWaitSpansSeconds`, `~ClockStepsBack` | `EachProofOnce`, `TableHoldsOneWindow`, `RestartForgetsOnlyTheWindow`, the refinements of `ReplayGuard` and `AuthService` (`KafkaPipeline` has only the first: its clock moves on) | false without them (finding 2) |
| `~OffsetErrors` | `ProcessedOnce` | a worker that starts at 0 does process old records again |
| `NoncesFresh` | `AccusationsCaused` | provers' nonces are their own; another producer that copies one is another cause of an accusation |

*Freshness_proofs.* `WrappedAge` says what the wrapped difference of a reading
and an `i64` is; from it `FreshIffInWindow` (the tests are exact, in both
builds: a difference that wraps comes out beyond the window on the other side)
and `ExpiredStaysExpired`.

*Schnorr_proofs.* `Completeness`: honest proofs verify. `OneScalar`: no other
scalar does, which rests on the refusal of scalars beyond the order.
`OneContext`: another timestamp or nonce needs a collision of the hash; two
challenges that satisfy the equation for one R, key and scalar are equal because
the order is prime (`ChallengeMatters`).

*Engine_proofs.* `WindowExact`, `HonestProofs`, `ProofsBound` put these together
for the clock and the timestamp of `Engine`. The invariant is only that both are
in their ranges: the properties are exact at every reading and need no history.

*ReplayProtector_proofs.*

- `TypeCorrect` by one step per action.
- `ReplayInv` strengthens the safety properties to something inductive: a
  waiting caller's proof is in the window of its reading (`WaitingInWindow`) and
  it has no verdict yet (`WaitingUnanswered`), what was accepted is remembered
  or behind the horizon (`RememberedWhileFresh`), and every entry comes from an
  accepted proof (`TableFromAccepted`). `WaitingInWindow` is needed because an
  insertion is judged by a reading taken earlier; `TableFromAccepted` because a
  refusal must point at the proof that used the nonce. From it `Remembered`,
  `ReuseOnlyAfterExpiry`, `ReplayRefusalJustified`: no assumption about locks
  or the clock.
- `PromptInv` adds that waiting callers' readings equal the clock
  (`ReadingsCurrent`) and that the table is within the last pruning's window.
  It is inductive only under `Prompt` (no lock wait spans a second, no step
  back). From it `OneWindow`, `AcceptedOnce`, `RestartWindow`, and
  `Refinement`: every step of the protector is a step or a stutter of
  `ReplayGuard`.

*BankServer_proofs.* `BankInv` is the conjunction of the four invariants proved
(`SuccessIsEarned`, `RefusalIsEarned`, `AnswersInStep`, `UnansweredHasCause`)
and of what makes them inductive: typed state (`Shape`), a served request has
been received and decoded (`InService`), a task waits for the mutex exactly at
`locked` and with its own proof (`AtMutex`), and the key of a request past the
look-up is in `held`, its nonce in `accepted` past the mutex (`Earned`). A task's
step either goes on to the next phase, reaches a verdict or dies; one lemma for
each (`GoesOn`, `Decides`, `Dies`) is used by all actions of `handle_connection`.
No assumption about locks or the clock is made.

`BankImplementsService` shows that each step is a step or a stutter of
`AuthService`. The protector inside the server is not proved about again: each
step of the server is a step or a stutter of the protector (`ProtectorSteps`), so
what `ReplayProtector_proofs` says of a step holds of it (`ProtectorInvariant`).
`ServiceInv` is `BankInv` with the protector's `ReplayInv` and `ReadingsCurrent`:
the first gives the reason of each verdict, the second that the table admits what
`ReplayGuard` admits, the third that the reading a caller waits with is the clock
by which the guard decides.

*KafkaPipeline_proofs.* `KafkaInv` has the typed state of worker and provers
(`WorkerShape`, `ProverShape`), what the worker knows at each place (`Working`),
that every response stands for a record of its id which was processed before the
present one (`Published`), and that under a prover's id the topic holds nothing
but its request (`Owned`), beside `ResponsesInOrder` and `FirstReportTruthful`.
`Published` is what orders the responses: a new one belongs to the present
record, all others of this life to earlier ones. `Owned` is what makes a success
found by request id a success of the prover's own proof. `ProcessedOnce` adds
`TakenBehind`, which is inductive only if the worker always finds the end of the
topic, so the theorem assumes `~OffsetErrors`.

- `OncePerLife` (a proof is verified at most once in a life of the worker) needs
  no assumption about locks or offsets: one task serves the topic, so its clock
  readings are ordered (`ReadingsOrdered`), and a verified proof is in the table or
  behind every later reading (`Spent`).
- `AccusationsCaused`: an accepted proof is that of a record the worker has taken,
  and that record has been answered, its answer lost, or it is the present one
  (`Traced`); so a response "replay" stands behind the answer to an earlier record
  with its nonce, unless that was lost (`ReplaysCaused`). Under `NoncesFresh` and
  `OwnNonce` (a record is foreign or carries its prover's nonce) that record is a
  copy of the prover's own, and a waiting prover has not passed a response to
  itself (`Scanned`): if the earlier answer were there, it would have found that.
- `KafkaImplementsService` works as for the bank; `Resting` (nobody waits for the
  mutex while the worker is elsewhere) and the single worker make the mapping of
  stages simpler.

*Codec_proofs.* The buffer is compared with a tape on which every frame ever
sent stands behind the one before. `Aligned`: as long as the reader is open, what
it has and what is under way is the tape from the end of the last frame yielded to
the end of the last frame sent, or to the cut. Encoding extends the tape, reading
moves nothing on it, decoding moves on by exactly one frame (`WholeFrame`). That
the buffer begins with the length of the very next item is `HeaderRoundTrip`: the
digits that `put_u32` writes are the quotients of the length by the powers of the
base (`DivisionTwice`), and reading them from the left gives the length again. The
induction over the digits is over a set of indices (`Induction`, from the well-founded
order of the numbers), as are the proofs that the recursive functions `Power` and
`FrameLen` exist (`Recursion`). From it `NoVainWait` and `CodecImplementsChannel`.

*Enrollment_proofs.* `EnrollmentInv`: what each place of a program knows
(`Placed`, `Registered`), that a clean run under way is the only writer
(`CleanAlone`), that what it has written is still there (`CleanProgress`), and
that an undisturbed login holds the registered key (`ProverKnown`), each but for a
removal (`Gone`). Two parts give the causes of a panic: an entry that a run has
written or seen is there unless the user was removed since (`Registered`), and
without a disturbance a torn file is one that a run is about to fill
(`TornUnderWay`), which the clean runs that load a file never meet.

Only model-checked: liveness (`EveryRequestAnswered`, `BacklogDrains`,
`EveryFrameYielded`, `StreamEnds`), which needs fairness and ENABLED and is outside
the prover's reach.

## 5. Findings

1. `is_fresh` (`src/zkp_core_engine.rs:157`) calls a proof fresh whose age wraps
   to `i64::MIN` in a release build; its comment promises the window. No server
   calls it; `check_and_record` is exact.
2. `check_and_record` (`src/replay.rs:41`) reads the clock before the mutex. A
   caller that waits over a change of the second while another prunes with the
   newer time can accept a proof that was accepted before, against "ensures
   nonce has not been previously observed" (`:39`). Reading the clock under the
   mutex would make the readings monotone in the order of the prunings; a wall
   clock that is set back would remain.
3. `kafka_prover --replay` (`src/bin/kafka_prover.rs:150`) waits for the answer
   to its replay under the request id of the first submission and from the start
   of the topic, finds the first success and prints VULNERABLE although the
   worker verified the proof once; the same happens when the first answer came
   after the prover's deadline. The "worker discarded duplicate" branch (`:158`)
   is taken only when no response exists at all.

## 6. Not modelled

- The two front ends side by side. Each has its own nonce table, so one proof can
  be admitted once by each (`src/kafka/verifier.rs:48`); no code relates the
  tables, and there is no promise to state beyond each implementing
  `AuthService`.
- The TCP client's wait for its response: it takes the next frame of the
  connection, which `AnswersInStep` shows to be the answer to its request.
- A shutdown signal that is lost in the bank server (`src/tcp/server.rs:70`): its
  accept loop then spins, and whether it still accepts depends on tokio's
  scheduling budget.
- Users with a fresh name for each run (`--unregistered`): their look-up is the
  `unregistered` outcome.
- A clock that is set back beside the Kafka worker; it is modelled for the
  protector and for the bank server.
- Frame limits beyond what a `u32` header can say (`with_max_frame_size` takes
  any `usize`; the program uses 64 KiB).
- Messages: `user_client` and `kafka_prover` print "Auto-enrolled" also when
  `register` failed (`src/bin/user_client.rs:84`, `src/bin/kafka_prover.rs:99`).
- Argument parsing and printing, container files; bincode, JSON, SQLite, tokio
  and rskafka themselves (modelled by how they are used).

A duplicate of a broker append is taken to follow its original directly, as the
client library waits for one attempt before it makes the next.
