# Teman Bule in TLA+

A verification development of the Teman Bule backend (`src/src/temanbule`): a modular monolith of three
processes, the FastAPI application, a durable worker and a realtime worker for calls, over PostgreSQL
(READ COMMITTED, SQLAlchemy sessions), a Redis stream, and the vendors Xendit, Langflow, Deepgram,
LiveKit and Astra. Paths below are relative to `src/src/temanbule` unless they start with `src/`.

## The system

| Part | State | Operations | Where it is hard |
|---|---|---|---|
| Wallet and ledger (`modules/billing/wallet.py`, `ledger.py`) | cached balances, journals, reservations | credit a top-up; authorize, settle, release, reconcile a reservation | a cache and a ledger written by several statements, under row locks taken in an order |
| Payments (`modules/billing/payments.py`, `api/routers/webhooks.py`) | orders, webhook inbox | create an order, take in an event | vendor events repeated, reordered, at once; answers lost |
| Durable jobs (`worker/job_runner.py`) | jobs, leases, attempts | claim, dispatch, finalize | two workers, lapsed leases, crashes, retries |
| Outbox (`worker/main.py`, `modules/reliability`) | events, stream entries, jobs | record, relay, handle, ack, dead-letter | at-least-once delivery, poisoned events, crashes |
| Accounts and sessions (`modules/identity/auth_service.py`) | account, refresh tokens, action tokens | register, verify, login, refresh, logout, reset, Google | unlocked reads before writes, revocation beside rotation |
| Auth e-mail (`worker/auth_email_handler.py`) | deliveries of a token | check, record, send, commit | a mail and a commit that share no transaction |
| Practice sessions (`modules/conversations/chat.py`, `services.py`, `langflow.py`) | rooms, messages | create, turn, stream, suggest, complete, delete | sequence numbers without a lock, the order of a stream's frames, retried turns |
| Facts and assessments (`modules/conversations/facts.py`, `assessments.py`) | facts, assessments of a range | propose, confirm, supersede, store | jobs and tool calls that read the same active fact |
| Calls (`modules/calls`, `realtime`) | call, lease, fencing token, turns | create, admit, activate, record, interrupt, end | a stale worker, an end that races another |
| Extraction and embedding (`modules/knowledge`) | extractions, documents, projections | extract, commit, dispatch, project, delete | ranges, two targets of a document, deletion |
| Podcasts (`modules/podcasts`) | sources, scripts, playbacks | ingest, generate, play, interrupt, end | a two-step job, single director |
| Media (`modules/media`) | objects, their scan | register, scan, finalize, use | an object used before it is known to be clean |
| Tools and grants (`modules/ai_runtime`) | grants, executions | issue, validate, execute | one key, many calls; single use |
| Learning and vocabulary (`modules/learning`, `vocabulary`) | an entry, preferences, progress | save, review, set, report | read then write without a lock |
| TOEFL (`modules/assessments`) | attempt, answers, scores | answer, submit, score | an answer on its way when the attempt is submitted |
| Plans and provider keys (`modules/catalog`) | selection and its log, keys, models, snapshots | choose, publish, register, revoke, select | a choice next to open work, a key revoked while it is selected |
| Account deletion, bootstrap, idempotency, platform, vendor adapters | rows of their own, or none | single transactions, or requests | see *Not modelled* |

They meet in the database. A router or a job commits one transaction with its rows and its outbox
event; the relay forwards events to the stream; a handler of the worker turns an event into jobs
(`session.completed` to extraction, `extraction.committed` to commit and embedding, a podcast source to
ingestion); a job calls a vendor and writes the result. Billing is entered from the routers (top-up,
webhook). Its reservations are meant to be entered from the paid AI features, but in this commit only
tests call them.

`PROJECT.json` lists every part with what is modelled, and the hazards with the properties that cover
them.

## The modules

Each module models transactions as a session or request that reads, locks, writes and commits, one
action per point at which another transaction can come in between. What a transaction holds
(a row lock, an uncommitted unique key) is an operator (`WalletFree`, `HoldsKey`, `AccountFree`) in the
guards of the others; a rollback drops what is not committed.

* **TokenAccounts** is what billing promises: an order is credited once, an operation gets a grant
  that is charged and returned at most in full, and a frozen grant waits for an operator.
* **Wallet** is `WalletService` over `LedgerService`. A session (`call`, `pc`, `books`) opens a
  transaction on one wallet, locks the order or reservation row and the wallet row in the order of the
  code, posts the journal or finds one of its key, applies the wallet's delta and commits. The
  committed state is `available`, `held`, `version`, `journals`, `accounts`, `reservation`. It
  implements TokenAccounts by the mapping in the module.
* **WalletProofs** holds its theorems, and those of the plan changes, which `MCWallet` puts beside it.
* **Payments** is `PaymentService` with the routers that commit it. `checkout` is the request
  that creates an order, `pc/event/verdict` are the webhook requests, `invoice/sent/acked` are the
  vendor. `Port` is the adapter: `ContractPort` speaks the words of `XenditCheckoutPort`,
  `XenditPort` is the one that is wired in.
* **DurableJobs** is what the queue promises of a job; **JobQueue** is `JobRunner`: `Claim` is
  `_claim_one`, with the copy of the row it expunges, `Dispatch` the processor, `Finalize` the second
  transaction; `LeaseExpires`, `Crash` and `ComesDue` are the environment. `done` is the work that a job was
  for: of a podcast's job, whose first step only asks the vendor for it, the second step, which no execution
  reaches, so DurableJobs is implemented by the other jobs (`OneStep`).
* **OutboxRelay** is the loop of `worker/main.py`: each worker relays the oldest unpublished events
  and reads a batch of the consumer group, handles each entry in a transaction, and acks or
  dead-letters it.
* **AuthSessions** is `AuthService` for one e-mail address, over the constants of **AuthParameters**. A request presents a token, a password, a
  Google identity or the address, reads the account, selects the rows it revokes, and commits.
  `resets` and `since` are history variables.
* **CallContract** is what the call service promises to whoever reads a call: a life in one order, a
  token for each admission, a log written by the last token only, nothing after the end.
* **CallLifecycle** is one call: `CallService` behind the public and the internal router, and the
  `CallSessionRunner` of each job that LiveKit starts for it. A runner reaches the rows only by
  requests, each a transaction under the lock of the call and its conversation (`_owned_call` locks the
  join), so each is one action; two are split, because SQLAlchemy keeps what a session has loaded:
  `ReadConversation` before `EndCall`, and `CreateCall` before `DispatchFails`. A request may be served
  when its runner has given up, or served with its answer lost.
* **AuthMail** is the worker's handler of a token's event. A delivery reads the token, reads whether it
  is the latest, inserts the row that tells deliveries apart, sends, and commits; between the sending
  and the commit a worker may be lost.
* **WorkflowStream** is what `langflow.py` and `session_create.py` make of the frames of one stream: a
  fold over `end_vertex`, `output` and `end` frames with the same tests in the same order, and what a
  deployed flow means by them (`Meant`) beside it. **ChatTurns** is one room: requests that create it,
  send a turn (whole, streamed or from a recording), ask for suggestions, complete and delete. A request
  keeps what it has written until it commits; an insert waits for a transaction that holds the same
  sequence, client key or the row.
* **AnalysisChain** is what is learnt of a completed session: `SessionCompleted` makes the jobs of its
  ranges, a runner's job asks the vendor for a background run, the run calls the tools
  `conversation.persist_extraction` and `user_facts.upsert`, and the extraction's event makes the jobs
  of its facts and its assessment. An actor's `work` is what its transaction has read.
* **EmbeddingProjections** is one canonical document: a branch, a job and a projection for each chunk and
  active profile, the vectors in Astra, which commits by itself, and the administrator's deletes. Astra stores
  a vector (`Stores`) or answers 200 with a body of errors (`Refuses`); the adapter sees no difference.
* **Podcasts** is an upload (registered, scanned, finalized) and a podcast made of it: documents and
  their ingestion, a script and a playback for each play, with the vendor awaited under the lock of the
  podcast, interruptions, resumption and end.
* **LearnerRecords** is a vocabulary entry, preferences and progress, written by the learner's requests
  and by tools; `Execute` is `ToolExecutionService.execute` with its look-up, savepoint and grant.
* **ToeflAttempts** is one attempt. **PlansAndKeys** is one user's plan, keys and model selections, with
  the snapshots a session is started from.

**RowUpdates** is the update of some fields of a row, which ChatTurns, AnalysisChain and EmbeddingProjections
share. The proofs stand beside the modules they are about, or beside the `MC` module that composes them:
**PaymentsProofs**, **JobQueueProofs**, **OutboxRelayProofs**, **ChatTurnsProofs**, **AccountsProofs** (AuthMail and
AuthSessions), **CallsAndKnowledgeProofs** (CallLifecycle, AnalysisChain, EmbeddingProjections) and
**LearningProofs** (ToeflAttempts, LearnerRecords, Podcasts).

In all of these what is not locked in the code is read in one action and written in a later one, and
a unique constraint is a condition of the action that would violate it.

The `MC` modules give the constants values. `MCWallet`, `MCAccounts`, `MCLearning` and
`MCCallsAndKnowledge` put parts beside each other that have no row in common, `MCUserRecords` the first three of
these, `MCJobsAndChat` JobQueue and ChatTurns. Their executions are about one part, while the others stay as
they begin: no statement of one reads or writes a row of another, so an interleaving of two would show nothing
that each alone does not, and a run explores the sum of the parts' states and not their product. `MCJobQueue` and
`MCChatTurns` add to JobQueue and ChatTurns what their violation runs need.

## The runs

| Run | Shows | Bounds |
|---|---|---|
| `user_records` | the cached balances follow the ledger and the reservations, nothing is lost or created, and the wallet implements TokenAccounts; the log of plan changes is a chain that ends in the plan selected | 2 wallets, 3 orders, 2 reservations that do not both fit, 2 sessions, 2 units; 1 key, 2 revisions of a plan, 3 changes |
| | no token is good across a reset unless an epoch was written twice, a family that ended stays ended; a mail is sent once, and once more for each worker lost after sending | 2 refresh tokens, 1 action token, 2 requests, 2 resets that may overlap; 2 mailed tokens, 2 workers, 1 lost |
| | only objects found clean are used, play stores a script of the current document, an ended playback stays ended; a tool call takes effect once per key; a score is that of the submitted answers | 2 requests, 1 document, 1 recording, 2 sources, 1 script, 1 playback; 1 key, 1 grant; 2 questions, 2 rubrics |
| `payments` | an order is paid exactly when it is credited, once, by a confirmed payment of its amount; paid is final; every payment that no expiry or failure of its invoice precedes is credited before it is acknowledged, and in the end | 1 order, 3 invoices, one of another amount, 2 requests, 2 faults |
| `payments_late` | *violated*: a payment after the expiry of its invoice is acknowledged and not credited | 1 invoice, 1 request, no fault |
| `payments_xendit` | *violated*: the wired adapter never confirms a payment | 1 invoice |
| `jobs_and_chat` | one worker per job, every job that no worker died over is closed, DurableJobs implemented by the jobs of one step | 3 jobs, one of a podcast, 2 workers, 2 attempts, 1 crash |
| | turns of concurrent requests do not interleave, an answer stands behind its message; frames in any order are understood as a deployed flow means them; what is stored after the completion had begun before; no request waits for ever | 3 requests, 1 client key, streams of 2 frames |
| `jobs_crash` | *violated*: the job of a dead worker is never taken up again | 1 job |
| `jobs_podcast` | *violated*: a podcast's job succeeds with its source never polled | 1 job, no crash |
| `outbox` | the jobs of an event are inserted once, an acked entry is settled, every event is handled in the end | 2 events, one of them poisoned, 2 workers, 1 fault, streams of 2 |
| `accounts_refresh` | *violated*: two refreshes of one token do not leave two good successors | 3 refresh tokens, 2 requests, no reset |
| `calls_and_knowledge` | turns are written by the runner admitted last, an ended call has its conversation completed and its whole transcript announced, CallContract implemented; ranges tile a session, each has one extraction and one assessment, a job that succeeded has its result, a confirmed fact is not replaced by an inference; a projection marked as done has its vector, unless Astra refused it in an answer 200 | 2 runners with a turn each, loss, deaths, lapsed leases; 1 job runner, 2 tool calls, ranges of 2, 3 messages, 2 attempts, 1 fact with 2 values, 1 fault; 2 workers, 1 chunk under 2 profiles, 2 failures |
| `calls_hangup` | *violated*: a room that closes ends its call | 1 runner, 1 turn, nothing lost |
| `chat_retry` | *violated*: a client key that is sent again is answered once | 3 requests, 1 frame |

Two concurrent transactions are enough for the races of a row, because every lock and unique key here
is between two of them; the third order, job, message or chat request makes a repetition meet a later
operation. Two refresh tokens are a token and its successor, or two families; the third in `accounts_refresh`
is the second successor. One script is enough for the document to change while it is written. Two attempts let
a job be retried and be given up; ranges of two messages over three give one full range and one that a late
turn makes longer. One client key is used by all three requests or by some of them. Streams of two frames let
`ChatOutput` and `TextOutput` both speak, in either order, but for the `TextOutput` that `AsDeployed` leaves
out; with one request TLC also checks streams of three. A run that has its deadlock check off says why in its
`.cfg`: all ids are used up.

Symmetry is used where a run has no liveness property (`user_records`, `calls_and_knowledge`). The components
state a `TypeOK`; those of Wallet, CallLifecycle, JobQueue and Payments are proved, and the others are there to
be added to a configuration when a module is changed.

The violation runs are disagreements between the code and its own comments or documents; each is a finding in
`PROJECT.json` with both places quoted. Two more findings there, both of the embedding adapter, are steps of
EmbeddingProjections that need no run to be seen.

### Fairness

`Payments`: a request that has started goes on (weak, one condition per request: nobody holds the order's lock
for ever, and PostgreSQL queues those who wait), and the vendor repeats an event of a payment again and again
until it is answered 200 (the one strong condition: a repetition can be sent only while a request is free to take
it; Xendit documents the repetition and the 4xx/5xx of the router rely on it); faults are bounded.
`JobQueue`: the worker's loop goes on and a due job is claimed (`run_job_loop`), all weakly, and not that a dead
worker returns. `OutboxRelay`: the loop of each live worker goes on, weakly; a handler whose event is not
poisoned fails at most `MaxFaults` times. `CallLifecycle`: the API serves what it is sent, and a runner connects and its
`session.start` returns; `MCCallHangup.cfg` also loses nothing and kills no process, so that only the
code can fail to end the call. `ChatTurns`: a request that has begun goes on (weak, one condition per
request): the database grants a lock that is free, and a provider's stream ends, by a frame, an error or
its read timeout; nothing makes a request begin, and `RequestsEnd` says that from some moment on each is idle or
done. Where an `MC` module puts two parts beside each other, each is as fair as it is alone. The other modules
state safety only.

## What is proved

Every safety property that a run checks and finds to hold is also a theorem, for every value of the constants; so are the
refinements of `TokenAccounts` (twice), `DurableJobs` (by the jobs of one step) and `CallContract`. The runs show the liveness
properties, and that the theorems are not empty: a plausible fault in the code breaks each property.

| Module | Theorems | From |
|---|---|---|
| `WalletProofs` | `TypeCorrect`, `LedgerCorrect`, `ReservationsClose`, `ReservationsAdvance`, `HeldIsReserved`, `TokensStay`, `WalletImplementsAccounts` | `WalletConstants`, `OneReservationPerInvocation`; the sums also from `RowsFinite` |
| | `PlansChain` | nothing |
| `PaymentsProofs` | `PaymentTypeCorrect`, `PaidExactlyWhenCredited`, `CreditedOnlyPaid`, `AcknowledgedPaymentsCredited`, `PaidOrdersStay`, `WebhooksImplementAccounts` | `PaymentConstants`; the sum in the second also from `OrdersFinite` |
| `JobQueueProofs` | `JobTypeCorrect`, `OneWorkerCorrect`, `QueueImplementsContract` | `JobConstants` |
| `OutboxRelayProofs` | `EventsHandledOnce`, `EntriesSettle` | `OutboxConstants` |
| `AccountsProofs` | `TokensMailedOnce`, `RefreshTokensChain`, `ResetsEndSessions`, `FamiliesStayEnded` | `AuthConstants` |
| `CallsAndKnowledgeProofs` | `CallTypeCorrect`, `OneWriterCorrect`, `EndClosesCorrect`, `EndCountsCorrect`, `CallImplementsContract` | `CallConstants` |
| | `RangesTileSession`, `StretchesAnalysedOnce`, `ResultsStored`, `ConfirmedFactsStand`, `ProjectionsStoredOrRefused` | `KnowledgeConstants` |
| `ChatTurnsProofs` | `TurnsStayWhole`, `LateTurnsHadBegun`, `StreamsUnderstood` | nothing |
| `LearningProofs` | `AttemptsScoredAsSubmitted`, `ToolsExecutedOnce`, `OnlyCleanUploadsUsed`, `ScriptsOfCurrentSource`, `EndedPlaybacksStay` | nothing |

The assumptions on constants are types, that ids are not `"none"`, and that what has a row is finite in
number; TLC evaluates them on every run. One is about the world. `OneReservationPerInvocation`: an AI
invocation names one reservation (`ai_invocations.reservation_id`), and without it the code posts a settlement
into the journal of another one. In `KnowledgeConstants`, tool calls and workers have different names.

Some theorems say less than their subject's documents, because the code does. `AcknowledgedPaymentsCredited` is
of payments that no expiry or failure of their invoice precedes (`OnTime`); `payments_late` shows the others.
`QueueImplementsContract` is of the jobs of one step; `jobs_podcast` shows a podcast's. `RefreshTokensChain`
places a successor behind a token that is used, in its family and epoch, and leaves open how many successors it
has; `accounts_refresh` shows two. `ResetsEndSessions` and `FamiliesStayEnded` hold through every interleaving,
while no increment of the epoch has been lost (`NothingLost`); two resets that read the same epoch lose one, and
from then on nothing is claimed. A family is *open* in the second as long as a refresh of it is under way, for
that refresh may outrun a logout. `LateTurnsHadBegun`, `RangesTileSession` and `StretchesAnalysedOnce`
likewise permit what the next section tells of them.

None of the properties is inductive. Each is strengthened by what the code relies on between its steps:

* `WalletInv`: what a session knows between its reads and its commit. The entry it has prepared is still
  covered, and no journal of its key exists, because the rows it locked have not changed since they were read, and
  no two sessions hold the same (`Exclusive`); the keys of the journals tell what became of each reservation
  (`JournalKeys`). `HeldIsReserved` and `TokensStay` are about sums over all rows: a commit changes one row of
  the sum, or moves an order from those that were not credited to those that were.
* `PayInv`: a request decides under the lock of the order and commits under it, so what it read of the order
  still holds (`Handling`, `Exclusive`). An order has an invoice of its own and only that one, whose address it
  gave out, is ever paid (`Ordered`, `Invoiced`); what the vendor sends is so (`Truthful`). `Balances` adds the wallets.
* `JobInv`: the copy of a worker is of the current attempt of its job (`CopyCurrent`), since a job is claimed
  only while it is pending and nothing but claims moves the token. A worker that reports success has
  committed the work (`EndedDone`), which the refinement needs when the job is closed.
* `RelayInv`: what a handler saw in its look-up is still there when it commits (`Handling`); what it did not
  see, the UNIQUE key tells. An entry is acked only when its event is marked.
* `MailInv`: of the mails of a token all but the last were sent by workers that were lost (`MailsSent`), since
  one row of a token is inserted at a time.
* `SessionInv`: a row's family is named after the row that opened it, and its parent is used, of the same
  family and epoch (`Linked`); a refresh commits with the epoch of the token it was shown (`Refreshing`).
  `Epochs`: no epoch, of the account, of a row or in the hands of a request, is ahead of the count of ends at the
  time it was written; while the account's equals the count, a row that carries it was so issued since the last end.
* `CallInv`: a call exists once its creator has committed, and no request before that (`Created`); a call that
  is not active yet has no turns (`Silent`), so the token that admissions move is never that of a turn; a
  completed conversation has been announced (`Announced`); and what an end request has read as *completed* is
  (`Overtaken`), which is why a stale read is harmless: it can only make an event too many.
* `LearntInv`: a job is run by one worker (`AtWork`), whose extraction is the only one of its range because its
  insert waits for the one on its way (`Analyses`); what a fact's writer is about to supersede is what it read, and
  a confirmed fact is superseded by nothing weaker (`FactsInv`). `RangesInv`: the jobs are the ranges of some
  deliveries, at whatever length of the session each. The ranges of one length tile it; those of two lengths begin at the same
  messages. `EmbedInv`: a worker marks a branch only with a vector that the store has accepted, or has refused unnoticed.
* `ChatInv`: many turns may hold the same sequence, but one has rows that are not committed (`OneWriter`), and these
  continue the history without a gap (`Continues`), whatever else its steps wait for.
  `StreamsUnderstood` is about the fold over the frames: `Kept` says what the state after k frames
  determines, for any k.
* `ToeflInv`: a request that writes the attempt holds its lock, and what is to be scored is what was submitted.
  `ToolsInv`: what was applied under a key has an execution of that key. `UploadsInv`: a scan tells
  what is in the object. `PodcastInv`: the document a script is written from stays current while the vendor is awaited,
  because the podcast's lock is held (`CurrentSource`), and a playback is ended by whoever holds it (`HeldPlaybacks`).
* `PlanInv`: a request that changes the plan holds the lock of the selection that it saw, or saw none, and then its
  insert fails if another came first (`Choosing`).

Each action is one step of a proof, and what it leaves alone is a lemma where several need it. Where a theorem is
about one of the parts that an `MC` module composes, its specification is the composed one: a step of
another part stutters.

The provers have no induction over data. Where it cannot be avoided, the proof has it by hand: a set of natural
numbers has a least element (`LeastNatural`, from the well-foundedness of `<`), so a smallest counterexample leads to
a contradiction. So are proved that the recursions under `SumFunctionOnSet` and `FoldLeft` have solutions, that a
sum does not depend on the order of its terms (`SumWithout`), and what a fold keeps (`DeployedUnderstood`).
Those lemmas stand where they are used, in `WalletProofs`, `PaymentsProofs` and `ChatTurnsProofs`.

Only model-checked: `PaymentIsCredited`, `JobsAreClosed`, `EventsAreHandled` and `RequestsEnd`, because liveness under
fairness and ENABLED are out of the provers' reach. The `TypeOK` of Wallet, CallLifecycle, JobQueue and Payments is
proved; that of the other modules is not stated as a theorem, though their invariants hold the types they need.
`ClosedIffExhausted`, the formula of `ReservationsClose`, is proved and in no run.

## Assumptions, and what the code does besides

* `Wallet`: an invocation charges one reservation (`MayCharge <- OneReservation`). The settle key
  (`wallet.py:168`) names the invocation and the charge but not the reservation, so a second
  reservation settled to the same charge would find the first one's journal; `src/.blueprint/billing-plans.md:30`
  plans such rolling reservations.
* `Payments`: a checkout that times out is rolled back and retried without the look-up that
  `src/.blueprint/billing-plans.md:39` asks for, so an order may get several invoices (the runs have
  three). The failed inbox row of a refused event is rolled back with the request (`payments.py:184`).
* `AuthSessions`: when a refresh token is reused, its family is revoked and then the error that is raised
  (`auth_service.py:319`) rolls the revocation back; the comment at line 311 and
  `src/.blueprint/auth-provider-policy.md:7` ask for it.
* `Wallet`: two first top-ups of different users insert the platform's clearing account twice, because
  `UNIQUE (wallet_id, account_type, asset)` (`modules/billing/models.py:105`) does not compare the NULL
  wallet id, and from then on `get_or_create_account` raises on every top-up;
  `src/.blueprint/postgresql-schema.md:49` asks for a "unique logical account". TLC finds a state of `Wallet` with
  `accounts[a] = 2`.
* `OutboxRelay`: the relay reads the oldest 100 unpublished events and a dead-lettered event stays
  unpublished, so 100 poisoned ones keep every younger event from the stream. With `Limit = 1` and the
  poisoned event the older one, TLC refutes `EventsAreHandled`; the run has `Limit = 2`, and so shows only what
  holds while fewer events are poisoned than the relay reads at once. No document bounds the dead letters.
* `OutboxRelay`: an event of an unknown type is marked published (`worker/main.py:184`), while line 4 of
  that file says it is dead-lettered.
* `AuthSessions`: `auth_epoch += 1` writes a value that was read without a lock, so of two overlapping resets the
  second writes the epoch of the first, and a session opened or refreshed between them stays good. The run has
  two resets that may overlap, and `GoodSinceReset` and `EndedFamiliesStayEnded` are about the time before that
  (`NothingLost`); without this condition TLC refutes `GoodSinceReset` with three requests. A refresh that began before a
  logout may commit after it, and its successor is good: no document says which of the two goes first, and
  `Open` counts such a refresh as open. `logout-all`, linking and unlinking Google call `session.begin()` on a session that the
  `CurrentUser` dependency has already begun, which raises, so they change nothing.

* `CallLifecycle`: when the dispatch fails, `create_call` ends the call it still has in memory as
  *created* (SQLAlchemy does not refresh a loaded object on `FOR UPDATE`), so it overwrites the reason of
  a call that the user has ended, and leaves a lease on a call that a runner was admitted to meanwhile.
  A conversation completed through `:complete` between the read and the lock of an internal `:end` is
  announced a second time. The `:end` of a runner is not fenced, so a second job, refused at admission,
  ends the call of the first. Nothing renews a lease, and an active call cannot be admitted again, so a
  call that outlives `realtime_lease_ttl_seconds` records no more turns. When `session.start` returns, the
  API client is closed and the timer of the longest duration cancelled (`call_session.py:85`, `136`): turns
  heard later are not recorded. The tasks that record turns run beside each other and may be served in
  another order than they were heard. The model has all of these steps; no document says otherwise.
  Not in it: a turn whose text is only blanks, which is refused like a lost one, and the deletion of the
  conversation through the practice router.
* `ChatTurns`: `delete_session` fails on every room that has messages: it deletes rows
  (`modules/conversations/services.py:324`) that a trigger keeps
  (`src/migrations/versions/0003_phase3_text_slice.py:520`). A unique key that is violated in
  `send_stream` escapes after `started`, so the client gets no terminal frame; and `completed` is told before the router's commit, which may fail. An answer whose
  turn began before the completion is stored after it, on purpose, but the count that the completion announced
  does not have it, and extraction begins without it. The history that is sent to the flow is
  the oldest fifty messages, not the latest. A stream that trickles holds its connection and the row
  share-locks of its insert for as long as it lasts: the timeout is per read. A suggestion and a greeting
  are taken without comparing their request id.
* `WorkflowStream`: an `end_vertex` of `TextOutput` that is no echo of the envelope decides before
  `ChatOutput`'s `output` frame (`langflow.py:281`), against the priority that line 455 gives `ChatOutput`.
  `AsDeployed` leaves such flows out: what `Meant` says is about flows whose `TextOutput` echoes in its `end_vertex`, as
  `langflow.py:91` says those of Teman Bule do.
* `AnalysisChain`: `facts.py:11` says a key has one active fact. Two writers that find none, or the same,
  both insert one; from then on every look-up raises `MultipleResultsFound`. A fact job that meets an
  immutable fact (`FACT_CONFIRMED_IMMUTABLE`) fails at once and for good. A flow whose answer is lost is run
  again, and the vendor paid again: what is kept apart are the extraction and the assessment. A message that commits after
  the last delivery of `session_completed` is in no range, and a delivery after it makes a last range that
  overlaps the one before. `learning.record_assessment` can never succeed (its validator wants an object
  where its handler wants a list) and is not in the model.
* `EmbeddingProjections`: a document never becomes `ready` (nothing sets it), and a vector is inserted with
  `insertOne`. The two findings: an answer 200 whose body tells an error is taken for success
  (`Refuses`; `ProjectedUnlessRefused` names it as the one exception), and no delete of a scope matches the vectors
  written here, because they name no owner (`Matches`), though the comment in `internal_knowledge.py:17` says it
  does; that deletes leave these vectors alone is therefore no merit of theirs.
* `Podcasts`: `mark_source_failed` is rolled back by the error that is raised after it
  (`worker/job_runner.py:483`), so a failed source stays as it was. A late result of an older document makes the
  podcast ready. A segment may be added to a script that is ready. `delete_podcast` fails once there is a
  script. Two ends of a playback at once announce its conversation twice. After an error of the scanner
  an object stays uploaded for good. An interrupted playback never plays again, so the limit of branches
  is not reached. The scanner that does nothing, for development, is left out.
* `LearnerRecords`: tools validate a grant without consuming it, so `single_use` is not enforced for them;
  no route revokes a grant. Of two reports of progress, the lower may be written last, against the comment at
  `learning/services.py:145` (TLC finds 0, then 100, then 50). Two changes of an entry's state may add up to a
  transition that neither is allowed. `expected_version` of `vocabulary.update_status` is required and not
  compared; `vocabulary.get` accepts arguments its handler cannot use.
* `ToeflAttempts`: `get_score` raises once an attempt has scores under two rubrics; no route evaluates.
* `PlansAndKeys`: choosing the plan that one has changes nothing, so a user stays on a revision that is
  retired. The look for open work is not locked against a reservation that is authorized
  beside it. A key that is revoked while it is selected for a model stays selected, and a revocation may
  delete a selection that has just moved to another key. `expected_revision` compares a number that may
  have come back.
* `AuthMail`: a delivery that loses the insertion to another is not skipped, as its comment says, but
  dead-lettered, because the transaction is aborted by then. A mail is sent again when the worker
  is lost between sending and commit.
* Deletion: two requests at once insert two active rows; and the execution, if it had a caller, would meet
  the append-only triggers.

## Not modelled

* *Account deletion*, *idempotency*: `execute_deletion` and the idempotency service have no caller outside
  the tests; the request for deletion is one insertion. *Bootstrap* writes reference data once, before the
  service is started.
* *Platform and schemas*: settings, logging, cryptography, request and response types have no state that
  a step could break. Migrations are in the model only as the constraints and triggers the code relies on.
* *Vendor adapters*: what they make of answers is in the modules that use them; the requests are not.
* `src/custom_langflow/components` runs inside Langflow; `src/scripts` builds and deploys flows. Neither has
  state that the backend sees.
* Of modelled parts: queries and lists; the endpoints that raise before their first write (`logout-all`, link
  and unlink Google); services without a caller (`confirm_fact`, `reject_fact`); tools that only read, that can
  never succeed or that no purpose allows (`learning.record_progress`); the mastery score and the log of
  reviews, both written without a lock and so subject to lost updates.

## Plan

1. Done: TokenAccounts, Wallet, WalletProofs; Payments; DurableJobs, JobQueue; OutboxRelay; AuthSessions.
2. Done: CallContract, CallLifecycle, CallsAndKnowledgeProofs.
3. Done: WorkflowStream, ChatTurns; AnalysisChain, EmbeddingProjections; Podcasts, LearnerRecords,
   ToeflAttempts; PlansAndKeys, AuthMail.
4. Done: the theorems of every safety property and refinement that a run checks.
5. Next: the `TypeOK` of the other modules as theorems, from the types that their invariants hold; and the
   statements of *Assumptions* that a proof could sharpen, such as what holds of the sessions once an increment
  of the epoch has been lost.
