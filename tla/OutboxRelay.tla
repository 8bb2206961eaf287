----------------------------- MODULE OutboxRelay -----------------------------
(***************************************************************************)
(* The path of a domain event: outbox_events (modules/reliability) to a    *)
(* Redis stream by the relay, and from the stream to an event handler by   *)
(* the dispatcher (worker/main.py), both run by each worker process.       *)
(*                                                                         *)
(* The relay forwards the oldest unpublished events again and again; only  *)
(* the dispatcher marks an event published, in the transaction of its      *)
(* handler.  A handler inserts the jobs of the event under a UNIQUE        *)
(* dedupe_key it has looked up first, so two deliveries of one event can   *)
(* race.  A failed delivery is dead-lettered, not marked.                  *)
(*                                                                         *)
(* Redis is modelled as the code uses it: XADD appends, XREADGROUP with    *)
(* ">" hands an entry out once, and an entry a dead worker held is not     *)
(* handed out again.                                                       *)
(***************************************************************************)
EXTENDS Integers, Sequences, SequencesExt

CONSTANTS
  Events,     \* outbox events, numbered by occurred_at
  Handled,    \* those of a type in EVENT_HANDLERS whose handler succeeds
  Poison,     \* those whose handler always raises (its subject is gone)
  Workers,
  Limit,      \* events the relay reads at once (100)
  Batch,      \* entries the dispatcher reads at once (10)
  MaxStream,  \* bound on the entries waiting in the stream
  MaxFaults   \* bound on crashes and transient errors

ASSUME OutboxConstants ==
  /\ Events \subseteq Nat
  /\ Handled \subseteq Events /\ Poison \subseteq Events \ Handled
  /\ {Limit, Batch, MaxStream} \subseteq Nat \ {0}
  /\ MaxFaults \in Nat

VARIABLES
  recorded,   \* events committed with their domain write
  published,  \* events with published_at set
  jobs,       \* number of jobs inserted for an event
  stream,     \* entries not handed out yet
  deadLetters,\* events in the dead-letter stream
  relay,      \* each worker's relay: events it has read and not forwarded
  entries,    \* each worker's dispatcher: entries it has read, not acked
  pc,         \* idle, handling or acking the first of them
  sawJob,     \* its handler's look-up found the jobs of the event
  faults

domain   == <<recorded, published, jobs>>
redis    == <<stream, deadLetters>>
workers  == <<relay, entries, pc, sawJob>>
vars     == <<domain, redis, workers, faults>>

Init ==
  /\ recorded = {}
  /\ published = {}
  /\ jobs = [e \in Events |-> 0]
  /\ stream = <<>>
  /\ deadLetters = {}
  /\ relay = [w \in Workers |-> <<>>]
  /\ entries = [w \in Workers |-> <<>>]
  /\ pc = [w \in Workers |-> "idle"]
  /\ sawJob = [w \in Workers |-> FALSE]
  /\ faults = 0

\* record_outbox_event, in the transaction of the domain write
Record(e) ==
  /\ e \notin recorded
  /\ recorded' = recorded \cup {e}
  /\ UNCHANGED <<published, jobs, redis, workers, faults>>

-----------------------------------------------------------------------------
(* run_outbox_relay *)

\* get_unpublished_outbox_events: the oldest Limit events
Oldest(S) == LET s == SetToSortSeq(S, <)
             IN SubSeq(s, 1, IF Len(s) < Limit THEN Len(s) ELSE Limit)

\* published_at IS NULL
Unpublished == recorded \ published

RelayRead(w) ==
  /\ relay[w] = <<>>
  /\ Unpublished # {}
  /\ relay' = [relay EXCEPT ![w] = Oldest(Unpublished)]
  /\ UNCHANGED <<domain, redis, entries, pc, sawJob, faults>>

\* Mutant: the relay marks what it forwards
RelayMarks(w) ==
  /\ relay[w] # <<>>
  /\ Len(stream) < MaxStream
  /\ stream' = Append(stream, Head(relay[w]))
  /\ published' = published \cup {Head(relay[w])}
  /\ relay' = [relay EXCEPT ![w] = Tail(@)]
  /\ UNCHANGED <<recorded, jobs, deadLetters, entries, pc, sawJob, faults>>

RelayPublish(w) ==
  /\ relay[w] # <<>>
  /\ Len(stream) < MaxStream
  /\ stream' = Append(stream, Head(relay[w]))
  /\ relay' = [relay EXCEPT ![w] = Tail(@)]
  /\ UNCHANGED <<domain, deadLetters, entries, pc, sawJob, faults>>

-----------------------------------------------------------------------------
(* The dispatcher: read_batch, then _process_entry for each entry in turn *)

ReadBatch(w) ==
  LET n == IF Len(stream) < Batch THEN Len(stream) ELSE Batch
  IN /\ entries[w] = <<>>
     /\ stream # <<>>
     /\ entries' = [entries EXCEPT ![w] = SubSeq(stream, 1, n)]
     /\ stream' = SubSeq(stream, n + 1, Len(stream))
     /\ UNCHANGED <<domain, deadLetters, relay, pc, sawJob, faults>>

Entry(w) == Head(entries[w])

\* The transaction starts, and the handler looks its jobs up
StartHandler(w) ==
  /\ pc[w] = "idle"
  /\ entries[w] # <<>>
  /\ pc' = [pc EXCEPT ![w] = "handling"]
  /\ sawJob' = [sawJob EXCEPT ![w] = jobs[Entry(w)] > 0]
  /\ UNCHANGED <<domain, redis, relay, entries, faults>>

Inserts(w) == Entry(w) \in Handled /\ ~sawJob[w]

\* The handler raises, or its insert meets the UNIQUE dedupe_key; mutant: the
\* key is not UNIQUE
FailsPoison(w) == Entry(w) \in Poison
Fails(w) == Entry(w) \in Poison \/ (Inserts(w) /\ jobs[Entry(w)] > 0)

\* The jobs and the mark are committed together; an event of an unknown type
\* has no handler, and is marked all the same
CommitHandler(w) ==
  /\ pc[w] = "handling"
  /\ ~Fails(w)
  /\ jobs' = IF Inserts(w) THEN [jobs EXCEPT ![Entry(w)] = @ + 1] ELSE jobs
  /\ published' = published \cup {Entry(w)}
  /\ pc' = [pc EXCEPT ![w] = "acking"]
  /\ UNCHANGED <<recorded, redis, relay, entries, sawJob, faults>>

NextEntry(w) ==
  /\ entries' = [entries EXCEPT ![w] = Tail(@)]
  /\ pc' = [pc EXCEPT ![w] = "idle"]
  /\ sawJob' = [sawJob EXCEPT ![w] = FALSE]

Ack(w) ==
  /\ pc[w] = "acking"
  /\ NextEntry(w)
  /\ UNCHANGED <<domain, redis, relay, faults>>

\* Mutant: a failed entry is only acked
Drop(w) == NextEntry(w) /\ UNCHANGED <<domain, redis, relay>>

DeadLetter(w) ==
  /\ deadLetters' = deadLetters \cup {Entry(w)}
  /\ NextEntry(w)
  /\ UNCHANGED <<domain, stream, relay>>

HandlerFails(w) ==
  /\ pc[w] = "handling"
  /\ Fails(w)
  /\ DeadLetter(w)
  /\ UNCHANGED faults

\* A transient error of the handler's transaction, or of the ack after it
Disturbed(w) ==
  /\ pc[w] # "idle"
  /\ faults < MaxFaults
  /\ faults' = faults + 1
  /\ DeadLetter(w)

\* The process dies and is restarted; what it held is not handed out again
Crash(w) ==
  /\ relay[w] # <<>> \/ entries[w] # <<>>
  /\ faults < MaxFaults
  /\ faults' = faults + 1
  /\ relay' = [relay EXCEPT ![w] = <<>>]
  /\ entries' = [entries EXCEPT ![w] = <<>>]
  /\ pc' = [pc EXCEPT ![w] = "idle"]
  /\ sawJob' = [sawJob EXCEPT ![w] = FALSE]
  /\ UNCHANGED <<domain, redis>>

Next ==
  \/ \E e \in Events : Record(e)
  \/ \E w \in Workers :
       \/ RelayRead(w) \/ RelayPublish(w) \/ ReadBatch(w) \/ StartHandler(w)
       \/ CommitHandler(w) \/ Ack(w) \/ HandlerFails(w)
       \/ Disturbed(w) \/ Crash(w)

Safety == Init /\ [][Next]_vars

\* Both loops of a worker go on (asyncio runs them side by side)
Fairness ==
  \A w \in Workers :
    /\ WF_vars(RelayRead(w)) /\ WF_vars(RelayPublish(w))
    /\ WF_vars(ReadBatch(w) \/ StartHandler(w) \/ CommitHandler(w) \/ Ack(w)
               \/ HandlerFails(w))

Spec == Safety /\ Fairness

-----------------------------------------------------------------------------
(* Correctness *)

TypeOK ==
  /\ recorded \subseteq Events
  /\ published \subseteq recorded
  /\ jobs \in [Events -> Nat]
  /\ stream \in Seq(Events) /\ Len(stream) <= MaxStream
  /\ deadLetters \subseteq recorded
  /\ relay \in [Workers -> Seq(Events)]
  /\ entries \in [Workers -> Seq(Events)]
  /\ pc \in [Workers -> {"idle", "handling", "acking"}]
  /\ sawJob \in [Workers -> BOOLEAN]
  /\ faults \in 0 .. MaxFaults

\* An event has its jobs once, exactly when it is marked published, however
\* often it is delivered and to however many workers at a time
\* (handlers.py: handlers are idempotent, delivery is at least once).
HandledOnce ==
  \A e \in Handled : jobs[e] = IF e \in published THEN 1 ELSE 0

\* An entry that leaves a dispatcher without a crash is settled: its event is
\* marked published, or is among the dead letters
\* (main.py: ack after the durable mark).
SettledOnAck ==
  [][\A w \in Workers :
       entries[w] # <<>> /\ entries'[w] = Tail(entries[w]) /\ faults' = faults
         => Entry(w) \in published \cup deadLetters']_vars

\* An event that is recorded with a working handler gets its jobs in the end
\* (main.py: events are processed at least once).
EventsAreHandled == \A e \in Handled : e \in recorded ~> jobs[e] > 0

=============================================================================
