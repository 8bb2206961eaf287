--------------------------- MODULE AnalysisChain ---------------------------
(***************************************************************************)
(* What is learnt from a completed practice session.                       *)
(*                                                                         *)
(*   session_completed -> one ingestion job per range of messages (worker/ *)
(*   handlers.py) -> a background run of a flow, accepted and not awaited  *)
(*   -> the run's calls of the tool conversation.persist_extraction (ai_   *)
(*   runtime/ingestion_tools.py) -> extraction_committed -> one job for    *)
(*   the facts and one for the assessment of the extraction (worker/       *)
(*   job_runner.py), and calls of user_facts.upsert beside them.           *)
(*                                                                         *)
(* Workers and tool calls have READ COMMITTED transactions: what each has  *)
(* read and written so far is in work.  Events are delivered at least once *)
(* and jobs retried while the vendor fails; claims and leases are the      *)
(* subject of JobQueue, and deliveries that race of OutboxRelay.           *)
(***************************************************************************)
EXTENDS Integers, FiniteSets, RowUpdates

CONSTANTS
  Workers,     \* job runners
  Calls,       \* tool calls of the flows' runs, each made once; no worker is one
  RangeSize,   \* INGESTION_RANGE_SIZE (50)
  MaxAttempts, \* attempts of a job (5)
  FactKeys, Values,
  Last,        \* bound on the messages of the session
  MaxFaults    \* bound on failures of the vendor, the database and processes

Actors == Workers \cup Calls
None   == "none"

VARIABLES
  ended,       \* the session's last message when it was completed
  last,        \* its last message now: a turn that had begun may still commit
  jobs,        \* background_jobs by dedupe_key
  accepted,    \* ranges of which the vendor has accepted a background run
  extractions, \* conversation_extractions
  facts,       \* user_facts
  assessments, \* learning_assessments
  work,        \* what each worker and tool call is at
  faults

tables == <<ended, last, accepted, extractions, facts, assessments>>
vars   == <<tables, jobs, work, faults>>

Idle == [step |-> "idle", job |-> None, range |-> <<>>,
         items |-> {}, item |-> {}, saw |-> {}, wrote |-> {}, old |-> {}]

Init ==
  /\ ended \in 1..Last /\ last = ended
  /\ jobs = <<>>
  /\ accepted = {} /\ extractions = {} /\ facts = {} /\ assessments = {}
  /\ work = [a \in Actors |-> Idle]
  /\ faults = 0

Set(a, fields) == work' = [work EXCEPT ![a] = With(work[a], fields)]
At(a, step)    == work[a].step = step
\* A job's work is over: it goes to _finalize; a tool call is over
Outcome(a, outcome) ==
  work' = [work EXCEPT ![a] = [Idle EXCEPT !.step = IF a \in Workers THEN outcome ELSE "done",
                                           !.job = work[a].job]]

\* The jobs of these keys are created, unless their dedupe_key is there
NewJobs(keys) ==
  jobs' = With([k \in keys |-> [state |-> "pending", attempts |-> 0]], jobs)

Fault == faults < MaxFaults /\ faults' = faults + 1

-----------------------------------------------------------------------------
(* Events *)

Message ==
  /\ last < Last
  /\ last' = last + 1
  /\ UNCHANGED <<ended, accepted, extractions, facts, assessments, jobs, work, faults>>

\* Mutant: the next range begins at the end of the one before
RangesOverlapping(n) == {<<s, s + RangeSize>> : s \in {i \in 1..n : (i - 1) % RangeSize = 0}}
\* Blocks of RangeSize from 1, the last one cut at n
Ranges(n) ==
  {<<s, IF s + RangeSize - 1 < n THEN s + RangeSize - 1 ELSE n>> :
     s \in {i \in 1..n : (i - 1) % RangeSize = 0}}

\* Every delivery looks at the messages there are by then
SessionCompleted ==
  /\ NewJobs({[purpose |-> "ingest", of |-> r] : r \in Ranges(last)})
  /\ UNCHANGED <<tables, work, faults>>

ExtractionCommitted(e) ==
  /\ NewJobs({[purpose |-> p, of |-> e] : p \in {"facts", "assess"}})
  /\ UNCHANGED <<tables, work, faults>>

-----------------------------------------------------------------------------
(* Jobs *)

\* A due job is claimed, and its processor begins
Begin(w, k, purpose) ==
  /\ At(w, "idle")
  /\ k.purpose = purpose /\ jobs[k].state = "pending"
  /\ jobs' = [jobs EXCEPT ![k] = [state |-> "running", attempts |-> @.attempts + 1]]

Ends(w, k, step) == Set(w, [step |-> step, job |-> k])

\* DependencyUnavailableError: the vendor refuses, or its answer is no good
VendorFails(w, k) ==
  \E purpose \in {"ingest", "facts", "assess"} :
    /\ Begin(w, k, purpose)
    /\ Ends(w, k, "transient")
    /\ Fault
    /\ UNCHANGED tables

\* A background run, as in "object": "job", "status": "queued"
Extract(range) ==
  /\ accepted' = accepted \cup {range}
  /\ UNCHANGED <<ended, last, extractions, facts, assessments>>

\* run_ingestion: accepted; or accepted, and the answer is lost
Dispatch(w, k) ==
  /\ Begin(w, k, "ingest")
  /\ Extract(k.of)
  /\ \/ Ends(w, k, "succeeded") /\ UNCHANGED faults
     \/ Ends(w, k, "transient") /\ Fault

\* What _persist_facts makes of an answer: an item for each key it names
Proposed(values) ==
  {[key |-> x, value |-> values[x], status |-> "proposed"] : x \in DOMAIN values}

\* run_purpose_flow answers with facts, or none
Analyse(w, k) ==
  /\ Begin(w, k, "facts")
  /\ \E K \in SUBSET FactKeys : \E v \in [K -> Values] :
       Set(w, [step |-> IF K = {} THEN "succeeded" ELSE "upserting", job |-> k,
               items |-> Proposed(v)])
  /\ UNCHANGED <<tables, faults>>

\* record_assessment: one that is there is found by its evidence, rubric and flow
NewAssessment(e) ==
  IF \E s \in assessments : s.range = e.range THEN {} ELSE {[of |-> e.id, range |-> e.range]}

Assess(w, k) ==
  /\ Begin(w, k, "assess")
  /\ \E e \in extractions :
       /\ e.id = k.of
       /\ Set(w, [step |-> "written", job |-> k, wrote |-> NewAssessment(e)])
  /\ UNCHANGED <<tables, faults>>

\* Mutant: a job that gives up is closed as done
StateAfterDone(w) ==
  IF work[w].step = "transient" /\ jobs[work[w].job].attempts < MaxAttempts
  THEN "pending" ELSE "succeeded"
StateAfter(w) ==
  CASE work[w].step = "succeeded" -> "succeeded"
    [] work[w].step = "permanent" -> "failed"
    [] work[w].step = "transient" ->
         IF jobs[work[w].job].attempts >= MaxAttempts THEN "failed" ELSE "pending"

Finalize(w) ==
  /\ work[w].step \in {"succeeded", "permanent", "transient"}
  /\ jobs' = [jobs EXCEPT ![work[w].job].state = StateAfter(w)]
  /\ work' = [work EXCEPT ![w] = Idle]
  /\ UNCHANGED <<tables, faults>>

\* The process dies: its job stays running
Crash(w) ==
  /\ ~At(w, "idle")
  /\ work' = [work EXCEPT ![w] = Idle]
  /\ Fault
  /\ UNCHANGED <<tables, jobs>>

-----------------------------------------------------------------------------
(* Tool calls of a run *)

\* The run has read its range (conversation.get_messages) and names some of
\* its messages: their first and last make the range of the extraction
CallPersist(c) ==
  /\ At(c, "idle")
  /\ \E r \in accepted : \E i, j \in r[1]..r[2] :
       i <= j /\ Set(c, [step |-> "extracted", range |-> <<i, j>>])
  /\ UNCHANGED <<tables, jobs, faults>>

\* The facts flow proposes a fact, or says that the user has confirmed it
CallUpsert(c) ==
  /\ At(c, "idle")
  /\ \E k \in DOMAIN jobs : k.purpose = "facts" /\ jobs[k].attempts > 0
  /\ \E k \in FactKeys, v \in Values, s \in {"proposed", "confirmed"} :
       Set(c, [step |-> "upserting", items |-> {[key |-> k, value |-> v, status |-> s]}])
  /\ UNCHANGED <<tables, jobs, faults>>

\* What is there stays: the same data is found, other data is a conflict
FindExtraction(c) ==
  /\ At(c, "extracted")
  /\ IF \E e \in extractions : e.range = work[c].range
     THEN Outcome(c, "done")
     ELSE Set(c, [step |-> "inserting"])
  /\ UNCHANGED <<tables, jobs, faults>>

\* Mutant: no unique constraint on the range
RangeIsFree(c) == FALSE
RangeTaken(c)  == \E e \in extractions : e.range = work[c].range

\* An insert waits for one of the same range, and fails if that one commits;
\* the event is in the same transaction
InsertExtraction(c) ==
  /\ At(c, "inserting")
  /\ \A d \in Calls \ {c} : ~(At(d, "written") /\ work[d].range = work[c].range)
  /\ IF RangeTaken(c) THEN Outcome(c, "done")
     ELSE Set(c, [step |-> "written",
                  wrote |-> {[id |-> c, range |-> work[c].range]}])
  /\ UNCHANGED <<tables, jobs, faults>>

-----------------------------------------------------------------------------
(* upsert_fact, by a job for each fact or by a tool call for one *)

Active(k) == {f \in facts : f.key = k /\ f.status \in {"proposed", "confirmed"}}

\* Mutant: an inference replaces a confirmed fact
KeepsNothing(f, item) == FALSE
\* Consent: what the user has confirmed is not replaced by an inference
Keeps(f, item) == f.status = "confirmed" /\ item.status = "proposed"

Onward(items) == IF items = {} THEN "written" ELSE "upserting"

\* scalar_one_or_none fails when two rows are active
FindFact(a) ==
  /\ At(a, "upserting")
  /\ \E i \in work[a].items :
       LET rest == [items |-> work[a].items \ {i}]
       IN  IF Cardinality(Active(i.key)) > 1 THEN Outcome(a, "permanent")
           ELSE IF Active(i.key) = {}
           THEN Set(a, With(rest, [step |-> "upsert", item |-> {i}]))
           ELSE \E f \in Active(i.key) :
             IF f.value = i.value /\ (f.status = i.status \/ Keeps(f, i))
             THEN Set(a, With(rest, [step |-> Onward(work[a].items \ {i})]))
             ELSE IF Keeps(f, i) THEN Outcome(a, "permanent")
             ELSE Set(a, With(rest, [step |-> "upsert", item |-> {i}, saw |-> {f}]))
  /\ UNCHANGED <<tables, jobs, faults>>

\* The row that is superseded is locked from here on
WriteFact(a) ==
  /\ At(a, "upsert")
  /\ \A f \in work[a].saw, b \in Actors \ {a} : f.id \notin work[b].old
  /\ \E i \in work[a].item :
       LET by == IF a \in Workers THEN work[a].job ELSE a
       IN  Set(a, [step |-> Onward(work[a].items), item |-> {}, saw |-> {},
                   wrote |-> work[a].wrote \cup {With(i, [id |-> <<by, i.key>>])},
                   old |-> work[a].old \cup {f.id : f \in work[a].saw}])
  /\ UNCHANGED <<tables, jobs, faults>>

-----------------------------------------------------------------------------

Purpose(a) == IF a \in Workers THEN work[a].job.purpose
              ELSE IF work[a].range # <<>> THEN "extract" ELSE "facts"

Commit(a) ==
  /\ At(a, "written")
  /\ facts' = IF Purpose(a) # "facts" THEN facts
              ELSE {IF f.id \in work[a].old THEN [f EXCEPT !.status = "superseded"] ELSE f :
                      f \in facts} \cup work[a].wrote
  /\ assessments' = IF Purpose(a) = "assess" THEN assessments \cup work[a].wrote ELSE assessments
  /\ extractions' = IF Purpose(a) = "extract" THEN extractions \cup work[a].wrote ELSE extractions
  /\ Outcome(a, "succeeded")
  /\ UNCHANGED <<ended, last, accepted, jobs, faults>>

\* The database refuses or aborts the transaction: a deadlock, a lost connection
Abort(a) ==
  /\ work[a].step \in {"extracted", "inserting", "upserting", "upsert", "written"}
  /\ Outcome(a, "permanent")
  /\ Fault
  /\ UNCHANGED <<tables, jobs>>

WorkerStep(w) ==
  \/ \E k \in DOMAIN jobs : VendorFails(w, k) \/ Dispatch(w, k) \/ Analyse(w, k) \/ Assess(w, k)
  \/ Finalize(w) \/ Crash(w)
CallStep(c)   == CallPersist(c) \/ CallUpsert(c) \/ FindExtraction(c) \/ InsertExtraction(c)
ActorStep(a)  == FindFact(a) \/ WriteFact(a) \/ Commit(a) \/ Abort(a)

Next ==
  \/ Message \/ SessionCompleted
  \/ \E e \in extractions : ExtractionCommitted(e.id)
  \/ \E w \in Workers : WorkerStep(w)
  \/ \E c \in Calls : CallStep(c)
  \/ \E a \in Actors : ActorStep(a)

Spec == Init /\ [][Next]_vars

-----------------------------------------------------------------------------
(* Properties *)

\* The rows: conversation_extractions, user_facts, learning_assessments
Blocks         == {r \in (1..Last) \X (1..Last) : r[1] <= r[2]}
ExtractionRows == [id : Calls, range : Blocks]
FactRow(f)     == f.key \in FactKeys /\ f.value \in Values
                  /\ f.status \in {"proposed", "confirmed", "superseded"}
AssessmentRows == [of : Calls, range : Blocks]

TypeOK ==
  /\ ended \in 1..Last /\ last \in ended..Last
  /\ \A k \in DOMAIN jobs :
       /\ k.purpose \in {"ingest", "facts", "assess"}
       /\ jobs[k].state \in {"pending", "running", "succeeded", "failed"}
       /\ jobs[k].attempts \in 0..MaxAttempts
  /\ accepted \subseteq Blocks
  /\ extractions \subseteq ExtractionRows
  /\ \A f \in facts : FactRow(f)
  /\ assessments \subseteq AssessmentRows

IngestRanges == {k.of : k \in {j \in DOMAIN jobs : j.purpose = "ingest"}}

\* Whatever the deliveries of session_completed see, the ranges leave no
\* message out, and two of them have a message in common only if they begin at
\* the same one, the later made longer by a turn that committed in between
\* (handle_session_completed).
RangesTile ==
  IngestRanges # {} =>
    /\ 1..ended \subseteq UNION {r[1]..r[2] : r \in IngestRanges}
    /\ \A r, s \in IngestRanges :
         r[1] < s[1] => r[2] < s[1]

\* No stretch of a session is analysed twice: its extractions and its
\* assessments are one per range, however often the vendor runs a flow whose
\* answer was lost (the unique constraints behind the unlocked look-ups).
AnalysedOnce ==
  /\ \A e, f \in extractions : e.range = f.range => e = f
  /\ \A s, t \in assessments : s.range = t.range => s = t
  /\ \A k \in DOMAIN jobs :
       k.purpose # "ingest" => \E e \in extractions : e.id = k.of

\* A job that succeeded has left its result: its flow is with the vendor, its
\* assessment is stored (the processor commits before _finalize).
SucceededStored ==
  \A k \in DOMAIN jobs : jobs[k].state = "succeeded" =>
    CASE k.purpose = "ingest" -> k.of \in accepted
      [] k.purpose = "assess" ->
           \E e \in extractions, s \in assessments : e.id = k.of /\ s.range = e.range
      [] k.purpose = "facts"  -> TRUE

\* An inference never replaces what the user has confirmed, though the active
\* fact is read without a lock: only a confirmed fact does (facts.py, consent).
ConfirmedStands ==
  [][\A f \in facts, g \in facts' :
       (f.id = g.id /\ f.status = "confirmed" /\ g.status # "confirmed") =>
         \E h \in facts' \ facts : h.key = f.key /\ h.status = "confirmed"]_vars
=============================================================================
