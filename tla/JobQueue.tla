------------------------------ MODULE JobQueue ------------------------------
(***************************************************************************)
(* The SQL job queue: JobRunner (worker/job_runner.py) over the table      *)
(* background_jobs, run by any number of worker processes.  Each worker    *)
(* runs one job at a time:                                                 *)
(*                                                                         *)
(*   idle --Claim--> claimed --Dispatch--> ended --Finalize--> idle        *)
(*                                                                         *)
(* each arrow one SQL transaction (Dispatch calls a vendor in it), and may *)
(* die between them.  Between Claim and Finalize it has a detached copy of *)
(* the row: what Dispatch writes to that copy, the payload, the checkpoint *)
(* and the state of a podcast job, is not written to the database.         *)
(*                                                                         *)
(* run_after is due or not yet due; a lease (locked_until) is free, live   *)
(* or expired.  A processor is what it leaves behind, its work: for a      *)
(* podcast's document the result of the vendor's flow, applied to the      *)
(* source by a second step.                                                *)
(***************************************************************************)
EXTENDS Integers, FiniteSets

CONSTANTS
  Jobs,         \* jobs by dedupe_key
  Podcasts,     \* those of purpose podcast_document_ingestion
  Workers,
  MaxAttempts,  \* JobRunner's max_attempts
  MaxCrashes    \* bound on the workers that die

ASSUME JobConstants ==
  /\ Podcasts \subseteq Jobs
  /\ MaxAttempts \in Nat \ {0}
  /\ MaxCrashes \in Nat

VARIABLES
  job,      \* background_jobs
  rows,     \* background_job_attempts: <<job, attempt_number>>
  done,     \* jobs whose processor has committed its work
  pc, copy, outcome, \* each worker: its step, its copy of the job, how it ended
  crashes

vars == <<job, rows, done, pc, copy, outcome, crashes>>

States == {"absent", "pending", "running", "succeeded", "failed"}
Absent == [state |-> "absent", attempt_count |-> 0, fencing_token |-> 0,
           lease |-> "free", due |-> FALSE, step |-> "dispatch"]
NoCopy == [job |-> "none", attempt_count |-> 0, fencing_token |-> 0, step |-> "dispatch"]

Init ==
  /\ job = [j \in Jobs |-> Absent]
  /\ rows = {}
  /\ done = {}
  /\ pc = [w \in Workers |-> "idle"]
  /\ copy = [w \in Workers |-> NoCopy]
  /\ outcome = [w \in Workers |-> "none"]
  /\ crashes = 0

\* The event handlers of worker/handlers.py insert a job once per dedupe_key
Enqueue(j) ==
  /\ job[j].state = "absent"
  /\ job' = [job EXCEPT ![j].state = "pending", ![j].due = TRUE]
  /\ UNCHANGED <<rows, done, pc, copy, outcome, crashes>>

\* Time: a backoff ends, a lease runs out
ComesDue(j) ==
  /\ job[j].state = "pending"
  /\ ~job[j].due
  /\ job' = [job EXCEPT ![j].due = TRUE]
  /\ UNCHANGED <<rows, done, pc, copy, outcome, crashes>>

LeaseExpires(j) ==
  /\ job[j].lease = "live"
  /\ job' = [job EXCEPT ![j].lease = "expired"]
  /\ UNCHANGED <<rows, done, pc, copy, outcome, crashes>>

\* Mutant: a job whose lease has run out is claimed whatever its state
ClaimableByLease(r) == r.state \in {"pending", "running"} /\ r.due /\ r.lease # "live"
Claimable(r) == r.state = "pending" /\ r.due /\ r.lease # "live"

\* _claim_one: FOR UPDATE SKIP LOCKED, so one worker gets the row
Claim(w, j) ==
  /\ pc[w] = "idle"
  /\ Claimable(job[j])
  /\ LET r == [job[j] EXCEPT !.state = "running", !.lease = "live",
                             !.fencing_token = @ + 1, !.attempt_count = @ + 1]
     IN /\ job' = [job EXCEPT ![j] = r]
        /\ copy' = [copy EXCEPT ![w] = [job |-> j, attempt_count |-> r.attempt_count,
                                        fencing_token |-> r.fencing_token,
                                        step |-> r.step]]
  /\ pc' = [pc EXCEPT ![w] = "claimed"]
  /\ UNCHANGED <<rows, done, outcome, crashes>>

\* _dispatch and the except clauses of _execute.  A podcast job first triggers
\* the vendor's flow and asks to be polled, on the copy: its work is done when a
\* poll that succeeds applies the result to the source.
Dispatch(w, result) ==
  LET j == copy[w].job
      works == result = "succeeded" /\ (j \in Podcasts => copy[w].step = "poll")
  IN /\ pc[w] = "claimed"
     /\ outcome' = [outcome EXCEPT ![w] = result]
     /\ done' = IF works THEN done \cup {j} ELSE done
     /\ copy' = IF j \in Podcasts /\ result = "succeeded" THEN [copy EXCEPT ![w].step = "poll"]
                ELSE copy
     /\ pc' = [pc EXCEPT ![w] = "ended"]
     /\ UNCHANGED <<job, rows, crashes>>

\* The state after an attempt that was not overtaken; mutants: an exhausted
\* job that counts as done, a job never given back
StateAfterKind(r, result) == IF result # "pending" THEN result
                             ELSE IF r.attempt_count >= MaxAttempts THEN "succeeded"
                             ELSE IF r.state = "running" THEN "pending" ELSE r.state
StateAfterKept(r, result) == IF result # "pending" THEN result
                             ELSE IF r.attempt_count >= MaxAttempts THEN "failed"
                             ELSE r.state
StateAfter(r, result)     == IF result # "pending" THEN result
                             ELSE IF r.attempt_count >= MaxAttempts THEN "failed"
                             ELSE IF r.state = "running" THEN "pending" ELSE r.state

\* The row then: its payload is as it was
Finalized(r, result) ==
  LET s == StateAfter(r, result)
  IN [r EXCEPT !.lease = "free", !.state = s, !.due = @ /\ s # "pending"]

Release(w) ==
  /\ pc' = [pc EXCEPT ![w] = "idle"]
  /\ copy' = [copy EXCEPT ![w] = NoCopy]
  /\ outcome' = [outcome EXCEPT ![w] = "none"]

Finalize(w) ==
  LET c == copy[w]
  IN /\ pc[w] = "ended"
     /\ IF job[c.job].fencing_token # c.fencing_token THEN UNCHANGED <<job, rows>>
        ELSE /\ rows' = rows \cup {<<c.job, c.attempt_count>>}
             /\ job' = [job EXCEPT ![c.job] = Finalized(@, outcome[w])]
     /\ Release(w)
     /\ UNCHANGED <<done, crashes>>

\* The process dies, or the finalizing transaction fails
Crash(w) ==
  /\ pc[w] # "idle"
  /\ crashes < MaxCrashes
  /\ crashes' = crashes + 1
  /\ Release(w)
  /\ UNCHANGED <<job, rows, done>>

Next ==
  \/ \E j \in Jobs : Enqueue(j) \/ ComesDue(j) \/ LeaseExpires(j)
  \/ \E w \in Workers :
       \/ \E j \in Jobs : Claim(w, j)
       \/ \E result \in {"succeeded", "pending", "failed"} : Dispatch(w, result)
       \/ Finalize(w)
       \/ Crash(w)

Safety == Init /\ [][Next]_vars

\* Time passes, a worker finishes what it claimed, and claims go by run_after,
\* so no claimable job is passed over for ever.
Fairness ==
  /\ \A j \in Jobs : WF_vars(ComesDue(j)) /\ WF_vars(LeaseExpires(j))
                     /\ WF_vars(\E w \in Workers : Claim(w, j))
  /\ \A w \in Workers :
       WF_vars(Finalize(w) \/ \E r \in {"succeeded", "pending", "failed"} : Dispatch(w, r))

Spec == Safety /\ Fairness

-----------------------------------------------------------------------------
(* Correctness *)

\* The rows: background_jobs, background_job_attempts
JobRows == [state : States, attempt_count : 0 .. MaxAttempts,
            fencing_token : Nat, lease : {"free", "live", "expired"},
            due : BOOLEAN, step : {"dispatch", "poll"}]
AttemptRows == Jobs \X (1 .. MaxAttempts)

TypeOK ==
  /\ job \in [Jobs -> JobRows]
  /\ rows \subseteq AttemptRows
  /\ done \subseteq Jobs
  /\ pc \in [Workers -> {"idle", "claimed", "ended"}]
  /\ copy \in [Workers -> [job : Jobs \cup {"none"}, attempt_count : Nat,
                           fencing_token : Nat, step : {"dispatch", "poll"}]]
  /\ outcome \in [Workers -> {"none", "succeeded", "pending", "failed"}]
  /\ crashes \in 0 .. MaxCrashes

Busy(w) == pc[w] # "idle"

\* No two workers run one job at a time, and a job that is being run is
\* marked so, even when its lease has run out under the worker
\* (job_runner.py: two workers do not run the same job).
OneWorkerPerJob ==
  \A v, w \in Workers :
    Busy(w) => /\ job[copy[w].job].state = "running"
               /\ v # w /\ Busy(v) => copy[v].job # copy[w].job

\* A job whose worker died: marked running, run by nobody, its attempt not ended
Orphaned(j) == /\ job[j].state = "running"
               /\ \A w \in Workers : copy[w].job # j
               /\ <<j, job[j].attempt_count>> \notin rows

\* Jobs that are enqueued are closed in the end, however often their leases
\* lapse and their attempts fail, but for those whose worker dies.
JobsAreClosed ==
  <>[](\A j \in Jobs : job[j].state \in {"absent", "succeeded", "failed"} \/ Orphaned(j))

\* No job is lost with a worker that dies
\* (docker-deployment.md: restarting a worker loses no durable job).
OrphansAreReclaimed == \A j \in Jobs : Orphaned(j) ~> ~Orphaned(j)

\* A podcast's document is two steps, dispatch and then poll until the vendor has
\* ended; the job stays nonterminal in between (job_runner.py:415-421).
PodcastsWorked == \A j \in Podcasts : job[j].state = "succeeded" => j \in done

\* The jobs whose processor does its work in one step, which are the others
OneStep == Jobs \ Podcasts

Contract == INSTANCE DurableJobs WITH
  Jobs   <- OneStep,
  status <- [j \in OneStep |-> IF job[j].state \in {"pending", "running"} THEN "open"
                              ELSE job[j].state],
  done   <- done \cap OneStep

\* A job of one step is closed once, and as succeeded only after its work was
\* done, with any number of workers, attempts, lapsed leases and crashes
\* (job_runner.py: no fake success).
RefinesDurableJobs == Contract!Spec

=============================================================================
