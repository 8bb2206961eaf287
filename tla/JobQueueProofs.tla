--------------------------- MODULE JobQueueProofs ---------------------------
(***************************************************************************)
(* Proofs about JobQueue, for any jobs, workers and bounds.                *)
(*                                                                         *)
(* A job is claimed only while it is pending and stays running until the   *)
(* worker that claimed it finalizes it or for good, so its token, which    *)
(* only claims move, is still that of the worker's copy: the fence of      *)
(* Finalize never refuses.                                                 *)
(***************************************************************************)
EXTENDS JobQueue, TLAPS

\* The copy of a worker that runs a job is of the job's current attempt
CopyCurrent ==
  \A w \in Workers : Busy(w) =>
    /\ copy[w].job \in Jobs
    /\ copy[w].fencing_token = job[copy[w].job].fencing_token
    /\ copy[w].attempt_count = job[copy[w].job].attempt_count

\* A pending job has an attempt left, a running one has begun one
AttemptsLeft ==
  \A j \in Jobs :
    /\ job[j].state \in {"absent", "pending"} => job[j].attempt_count < MaxAttempts
    /\ job[j].state = "running" => job[j].attempt_count > 0

\* A worker that ends with success has committed the work, if it is of one step
EndedDone ==
  \A w \in Workers : pc[w] = "ended" =>
    /\ outcome[w] # "none"
    /\ outcome[w] = "succeeded" /\ copy[w].job \notin Podcasts => copy[w].job \in done

JobInv ==
  /\ TypeOK
  /\ OneWorkerPerJob
  /\ CopyCurrent
  /\ AttemptsLeft
  /\ EndedDone

CopyRows == [job : Jobs \cup {"none"}, attempt_count : Nat,
             fencing_token : Nat, step : {"dispatch", "poll"}]

-----------------------------------------------------------------------------
(* Rows *)

LEMMA RowUpdates ==
  ASSUME NEW r \in JobRows, NEW s \in States, NEW due \in BOOLEAN
  PROVE  /\ [r EXCEPT !.state = s, !.due = due] \in JobRows
         /\ [r EXCEPT !.due = due] \in JobRows
         /\ [r EXCEPT !.lease = "expired"] \in JobRows
         /\ [r EXCEPT !.lease = "free", !.state = s, !.due = due] \in JobRows
  BY DEF JobRows

\* What _claim_one makes of a row that has an attempt left
LEMMA ClaimedRow ==
  ASSUME NEW r \in JobRows, r.attempt_count < MaxAttempts,
         NEW s, s = [r EXCEPT !.state = "running", !.lease = "live",
                              !.fencing_token = @ + 1, !.attempt_count = @ + 1]
  PROVE  /\ s \in JobRows
         /\ s.state = "running"
         /\ s.attempt_count = r.attempt_count + 1
         /\ s.fencing_token \in Nat /\ s.attempt_count \in Nat
         /\ s.attempt_count > 0
         /\ s.step = r.step
<1>1. /\ r.attempt_count + 1 \in 0 .. MaxAttempts
      /\ r.attempt_count + 1 \in Nat /\ r.attempt_count + 1 > 0
      /\ r.fencing_token + 1 \in Nat
  BY JobConstants DEF JobRows
<1> QED
  BY <1>1 DEF JobRows, States

\* An attempt that ends closes its job, or gives it back with attempts left
LEMMA FinalizedRow ==
  ASSUME NEW r \in JobRows, r.state = "running",
         NEW result \in {"succeeded", "pending", "failed"}
  PROVE  LET s == Finalized(r, result)
         IN  /\ s \in JobRows
             /\ s.state \in {"succeeded", "pending", "failed"}
             /\ s.state = "pending" => r.attempt_count < MaxAttempts
             /\ s.state = "succeeded" <=> result = "succeeded"
             /\ s.attempt_count = r.attempt_count
             /\ s.fencing_token = r.fencing_token
<1> DEFINE a == StateAfter(r, result)
<1>1. /\ a \in {"succeeded", "pending", "failed"}
      /\ a = "pending" => r.attempt_count < MaxAttempts
      /\ a = "succeeded" <=> result = "succeeded"
  <2>1. r.attempt_count \in Nat /\ MaxAttempts \in Nat
    BY JobConstants DEF JobRows
  <2> QED
    BY <2>1 DEF StateAfter
<1> HIDE DEF a
<1>2. PICK due \in BOOLEAN : due = (r.due /\ a # "pending")
  BY Zenon
<1>3. Finalized(r, result) = [r EXCEPT !.lease = "free", !.state = a, !.due = due]
  BY <1>2, Zenon DEF Finalized, a
<1>4. Finalized(r, result) \in JobRows
  <2>1. a \in States
    BY <1>1 DEF States
  <2>2. [r EXCEPT !.lease = "free", !.state = a, !.due = due] \in JobRows
    BY <2>1 DEF JobRows
  <2> QED
    BY <1>3, <2>2
<1>5. /\ Finalized(r, result).state = a
      /\ Finalized(r, result).attempt_count = r.attempt_count
      /\ Finalized(r, result).fencing_token = r.fencing_token
  BY <1>3 DEF JobRows
<1> QED
  BY <1>1, <1>4, <1>5

-----------------------------------------------------------------------------
(* The invariant *)

LEMMA InitInv == Init => JobInv
<1> SUFFICES ASSUME Init PROVE JobInv
  OBVIOUS
<1>1. Absent \in JobRows
  BY JobConstants DEF Absent, JobRows, States
<1>2. NoCopy \in CopyRows
  BY DEF NoCopy, CopyRows
<1>3. TypeOK
  BY <1>1, <1>2, JobConstants DEF Init, TypeOK, CopyRows
<1>4. OneWorkerPerJob /\ CopyCurrent /\ EndedDone
  BY DEF Init, OneWorkerPerJob, CopyCurrent, EndedDone, Busy
<1>5. AttemptsLeft
  BY JobConstants DEF Init, AttemptsLeft, Absent
<1> QED
  BY <1>3, <1>4, <1>5 DEF JobInv

\* Steps that move neither a worker nor what its copy is compared with
LEMMA WaitingInv ==
  ASSUME JobInv, NEW j \in Jobs,
         Enqueue(j) \/ ComesDue(j) \/ LeaseExpires(j)
  PROVE  JobInv'
<1>1. UNCHANGED <<rows, done, pc, copy, outcome, crashes>>
  BY DEF Enqueue, ComesDue, LeaseExpires
<1>2. job[j] \in JobRows
  BY DEF JobInv, TypeOK
<1>3. PICK s \in JobRows :
        /\ job' = [job EXCEPT ![j] = s]
        /\ s.attempt_count = job[j].attempt_count
        /\ s.fencing_token = job[j].fencing_token
        /\ s.state = job[j].state \/ (job[j].state = "absent" /\ s.state = "pending")
  <2>1. CASE Enqueue(j)
    <3>1. [job[j] EXCEPT !.state = "pending", !.due = TRUE] \in JobRows
      BY <1>2, RowUpdates DEF States
    <3> QED
      BY <1>2, <2>1, <3>1 DEF Enqueue, JobRows
  <2>2. CASE ComesDue(j)
    <3>1. [job[j] EXCEPT !.due = TRUE] \in JobRows
      BY <1>2, RowUpdates DEF States
    <3> QED
      BY <1>2, <2>2, <3>1 DEF ComesDue, JobRows
  <2>3. CASE LeaseExpires(j)
    <3>1. [job[j] EXCEPT !.lease = "expired"] \in JobRows
      BY <1>2, RowUpdates DEF States
    <3> QED
      BY <1>2, <2>3, <3>1 DEF LeaseExpires, JobRows
  <2> QED
    BY <2>1, <2>2, <2>3
<1>4. TypeOK'
  BY <1>1, <1>3 DEF JobInv, TypeOK
<1>5. \A w \in Workers : Busy(w) => copy[w].job \in Jobs
  BY DEF JobInv, CopyCurrent
<1>6. \A i \in Jobs : /\ job'[i].attempt_count = job[i].attempt_count
                      /\ job'[i].fencing_token = job[i].fencing_token
                      /\ job[i].state = "running" => job'[i].state = "running"
                      /\ job'[i].state = "running" => job[i].state = "running"
                      /\ job'[i].state = "pending" => job[i].state \in {"absent", "pending"}
                      /\ job'[i].state = "absent" => job[i].state = "absent"
  BY <1>3 DEF JobInv, TypeOK
<1>7. OneWorkerPerJob' /\ CopyCurrent'
  BY <1>1, <1>5, <1>6 DEF JobInv, OneWorkerPerJob, CopyCurrent, Busy
<1>8. AttemptsLeft'
  BY <1>6 DEF JobInv, AttemptsLeft
<1>9. EndedDone'
  BY <1>1 DEF JobInv, EndedDone
<1> QED
  BY <1>4, <1>7, <1>8, <1>9 DEF JobInv

\* A pending job is run by nobody, so its new worker is the only one
LEMMA ClaimInv ==
  ASSUME JobInv, NEW w \in Workers, NEW j \in Jobs, Claim(w, j)
  PROVE  JobInv'
<1> DEFINE r == [job[j] EXCEPT !.state = "running", !.lease = "live",
                               !.fencing_token = @ + 1, !.attempt_count = @ + 1]
           c == [job |-> j, attempt_count |-> r.attempt_count,
                 fencing_token |-> r.fencing_token, step |-> r.step]
<1>1. /\ pc[w] = "idle" /\ job[j].state = "pending"
      /\ job' = [job EXCEPT ![j] = r]
      /\ copy' = [copy EXCEPT ![w] = c]
      /\ pc' = [pc EXCEPT ![w] = "claimed"]
      /\ UNCHANGED <<rows, done, outcome, crashes>>
  BY DEF Claim, Claimable
<1>2. job[j] \in JobRows /\ job[j].attempt_count < MaxAttempts
  BY <1>1 DEF JobInv, TypeOK, AttemptsLeft
<1>3. /\ r \in JobRows /\ r.state = "running" /\ r.attempt_count > 0
      /\ r.fencing_token \in Nat /\ r.attempt_count \in Nat
      /\ r.step \in {"dispatch", "poll"}
  <2>1. job[j].step \in {"dispatch", "poll"}
    BY <1>2 DEF JobRows
  <2> QED
    BY <1>2, <2>1, ClaimedRow
<1> HIDE DEF r
<1>4. c \in CopyRows /\ c.job = j /\ c.fencing_token = r.fencing_token
      /\ c.attempt_count = r.attempt_count
  BY <1>3 DEF CopyRows
<1> HIDE DEF c
<1>5. TypeOK'
  BY <1>1, <1>3, <1>4 DEF JobInv, TypeOK, CopyRows
<1>6. /\ job'[j] = r /\ copy'[w] = c
      /\ \A i \in Jobs : i # j => job'[i] = job[i]
      /\ \A v \in Workers : v # w => copy'[v] = copy[v] /\ pc'[v] = pc[v]
  BY <1>1 DEF JobInv, TypeOK
<1>7. \A v \in Workers : Busy(v) => copy[v].job \in Jobs /\ copy[v].job # j /\ v # w
  BY <1>1 DEF JobInv, OneWorkerPerJob, CopyCurrent, Busy
<1>8. \A v \in Workers : Busy(v)' => v = w \/ Busy(v)
  BY <1>6 DEF Busy
<1>9. OneWorkerPerJob' /\ CopyCurrent'
  BY <1>3, <1>4, <1>6, <1>7, <1>8 DEF JobInv, OneWorkerPerJob, CopyCurrent
<1>10. AttemptsLeft'
  BY <1>3, <1>6 DEF JobInv, AttemptsLeft
<1>11. EndedDone'
  BY <1>1, <1>6 DEF JobInv, TypeOK, EndedDone
<1> QED
  BY <1>5, <1>9, <1>10, <1>11 DEF JobInv

\* What a processor leaves on the copy is not what the copy is compared by
LEMMA DispatchCopies ==
  ASSUME JobInv, NEW w \in Workers, NEW result, Dispatch(w, result)
  PROVE  /\ copy' \in [Workers -> CopyRows]
         /\ \A v \in Workers : /\ copy'[v].job = copy[v].job
                               /\ copy'[v].fencing_token = copy[v].fencing_token
                               /\ copy'[v].attempt_count = copy[v].attempt_count
<1>1. copy \in [Workers -> CopyRows] /\ copy[w] \in CopyRows
  BY DEF JobInv, TypeOK, CopyRows
<1>2. copy' = copy \/ copy' = [copy EXCEPT ![w].step = "poll"]
  BY DEF Dispatch
<1>3. [copy[w] EXCEPT !.step = "poll"] \in CopyRows
  BY <1>1 DEF CopyRows
<1>4. [copy EXCEPT ![w].step = "poll"] \in [Workers -> CopyRows]
  BY <1>1, <1>3
<1>5. \A v \in Workers :
        LET c == [copy EXCEPT ![w].step = "poll"][v]
        IN  /\ c.job = copy[v].job
            /\ c.fencing_token = copy[v].fencing_token
            /\ c.attempt_count = copy[v].attempt_count
  BY <1>1 DEF CopyRows
<1> QED
  BY <1>1, <1>2, <1>4, <1>5

LEMMA DispatchInv ==
  ASSUME JobInv, NEW w \in Workers,
         NEW result \in {"succeeded", "pending", "failed"}, Dispatch(w, result)
  PROVE  JobInv'
<1> DEFINE j == copy[w].job
<1>1. /\ pc[w] = "claimed"
      /\ outcome' = [outcome EXCEPT ![w] = result]
      /\ done' = done \/ done' = done \cup {j}
      /\ result = "succeeded" /\ j \notin Podcasts => done' = done \cup {j}
      /\ pc' = [pc EXCEPT ![w] = "ended"]
      /\ UNCHANGED <<job, rows, crashes>>
  BY DEF Dispatch
<1>2. j \in Jobs
  BY <1>1 DEF JobInv, CopyCurrent, Busy
<1>3. /\ copy' \in [Workers -> CopyRows]
      /\ \A v \in Workers : /\ copy'[v].job = copy[v].job
                            /\ copy'[v].fencing_token = copy[v].fencing_token
                            /\ copy'[v].attempt_count = copy[v].attempt_count
  BY DispatchCopies
<1>4. TypeOK'
  BY <1>1, <1>2, <1>3 DEF JobInv, TypeOK, CopyRows
<1>5. \A v \in Workers : Busy(v)' <=> Busy(v)
  BY <1>1 DEF JobInv, TypeOK, Busy
<1>6. OneWorkerPerJob' /\ CopyCurrent'
  BY <1>1, <1>3, <1>5 DEF JobInv, OneWorkerPerJob, CopyCurrent
<1>7. AttemptsLeft'
  BY <1>1 DEF JobInv, AttemptsLeft
<1>8. EndedDone'
  BY <1>1, <1>3 DEF JobInv, TypeOK, EndedDone
<1> QED
  BY <1>4, <1>6, <1>7, <1>8 DEF JobInv

\* The fence of _finalize lets every worker through, with a job that is running
LEMMA FinalizeStep ==
  ASSUME JobInv, NEW w \in Workers, Finalize(w)
  PROVE  LET j == copy[w].job
             s == Finalized(job[j], outcome[w])
         IN  /\ j \in Jobs /\ job[j] \in JobRows /\ job[j].state = "running"
             /\ outcome[w] \in {"succeeded", "pending", "failed"}
             /\ outcome[w] = "succeeded" /\ j \notin Podcasts => j \in done
             /\ job' = [job EXCEPT ![j] = s]
             /\ rows' = rows \cup {<<j, job[j].attempt_count>>}
             /\ Release(w)
             /\ UNCHANGED <<done, crashes>>
<1>1. pc[w] = "ended"
  BY DEF Finalize
<1>2. /\ copy[w].job \in Jobs
      /\ copy[w].fencing_token = job[copy[w].job].fencing_token
      /\ copy[w].attempt_count = job[copy[w].job].attempt_count
      /\ job[copy[w].job].state = "running"
  BY <1>1 DEF JobInv, CopyCurrent, OneWorkerPerJob, Busy
<1>3. /\ outcome[w] \in {"succeeded", "pending", "failed"}
      /\ outcome[w] = "succeeded" /\ copy[w].job \notin Podcasts => copy[w].job \in done
  BY <1>1 DEF JobInv, TypeOK, EndedDone
<1>4. job[copy[w].job] \in JobRows
  BY <1>2 DEF JobInv, TypeOK
<1> QED
  BY <1>1, <1>2, <1>3, <1>4 DEF Finalize

LEMMA FinalizeInv ==
  ASSUME JobInv, NEW w \in Workers, Finalize(w)
  PROVE  JobInv'
<1> DEFINE j == copy[w].job
           s == Finalized(job[j], outcome[w])
<1>1. /\ j \in Jobs /\ job[j] \in JobRows /\ job[j].state = "running"
      /\ outcome[w] \in {"succeeded", "pending", "failed"}
      /\ job' = [job EXCEPT ![j] = s]
      /\ rows' = rows \cup {<<j, job[j].attempt_count>>}
      /\ Release(w)
      /\ UNCHANGED <<done, crashes>>
  BY FinalizeStep
<1>2. /\ s \in JobRows /\ s.state \in {"succeeded", "pending", "failed"}
      /\ s.state = "pending" => job[j].attempt_count < MaxAttempts
      /\ s.attempt_count = job[j].attempt_count
      /\ s.fencing_token = job[j].fencing_token
  BY <1>1, FinalizedRow
<1>3. \A v \in Workers : v # w /\ Busy(v) => copy[v].job # j
  <2>1. Busy(w)
    BY DEF Finalize, Busy
  <2> QED
    BY <2>1 DEF JobInv, OneWorkerPerJob
<1> HIDE DEF s
<1>4. NoCopy \in CopyRows
  BY DEF NoCopy, CopyRows
<1>5. job[j].attempt_count \in 1 .. MaxAttempts
  BY <1>1, JobConstants DEF JobInv, AttemptsLeft, JobRows
<1>6. TypeOK'
  BY <1>1, <1>2, <1>4, <1>5 DEF JobInv, TypeOK, Release, CopyRows, AttemptRows
<1>7. /\ job'[j] = s /\ \A i \in Jobs : i # j => job'[i] = job[i]
      /\ pc'[w] = "idle"
      /\ \A v \in Workers : v # w => copy'[v] = copy[v] /\ pc'[v] = pc[v]
                                     /\ outcome'[v] = outcome[v]
  BY <1>1 DEF JobInv, TypeOK, Release
<1> HIDE DEF j
<1>8. \A v \in Workers : Busy(v)' => v # w /\ Busy(v) /\ copy[v].job \in Jobs
  BY <1>7 DEF Busy, JobInv, CopyCurrent
<1>9. OneWorkerPerJob' /\ CopyCurrent'
  BY <1>3, <1>7, <1>8 DEF JobInv, OneWorkerPerJob, CopyCurrent
<1>10. AttemptsLeft'
  BY <1>2, <1>7 DEF JobInv, AttemptsLeft
<1>11. EndedDone'
  BY <1>1, <1>7 DEF JobInv, EndedDone
<1> QED
  BY <1>6, <1>9, <1>10, <1>11 DEF JobInv

LEMMA CrashInv ==
  ASSUME JobInv, NEW w \in Workers, Crash(w)
  PROVE  JobInv'
<1>1. NoCopy \in CopyRows
  BY DEF NoCopy, CopyRows
<1>2. TypeOK'
  BY <1>1, JobConstants DEF JobInv, TypeOK, Crash, Release, CopyRows
<1>3. /\ pc'[w] = "idle" /\ UNCHANGED <<job, done>>
      /\ \A v \in Workers : v # w => copy'[v] = copy[v] /\ pc'[v] = pc[v]
                                     /\ outcome'[v] = outcome[v]
  BY DEF JobInv, TypeOK, Crash, Release
<1>4. \A v \in Workers : Busy(v)' => v # w /\ Busy(v)
  BY <1>3 DEF Busy
<1>5. OneWorkerPerJob' /\ CopyCurrent'
  BY <1>3, <1>4 DEF JobInv, OneWorkerPerJob, CopyCurrent
<1>6. AttemptsLeft' /\ EndedDone'
  BY <1>3 DEF JobInv, AttemptsLeft, EndedDone
<1> QED
  BY <1>2, <1>5, <1>6 DEF JobInv

LEMMA StutterInv == JobInv /\ UNCHANGED vars => JobInv'
<1> SUFFICES ASSUME JobInv, UNCHANGED vars PROVE JobInv'
  OBVIOUS
<1>1. TypeOK'
  BY DEF vars, JobInv, TypeOK
<1>2. OneWorkerPerJob' /\ CopyCurrent' /\ AttemptsLeft' /\ EndedDone'
  BY DEF vars, JobInv, OneWorkerPerJob, CopyCurrent, AttemptsLeft, EndedDone, Busy
<1> QED
  BY <1>1, <1>2 DEF JobInv

LEMMA StepInv == JobInv /\ [Next]_vars => JobInv'
<1> SUFFICES ASSUME JobInv, [Next]_vars PROVE JobInv'
  OBVIOUS
<1>1. CASE \E j \in Jobs : Enqueue(j) \/ ComesDue(j) \/ LeaseExpires(j)
  BY <1>1, WaitingInv
<1>2. CASE \E w \in Workers : \E j \in Jobs : Claim(w, j)
  BY <1>2, ClaimInv
<1>3. CASE \E w \in Workers : \E r \in {"succeeded", "pending", "failed"} : Dispatch(w, r)
  BY <1>3, DispatchInv
<1>4. CASE \E w \in Workers : Finalize(w)
  BY <1>4, FinalizeInv
<1>5. CASE \E w \in Workers : Crash(w)
  BY <1>5, CrashInv
<1>6. CASE UNCHANGED vars
  BY <1>6, StutterInv
<1> QED
  BY <1>1, <1>2, <1>3, <1>4, <1>5, <1>6 DEF Next

LEMMA InvHolds == Spec => []JobInv
  BY InitInv, StepInv, PTL DEF Spec, Safety

\* The rows of background_jobs and background_job_attempts keep their types; in
\* particular no job gets more attempts than max_attempts.
THEOREM JobTypeCorrect == Spec => []TypeOK
<1>1. JobInv => TypeOK
  BY DEF JobInv
<1> QED
  BY <1>1, InvHolds, PTL

\* However many workers there are, however their leases lapse and whichever of
\* them die, no two run one job at a time, and a job that is run is marked so
\* (_claim_one, _finalize).
THEOREM OneWorkerCorrect == Spec => []OneWorkerPerJob
<1>1. JobInv => OneWorkerPerJob
  BY DEF JobInv
<1> QED
  BY <1>1, InvHolds, PTL

-----------------------------------------------------------------------------
(* The contract *)

StatusOf(r) == IF r.state \in {"pending", "running"} THEN "open" ELSE r.state
Status      == [j \in OneStep |-> StatusOf(job[j])]
Worked      == done \cap OneStep

\* The contract's actions, said of the status that the mapping gives a job
LEMMA ContractActions ==
  /\ UNCHANGED <<Status, Worked>> => UNCHANGED Contract!vars
  /\ \A j \in OneStep :
       /\ Status[j] = "absent" /\ Status' = [Status EXCEPT ![j] = "open"] /\ UNCHANGED Worked
            => Contract!Submit(j)
       /\ Status[j] = "open" /\ Worked' = Worked \cup {j} /\ UNCHANGED Status
            => Contract!Work(j)
       /\ Status[j] = "open" /\ j \in Worked /\ Status' = [Status EXCEPT ![j] = "succeeded"]
            /\ UNCHANGED Worked
            => Contract!Succeed(j)
       /\ Status[j] = "open" /\ Status' = [Status EXCEPT ![j] = "failed"] /\ UNCHANGED Worked
            => Contract!Abandon(j)
  BY DEF Contract!vars, Contract!Submit, Contract!Work, Contract!Succeed, Contract!Abandon,
         Status, StatusOf, Worked

\* A step that changes one row changes one status
LEMMA StatusUpdate ==
  ASSUME NEW j \in Jobs, NEW s, job \in [Jobs -> JobRows], job' = [job EXCEPT ![j] = s]
  PROVE  /\ j \in OneStep => Status[j] = StatusOf(job[j])
         /\ j \in OneStep => Status' = [Status EXCEPT ![j] = StatusOf(s)]
         /\ j \notin OneStep => UNCHANGED Status
         /\ StatusOf(s) = StatusOf(job[j]) => UNCHANGED Status
<1>1. /\ \A i \in OneStep : job'[i] = IF i = j THEN s ELSE job[i]
      /\ Status' = [i \in OneStep |-> StatusOf(job'[i])]
      /\ Status = [i \in OneStep |-> StatusOf(job[i])]
  BY DEF Status, StatusOf, OneStep
<1> QED
  BY <1>1

LEMMA ContractStep ==
  ASSUME JobInv, [Next]_vars
  PROVE  [Contract!Next]_(Contract!vars)
<1> SUFFICES Contract!Next \/ UNCHANGED <<Status, Worked>>
  BY ContractActions
<1>0. job \in [Jobs -> JobRows]
  BY DEF JobInv, TypeOK
<1>0a. UNCHANGED done => UNCHANGED Worked
  BY DEF Worked
<1>1. ASSUME NEW j \in Jobs, Enqueue(j)
      PROVE  (j \in OneStep /\ Contract!Submit(j)) \/ UNCHANGED <<Status, Worked>>
  <2> DEFINE s == [job[j] EXCEPT !.state = "pending", !.due = TRUE]
  <2>1. job[j].state = "absent" /\ job' = [job EXCEPT ![j] = s] /\ UNCHANGED done
    BY <1>0, <1>1 DEF Enqueue
  <2>2. StatusOf(job[j]) = "absent" /\ StatusOf(s) = "open"
    BY <1>0, <2>1 DEF StatusOf, JobRows
  <2> QED
    BY <1>0, <1>0a, <2>1, <2>2, StatusUpdate, ContractActions
<1>2. ASSUME NEW j \in Jobs, ComesDue(j) \/ LeaseExpires(j)
      PROVE  UNCHANGED <<Status, Worked>>
  <2>1. CASE ComesDue(j)
    <3>1. StatusOf([job[j] EXCEPT !.due = TRUE]) = StatusOf(job[j])
      BY <1>0 DEF StatusOf, JobRows
    <3> QED
      BY <1>0, <1>0a, <2>1, <3>1, StatusUpdate DEF ComesDue
  <2>2. CASE LeaseExpires(j)
    <3>1. StatusOf([job[j] EXCEPT !.lease = "expired"]) = StatusOf(job[j])
      BY <1>0 DEF StatusOf, JobRows
    <3> QED
      BY <1>0, <1>0a, <2>2, <3>1, StatusUpdate DEF LeaseExpires
  <2> QED
    BY <1>2, <2>1, <2>2
<1>3. ASSUME NEW w \in Workers, NEW j \in Jobs, Claim(w, j)
      PROVE  UNCHANGED <<Status, Worked>>
  <2> DEFINE s == [job[j] EXCEPT !.state = "running", !.lease = "live",
                                 !.fencing_token = @ + 1, !.attempt_count = @ + 1]
  <2>1. job[j].state = "pending" /\ job' = [job EXCEPT ![j] = s] /\ UNCHANGED done
    BY <1>3 DEF Claim, Claimable
  <2>2. s.state = "running"
    <3>1. job[j].attempt_count < MaxAttempts
      BY <2>1 DEF JobInv, AttemptsLeft
    <3> QED
      BY <1>0, <3>1, ClaimedRow
  <2> HIDE DEF s
  <2>3. StatusOf(s) = StatusOf(job[j])
    BY <2>1, <2>2 DEF StatusOf
  <2> QED
    BY <1>0, <1>0a, <2>1, <2>3, StatusUpdate
<1>4. ASSUME NEW w \in Workers, NEW r \in {"succeeded", "pending", "failed"}, Dispatch(w, r)
      PROVE  (\E j \in OneStep : Contract!Work(j)) \/ UNCHANGED <<Status, Worked>>
  <2> DEFINE j == copy[w].job
  <2>1. /\ pc[w] = "claimed" /\ UNCHANGED job
        /\ done' = done \/ done' = done \cup {j}
    BY <1>4 DEF Dispatch
  <2>2. j \in Jobs /\ job[j].state = "running"
    BY <2>1 DEF JobInv, CopyCurrent, OneWorkerPerJob, Busy
  <2>3. (j \in OneStep => Status[j] = "open") /\ UNCHANGED Status
    BY <2>1, <2>2 DEF Status, StatusOf
  <2>4. UNCHANGED Worked \/ (j \in OneStep /\ Worked' = Worked \cup {j})
    BY <2>1 DEF Worked
  <2> QED
    BY <2>3, <2>4, ContractActions
<1>5. ASSUME NEW w \in Workers, Finalize(w)
      PROVE  (\E j \in OneStep : Contract!Succeed(j) \/ Contract!Abandon(j))
             \/ UNCHANGED <<Status, Worked>>
  <2> DEFINE j == copy[w].job
             s == Finalized(job[j], outcome[w])
  <2>1. /\ j \in Jobs /\ job[j] \in JobRows /\ job[j].state = "running"
        /\ outcome[w] \in {"succeeded", "pending", "failed"}
        /\ outcome[w] = "succeeded" /\ j \notin Podcasts => j \in done
        /\ job' = [job EXCEPT ![j] = s] /\ UNCHANGED <<done, Worked>>
    BY <1>0a, <1>5, FinalizeStep
  <2>2. /\ s.state \in {"succeeded", "pending", "failed"}
        /\ s.state = "succeeded" <=> outcome[w] = "succeeded"
    BY <2>1, FinalizedRow
  <2> HIDE DEF s
  <2>3. StatusOf(job[j]) = "open"
    BY <2>1 DEF StatusOf
  <2>4. /\ j \in OneStep => Status[j] = "open"
        /\ j \in OneStep => Status' = [Status EXCEPT ![j] = StatusOf(s)]
        /\ j \notin OneStep => UNCHANGED Status
        /\ StatusOf(s) = StatusOf(job[j]) => UNCHANGED Status
    BY <1>0, <1>0a, <2>1, <2>3, StatusUpdate
  <2>5. CASE s.state = "pending"
    BY <2>1, <2>3, <2>4, <2>5 DEF StatusOf
  <2>6. CASE s.state = "succeeded"
    <3>1. StatusOf(s) = "succeeded" /\ (j \in OneStep => j \in Worked)
      BY <2>1, <2>2, <2>6 DEF StatusOf, Worked, OneStep
    <3> QED
      BY <2>1, <2>4, <3>1, ContractActions
  <2>7. CASE s.state = "failed"
    <3>1. StatusOf(s) = "failed"
      BY <2>7 DEF StatusOf
    <3> QED
      BY <2>1, <2>4, <3>1, ContractActions
  <2> QED
    BY <2>2, <2>5, <2>6, <2>7
<1>6. ASSUME NEW w \in Workers, Crash(w)
      PROVE  UNCHANGED <<Status, Worked>>
  BY <1>0a, <1>6 DEF Crash, Status
<1>7. CASE UNCHANGED vars
  BY <1>0a, <1>7 DEF vars, Status
<1>8. CASE \E j \in Jobs : Enqueue(j) \/ ComesDue(j) \/ LeaseExpires(j)
  BY <1>1, <1>2, <1>8 DEF Contract!Next
<1>9. CASE \E w \in Workers : (\E j \in Jobs : Claim(w, j)) \/ Finalize(w) \/ Crash(w)
  BY <1>3, <1>5, <1>6, <1>9 DEF Contract!Next
<1>10. CASE \E w \in Workers : \E r \in {"succeeded", "pending", "failed"} : Dispatch(w, r)
  BY <1>4, <1>10 DEF Contract!Next
<1> QED
  BY <1>7, <1>8, <1>9, <1>10 DEF Next

\* The queue with its workers, leases, retries and crashes keeps the contract of
\* DurableJobs for the jobs of one step: each is closed once, as succeeded only
\* after its work is done (job_runner.py: no fake success).  A podcast's document
\* takes two steps, and its second one is never reached.
THEOREM QueueImplementsContract == Spec => RefinesDurableJobs
<1>1. Init => Contract!Init
  BY DEF Init, Contract!Init, Absent, OneStep
<1>2. JobInv /\ [Next]_vars => [Contract!Next]_(Contract!vars)
  BY ContractStep
<1> QED
  BY <1>1, <1>2, InvHolds, PTL DEF Spec, Safety, RefinesDurableJobs, Contract!Spec
=============================================================================
