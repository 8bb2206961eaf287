----------------------------- MODULE DurableJobs -----------------------------
(***************************************************************************)
(* What the SQL job queue promises to the code that enqueues a job, with   *)
(* no workers, leases or attempts: a job that was enqueued is open until   *)
(* it is closed once, as succeeded, and then its work has been done, or as *)
(* failed; no work is done on a job that is closed.                        *)
(***************************************************************************)
CONSTANT Jobs

VARIABLES status, done

vars == <<status, done>>

Init ==
  /\ status = [j \in Jobs |-> "absent"]
  /\ done = {}

Submit(j) ==
  /\ status[j] = "absent"
  /\ status' = [status EXCEPT ![j] = "open"]
  /\ UNCHANGED done

Work(j) ==
  /\ status[j] = "open"
  /\ done' = done \cup {j}
  /\ UNCHANGED status

Succeed(j) ==
  /\ status[j] = "open"
  /\ j \in done
  /\ status' = [status EXCEPT ![j] = "succeeded"]
  /\ UNCHANGED done

\* The work may have been done all the same
Abandon(j) ==
  /\ status[j] = "open"
  /\ status' = [status EXCEPT ![j] = "failed"]
  /\ UNCHANGED done

Next == \E j \in Jobs : Submit(j) \/ Work(j) \/ Succeed(j) \/ Abandon(j)

Spec == Init /\ [][Next]_vars

=============================================================================
