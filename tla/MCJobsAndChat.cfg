\* Three jobs, one of them a podcast's, two workers, one of which may die; two attempts, so that a job may
\* be retried and may run out of attempts.
\* Three requests on one room: two turns of one client key and a third request, or two completions and a
\* turn; streams of up to two frames.
CONSTANTS
  Jobs = {j1, j2, p1}
  Podcasts = {p1}
  Workers = {w1, w2}
  MaxAttempts = 2
  MaxCrashes = 1
  Requests = {r1, r2, r3}
  Keys = {k}
  MaxFrames = 2
SPECIFICATION MCSpec
INVARIANTS OneWorkerPerJob TurnsWhole StreamMeant
PROPERTIES RefinesDurableJobs JobsAreClosed LateTurnsBegan RequestsEnd
\* Every job closed, every request done: nothing is left to do.
CHECK_DEADLOCK FALSE
