\* One job, and a worker that dies while it runs it.
CONSTANTS
  Jobs = {j1}
  Podcasts = {}
  Workers = {w1, w2}
  MaxAttempts = 2
  MaxCrashes = 1
SPECIFICATION Spec
PROPERTIES OrphansAreReclaimed
\* Every job closed: nothing is left to do.
CHECK_DEADLOCK FALSE
