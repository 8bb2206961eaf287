\* One podcast's document and one worker, with no crash.
CONSTANTS
  Jobs = {p1}
  Podcasts = {p1}
  Workers = {w1}
  MaxAttempts = 2
  MaxCrashes = 0
SPECIFICATION Spec
INVARIANTS PodcastsWorked
\* Every job closed: nothing is left to do.
CHECK_DEADLOCK FALSE
