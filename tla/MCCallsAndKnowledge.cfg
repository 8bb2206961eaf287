\* Two runners of a call that hear a turn each, with losses; a session of up to three messages in ranges of
\* two, a job runner, two tool calls and one fault; a chunk under two profiles, two workers and two
\* failures.
SPECIFICATION MCSpec
CONSTANTS
  Runners = {r1, r2}
  NoOwner = NoOwner
  MaxTurns = 1
  Lossy = TRUE
  Workers = {w1}
  Calls = {c1, c2}
  RangeSize = 2
  MaxAttempts = 2
  FactKeys = {k}
  Values = {u, v}
  Last = 3
  MaxFaults = 1
  Embedders = {e1, e2}
  Chunks = {x}
  Profiles = {p, q}
  MaxFailures = 2
INVARIANTS
  OneWriter EndClosesConversation EndCountsTranscript
  RangesTile AnalysedOnce SucceededStored ProjectedUnlessRefused
PROPERTIES
  RefinesCallContract ConfirmedStands
SYMMETRY Alike
\* A run ends when every runner is done, every job closed and every call made.
CHECK_DEADLOCK FALSE
