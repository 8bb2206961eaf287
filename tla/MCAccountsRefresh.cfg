\* Three refresh tokens and two concurrent requests; nothing ends every session.
SPECIFICATION AccountsSpec
CONSTANTS
  Rows = {r1, r2, r3}
  Tokens = {k1}
  Requests = {q1, q2}
  MaxResets = 0
  MaxTokens = 1
  MaxLost = 0
INVARIANTS OneSuccessor
\* All ids used up and expired: nothing is left to do.
CHECK_DEADLOCK FALSE
