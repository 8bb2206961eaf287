\* Two users, three first top-ups, two of them of one wallet; two reservations of one wallet that do not
\* both fit in it, and two concurrent sessions; a key and three changes of plan.
\* Two refresh tokens, an action token, two requests and two operations that end every session, which
\* may overlap; two workers that deliver the mails of two tokens.
\* One document and one recording; one idempotency key and one grant; two questions.
CONSTANTS
  w1 = w1  w2 = w2  o1 = o1  o2 = o2  o3 = o3  p1 = p1  p2 = p2  i1 = i1  i2 = i2

  Wallets = {w1, w2}
  Orders = {o1, o2, o3}
  Operations = {p1, p2}
  Invocations = {i1, i2}
  Txns = {q1, q2}
  OrderWallet <- MCOrderWallet
  TokenUnits <- MCTokenUnits
  OperationWallet <- MCOperationWallet
  MayCharge <- OneReservation
  MaxUnits = 2
  Keys = {k1}
  MaxRevision = 2
  MaxChanges = 3

  Requests = {q1, q2}
  Rows = {r1, r2}
  Tokens = {a1}
  MaxResets = 2
  MaxTokens = 2
  MaxLost = 1

  Pdfs = {d}
  Recordings = {r}
  MaxSources = 2
  MaxScripts = 1
  MaxPlaybacks = 1
  GrantIds = {g}
  Purposes = {"practice_interaction"}
  Targets = {"learning"}
  Results = {"good"}
  Marks = {"begun", "done"}
  Questions = {s1, s2}
  Texts = {"key", "other"}
  Task = s1
  Rubrics = {"objective.v1", "toefl-practice.v1"}
SYMMETRY UserSymmetry
SPECIFICATION UserSpec
INVARIANTS
  WalletMatchesLedger HeldBacksReservations TokensConserved ChangesChain
  GoodSinceReset MailedOnce OnlyCleanUsed ExecutedOnce ScoredAsSubmitted
PROPERTIES
  ReservationsOnlyAdvance RefinesTokenAccounts EndedFamiliesStayEnded PlaysCurrent PlaybacksEnd
\* Every order credited, every reservation closed, all ids used up: nothing is left to do.
CHECK_DEADLOCK FALSE
