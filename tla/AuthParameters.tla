--------------------------- MODULE AuthParameters ---------------------------
(* The parameters of AuthSessions, for the modules that compose it.          *)
EXTENDS Naturals

CONSTANTS
  Rows,              \* ids of auth_sessions
  Tokens,            \* ids of auth_action_tokens
  Requests,          \* concurrent requests
  MaxResets          \* bound on the operations that end every session

None == "none"

ASSUME AuthConstants ==
  /\ None \notin Rows
  /\ MaxResets \in Nat
=============================================================================
