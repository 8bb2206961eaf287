----------------------------- MODULE MCAccounts -----------------------------
(* Sessions and the delivery of mails have no row in common: an execution is *)
(* about one of them, while the other stays as it began.                     *)
EXTENDS AuthSessions, TLC

CONSTANTS MaxTokens, MaxLost   \* of AuthMail
VARIABLES issued, consumed, recorded, sent, lost, dead, delivery

Mail == INSTANCE AuthMail WITH Workers <- Requests

MCSymmetry == Permutations(Rows) \cup Permutations(Tokens) \cup Permutations(Requests)

mails == <<issued, consumed, recorded, sent, lost, dead, delivery>>

AccountsInit == Init /\ Mail!Init
AccountsNext ==
  \/ Mail!Init /\ Next /\ UNCHANGED mails
  \/ Init /\ Mail!Next /\ UNCHANGED vars
AccountsSpec == AccountsInit /\ [][AccountsNext]_<<vars, mails>>

MailedOnce == Mail!MailedOnce
=============================================================================
