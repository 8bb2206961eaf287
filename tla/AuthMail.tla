------------------------------ MODULE AuthMail ------------------------------
(***************************************************************************)
(* The mails of one account with a verification or reset link              *)
(* (worker/auth_email_handler.py).  The event of a token is delivered at   *)
(* least once (OutboxRelay), to several workers at a time.  The row that   *)
(* tells deliveries apart is inserted before the mail is sent and          *)
(* committed after it.                                                     *)
(***************************************************************************)
EXTENDS Integers

CONSTANTS
  Workers,
  MaxTokens,   \* tokens of one purpose, numbered in the order of their issue
  MaxLost      \* workers lost after a mail was sent

VARIABLES
  issued,      \* auth_action_tokens that exist
  consumed,    \* those that the user has consumed
  recorded,    \* auth_email_deliveries, committed
  sent,        \* mails sent by token
  lost,        \* of these, before a worker was lost
  dead,        \* tokens with a delivery among the dead letters
  delivery     \* what each worker is at

vars == <<issued, consumed, recorded, sent, lost, dead, delivery>>

Ids  == 1..MaxTokens
Idle == [step |-> "idle", token |-> 0]

Init ==
  /\ issued = 0 /\ consumed = {} /\ recorded = {} /\ dead = {}
  /\ sent = [t \in Ids |-> 0] /\ lost = [t \in Ids |-> 0]
  /\ delivery = [w \in Workers |-> Idle]

Goto(w, step) == delivery' = [delivery EXCEPT ![w].step = step]
End(w)        == delivery' = [delivery EXCEPT ![w] = Idle]

\* register, resend_verification, forgot_password: the token and its event
IssueToken ==
  /\ issued < MaxTokens /\ issued' = issued + 1
  /\ UNCHANGED <<consumed, recorded, sent, lost, dead, delivery>>

\* verify_email, reset_password
Consume(t) ==
  /\ t <= issued /\ sent[t] > 0 /\ consumed' = consumed \cup {t}
  /\ UNCHANGED <<issued, recorded, sent, lost, dead, delivery>>

-----------------------------------------------------------------------------
(* One delivery *)

\* A token that is consumed or is not the latest needs no mail; the delivery
\* ends there and is acknowledged
Receive(w, t) ==
  /\ delivery[w].step = "idle" /\ t <= issued /\ t \notin consumed
  /\ delivery' = [delivery EXCEPT ![w] = [step |-> "found", token |-> t]]
  /\ UNCHANGED <<issued, consumed, recorded, sent, lost, dead>>

CheckLatest(w) ==
  /\ delivery[w].step = "found"
  /\ IF delivery[w].token = issued THEN Goto(w, "latest") ELSE End(w)
  /\ UNCHANGED <<issued, consumed, recorded, sent, lost, dead>>

\* Mutant: no primary key
Unclaimed(t) == TRUE
Claimed(t)   == t \in recorded
Free(t)      == ~ \E w \in Workers : delivery[w] \in [step : {"claimed", "sent"}, token : {t}]

\* The insert waits for one of the same token that is not committed.  When it
\* fails the handler returns, but the statement after it fails with the
\* transaction, and the delivery becomes a dead letter
Insert(w) ==
  LET t == delivery[w].token
  IN  /\ delivery[w].step = "latest" /\ Free(t)
      /\ IF Claimed(t) THEN dead' = dead \cup {t} /\ End(w)
                       ELSE dead' = dead /\ Goto(w, "claimed")
      /\ UNCHANGED <<issued, consumed, recorded, sent, lost>>

Send(w) ==
  /\ delivery[w].step = "claimed" /\ Goto(w, "sent")
  /\ sent' = [sent EXCEPT ![delivery[w].token] = @ + 1]
  /\ UNCHANGED <<issued, consumed, recorded, lost, dead>>

\* SMTP refuses: the row is rolled back, the event becomes a dead letter
SendFails(w) ==
  /\ delivery[w].step = "claimed" /\ End(w)
  /\ dead' = dead \cup {delivery[w].token}
  /\ UNCHANGED <<issued, consumed, recorded, sent, lost>>

\* mark_outbox_published and the commit of _process_entry
Commit(w) ==
  /\ delivery[w].step = "sent" /\ End(w)
  /\ recorded' = recorded \cup {delivery[w].token}
  /\ UNCHANGED <<issued, consumed, sent, lost, dead>>

\* A lost worker, or an error of the database
Lose(w) ==
  /\ delivery[w].step # "idle" /\ End(w)
  /\ IF delivery[w].step = "sent"
     THEN lost[delivery[w].token] < MaxLost /\ lost' = [lost EXCEPT ![delivery[w].token] = @ + 1]
     ELSE lost' = lost
  /\ UNCHANGED <<issued, consumed, recorded, sent, dead>>

Next ==
  \/ IssueToken
  \/ \E t \in Ids : Consume(t) \/ \E w \in Workers : Receive(w, t)
  \/ \E w \in Workers : \/ CheckLatest(w) \/ Insert(w) \/ Send(w) \/ SendFails(w)
                        \/ Commit(w) \/ Lose(w)

Spec == Init /\ [][Next]_vars

-----------------------------------------------------------------------------

\* The state keeps its types
TypeOK ==
  /\ issued \in 0..MaxTokens
  /\ (consumed \cup recorded \cup dead) \subseteq 1..issued
  /\ \A t \in Ids : {sent[t], lost[t]} \subseteq Nat
  /\ delivery \in [Workers -> [step : {"idle", "found", "latest", "claimed", "sent"},
                              token : 0..MaxTokens]]

\* A delivery on record was sent, and a token is mailed again only when the worker
\* that had sent it was lost before its commit: workers that have the same event at
\* once send one mail (handle_auth_email_requested).
MailedOnce ==
  \A t \in Ids :
    /\ t \in recorded => sent[t] > lost[t]
    /\ sent[t] <= 1 + lost[t]
=============================================================================
