--------------------------- MODULE AccountsProofs ---------------------------
(***************************************************************************)
(* Proofs about what MCAccounts composes, for any rows, tokens, requests   *)
(* and workers: the mails with a link, and the sessions of an account.     *)
(*                                                                         *)
(* Nothing is locked while a request reads, so what it has read is related *)
(* to what it commits on: the token a refresh presented keeps its family   *)
(* and its epoch, and no epoch is ahead of the number of times that the    *)
(* sessions of the account were ended.                                     *)
(***************************************************************************)
EXTENDS MCAccounts, TLAPS

(* Mails *)

DeliveryRows == [step : {"idle", "found", "latest", "claimed", "sent"}, token : Nat]

MailTypes ==
  /\ sent \in [1..MaxTokens -> Nat] /\ lost \in [1..MaxTokens -> Nat]
  /\ delivery \in [Requests -> DeliveryRows]
  /\ \A w \in Requests : delivery[w].step # "idle" => delivery[w].token \in 1..MaxTokens

\* A worker has inserted the row of a token that it has not committed
Inserted(w) == delivery[w].step \in {"claimed", "sent"}
HasSent(t)  == \E w \in Requests : delivery[w].step = "sent" /\ delivery[w].token = t

\* One row of a token is inserted at a time, and none once it is committed
OneInserts ==
  \A w \in Requests : Inserted(w) =>
    /\ delivery[w].token \notin recorded
    /\ \A v \in Requests : Inserted(v) /\ delivery[v].token = delivery[w].token => v = w

\* Of the mails of a token, all but the last were sent by workers that were lost
MailsSent ==
  \A t \in 1..MaxTokens :
    sent[t] = lost[t] + (IF t \in recorded \/ HasSent(t) THEN 1 ELSE 0)

MailInv == MailTypes /\ OneInserts /\ MailsSent

LEMMA MailInit == Mail!Init => MailInv
BY DEF Mail!Init, Mail!Ids, Mail!Idle, MailInv, MailTypes, OneInserts, MailsSent, Inserted, HasSent,
       DeliveryRows

LEMMA MailedOnceHolds == MailInv => MailedOnce
<1> SUFFICES ASSUME MailInv, NEW t \in 1..MaxTokens
             PROVE  (t \in recorded => sent[t] > lost[t]) /\ sent[t] <= 1 + lost[t]
  BY DEF MailedOnce, Mail!MailedOnce, Mail!Ids
<1>1. sent[t] \in Nat /\ lost[t] \in Nat
  BY DEF MailInv, MailTypes
<1>2. sent[t] = lost[t] + (IF t \in recorded \/ HasSent(t) THEN 1 ELSE 0)
  BY DEF MailInv, MailsSent
<1> QED
  BY <1>1, <1>2

\* What a worker does of a token before it has inserted the row
LEMMA MailReads ==
  ASSUME MailInv, NEW w \in Requests,
         \/ \E t \in 1..MaxTokens : Mail!Receive(w, t)
         \/ Mail!CheckLatest(w) \/ Mail!Insert(w) \/ Mail!SendFails(w)
  PROVE  MailInv'
<1>1. delivery \in [Requests -> DeliveryRows] /\ delivery[w] \in DeliveryRows
  BY DEF MailInv, MailTypes
<1>2. PICK d \in DeliveryRows :
        /\ delivery' = [delivery EXCEPT ![w] = d]
        /\ d.step # "idle" => d.token \in 1..MaxTokens
        /\ delivery[w].step # "sent" /\ d.step # "sent"
        /\ d.step = "claimed" => /\ d.token \notin recorded
                                /\ \A v \in Requests : ~(Inserted(v) /\ delivery[v].token = d.token)
        /\ UNCHANGED <<recorded, sent, lost>>
  <2>1. CASE \E t \in 1..MaxTokens : Mail!Receive(w, t)
    <3>1. PICK t \in 1..MaxTokens : Mail!Receive(w, t)
      BY <2>1
    <3>2. [step |-> "found", token |-> t] \in DeliveryRows
      BY DEF DeliveryRows
    <3> QED
      BY <3>1, <3>2 DEF Mail!Receive
  <2>2. Mail!Idle \in DeliveryRows /\ Mail!Idle.step = "idle"
    BY DEF Mail!Idle, DeliveryRows
  <2>3. CASE Mail!CheckLatest(w)
    <3>1. /\ [delivery[w] EXCEPT !.step = "latest"] \in DeliveryRows
          /\ [delivery[w] EXCEPT !.step = "latest"].step = "latest"
          /\ [delivery[w] EXCEPT !.step = "latest"].token = delivery[w].token
      BY <1>1 DEF DeliveryRows
    <3>2. /\ delivery[w].step = "found" /\ UNCHANGED <<recorded, sent, lost>>
          /\ \/ delivery' = [delivery EXCEPT ![w] = [delivery[w] EXCEPT !.step = "latest"]]
             \/ delivery' = [delivery EXCEPT ![w] = Mail!Idle]
      BY <2>3 DEF Mail!CheckLatest, Mail!Goto, Mail!End
    <3> QED
      BY <2>2, <3>1, <3>2 DEF MailInv, MailTypes
  <2>4. CASE Mail!SendFails(w)
    BY <2>2, <2>4 DEF Mail!SendFails, Mail!End
  <2>5. CASE Mail!Insert(w)
    <3> DEFINE d == [delivery[w] EXCEPT !.step = "claimed"]
    <3>1. d \in DeliveryRows /\ d.step = "claimed" /\ d.token = delivery[w].token
      BY <1>1 DEF DeliveryRows
    <3>2. /\ delivery[w].step = "latest" /\ UNCHANGED <<recorded, sent, lost>>
          /\ \/ delivery[w].token \notin recorded /\ delivery' = [delivery EXCEPT ![w] = d]
             \/ delivery' = [delivery EXCEPT ![w] = Mail!Idle]
      BY <2>5 DEF Mail!Insert, Mail!Claimed, Mail!Goto, Mail!End
    <3>3. \A v \in Requests : ~(Inserted(v) /\ delivery[v].token = delivery[w].token)
      <4> SUFFICES ASSUME NEW v \in Requests, Inserted(v), delivery[v].token = delivery[w].token
                   PROVE  FALSE
        OBVIOUS
      <4>1. delivery[v] \in [step : {"claimed", "sent"}, token : {delivery[w].token}]
        BY <1>1 DEF Inserted, DeliveryRows
      <4> QED
        BY <2>5, <4>1 DEF Mail!Insert, Mail!Free
    <3> HIDE DEF d
    <3> QED
      BY <2>2, <3>1, <3>2, <3>3 DEF MailInv, MailTypes
  <2> QED
    BY <2>1, <2>3, <2>4, <2>5
<1>3. /\ delivery'[w] = d
      /\ \A v \in Requests : v # w => delivery'[v] = delivery[v]
  BY <1>1, <1>2
<1>4. MailTypes'
  BY <1>2, <1>3 DEF MailInv, MailTypes
<1>5. OneInserts'
  BY <1>2, <1>3 DEF MailInv, OneInserts, Inserted
<1>6. \A t : HasSent(t)' <=> HasSent(t)
  BY <1>2, <1>3 DEF HasSent
<1>7. MailsSent'
  BY <1>2, <1>6 DEF MailInv, MailsSent
<1> QED
  BY <1>4, <1>5, <1>7 DEF MailInv

\* The worker that has inserted the row of a token is the only one, so the mail it
\* sends, commits or loses is the last one of the token
LEMMA MailMoves ==
  ASSUME MailInv, NEW w \in Requests, Mail!Send(w) \/ Mail!Commit(w) \/ Mail!Lose(w)
  PROVE  MailInv'
<1> DEFINE t == delivery[w].token
<1>1. /\ delivery \in [Requests -> DeliveryRows] /\ delivery[w] \in DeliveryRows
      /\ delivery[w].step # "idle" /\ t \in 1..MaxTokens
      /\ sent \in [1..MaxTokens -> Nat] /\ lost \in [1..MaxTokens -> Nat]
  BY DEF MailInv, MailTypes, Mail!Send, Mail!Commit, Mail!Lose
<1>2. Mail!Idle \in DeliveryRows /\ Mail!Idle.step = "idle"
  BY DEF Mail!Idle, DeliveryRows
<1>3. ASSUME Inserted(w)
      PROVE  /\ t \notin recorded
             /\ \A v \in Requests : v # w /\ Inserted(v) => delivery[v].token # t
             /\ delivery[w].step = "sent" => HasSent(t) /\ sent[t] = lost[t] + 1
             /\ delivery[w].step = "claimed" => ~HasSent(t) /\ sent[t] = lost[t]
  BY <1>1, <1>3 DEF MailInv, OneInserts, Inserted, MailsSent, HasSent
<1>4. CASE Mail!Send(w)
  <2> DEFINE d == [delivery[w] EXCEPT !.step = "sent"]
  <2>1. d \in DeliveryRows /\ d.step = "sent" /\ d.token = t
    BY <1>1 DEF DeliveryRows
  <2>2. /\ delivery[w].step = "claimed" /\ delivery' = [delivery EXCEPT ![w] = d]
        /\ sent' = [sent EXCEPT ![t] = @ + 1] /\ UNCHANGED <<recorded, lost>>
    BY <1>4 DEF Mail!Send, Mail!Goto
  <2>3. Inserted(w)
    BY <2>2 DEF Inserted
  <2> HIDE DEF t, d
  <2>4. /\ delivery'[w] = d /\ \A v \in Requests : v # w => delivery'[v] = delivery[v]
        /\ sent'[t] = sent[t] + 1 /\ \A u \in 1..MaxTokens : u # t => sent'[u] = sent[u]
    BY <1>1, <2>2
  <2>5. MailTypes'
    BY <1>1, <2>1, <2>2, <2>4 DEF MailInv, MailTypes
  <2>6. OneInserts'
    BY <1>3, <2>1, <2>2, <2>3, <2>4 DEF MailInv, OneInserts, Inserted, t
  <2>7. ASSUME NEW u \in 1..MaxTokens
        PROVE  sent'[u] = lost[u] + (IF u \in recorded \/ HasSent(u)' THEN 1 ELSE 0)
    <3>1. CASE u = t
      <4>1. HasSent(u)'
        BY <2>1, <2>4, <3>1 DEF HasSent
      <4>2. sent[t] = lost[t] /\ sent'[u] = sent[t] + 1 /\ lost[t] \in Nat
        BY <1>1, <1>3, <2>2, <2>3, <2>4, <3>1 DEF t
      <4> QED
        BY <3>1, <4>1, <4>2
    <3>2. CASE u # t
      <4>1. HasSent(u)' <=> HasSent(u)
        BY <2>1, <2>2, <2>4, <3>2 DEF HasSent, t
      <4> QED
        BY <2>4, <3>2, <4>1 DEF MailInv, MailsSent
    <3> QED
      BY <3>1, <3>2
  <2>8. MailsSent'
    BY <2>2, <2>7 DEF MailsSent
  <2> QED
    BY <2>5, <2>6, <2>8 DEF MailInv
<1>5. ASSUME delivery[w].step = "sent", delivery' = [delivery EXCEPT ![w] = Mail!Idle], UNCHANGED sent,
             \/ recorded' = recorded \cup {t} /\ UNCHANGED lost
             \/ lost' = [lost EXCEPT ![t] = @ + 1] /\ UNCHANGED recorded
      PROVE  MailInv'
  <2>1. Inserted(w)
    BY <1>5 DEF Inserted
  <2> HIDE DEF t
  <2>2. delivery'[w] = Mail!Idle /\ \A v \in Requests : v # w => delivery'[v] = delivery[v]
    BY <1>1, <1>5
  <2>3. MailTypes'
    BY <1>1, <1>2, <1>5, <2>2 DEF MailInv, MailTypes
  <2>4. \A v \in Requests : Inserted(v)' => v # w /\ Inserted(v) /\ delivery[v].token # t
    BY <1>2, <1>3, <2>1, <2>2 DEF Inserted
  <2>5. OneInserts'
    BY <1>5, <2>2, <2>4 DEF MailInv, OneInserts
  <2>6. ASSUME NEW u \in 1..MaxTokens
        PROVE  sent[u] = lost'[u] + (IF u \in recorded' \/ HasSent(u)' THEN 1 ELSE 0)
    <3>1. CASE u = t
      <4>1. ~HasSent(u)'
        <5> SUFFICES ASSUME NEW v \in Requests, delivery'[v].step = "sent", delivery'[v].token = t
                     PROVE  FALSE
          BY <3>1 DEF HasSent
        <5>1. v # w
          BY <1>2, <2>2
        <5> QED
          BY <1>3, <2>1, <2>2, <5>1 DEF Inserted, t
      <4>2. sent[t] = lost[t] + 1 /\ lost[t] \in Nat /\ t \notin recorded
        BY <1>1, <1>3, <1>5, <2>1 DEF t
      <4>3. \/ lost'[t] = lost[t] /\ t \in recorded'
            \/ lost'[t] = lost[t] + 1 /\ t \notin recorded'
        BY <1>1, <1>5, <4>2
      <4> QED
        BY <3>1, <4>1, <4>2, <4>3
    <3>2. CASE u # t
      <4>1. HasSent(u)' <=> HasSent(u)
        <5>1. HasSent(u)' => HasSent(u)
          BY <1>2, <2>2 DEF HasSent
        <5>2. HasSent(u) => HasSent(u)'
          BY <2>2, <3>2 DEF HasSent, t
        <5> QED
          BY <5>1, <5>2
      <4>2. lost'[u] = lost[u] /\ (u \in recorded' <=> u \in recorded)
        BY <1>1, <1>5, <3>2
      <4> QED
        BY <4>1, <4>2 DEF MailInv, MailsSent
    <3> QED
      BY <3>1, <3>2
  <2>7. MailsSent'
    BY <1>5, <2>6 DEF MailsSent
  <2> QED
    BY <2>3, <2>5, <2>7 DEF MailInv
<1>6. ASSUME delivery[w].step # "sent", Mail!Lose(w)
      PROVE  MailInv'
  <2>1. delivery' = [delivery EXCEPT ![w] = Mail!Idle] /\ UNCHANGED <<recorded, sent, lost>>
    BY <1>6 DEF Mail!Lose, Mail!End
  <2>2. delivery'[w] = Mail!Idle /\ \A v \in Requests : v # w => delivery'[v] = delivery[v]
    BY <1>1, <2>1
  <2>3. MailTypes'
    BY <1>1, <1>2, <2>1, <2>2 DEF MailInv, MailTypes
  <2>4. OneInserts'
    BY <1>2, <2>1, <2>2 DEF MailInv, OneInserts, Inserted
  <2>5. \A u : HasSent(u)' <=> HasSent(u)
    BY <1>2, <1>6, <2>2 DEF HasSent
  <2>6. MailsSent'
    BY <2>1, <2>5 DEF MailInv, MailsSent
  <2> QED
    BY <2>3, <2>4, <2>6 DEF MailInv
<1>7. CASE Mail!Commit(w)
  BY <1>5, <1>7 DEF Mail!Commit, Mail!End
<1>8. CASE Mail!Lose(w) /\ delivery[w].step = "sent"
  BY <1>5, <1>8 DEF Mail!Lose, Mail!End
<1> QED
  BY <1>4, <1>6, <1>7, <1>8

LEMMA MailStep ==
  ASSUME MailInv, Mail!Next \/ UNCHANGED mails
  PROVE  MailInv'
<1>1. CASE UNCHANGED <<recorded, sent, lost, delivery>>
  BY <1>1 DEF MailInv, MailTypes, OneInserts, MailsSent, Inserted, HasSent
<1> QED
  BY <1>1, MailReads, MailMoves
     DEF Mail!Next, Mail!Ids, mails, Mail!IssueToken, Mail!Consume

\* A token that is on record was mailed, and it is mailed twice only when the
\* worker that had sent it was lost before its commit, however many deliveries of
\* its event run at once.
THEOREM TokensMailedOnce == AccountsSpec => []MailedOnce
<1>1. AccountsInit => MailInv
  BY MailInit DEF AccountsInit
<1>2. MailInv /\ [AccountsNext]_<<vars, mails>> => MailInv'
  BY MailStep DEF AccountsNext
<1> QED
  BY <1>1, <1>2, MailedOnceHolds, PTL DEF AccountsSpec

-----------------------------------------------------------------------------
(* Sessions: what a step does *)

RowFields     == {"family", "parent", "state", "revoked", "epoch", "since"}
RequestFields == {"op", "step", "id", "known", "read", "ends"}
AccountFields == {"exists", "verified", "password", "google", "epoch", "resets"}

Shapes ==
  /\ DOMAIN account = AccountFields
  /\ DOMAIN session = Rows /\ \A r \in Rows : DOMAIN session[r] = RowFields
  /\ token \in [Tokens -> ActionTokens]
  /\ DOMAIN request = Requests /\ \A q \in Requests : DOMAIN request[q] = RequestFields

\* A row that is not the one inserted: its state and revocation go one way
Kept(r) ==
  /\ session'[r].family = session[r].family /\ session'[r].parent = session[r].parent
  /\ session'[r].epoch = session[r].epoch   /\ session'[r].since = session[r].since
  /\ session[r].state = "used" => session'[r].state = "used"
  /\ session'[r].state = "fresh" => session[r].state = "fresh"
  /\ session[r].revoked => session'[r].revoked
Inserts(n) == session[n] = NoSession /\ \A r \in Rows : r # n => Kept(r)

Opens(q, n) ==
  \E a \in {request[q].read, account'} : Inserts(n) /\ session'[n] = NewFamily(n, a)
Follows(q, n) ==
  /\ request[q].op = "refresh" /\ request[q].step = "commit"
  /\ session'[n] = Successor(request[q].id, request[q].read)
  /\ session'[request[q].id].state = "used"
  /\ Inserts(n) /\ UNCHANGED account

OthersStay(q) == \A p \in Requests : p # q => request'[p] = request[p]
Left(q)       == request'[q] = Idle

\* What a request holds once it has presented what it was sent
Presented(q) ==
  /\ request'[q].read = NoAccount /\ UNCHANGED session
  /\ request'[q].op = "refresh" =>
       /\ request'[q].id \in Rows /\ session[request'[q].id].family # None
       /\ \/ request'[q].step = "reuse"
          \/ /\ request'[q].step = "account"
             /\ session[request'[q].id].state = "fresh" /\ ~session[request'[q].id].revoked
SameSubject(q) ==
  /\ request'[q].op = request[q].op /\ request'[q].id = request[q].id
  /\ request'[q].known = request[q].known
HasRead(q) ==
  /\ request[q].step = "account" /\ SameSubject(q) /\ request'[q].read = account
  /\ request[q].op = "refresh" =>
       request'[q].step = "commit" /\ session[request[q].id].epoch = account.epoch
WentOn(q) ==
  request[q].step \in {"password", "rows"} /\ SameSubject(q) /\ request'[q].read = request[q].read

SameEpoch == account'.epoch = account.epoch /\ account'.resets = account.resets
EndsAll(q) ==
  /\ account'.epoch = request[q].read.epoch + 1 /\ account'.resets = account.resets + 1

Presents(q) ==
  \/ \E r \in Rows : PresentRefresh(q, r) \/ PresentLogout(q, r)
  \/ \E k \in Tokens : PresentToken(q, k)
  \/ \E p \in 1 .. MaxResets + 1 : PresentPassword(q, p)
  \/ PresentGoogle(q)
  \/ \E op \in {"register", "resend", "forgot"} : PresentEmail(q, op)

LEMMA RequestUpdate ==
  ASSUME DOMAIN request = Requests, NEW q \in Requests, NEW c, request' = [request EXCEPT ![q] = c]
  PROVE  DOMAIN request' = Requests /\ request'[q] = c /\ OthersStay(q)
BY DEF OthersStay

LEMMA IdleFields ==
  /\ DOMAIN Idle = RequestFields /\ Idle.op = None /\ Idle.step = "idle" /\ Idle.id = None
  /\ Idle.known = 0 /\ Idle.read = NoAccount
BY DEF Idle, RequestFields

LEMMA PresentMoves ==
  ASSUME Shapes, NEW q \in Requests, Presents(q)
  PROVE  Shapes' /\ UNCHANGED <<account, session>> /\ OthersStay(q) /\ Presented(q)
<1>1. UNCHANGED <<account, session, token>>
  BY DEF Presents, PresentRefresh, PresentLogout, PresentToken, PresentPassword, PresentGoogle,
         PresentEmail
<1>2. \A c : Start(q, c) => request' = [request EXCEPT ![q] = c]
  BY DEF Start
<1>3. DOMAIN request = Requests
  BY DEF Shapes
<1>4. ASSUME NEW c, Start(q, c), DOMAIN c = RequestFields, c.read = NoAccount,
             c.op = "refresh" => /\ c.id \in Rows /\ session[c.id].family # None
                                 /\ \/ c.step = "reuse"
                                    \/ c.step = "account" /\ session[c.id].state = "fresh"
                                                         /\ ~session[c.id].revoked
      PROVE  Shapes' /\ OthersStay(q) /\ Presented(q)
  <2>1. request' = [request EXCEPT ![q] = c]
    BY <1>2, <1>4
  <2>2. DOMAIN request' = Requests /\ request'[q] = c /\ OthersStay(q)
    BY <1>3, <2>1, RequestUpdate
  <2>4. Presented(q)
    BY <1>1, <1>4, <2>2 DEF Presented
  <2> QED
    BY <1>1, <1>4, <2>2, <2>4 DEF Shapes, OthersStay
<1>5. CASE \E r \in Rows : PresentRefresh(q, r)
  <2>1. PICK r \in Rows : PresentRefresh(q, r)
    BY <1>5
  <2> DEFINE c == [Idle EXCEPT !.op = "refresh", !.id = r,
                               !.step = IF Acceptable(r) THEN "account" ELSE "reuse"]
  <2>2. /\ DOMAIN c = RequestFields /\ c.op = "refresh" /\ c.id = r /\ c.read = NoAccount
        /\ c.step = IF Acceptable(r) THEN "account" ELSE "reuse"
    BY IdleFields DEF RequestFields
  <2>3. Start(q, c)
    BY <2>1 DEF PresentRefresh
  <2> HIDE DEF c
  <2>4. session[r].family # None /\ (Acceptable(r) => session[r].state = "fresh" /\ ~session[r].revoked)
    BY <2>1 DEF PresentRefresh, Acceptable
  <2> QED
    BY <1>1, <1>4, <2>2, <2>3, <2>4
<1>6. CASE \E r \in Rows : PresentLogout(q, r)
  <2>1. PICK r \in Rows : PresentLogout(q, r)
    BY <1>6
  <2> DEFINE c == [Idle EXCEPT !.op = "logout", !.id = session[r].family, !.step = "rows"]
  <2>2. DOMAIN c = RequestFields /\ c.op = "logout" /\ c.read = NoAccount
    BY IdleFields DEF RequestFields
  <2>3. Start(q, c)
    BY <2>1 DEF PresentLogout
  <2> HIDE DEF c
  <2> QED
    BY <1>1, <1>4, <2>2, <2>3
<1>7. CASE \E k \in Tokens : PresentToken(q, k)
  <2>1. PICK k \in Tokens : PresentToken(q, k)
    BY <1>7
  <2> DEFINE c == [Idle EXCEPT !.op = token[k].purpose, !.id = k, !.step = "account"]
  <2>2. /\ DOMAIN c = RequestFields /\ c.op = token[k].purpose /\ c.step = "account"
        /\ c.read = NoAccount
    BY IdleFields DEF RequestFields
  <2>3. Start(q, c)
    BY <2>1 DEF PresentToken
  <2> HIDE DEF c
  <2>4. token[k].purpose \in {None, "verify", "reset"} /\ None = "none"
    BY DEF Shapes, ActionTokens, None
  <2> QED
    BY <1>1, <1>4, <2>2, <2>3, <2>4
<1>8. CASE \E p \in 1 .. MaxResets + 1 : PresentPassword(q, p)
  <2>1. PICK p \in 1 .. MaxResets + 1 : PresentPassword(q, p)
    BY <1>8
  <2> DEFINE c == [Idle EXCEPT !.op = "login", !.known = p, !.step = "account"]
  <2>2. DOMAIN c = RequestFields /\ c.op = "login" /\ c.read = NoAccount
    BY IdleFields DEF RequestFields
  <2>3. Start(q, c)
    BY <2>1 DEF PresentPassword
  <2> HIDE DEF c
  <2> QED
    BY <1>1, <1>4, <2>2, <2>3
<1>9. CASE PresentGoogle(q)
  <2> DEFINE c == [Idle EXCEPT !.op = "google", !.step = "account",
                               !.known = IF account.google THEN 1 ELSE 0]
  <2>1. /\ DOMAIN c = RequestFields /\ c.op = "google" /\ c.step = "account" /\ c.read = NoAccount
        /\ c.known = IF account.google THEN 1 ELSE 0
    BY IdleFields DEF RequestFields
  <2>2. Start(q, c)
    BY <1>9 DEF PresentGoogle
  <2> HIDE DEF c
  <2> QED
    BY <1>1, <1>4, <2>1, <2>2
<1>10. CASE \E op \in {"register", "resend", "forgot"} : PresentEmail(q, op)
  <2>1. PICK op \in {"register", "resend", "forgot"} : PresentEmail(q, op)
    BY <1>10
  <2> DEFINE c == [Idle EXCEPT !.op = op, !.step = "commit"]
  <2>2. DOMAIN c = RequestFields /\ c.op = op /\ c.read = NoAccount
    BY IdleFields DEF RequestFields
  <2>3. Start(q, c)
    BY <2>1 DEF PresentEmail
  <2> HIDE DEF c
  <2> QED
    BY <1>1, <1>4, <2>1, <2>2, <2>3
<1> QED
  BY <1>1, <1>5, <1>6, <1>7, <1>8, <1>9, <1>10 DEF Presents

\* Reads, and requests that end without a write
LEMMA RequestMoves ==
  ASSUME Shapes, NEW q \in Requests,
         ReadAccount(q) \/ CheckPassword(q) \/ SelectRows(q) \/ Reuse(q) \/ Rollback(q)
  PROVE  /\ Shapes' /\ UNCHANGED <<account, session>> /\ OthersStay(q)
         /\ HasRead(q) \/ WentOn(q) \/ Left(q)
<1>1. UNCHANGED <<account, session, token>> /\ DOMAIN request = Requests
  BY DEF Shapes, ReadAccount, CheckPassword, SelectRows, Reuse, Rollback
<1>2. DOMAIN request[q] = RequestFields /\ DOMAIN Idle = RequestFields
  BY IdleFields DEF Shapes
<1>3. ASSUME NEW c, request' = [request EXCEPT ![q] = c], DOMAIN c = RequestFields
      PROVE  Shapes' /\ OthersStay(q) /\ request'[q] = c
  <2>1. DOMAIN request' = Requests /\ request'[q] = c /\ OthersStay(q)
    BY <1>1, <1>3, RequestUpdate
  <2> QED
    BY <1>1, <1>3, <2>1 DEF Shapes, OthersStay
<1>4. CASE Refuse(q)
  BY <1>1, <1>2, <1>3, <1>4 DEF Refuse, Left
<1>5. CASE ReadAccount(q) /\ ~Refuse(q)
  <2>1. PICK next :
          /\ request[q].step = "account"
          /\ request' = [request EXCEPT ![q] = [request[q] EXCEPT !.read = account, !.step = next]]
          /\ request[q].op = "refresh" => next = "commit" /\ session[request[q].id].epoch = account.epoch
    <3> DEFINE Next1 == CASE request[q].op = "refresh" ->
                               IF session[request[q].id].epoch = account.epoch THEN "commit" ELSE "idle"
                          [] request[q].op = "login"  -> IF account.exists THEN "password" ELSE "idle"
                          [] request[q].op = "verify" -> "commit"
                          [] request[q].op = "reset"  -> "rows"
                          [] request[q].op = "google" ->
                               IF request[q].known = 1 \/ ~account.exists THEN "commit"
                               ELSE IF account.verified THEN "idle" ELSE "rows"
    <3>1. /\ request[q].step = "account" /\ Next1 # "idle"
          /\ request' = [request EXCEPT ![q].read = account, ![q].step = Next1]
      BY <1>5 DEF ReadAccount
    <3>2. request[q].op = "refresh" => Next1 = "commit" /\ session[request[q].id].epoch = account.epoch
      BY <3>1
    <3> HIDE DEF Next1
    <3>3. request' = [request EXCEPT ![q] = [request[q] EXCEPT !.read = account, !.step = Next1]]
      BY <1>1, <3>1
    <3> QED
      BY <3>1, <3>2, <3>3
  <2> DEFINE c == [request[q] EXCEPT !.read = account, !.step = next]
  <2>2. /\ DOMAIN c = RequestFields /\ c.read = account /\ c.step = next
        /\ c.op = request[q].op /\ c.id = request[q].id /\ c.known = request[q].known
    BY <1>2 DEF RequestFields
  <2>3. request' = [request EXCEPT ![q] = c]
    BY <2>1
  <2> HIDE DEF c
  <2> QED
    BY <1>1, <1>3, <2>1, <2>2, <2>3 DEF HasRead, SameSubject
<1>6. ASSUME request[q].step \in {"password", "rows"}, NEW c, request' = [request EXCEPT ![q] = c],
             DOMAIN c = RequestFields, c.op = request[q].op, c.id = request[q].id,
             c.known = request[q].known, c.read = request[q].read
      PROVE  Shapes' /\ OthersStay(q) /\ WentOn(q)
  BY <1>3, <1>6 DEF WentOn, SameSubject
<1>7. CASE CheckPassword(q) /\ ~Refuse(q)
  <2> DEFINE c == [request[q] EXCEPT !.step = "commit"]
  <2>1. /\ DOMAIN c = RequestFields /\ c.op = request[q].op /\ c.id = request[q].id
        /\ c.known = request[q].known /\ c.read = request[q].read
    BY <1>2 DEF RequestFields
  <2>2. request[q].step = "password" /\ request' = [request EXCEPT ![q] = c]
    BY <1>7 DEF CheckPassword, Go
  <2> HIDE DEF c
  <2> QED
    BY <1>1, <1>6, <2>1, <2>2
<1>8. CASE SelectRows(q)
  <2> DEFINE e == Unrevoked(IF request[q].op = "logout" THEN Family(request[q].id) ELSE Rows)
             c == [request[q] EXCEPT !.step = "commit", !.ends = e]
  <2> HIDE DEF e
  <2>1. /\ DOMAIN c = RequestFields /\ c.op = request[q].op /\ c.id = request[q].id
        /\ c.known = request[q].known /\ c.read = request[q].read
    BY <1>2 DEF RequestFields
  <2>2. /\ request[q].step = "rows"
        /\ request' = [request EXCEPT ![q].step = "commit", ![q].ends = e]
    BY <1>8 DEF SelectRows, e
  <2>3. request' = [request EXCEPT ![q] = c]
    BY <1>1, <2>2
  <2> HIDE DEF c
  <2> QED
    BY <1>1, <1>6, <2>1, <2>2, <2>3
<1> QED
  BY <1>1, <1>4, <1>5, <1>7, <1>8 DEF Reuse, Rollback

Commit(q) ==
  \/ \E k \in Tokens : CommitRegister(q, k) \/ CommitEmail(q, k)
  \/ CommitVerify(q) \/ CommitReset(q) \/ CommitLogout(q)
  \/ \E n \in Rows : \/ CommitLogin(q, n) \/ CommitRefresh(q, n)
                     \/ CommitGoogleKnown(q, n) \/ CommitGoogleNew(q, n)
                     \/ CommitGoogleLink(q, n)

SessionShape ==
  DOMAIN session = Rows /\ \A r \in Rows : DOMAIN session[r] = RowFields
RowsMove(q) ==
  (\A r \in Rows : Kept(r)) \/ (\E n \in Rows : Opens(q, n) \/ Follows(q, n))

LEMMA NewRowFields ==
  ASSUME NEW n, NEW a
  PROVE  /\ DOMAIN NewFamily(n, a) = RowFields
         /\ NewFamily(n, a).family = n /\ NewFamily(n, a).parent = None
         /\ NewFamily(n, a).state = "fresh" /\ ~NewFamily(n, a).revoked
         /\ NewFamily(n, a).epoch = a.epoch /\ NewFamily(n, a).since = a.resets
BY DEF NewFamily, RowFields

LEMMA SuccessorFields ==
  ASSUME Shapes, NEW r \in Rows, NEW a
  PROVE  /\ DOMAIN Successor(r, a) = RowFields
         /\ Successor(r, a).family = session[r].family /\ Successor(r, a).parent = r
         /\ Successor(r, a).state = "fresh" /\ ~Successor(r, a).revoked
         /\ Successor(r, a).epoch = a.epoch /\ Successor(r, a).since = session[r].since
BY DEF Successor, RowFields, Shapes

LEMMA RevokeKeeps ==
  ASSUME Shapes, NEW rows, NEW r \in Rows
  PROVE  /\ DOMAIN Revoke(rows) = Rows /\ DOMAIN Revoke(rows)[r] = RowFields
         /\ Revoke(rows)[r].family = session[r].family /\ Revoke(rows)[r].parent = session[r].parent
         /\ Revoke(rows)[r].epoch = session[r].epoch   /\ Revoke(rows)[r].since = session[r].since
         /\ Revoke(rows)[r].state = session[r].state
         /\ session[r].revoked => Revoke(rows)[r].revoked
BY DEF Revoke, RowFields, Shapes

LEMMA RowsRevoked ==
  ASSUME Shapes, NEW rows, session' = Revoke(rows)
  PROVE  SessionShape' /\ \A r \in Rows : Kept(r)
<1>1. DOMAIN session' = Rows
  BY DEF Revoke
<1>2. ASSUME NEW r \in Rows
      PROVE  DOMAIN session'[r] = RowFields /\ Kept(r)
  <2> DEFINE s == Revoke(rows)[r]
  <2>1. /\ DOMAIN s = RowFields /\ s.family = session[r].family /\ s.parent = session[r].parent
        /\ s.epoch = session[r].epoch /\ s.since = session[r].since /\ s.state = session[r].state
        /\ session[r].revoked => s.revoked
    BY RevokeKeeps
  <2>2. session'[r] = s
    OBVIOUS
  <2> HIDE DEF s
  <2> QED
    BY <2>1, <2>2 DEF Kept
<1> QED
  BY <1>1, <1>2 DEF SessionShape

LEMMA RowsOpened ==
  ASSUME Shapes, NEW q \in Requests, NEW n \in Rows, NEW a \in {request[q].read, account'},
         session[n] = NoSession,
         \/ session' = [session EXCEPT ![n] = NewFamily(n, a)]
         \/ \E rows : session' = [Revoke(rows) EXCEPT ![n] = NewFamily(n, a)]
  PROVE  SessionShape' /\ Opens(q, n)
<1>1. /\ DOMAIN session' = Rows /\ session'[n] = NewFamily(n, a)
      /\ \A r \in Rows : r # n => DOMAIN session'[r] = RowFields /\ Kept(r)
  <2>1. CASE session' = [session EXCEPT ![n] = NewFamily(n, a)]
    BY <2>1 DEF Kept, Shapes
  <2>2. ASSUME NEW rows, session' = [Revoke(rows) EXCEPT ![n] = NewFamily(n, a)]
        PROVE  /\ DOMAIN session' = Rows /\ session'[n] = NewFamily(n, a)
               /\ \A r \in Rows : r # n => session'[r] = Revoke(rows)[r]
    BY <2>2, RevokeKeeps
  <2> QED
    BY <2>1, <2>2, RevokeKeeps DEF Kept
<1> QED
  BY <1>1, NewRowFields DEF SessionShape, Opens, Inserts

LEMMA RowsFollow ==
  ASSUME Shapes, NEW q \in Requests, NEW n \in Rows, NEW r \in Rows, session[n] = NoSession,
         request[q].op = "refresh", request[q].step = "commit", request[q].id = r,
         session[r].family # None, session' = Rotate(r, n, request[q].read), UNCHANGED account
  PROVE  SessionShape' /\ Follows(q, n)
<1>1. r # n
  BY DEF NoSession
<1>2. session' = [session EXCEPT ![r] = [session[r] EXCEPT !.state = "used"],
                                 ![n] = Successor(r, request[q].read)]
  BY DEF Rotate, Shapes
<1>3. /\ DOMAIN session' = Rows /\ session'[n] = Successor(r, request[q].read)
      /\ session'[r] = [session[r] EXCEPT !.state = "used"]
      /\ \A s \in Rows : s # r /\ s # n => session'[s] = session[s]
  BY <1>1, <1>2 DEF Shapes
<1>4. DOMAIN session'[r] = RowFields /\ session'[r].state = "used" /\ Kept(r)
  BY <1>3 DEF Shapes, RowFields, Kept
<1>5. ASSUME NEW s \in Rows, s # n
      PROVE  DOMAIN session'[s] = RowFields /\ Kept(s)
  BY <1>3, <1>4, <1>5 DEF Shapes, Kept
<1>6. DOMAIN session'[n] = RowFields
  BY <1>3, SuccessorFields
<1>7. SessionShape'
  BY <1>3, <1>5, <1>6 DEF SessionShape
<1>8. Follows(q, n)
  BY <1>3, <1>4, <1>5 DEF Follows, Inserts
<1> QED
  BY <1>7, <1>8

LEMMA CommitMoves ==
  ASSUME Shapes, NEW q \in Requests, Commit(q),
         request[q].op = "refresh" => request[q].id \in Rows /\ session[request[q].id].family # None
  PROVE  /\ Shapes' /\ OthersStay(q) /\ Left(q)
         /\ SameEpoch \/ EndsAll(q)
         /\ RowsMove(q)
<1>1. request[q].step = "commit" /\ Refuse(q)
  BY DEF Commit, Commits, CommitRegister, CommitEmail, CommitVerify, CommitReset, CommitLogout,
         CommitLogin, CommitRefresh, CommitGoogleKnown, CommitGoogleNew, CommitGoogleLink
<1>2. /\ DOMAIN request' = Requests /\ OthersStay(q) /\ Left(q)
      /\ \A p \in Requests : DOMAIN request'[p] = RequestFields
  BY <1>1, RequestUpdate, IdleFields DEF Refuse, Shapes, OthersStay, Left
<1>3. token' \in [Tokens -> ActionTokens]
  <2>1. ASSUME NEW k \in Tokens, NEW purpose \in {"verify", "reset"}, NewToken(k, purpose)
        PROVE  token' \in [Tokens -> ActionTokens]
    <3>1. [purpose |-> purpose, state |-> "open"] \in ActionTokens
      BY DEF ActionTokens
    <3> QED
      BY <2>1, <3>1 DEF NewToken, Shapes
  <2>2. \A k : token' = [token EXCEPT ![k].state = "spent"] => token' \in [Tokens -> ActionTokens]
    BY DEF Shapes, ActionTokens
  <2> QED
    BY <2>1, <2>2 DEF Shapes, Commit, CommitRegister, CommitEmail, CommitVerify, CommitReset,
         CommitLogout, CommitLogin, CommitRefresh, CommitGoogleKnown, CommitGoogleNew, CommitGoogleLink
<1>4. DOMAIN account' = AccountFields /\ (SameEpoch \/ EndsAll(q))
  <2>1. CASE UNCHANGED account
    BY <2>1 DEF Shapes, SameEpoch
  <2>2. CASE \E k \in Tokens : CommitRegister(q, k)
    BY <2>2 DEF CommitRegister, Shapes, SameEpoch, AccountFields
  <2>3. CASE CommitVerify(q)
    BY <2>3 DEF CommitVerify, Shapes, SameEpoch, AccountFields
  <2>4. CASE CommitReset(q)
    BY <1>1, <2>4 DEF CommitReset, Commits, Shapes, EndsAll, AccountFields, NextEpoch
  <2>5. CASE \E n \in Rows : CommitGoogleNew(q, n)
    BY <2>5 DEF CommitGoogleNew, Shapes, SameEpoch, AccountFields
  <2>6. CASE \E n \in Rows : CommitGoogleLink(q, n)
    BY <1>1, <2>6 DEF CommitGoogleLink, Commits, Shapes, EndsAll, AccountFields, NextEpoch
  <2> QED
    BY <2>1, <2>2, <2>3, <2>4, <2>5, <2>6
       DEF Commit, CommitEmail, CommitLogout, CommitLogin, CommitRefresh, CommitGoogleKnown
<1>5. SessionShape' /\ RowsMove(q)
  <2>1. CASE UNCHANGED session
    BY <2>1 DEF Shapes, SessionShape, RowsMove, Kept
  <2>2. CASE CommitReset(q) \/ CommitLogout(q)
    BY <2>2, RowsRevoked DEF CommitReset, CommitLogout, RowsMove
  <2>3. CASE \E n \in Rows : CommitLogin(q, n) \/ CommitGoogleKnown(q, n)
    BY <2>3, RowsOpened DEF CommitLogin, CommitGoogleKnown, RowsMove
  <2>4. CASE \E n \in Rows : CommitGoogleNew(q, n)
    <3>1. PICK n \in Rows : CommitGoogleNew(q, n)
      BY <2>4
    <3>2. account'.epoch = account.epoch /\ account'.resets = account.resets
      BY <3>1 DEF CommitGoogleNew, Shapes, AccountFields
    <3>3. NewFamily(n, account) = NewFamily(n, account')
      BY <3>2 DEF NewFamily
    <3> QED
      BY <3>1, <3>3, RowsOpened DEF CommitGoogleNew, RowsMove
  <2>5. CASE \E n \in Rows : CommitGoogleLink(q, n)
    <3>1. PICK n \in Rows : CommitGoogleLink(q, n)
      BY <2>5
    <3>2. /\ session[n] = NoSession
          /\ session' = [Revoke(request[q].ends) EXCEPT ![n] = NewFamily(n, account')]
      BY <3>1, Zenon DEF CommitGoogleLink
    <3>3. SessionShape' /\ Opens(q, n)
      BY <3>2, RowsOpened
    <3> QED
      BY <3>3 DEF RowsMove
  <2>6. CASE \E n \in Rows : CommitRefresh(q, n)
    BY <1>1, <2>6, RowsFollow DEF CommitRefresh, Commits, RowsMove
  <2> QED
    BY <2>1, <2>2, <2>3, <2>4, <2>5, <2>6 DEF Commit, CommitRegister, CommitEmail, CommitVerify
<1> QED
  BY <1>2, <1>3, <1>4, <1>5 DEF Shapes, SessionShape

-----------------------------------------------------------------------------
(* Sessions: the rows are linked, whatever the requests read *)

\* A row's family is named after the row that opened it, and is that of its parent
Linked(r) ==
  /\ session[r].family \in Rows \cup {None} /\ session[r].parent \in Rows \cup {None}
  /\ session[r].family # None => session[session[r].family].family = session[r].family
  /\ session[r].parent # None =>
       /\ session[r].family # None
       /\ session[session[r].parent].state = "used"
       /\ session[session[r].parent].family = session[r].family
       /\ session[session[r].parent].epoch = session[r].epoch

\* A refresh goes on with the epoch of the token it presented
Refreshing(q) ==
  request[q].op = "refresh" =>
    /\ request[q].id \in Rows /\ session[request[q].id].family # None
    /\ request[q].step \in {"account", "reuse", "commit"}
    /\ request[q].step = "commit" => request[q].read.epoch = session[request[q].id].epoch

SessionInv ==
  /\ Shapes
  /\ \A r \in Rows : Linked(r)
  /\ \A q \in Requests : Refreshing(q)

TimePassed  == UNCHANGED <<account, request>> /\ \A r \in Rows : Kept(r)
Waited(q)   == /\ OthersStay(q) /\ UNCHANGED <<account, session>>
               /\ Presented(q) \/ HasRead(q) \/ WentOn(q) \/ Left(q)
Committed(q) == OthersStay(q) /\ Left(q) /\ (SameEpoch \/ EndsAll(q)) /\ RowsMove(q)

LEMMA SessionInit == Init => SessionInv
<1> SUFFICES ASSUME Init
             PROVE  SessionInv
  OBVIOUS
<1>1. NoToken \in ActionTokens
  BY DEF NoToken, ActionTokens
<1>2. DOMAIN NoSession = RowFields /\ NoSession.family = None /\ NoSession.parent = None
  BY DEF NoSession, RowFields
<1>3. Shapes
  BY <1>1, <1>2, IdleFields DEF Init, Shapes, NoAccount, AccountFields
<1>4. None # "refresh"
  BY DEF None
<1> QED
  BY <1>2, <1>3, <1>4, IdleFields DEF Init, SessionInv, Linked, Refreshing

LEMMA StepMoves ==
  ASSUME SessionInv, Next \/ UNCHANGED vars
  PROVE  Shapes' /\ (TimePassed \/ \E q \in Requests : Waited(q) \/ Committed(q))
<1>1. CASE UNCHANGED vars
  BY <1>1 DEF vars, SessionInv, Shapes, TimePassed, Kept
<1>2. CASE \E k \in Tokens : ExpireToken(k)
  <2>1. UNCHANGED <<account, session, request>> /\ token' \in [Tokens -> ActionTokens]
    BY <1>2 DEF ExpireToken, SessionInv, Shapes, ActionTokens
  <2> QED
    BY <2>1 DEF SessionInv, Shapes, TimePassed, Kept
<1>3. CASE \E r \in Rows : ExpireSession(r)
  <2>1. PICK r \in Rows : ExpireSession(r)
    BY <1>3
  <2>2. /\ UNCHANGED <<account, token, request>> /\ session[r].state = "fresh"
        /\ session' = [session EXCEPT ![r] = [session[r] EXCEPT !.state = "expired"]]
    BY <2>1 DEF ExpireSession
  <2> DEFINE s == [session[r] EXCEPT !.state = "expired"]
  <2>3. /\ DOMAIN s = RowFields /\ s.family = session[r].family /\ s.parent = session[r].parent
        /\ s.epoch = session[r].epoch /\ s.since = session[r].since /\ s.state = "expired"
        /\ s.revoked = session[r].revoked
    BY DEF SessionInv, Shapes, RowFields
  <2> HIDE DEF s
  <2>4. ASSUME NEW n \in Rows
        PROVE  DOMAIN session'[n] = RowFields /\ Kept(n)
    BY <2>2, <2>3 DEF SessionInv, Shapes, Kept, s
  <2>5. DOMAIN session' = Rows
    BY <2>2 DEF SessionInv, Shapes
  <2> QED
    BY <2>2, <2>4, <2>5 DEF SessionInv, Shapes, TimePassed
<1>4. ASSUME NEW q \in Requests, Presents(q)
      PROVE  Shapes' /\ Waited(q)
  BY <1>4, PresentMoves DEF SessionInv, Waited
<1>5. ASSUME NEW q \in Requests,
             ReadAccount(q) \/ CheckPassword(q) \/ SelectRows(q) \/ Reuse(q) \/ Rollback(q)
      PROVE  Shapes' /\ Waited(q)
  BY <1>5, RequestMoves DEF SessionInv, Waited
<1>6. ASSUME NEW q \in Requests, Commit(q)
      PROVE  Shapes' /\ Committed(q)
  <2>1. request[q].op = "refresh" => request[q].id \in Rows /\ session[request[q].id].family # None
    BY DEF SessionInv, Refreshing
  <2> QED
    BY <1>6, <2>1, CommitMoves DEF SessionInv, Committed
<1>7. ASSUME Next
      PROVE  \/ \E k \in Tokens : ExpireToken(k)
             \/ \E r \in Rows : ExpireSession(r)
             \/ \E q \in Requests :
                  \/ Presents(q) \/ Commit(q)
                  \/ ReadAccount(q) \/ CheckPassword(q) \/ SelectRows(q) \/ Reuse(q) \/ Rollback(q)
  BY <1>7 DEF Next, Presents, Commit
<1> QED
  BY <1>1, <1>2, <1>3, <1>4, <1>5, <1>6, <1>7

\* A row that exists keeps its family and its epoch
LEMMA RowsStay ==
  ASSUME SessionInv, NEW q \in Requests, TimePassed \/ Waited(q) \/ Committed(q),
         NEW r \in Rows, session[r].family # None
  PROVE  Kept(r)
BY DEF TimePassed, Waited, Committed, RowsMove, Opens, Follows, Inserts, NoSession, Kept

LEMMA LinksStep ==
  ASSUME SessionInv, NEW q \in Requests, TimePassed \/ Waited(q) \/ Committed(q),
         NEW r \in Rows
  PROVE  Linked(r)'
<1>1. None \notin Rows /\ "used" # None
  BY AuthConstants DEF None
<1>2. CASE Kept(r)
  <2>1. Linked(r) /\ \A s \in Rows : session[s].family # None => Kept(s)
    BY RowsStay DEF SessionInv
  <2>2. session[r].parent # None =>
          session[r].parent \in Rows /\ session[session[r].parent].family # None
    BY <2>1 DEF Linked
  <2>3. session[r].family # None =>
          session[r].family \in Rows /\ session[session[r].family].family # None
    BY <2>1 DEF Linked
  <2> QED
    BY <1>2, <2>1, <2>2, <2>3 DEF Linked, Kept
<1>3. CASE Opens(q, r)
  BY <1>1, <1>3, NewRowFields DEF Opens, Linked
<1>4. CASE Follows(q, r)
  <2> DEFINE p == request[q].id
  <2>1. /\ p \in Rows /\ session[p].family # None
        /\ request[q].read.epoch = session[p].epoch
    BY <1>4 DEF Follows, SessionInv, Refreshing
  <2>2. p # r /\ Kept(p) /\ session'[p].state = "used"
    BY <1>4, <2>1 DEF Follows, Inserts, NoSession
  <2>3. Linked(p) /\ session[p].family \in Rows /\ Kept(session[p].family)
    BY <2>1, RowsStay DEF SessionInv, Linked
  <2>4. /\ session'[r].family = session[p].family /\ session'[r].parent = p
        /\ session'[r].epoch = session[p].epoch
    BY <1>4, <2>1, SuccessorFields DEF Follows, SessionInv
  <2> HIDE DEF p
  <2> QED
    BY <2>1, <2>2, <2>3, <2>4 DEF Linked, Kept
<1> QED
  BY <1>2, <1>3, <1>4 DEF TimePassed, Waited, Committed, RowsMove, Inserts, Opens, Follows, Kept

LEMMA RefreshingStep ==
  ASSUME SessionInv, NEW q \in Requests, TimePassed \/ Waited(q) \/ Committed(q),
         NEW p \in Requests
  PROVE  Refreshing(p)'
<1>1. None # "refresh"
  BY DEF None
<1>2. CASE request'[p] = request[p]
  <2>1. request[p].op = "refresh" => Refreshing(p) /\ Kept(request[p].id)
    BY RowsStay DEF SessionInv, Refreshing
  <2> QED
    BY <1>2, <2>1 DEF Refreshing, Kept
<1>3. CASE Presented(p)
  BY <1>3 DEF Presented, Refreshing
<1>4. CASE HasRead(p) /\ UNCHANGED session
  BY <1>4 DEF HasRead, SameSubject, SessionInv, Refreshing
<1>5. CASE WentOn(p)
  BY <1>5 DEF WentOn, SameSubject, SessionInv, Refreshing
<1>6. CASE Left(p)
  BY <1>1, <1>6, IdleFields DEF Left, Refreshing
<1> QED
  BY <1>2, <1>3, <1>4, <1>5, <1>6 DEF TimePassed, Waited, Committed, OthersStay

LEMMA SessionStep ==
  ASSUME SessionInv, Next \/ UNCHANGED vars
  PROVE  SessionInv'
<1>1. Shapes'
  BY StepMoves
<1>2. CASE \E q \in Requests : TimePassed \/ Waited(q) \/ Committed(q)
  BY <1>1, <1>2, LinksStep, RefreshingStep DEF SessionInv
<1>3. CASE TimePassed /\ Requests = {}
  <2>1. ASSUME NEW r \in Rows
        PROVE  Linked(r)'
    BY <1>3, AuthConstants DEF TimePassed, SessionInv, Linked, Kept
  <2> QED
    BY <1>1, <1>3, <2>1 DEF SessionInv
<1> QED
  BY <1>2, <1>3, StepMoves

LEMMA SessionsHold == AccountsSpec => []SessionInv
<1>1. AccountsInit => SessionInv
  BY SessionInit DEF AccountsInit
<1>2. SessionInv /\ [AccountsNext]_<<vars, mails>> => SessionInv'
  BY SessionStep DEF AccountsNext
<1> QED
  BY <1>1, <1>2, PTL DEF AccountsSpec

\* A refresh token with a successor is used up, and each successor is of its family
\* and its epoch, whatever the requests that presented it had read.  Two refreshes
\* of one token at once still leave it two successors.
THEOREM RefreshTokensChain == AccountsSpec => []RotationChain
<1>1. SessionInv => RotationChain
  BY DEF SessionInv, Linked, RotationChain
<1> QED
  BY <1>1, SessionsHold, PTL

-----------------------------------------------------------------------------
(* Sessions: what ends with the epoch *)

\* No epoch is ahead of the times that all sessions were ended, and no row or read
\* is of a time to come
Epochs ==
  /\ account.epoch \in Nat /\ account.resets \in Nat /\ account.epoch <= account.resets
  /\ \A r \in Rows :
       /\ session[r].epoch \in Nat /\ session[r].since \in Nat
       /\ session[r].epoch <= session[r].since /\ session[r].since <= account.resets
  /\ \A q \in Requests :
       LET read == request[q].read
       IN  /\ read.epoch \in Nat /\ read.resets \in Nat
           /\ read.epoch <= read.resets /\ read.resets <= account.resets

LEMMA EpochInit == Init => Epochs
<1> SUFFICES ASSUME Init
             PROVE  Epochs
  OBVIOUS
<1>1. \A q \in Requests : request[q] = Idle
  BY DEF Init
<1> QED
  BY <1>1, IdleFields DEF Init, Epochs, NoAccount, NoSession

\* The epoch of the account stays, or another time is counted and it is not ahead
LEMMA AccountMoves ==
  ASSUME SessionInv, Epochs, NEW q \in Requests, TimePassed \/ Waited(q) \/ Committed(q)
  PROVE  /\ account'.epoch \in Nat /\ account'.resets \in Nat
         /\ account'.epoch <= account'.resets /\ account.resets <= account'.resets
         /\ SameEpoch \/ account'.resets = account.resets + 1
<1>1. SameEpoch \/ EndsAll(q)
  BY DEF TimePassed, Waited, Committed, SameEpoch
<1>2. /\ account.epoch \in Nat /\ account.resets \in Nat /\ account.epoch <= account.resets
      /\ request[q].read.epoch \in Nat /\ request[q].read.resets \in Nat
      /\ request[q].read.epoch <= request[q].read.resets
      /\ request[q].read.resets <= account.resets
  BY DEF Epochs
<1> QED
  BY <1>1, <1>2 DEF SameEpoch, EndsAll

LEMMA EpochsStep ==
  ASSUME SessionInv, Epochs, NEW q \in Requests, TimePassed \/ Waited(q) \/ Committed(q)
  PROVE  Epochs'
<1>1. /\ account'.epoch \in Nat /\ account'.resets \in Nat /\ account.resets \in Nat
      /\ account'.epoch <= account'.resets /\ account.resets <= account'.resets
  BY AccountMoves DEF Epochs
<1>2. ASSUME NEW p \in Requests
      PROVE  LET read == request'[p].read
             IN  /\ read.epoch \in Nat /\ read.resets \in Nat
                 /\ read.epoch <= read.resets /\ read.resets <= account'.resets
  <2>1. request'[p].read \in {request[p].read, account, NoAccount}
    BY IdleFields DEF TimePassed, Waited, Committed, OthersStay, Presented, HasRead, WentOn, Left
  <2>2. NoAccount.epoch = 0 /\ NoAccount.resets = 0
    BY DEF NoAccount
  <2>3. /\ request[p].read.epoch \in Nat /\ request[p].read.resets \in Nat
        /\ request[p].read.epoch <= request[p].read.resets
        /\ request[p].read.resets <= account.resets
        /\ account.epoch \in Nat /\ account.epoch <= account.resets
    BY DEF Epochs
  <2> QED
    BY <1>1, <2>1, <2>2, <2>3
<1>3. ASSUME NEW r \in Rows
      PROVE  /\ session'[r].epoch \in Nat /\ session'[r].since \in Nat
             /\ session'[r].epoch <= session'[r].since /\ session'[r].since <= account'.resets
  <2>1. CASE Kept(r)
    <3>1. /\ session[r].epoch \in Nat /\ session[r].since \in Nat
          /\ session[r].epoch <= session[r].since /\ session[r].since <= account.resets
      BY DEF Epochs
    <3> QED
      BY <1>1, <2>1, <3>1 DEF Kept
  <2>2. CASE Opens(q, r)
    <3>1. PICK a \in {request[q].read, account'} : session'[r] = NewFamily(r, a)
      BY <2>2 DEF Opens
    <3>2. /\ a.epoch \in Nat /\ a.resets \in Nat
          /\ a.epoch <= a.resets /\ a.resets <= account'.resets
      <4>1. /\ request[q].read.epoch \in Nat /\ request[q].read.resets \in Nat
            /\ request[q].read.epoch <= request[q].read.resets
            /\ request[q].read.resets <= account.resets
        BY DEF Epochs
      <4> QED
        BY <1>1, <3>1, <4>1
    <3> QED
      BY <3>1, <3>2, NewRowFields
  <2>3. CASE Follows(q, r)
    <3> DEFINE p == request[q].id
    <3>1. p \in Rows /\ request[q].read.epoch = session[p].epoch
      BY <2>3 DEF Follows, SessionInv, Refreshing
    <3>2. session'[r].epoch = session[p].epoch /\ session'[r].since = session[p].since
      BY <2>3, <3>1, SuccessorFields DEF Follows, SessionInv
    <3> HIDE DEF p
    <3>3. /\ session[p].epoch \in Nat /\ session[p].since \in Nat
          /\ session[p].epoch <= session[p].since /\ session[p].since <= account.resets
      BY <3>1 DEF Epochs
    <3> QED
      BY <1>1, <3>2, <3>3
  <2> QED
    BY <2>1, <2>2, <2>3 DEF TimePassed, Waited, Committed, RowsMove, Inserts, Opens, Follows, Kept
<1> QED
  BY <1>1, <1>2, <1>3 DEF Epochs

LEMMA EpochStep ==
  ASSUME SessionInv, Epochs, Next \/ UNCHANGED vars
  PROVE  Epochs'
<1>1. CASE \E q \in Requests : TimePassed \/ Waited(q) \/ Committed(q)
  BY <1>1, EpochsStep
<1>2. CASE TimePassed /\ Requests = {}
  BY <1>2 DEF TimePassed, Epochs, Kept
<1> QED
  BY <1>1, <1>2, StepMoves

LEMMA EpochsHold == AccountsSpec => []Epochs
<1>1. AccountsInit => Epochs
  BY EpochInit DEF AccountsInit
<1>2. SessionInv /\ Epochs /\ [AccountsNext]_<<vars, mails>> => Epochs'
  BY EpochStep DEF AccountsNext
<1> QED
  BY <1>1, <1>2, SessionsHold, PTL DEF AccountsSpec

\* A reset ends every session, also those that a login or a refresh under way at the
\* reset adds after it, for as long as no increment of the epoch has been lost to
\* another reset at the same time.
THEOREM ResetsEndSessions == AccountsSpec => []GoodSinceReset
<1>1. Epochs => GoodSinceReset
  <2> SUFFICES ASSUME Epochs, NothingLost, NEW r \in Rows, AccessGood(r) \/ Live(r)
               PROVE  session[r].since = account.resets
    BY DEF GoodSinceReset
  <2>1. session[r].epoch = account.resets
    BY DEF AccessGood, Live, NothingLost
  <2> QED
    BY <2>1 DEF Epochs
<1> QED
  BY <1>1, EpochsHold, PTL

LEMMA FamiliesStep ==
  ASSUME SessionInv, SessionInv', Epochs, Next \/ UNCHANGED vars, NothingLost',
         NEW f \in Rows, Family(f) # {}, Open(f)'
  PROVE  Open(f)
<1> USE DEF Family
<1>1. CASE TimePassed
  <2>1. CASE \E r \in Family(f)' : Live(r)'
    BY <1>1, <2>1 DEF TimePassed, Live, Kept, Open
  <2>2. ASSUME NEW q \in Requests, request'[q].op = "refresh", request'[q].step # "reuse",
               session'[request'[q].id].family = f, session'[request'[q].id].epoch = account'.epoch
        PROVE  Open(f)
    <3>1. request[q].id \in Rows /\ Kept(request[q].id) /\ request'[q] = request[q]
      BY <1>1, <2>2 DEF TimePassed, SessionInv, Refreshing
    <3> QED
      BY <1>1, <2>2, <3>1 DEF TimePassed, Kept, Open
  <2> QED
    BY <2>1, <2>2 DEF Open
<1>2. ASSUME NEW q \in Requests, Waited(q) \/ Committed(q)
      PROVE  Open(f)
  <2>1. PICK r \in Rows : session[r].family = f
    OBVIOUS
  <2>2. session[f].family = f /\ f # None
    BY <2>1, AuthConstants DEF SessionInv, Linked
  <2>3. ASSUME NEW s \in Rows, session[s].family = f, session[s].epoch = account'.epoch
        PROVE  SameEpoch /\ session[s].epoch = account.epoch
    <3>1. /\ session[s].epoch \in Nat /\ session[s].since \in Nat /\ account.resets \in Nat
          /\ session[s].epoch <= session[s].since /\ session[s].since <= account.resets
      BY DEF Epochs
    <3>2. session[s].epoch = account'.resets
      BY <2>3 DEF NothingLost
    <3> QED
      BY <1>2, <2>3, <3>1, <3>2, AccountMoves DEF SameEpoch
  <2>4. CASE \E s \in Family(f)' : Live(s)'
    <3>1. PICK s \in Rows : session'[s].family = f /\ Live(s)'
      BY <2>4
    <3>2. CASE Kept(s)
      BY <2>3, <3>1, <3>2 DEF Kept, Live, Open
    <3>3. CASE Opens(q, s)
      BY <2>2, <3>1, <3>3, NewRowFields DEF Opens, Inserts, NoSession
    <3>4. CASE Follows(q, s)
      <4> DEFINE p == request[q].id
      <4>1. p \in Rows /\ request[q].op = "refresh" /\ request[q].step = "commit"
            /\ request[q].read.epoch = session[p].epoch
        BY <3>4 DEF Follows, SessionInv, Refreshing
      <4>2. session'[s].family = session[p].family /\ session'[s].epoch = session[p].epoch
        BY <3>4, <4>1, SuccessorFields DEF Follows, SessionInv
      <4>3. account' = account
        BY <3>4 DEF Follows
      <4> QED
        BY <3>1, <4>1, <4>2, <4>3 DEF Live, Open
    <3> QED
      BY <1>2, <3>2, <3>3, <3>4 DEF Waited, Committed, RowsMove, Inserts, Opens, Follows, Kept
  <2>5. CASE ~ \E s \in Family(f)' : Live(s)'
    <3>1. PICK p \in Requests :
            /\ request'[p].op = "refresh" /\ request'[p].step # "reuse"
            /\ session'[request'[p].id].family = f
            /\ session'[request'[p].id].epoch = account'.epoch
      BY <2>5 DEF Open
    <3>2. CASE /\ request[p].op = "refresh" /\ request[p].step # "reuse"
               /\ request[p].id = request'[p].id
      <4>1. request[p].id \in Rows /\ Kept(request[p].id)
        BY <1>2, <3>2, RowsStay DEF SessionInv, Refreshing
      <4> QED
        BY <2>3, <3>1, <3>2, <4>1 DEF Kept, Open
    <3>3. CASE Presented(p) /\ Waited(q)
      <4>1. /\ request'[p].id \in Rows /\ session' = session /\ account' = account
            /\ session[request'[p].id].state = "fresh" /\ ~session[request'[p].id].revoked
        BY <3>1, <3>3 DEF Presented, Waited
      <4> QED
        BY <3>1, <4>1 DEF Live, Open
    <3> QED
      BY <1>2, <3>1, <3>2, <3>3, IdleFields
         DEF Waited, Committed, OthersStay, HasRead, WentOn, SameSubject, Left, None
  <2> QED
    BY <2>4, <2>5
<1> QED
  BY <1>1, <1>2, StepMoves

\* A family without a good refresh token, and without a refresh under way that took
\* one for good, never has a good token again while no increment of the epoch is
\* lost: no token that is presented later opens it.  A refresh under way counts as
\* open, so a logout that it outruns has not ended the family.
THEOREM FamiliesStayEnded == AccountsSpec => EndedFamiliesStayEnded
<1>1. /\ SessionInv /\ SessionInv' /\ Epochs /\ [AccountsNext]_<<vars, mails>>
      => [\A f \in Rows : Family(f) # {} /\ ~Open(f) /\ NothingLost' => ~Open(f)']_vars
  BY FamiliesStep DEF AccountsNext
<1> QED
  BY <1>1, SessionsHold, EpochsHold, PTL DEF AccountsSpec, EndedFamiliesStayEnded
=============================================================================
