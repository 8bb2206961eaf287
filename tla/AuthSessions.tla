---------------------------- MODULE AuthSessions ----------------------------
(***************************************************************************)
(* Accounts and their sessions: AuthService (modules/identity/            *)
(* auth_service.py) under the routers of /v1/auth, for one e-mail address. *)
(*                                                                         *)
(* A login opens a family of refresh tokens; a refresh uses one token up   *)
(* and issues its successor.  Logout revokes a family, a password reset    *)
(* revokes all of them and raises the account's epoch.  Every request is   *)
(* one READ COMMITTED transaction that locks nothing while it reads:       *)
(*                                                                         *)
(*   idle -> account -> password -> commit       login                     *)
(*   idle -> account (-> rows)   -> commit       refresh, verify, reset,   *)
(*                                               Google                    *)
(*   idle -> rows                -> commit       logout                    *)
(*   idle -> commit                              register, forgot, resend  *)
(*   idle -> reuse -> idle                       refresh with a spent token*)
(*                                                                         *)
(* The writes are flushed at the commit, but for the account's of a reset, *)
(* which locks its row when it goes on to select the rows to revoke.       *)
(***************************************************************************)
EXTENDS AuthParameters, Integers, FiniteSets

VARIABLES
  account,  \* users, password_credentials and auth_identities; "resets" is
            \* a history: how often every session was to end
  session,  \* auth_sessions; "since" is a history: the account's resets
            \* when the family was opened
  token,    \* auth_action_tokens
  request   \* what each request is doing, and what it has read

vars == <<account, session, token, request>>

NoAccount == [exists |-> FALSE, verified |-> FALSE, password |-> 0,
              google |-> FALSE, epoch |-> 0, resets |-> 0]
NoSession == [family |-> None, parent |-> None, state |-> None,
              revoked |-> FALSE, epoch |-> 0, since |-> 0]
NoToken   == [purpose |-> None, state |-> None]
Idle == [op |-> None, step |-> "idle", id |-> None, known |-> 0,
         read |-> NoAccount, ends |-> {}]

Init ==
  /\ account = NoAccount
  /\ session = [r \in Rows |-> NoSession]
  /\ token = [k \in Tokens |-> NoToken]
  /\ request = [q \in Requests |-> Idle]

Family(f) == {r \in Rows : session[r].family = f}

\* The rows that carry no revocation: what keeps a family's access tokens good
Unrevoked(rows) == {r \in rows : session[r].family # None /\ ~session[r].revoked}

\* What may end every session: a reset, and an unknown Google identity
Ends(q) == \/ request[q].op = "reset"
           \/ request[q].op = "google" /\ request[q].known = 0
MayEnd(q) == account.resets + Cardinality({p \in Requests \ {q} : Ends(p)}) < MaxResets

\* The account's row is locked from the flush of a reset to its commit
AccountFree(q) ==
  \A p \in Requests \ {q} : ~(Ends(p) /\ request[p].step = "commit" /\ request[p].read.exists)

Start(q, new) == request[q].step = "idle" /\ request' = [request EXCEPT ![q] = new]
Go(q, step)   == request' = [request EXCEPT ![q].step = step]
Refuse(q)     == request' = [request EXCEPT ![q] = Idle]

-----------------------------------------------------------------------------
(* First statements: what the request presents *)

\* Mutant: only a used token is refused
AcceptableUsed(r) == session[r].state # "used"
Acceptable(r)     == session[r].state # "used" /\ ~session[r].revoked

\* refresh: a used or revoked token is a reuse, an expired one is refused
PresentRefresh(q, r) ==
  /\ session[r].family # None
  /\ Acceptable(r) => session[r].state = "fresh"
  /\ Start(q, [Idle EXCEPT !.op = "refresh", !.id = r,
                           !.step = IF Acceptable(r) THEN "account" ELSE "reuse"])
  /\ UNCHANGED <<account, session, token>>

PresentLogout(q, r) ==
  /\ session[r].family # None
  /\ Start(q, [Idle EXCEPT !.op = "logout", !.id = session[r].family, !.step = "rows"])
  /\ UNCHANGED <<account, session, token>>

\* verify_email and reset_password: the token is not locked
PresentToken(q, k) ==
  /\ token[k].state = "open"
  /\ token[k].purpose = "reset" => MayEnd(q)
  /\ Start(q, [Idle EXCEPT !.op = token[k].purpose, !.id = k, !.step = "account"])
  /\ UNCHANGED <<account, session, token>>

\* A login with the password that holds, or with an older one
PresentPassword(q, p) ==
  /\ p <= account.password
  /\ Start(q, [Idle EXCEPT !.op = "login", !.known = p, !.step = "account"])
  /\ UNCHANGED <<account, session, token>>

\* The callback of the vendor: the identity is looked up
PresentGoogle(q) ==
  /\ ~account.google => MayEnd(q)
  /\ Start(q, [Idle EXCEPT !.op = "google", !.step = "account",
                           !.known = IF account.google THEN 1 ELSE 0])
  /\ UNCHANGED <<account, session, token>>

\* register, resend_verification and forgot_password look the address up
PresentEmail(q, op) ==
  /\ CASE op = "register" -> ~account.exists
       [] op = "resend"   -> account.exists /\ ~account.verified
       [] op = "forgot"   -> account.exists
  /\ Start(q, [Idle EXCEPT !.op = op, !.step = "commit"])
  /\ UNCHANGED <<account, session, token>>

-----------------------------------------------------------------------------
(* The statements that follow *)

\* The account is read; a session of an older epoch is refused, and so is a
\* new Google identity for a verified address
ReadAccount(q) ==
  LET c == request[q]
      next == CASE c.op = "refresh" -> IF session[c.id].epoch = account.epoch
                                       THEN "commit" ELSE "idle"
                [] c.op = "login"   -> IF account.exists THEN "password" ELSE "idle"
                [] c.op = "verify"  -> "commit"
                [] c.op = "reset"   -> "rows"
                [] c.op = "google"  -> IF c.known = 1 \/ ~account.exists THEN "commit"
                                       ELSE IF account.verified THEN "idle" ELSE "rows"
  IN /\ c.step = "account"
     /\ IF next = "idle" THEN Refuse(q)
        ELSE request' = [request EXCEPT ![q].read = account, ![q].step = next]
     /\ UNCHANGED <<account, session, token>>

\* The credential is read after the account; the address must be verified
CheckPassword(q) ==
  /\ request[q].step = "password"
  /\ IF account.password = request[q].known /\ request[q].read.verified
     THEN Go(q, "commit") ELSE Refuse(q)
  /\ UNCHANGED <<account, session, token>>

\* _revoke_family and _revoke_all_sessions_for_user select the rows that they
\* revoke; what the transaction has changed is flushed before
SelectRows(q) ==
  /\ request[q].step = "rows"
  /\ request[q].op # "logout" => AccountFree(q)
  /\ request' = [request EXCEPT
       ![q].step = "commit",
       ![q].ends = Unrevoked(IF request[q].op = "logout" THEN Family(request[q].id)
                             ELSE Rows)]
  /\ UNCHANGED <<account, session, token>>

\* A spent token: its family is revoked, but the error that reports the reuse
\* is raised within the transaction, which is rolled back
Reuse(q) ==
  /\ request[q].step = "reuse"
  /\ Refuse(q)
  /\ UNCHANGED <<account, session, token>>

-----------------------------------------------------------------------------
(* Commits *)

Commits(q, op) == request[q].step = "commit" /\ request[q].op = op /\ Refuse(q)

Revoke(rows) == [r \in Rows |-> [session[r] EXCEPT !.revoked = @ \/ r \in rows]]

\* _issue_session: a new family, of the epoch that was read; mutant: of the epoch
\* that holds when it is written
NewFamilyPresent(n, read) == [family |-> n, parent |-> None, state |-> "fresh",
                              revoked |-> FALSE, epoch |-> account.epoch,
                              since |-> read.resets]
NewFamily(n, read) == [family |-> n, parent |-> None, state |-> "fresh",
                       revoked |-> FALSE, epoch |-> read.epoch, since |-> read.resets]

\* The row a refresh inserts, and what it leaves of the old one
Successor(r, read) == [session[r] EXCEPT !.parent = r, !.state = "fresh",
                                         !.revoked = FALSE, !.epoch = read.epoch]

Rotate(r, n, read) == [session EXCEPT ![r].state = "used", ![n] = Successor(r, read)]

\* auth_epoch += 1 writes one more than what was read
NextEpoch(read) == read.epoch + 1

NewToken(k, purpose) ==
  /\ token[k] = NoToken
  /\ token' = [token EXCEPT ![k] = [purpose |-> purpose, state |-> "open"]]

\* UNIQUE normalized_email: one insert of an address succeeds
CommitRegister(q, k) ==
  /\ Commits(q, "register")
  /\ ~account.exists
  /\ account' = [account EXCEPT !.exists = TRUE, !.password = 1]
  /\ NewToken(k, "verify")
  /\ UNCHANGED session

CommitEmail(q, k) ==
  /\ \/ Commits(q, "resend") /\ NewToken(k, "verify")
     \/ Commits(q, "forgot") /\ NewToken(k, "reset")
  /\ UNCHANGED <<account, session>>

CommitVerify(q) ==
  /\ Commits(q, "verify")
  /\ AccountFree(q)
  /\ account' = [account EXCEPT !.verified = TRUE]
  /\ token' = [token EXCEPT ![request[q].id].state = "spent"]
  /\ UNCHANGED session

CommitReset(q) ==
  LET c == request[q]
  IN /\ Commits(q, "reset")
     /\ account' = [account EXCEPT !.password = account.resets + 2,   \* a new one
                                   !.epoch = NextEpoch(c.read), !.resets = @ + 1]
     /\ session' = Revoke(c.ends)
     /\ token' = [token EXCEPT ![c.id].state = "spent"]

CommitLogin(q, n) ==
  /\ Commits(q, "login")
  /\ session[n] = NoSession
  /\ session' = [session EXCEPT ![n] = NewFamily(n, request[q].read)]
  /\ UNCHANGED <<account, token>>

CommitRefresh(q, n) ==
  /\ Commits(q, "refresh")
  /\ session[n] = NoSession
  /\ session' = Rotate(request[q].id, n, request[q].read)
  /\ UNCHANGED <<account, token>>

CommitLogout(q) ==
  /\ Commits(q, "logout")
  /\ session' = Revoke(request[q].ends)
  /\ UNCHANGED <<account, token>>

\* complete_google_login: of a known identity, of a new address, and of an
\* address that nobody has verified, whose sessions end
CommitGoogleKnown(q, n) ==
  /\ Commits(q, "google")
  /\ request[q].known = 1
  /\ session[n] = NoSession
  /\ session' = [session EXCEPT ![n] = NewFamily(n, request[q].read)]
  /\ UNCHANGED <<account, token>>

CommitGoogleNew(q, n) ==
  /\ Commits(q, "google")
  /\ request[q].known = 0 /\ ~request[q].read.exists
  /\ ~account.exists
  /\ session[n] = NoSession
  /\ account' = [account EXCEPT !.exists = TRUE, !.verified = TRUE, !.google = TRUE]
  /\ session' = [session EXCEPT ![n] = NewFamily(n, account)]
  /\ UNCHANGED token

CommitGoogleLink(q, n) ==
  LET c == request[q]
      linked == [account EXCEPT !.verified = TRUE, !.google = TRUE,
                                !.epoch = NextEpoch(c.read), !.resets = @ + 1]
  IN /\ Commits(q, "google")
     /\ c.known = 0 /\ c.read.exists
     /\ ~account.google              \* UNIQUE (provider, subject)
     /\ session[n] = NoSession
     /\ account' = linked
     /\ session' = [Revoke(c.ends) EXCEPT ![n] = NewFamily(n, linked)]
     /\ UNCHANGED token

\* An error, a unique key that is taken, a lost connection: all is undone
Rollback(q) ==
  /\ request[q].step # "idle"
  /\ Refuse(q)
  /\ UNCHANGED <<account, session, token>>

\* Time passes: expires_at of a token and of a session
ExpireToken(k) ==
  /\ token[k].state = "open"
  /\ token' = [token EXCEPT ![k].state = "spent"]
  /\ UNCHANGED <<account, session, request>>

ExpireSession(r) ==
  /\ session[r].state = "fresh"
  /\ session' = [session EXCEPT ![r].state = "expired"]
  /\ UNCHANGED <<account, token, request>>

Next ==
  \/ \E q \in Requests :
       \/ \E r \in Rows : PresentRefresh(q, r) \/ PresentLogout(q, r)
       \/ \E k \in Tokens : PresentToken(q, k)
       \/ \E p \in 1 .. MaxResets + 1 : PresentPassword(q, p)
       \/ PresentGoogle(q)
       \/ \E op \in {"register", "resend", "forgot"} : PresentEmail(q, op)
       \/ ReadAccount(q) \/ CheckPassword(q) \/ SelectRows(q) \/ Reuse(q)
       \/ \E k \in Tokens : CommitRegister(q, k) \/ CommitEmail(q, k)
       \/ CommitVerify(q) \/ CommitReset(q) \/ CommitLogout(q)
       \/ \E n \in Rows : \/ CommitLogin(q, n) \/ CommitRefresh(q, n)
                          \/ CommitGoogleKnown(q, n) \/ CommitGoogleNew(q, n)
                          \/ CommitGoogleLink(q, n)
       \/ Rollback(q)
  \/ \E k \in Tokens : ExpireToken(k)
  \/ \E r \in Rows : ExpireSession(r)

Spec == Init /\ [][Next]_vars

-----------------------------------------------------------------------------
(* Correctness *)

Accounts == [exists : BOOLEAN, verified : BOOLEAN, password : 0 .. MaxResets + 1,
             google : BOOLEAN, epoch : 0 .. MaxResets, resets : 0 .. MaxResets]
SessionRows == [family : Rows \cup {None}, parent : Rows \cup {None},
                state : {None, "fresh", "used", "expired"}, revoked : BOOLEAN,
                epoch : 0 .. MaxResets, since : 0 .. MaxResets]
ActionTokens == [purpose : {None, "verify", "reset"}, state : {None, "open", "spent"}]

TypeOK ==
  /\ account \in Accounts
  /\ session \in [Rows -> SessionRows]
  /\ token \in [Tokens -> ActionTokens]
  /\ request \in [Requests ->
       [op : {None, "register", "resend", "forgot", "verify", "reset", "login",
              "refresh", "logout", "google"},
        step : {"idle", "account", "password", "rows", "reuse", "commit"},
        id : Rows \cup Tokens \cup {None}, known : 0 .. MaxResets + 1,
        read : Accounts, ends : SUBSET Rows]]

\* validate_access_token_claims: what a row's access token needs to be
\* accepted, and refresh: what its refresh token needs
AccessGood(r) == /\ session[r].epoch = account.epoch
                 /\ Unrevoked(Family(session[r].family)) # {}
Live(r) == /\ session[r].state = "fresh" /\ ~session[r].revoked
           /\ session[r].epoch = account.epoch

\* The epoch counts every reset so far.  It is raised from a value that was read
\* without a lock, so of two resets at once the later one may add nothing to it.
NothingLost == account.epoch = account.resets

\* A reset ends every session, also the ones that a login or a refresh under
\* way at the reset adds after it, while no increment of the epoch is lost:
\* neither an access token nor a refresh token of before it is good
\* (auth-provider-policy.md: a reset revokes all refresh sessions and makes the
\* access tokens of the old epoch be refused).
GoodSinceReset ==
  NothingLost =>
    \A r \in Rows : session[r].family # None /\ (AccessGood(r) \/ Live(r)) =>
      session[r].since = account.resets

\* A token with a successor is used up, and the successor belongs to its family
\* and its epoch.
RotationChain ==
  \A r \in Rows : session[r].parent # None =>
    LET p == session[session[r].parent]
    IN p.state = "used" /\ p.family = session[r].family /\ p.epoch = session[r].epoch

\* Two refreshes of one token at once do not make two valid successors of it
\* (foundation-backlog.md:13).
OneSuccessor ==
  \A r, n \in Rows :
    session[r].parent # None /\ session[r].parent = session[n].parent /\ Live(r) /\ Live(n)
      => r = n

\* A family is open while it has a good refresh token, or a refresh that took
\* one for good is under way, which a logout does not see and does not stop.
\* Once it is neither, revoked or run out, it never is again: no token that is
\* presented later, used or revoked, opens it, and no reset brings it back while
\* no increment of the epoch is lost.
Open(f) ==
  \/ \E r \in Family(f) : Live(r)
  \/ \E q \in Requests :
       /\ request[q].op = "refresh" /\ request[q].step # "reuse"
       /\ session[request[q].id].family = f
       /\ session[request[q].id].epoch = account.epoch
EndedFamiliesStayEnded ==
  [][\A f \in Rows : Family(f) # {} /\ ~Open(f) /\ NothingLost' => ~Open(f)']_vars

=============================================================================
