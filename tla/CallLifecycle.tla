--------------------------- MODULE CallLifecycle ---------------------------
(***************************************************************************)
(* One call: CallService behind the public and the internal calls router   *)
(* (modules/calls, api/routers), and the runners of the realtime worker    *)
(* that serve it (realtime/call_session.py), one for each LiveKit job.     *)
(*                                                                         *)
(* A runner has no database: it sends requests to the internal API.  Each  *)
(* is a transaction that locks the rows of the call and its conversation,  *)
(* so it is one action.  But SQLAlchemy keeps the objects a session has    *)
(* loaded: the internal :end reads the conversation before it locks it and *)
(* decides on what it read, and the request that created the call, when    *)
(* its dispatch fails, ends the call it has created.  An answer that is    *)
(* lost leaves the runner where it waits, until it gives up.               *)
(*                                                                         *)
(* LiveKit is modelled as the code uses it: a dispatch, answered or not,   *)
(* makes it start runners; a session that starts hears turns; the room     *)
(* may close at any time.                                                  *)
(***************************************************************************)
EXTENDS Naturals, Sequences

CONSTANTS
  Runners,   \* the runners LiveKit may start for the call
  NoOwner,
  MaxTurns,  \* bound on the turns a runner hears
  Lossy      \* requests are lost and processes die

ASSUME CallConstants ==
  /\ NoOwner \notin Runners
  /\ MaxTurns \in Nat
  /\ Lossy \in BOOLEAN

VARIABLES
  call,         \* the row of call_sessions
  conversation, \* the state of its row of conversation_sessions
  turns,        \* call_turns, by sequence
  messages,     \* number of rows of conversation_messages
  completions,  \* the conversation.session_completed events
  creator,      \* the request POST /v1/calls
  offered,      \* LiveKit has got the dispatch
  requests,     \* requests of the runners to the internal API
  runner        \* the state of each CallSessionRunner

database == <<call, conversation, turns, messages, completions>>
vars == <<database, creator, offered, requests, runner>>

Reasons == {"user_hangup", "error", "timeout"}
NoReason == "none"

NoCall ==
  [state |-> "none", end_reason |-> NoReason, lease_owner |-> NoOwner,
   fencing_token |-> 0, leased |-> FALSE]

Init ==
  /\ call = NoCall
  /\ conversation = "none"
  /\ turns = <<>>
  /\ messages = 0
  /\ completions = <<>>
  /\ creator = "idle"
  /\ offered = FALSE
  /\ requests = {}
  /\ runner = [r \in Runners |->
                 [pc |-> "idle", token |-> 0, ended |-> FALSE, heard |-> 0]]

-----------------------------------------------------------------------------
\* CallService.end_call, once it holds its locks and finds the call open;
\* saw is the state of the conversation it has loaded.

\* Mutant: the conversation is left to its own completion
CloseNothing(saw, reason) == UNCHANGED <<conversation, completions>>

CloseConversation(saw, reason) ==
  IF saw = "active"
    THEN /\ conversation' = "completed"
         /\ completions' = Append(completions,
              [message_count |-> messages, end_reason |-> reason])
    ELSE UNCHANGED <<conversation, completions>>

EndRow(row, reason) ==
  [row EXCEPT !.state = "ended", !.end_reason = reason,
              !.lease_owner = NoOwner, !.leased = FALSE]

EndOpen(saw, reason) ==
  /\ call.state # "ended"
  /\ call' = EndRow(call, reason)
  /\ CloseConversation(saw, reason)
  /\ UNCHANGED <<turns, messages>>

-----------------------------------------------------------------------------
\* The user: create, end, and complete the conversation of the call

CreateCall ==
  /\ creator = "idle"
  /\ call' = [call EXCEPT !.state = "created"]
  /\ conversation' = "active"
  /\ creator' = "dispatching"
  /\ UNCHANGED <<turns, messages, completions, offered, requests, runner>>

LiveKitGetsDispatch ==
  /\ creator = "dispatching"
  /\ ~offered
  /\ offered' = TRUE
  /\ UNCHANGED <<database, creator, requests, runner>>

\* Answered, or with no dispatcher configured
CreatorReturns ==
  /\ creator = "dispatching"
  /\ creator' = "done"
  /\ UNCHANGED <<database, offered, requests, runner>>

\* DependencyUnavailableError: the request ends the call it still has in its
\* session as created, without a lease.  Only columns that change are written,
\* so a lease that was taken meanwhile stays.
DispatchFails ==
  /\ creator = "dispatching"
  /\ creator' = "done"
  /\ call' = [call EXCEPT !.state = "ended", !.end_reason = "error"]
  /\ CloseConversation(conversation, "error")
  /\ UNCHANGED <<turns, messages, offered, requests, runner>>

\* Whatever its reason, user_hangup stands for it
UserEnd ==
  /\ call.state # "none"
  /\ EndOpen(conversation, "user_hangup")
  /\ UNCHANGED <<creator, offered, requests, runner>>

\* ConversationService.complete_session does not look at the kind
CompleteSession ==
  /\ conversation = "active"
  /\ CloseConversation(conversation, NoReason)
  /\ UNCHANGED <<call, turns, messages, creator, offered, requests, runner>>

-----------------------------------------------------------------------------
\* The requests of a runner, and what the internal router does with them

AdmitRequest(r) == [kind |-> "admit", from |-> r]
ActivateRequest(r) ==
  [kind |-> "activate", from |-> r, token |-> runner[r].token]
TurnRequest(r, text, interrupted) ==
  [kind |-> "turn", from |-> r, token |-> runner[r].token,
   number |-> runner[r].heard, text |-> text, interrupted |-> interrupted]
EndRequest(r, reason) ==
  [kind |-> "end", from |-> r, reason |-> reason, saw |-> "unread"]

\* _assert_fencing
Fenced(q) ==
  /\ call.lease_owner = q.from
  /\ call.fencing_token = q.token
  /\ call.leased

AdmitActive == call.state \in {"created", "admitted", "active"}  \* mutant
CanAdmit == call.state \in {"created", "admitted"}
ActivateHeld(q) == Fenced(q)  \* mutant
CanActivate(q) == Fenced(q) /\ call.state = "admitted"
RecordUnlessAdmitted(q) == Fenced(q) /\ call.state # "admitted"  \* mutant
CanRecord(q) == Fenced(q) /\ call.state = "active"

\* The answer reaches the runner if it still waits for it
Answer(r, from, to) ==
  \/ /\ runner[r].pc = from
     /\ runner' = [runner EXCEPT ![r].pc = to]
  \/ /\ Lossy \/ runner[r].pc # from
     /\ UNCHANGED runner

AdmitCall(q) ==
  /\ q.kind = "admit"
  /\ CanAdmit
  /\ call' = [call EXCEPT !.state = "admitted", !.lease_owner = q.from,
                !.fencing_token = @ + 1, !.leased = TRUE]
  /\ requests' = requests \ {q}
  /\ \/ /\ runner[q.from].pc = "admitting"
        /\ runner' = [runner EXCEPT ![q.from].pc = "connecting",
                        ![q.from].token = call'.fencing_token]
     \/ /\ Lossy \/ runner[q.from].pc # "admitting"
        /\ UNCHANGED runner
  /\ UNCHANGED <<conversation, turns, messages, completions, creator, offered>>

ActivateCall(q) ==
  /\ q.kind = "activate"
  /\ CanActivate(q)
  /\ call' = [call EXCEPT !.state = "active"]
  /\ requests' = requests \ {q}
  /\ Answer(q.from, "activating", "starting")
  /\ UNCHANGED <<conversation, turns, messages, completions, creator, offered>>

\* append_turn_message: the number of messages, the newest of which is the
\* transcript of the turn, if it has a text
Transcribed(q) == IF q.text THEN messages + 1 ELSE messages

NewTurn(q) ==
  [token |-> q.token,
   message |-> IF q.text THEN messages + 1 ELSE 0,
   state |-> IF q.interrupted THEN "interrupted" ELSE "started"]

\* The turn, its message and its interruption in one transaction; sequences
\* are counted under the lock of the call
RecordTurn(q) ==
  /\ q.kind = "turn"
  /\ CanRecord(q)
  /\ messages' = Transcribed(q)
  /\ turns' = Append(turns, NewTurn(q))
  /\ requests' = requests \ {q}
  /\ UNCHANGED <<call, conversation, completions, creator, offered, runner>>

\* end_call_internal loads the conversation, then end_call locks the call
ReadConversation(q) ==
  /\ q.kind = "end"
  /\ q.saw = "unread"
  /\ requests' = (requests \ {q}) \cup {[q EXCEPT !.saw = conversation]}
  /\ UNCHANGED <<database, creator, offered, runner>>

EndCall(q) ==
  /\ q.kind = "end"
  /\ q.saw # "unread"
  /\ EndOpen(q.saw, q.reason)
  /\ requests' = requests \ {q}
  /\ UNCHANGED <<creator, offered, runner>>

\* Answered with an error, or with the call that has ended already
Refused(q) ==
  \/ q.kind = "admit" /\ ~CanAdmit
  \/ q.kind = "activate" /\ ~CanActivate(q)
  \/ q.kind = "turn" /\ ~CanRecord(q)
  \/ q.kind = "end" /\ q.saw # "unread" /\ call.state = "ended"

Unserved(q) ==
  /\ Lossy \/ Refused(q)
  /\ requests' = requests \ {q}
  /\ UNCHANGED <<database, creator, offered, runner>>

\* now() passes lease_until; nothing renews the lease
LeaseExpires ==
  /\ call.leased
  /\ call' = [call EXCEPT !.leased = FALSE]
  /\ UNCHANGED <<conversation, turns, messages, completions, creator, offered,
                 requests, runner>>

-----------------------------------------------------------------------------
\* CallSessionRunner

Goto(r, pc) == runner' = [runner EXCEPT ![r].pc = pc]

Send(q) == requests' = requests \cup {q}

\* run, up to the request to admit
GetSessionConfig(r) ==
  /\ runner[r].pc = "idle"
  /\ offered
  /\ IF call.state = "ended"
       THEN Goto(r, "done") /\ UNCHANGED requests
       ELSE Goto(r, "admitting") /\ Send(AdmitRequest(r))
  /\ UNCHANGED <<database, creator, offered>>

Connect(r) ==
  /\ runner[r].pc = "connecting"
  /\ Goto(r, "activating")
  /\ Send(ActivateRequest(r))
  /\ UNCHANGED <<database, creator, offered>>

\* _schedule_turn: each turn is a task of its own
HearTurn(r) ==
  /\ runner[r].pc = "starting"
  /\ ~runner[r].ended
  /\ runner[r].heard < MaxTurns
  /\ runner' = [runner EXCEPT ![r].heard = @ + 1]
  /\ \E text, interrupted \in BOOLEAN : Send(TurnRequest(r, text, interrupted))
  /\ UNCHANGED <<database, creator, offered>>

\* session.start returns: the timer is cancelled and the API client closed
StartReturns(r) ==
  /\ runner[r].pc = "starting"
  /\ Goto(r, "started")
  /\ UNCHANGED <<database, creator, offered, requests>>

\* _safe_end
SafeEnd(r, pc, reason) ==
  /\ runner' = [runner EXCEPT ![r].pc = pc, ![r].ended = TRUE]
  /\ IF runner[r].ended THEN UNCHANGED requests ELSE Send(EndRequest(r, reason))

\* An answer with an error or none at all, a BYOK call, a provider that is
\* not supported, a room that cannot be joined
RunFails(r) ==
  /\ \/ runner[r].pc = "idle" /\ offered
     \/ runner[r].pc \in {"admitting", "connecting", "activating", "starting"}
  /\ SafeEnd(r, "done", "error")
  /\ UNCHANGED <<database, creator, offered>>

\* _enforce_max_duration, armed while session.start has not returned
MaxDuration(r) ==
  /\ runner[r].pc = "starting"
  /\ ~runner[r].ended
  /\ SafeEnd(r, "starting", "timeout")
  /\ UNCHANGED <<database, creator, offered>>

\* _on_disconnected: _ended is set before the task it creates runs _safe_end,
\* which then returns at once
Disconnected(r) ==
  /\ runner[r].pc \in {"activating", "starting", "started"}
  /\ ~runner[r].ended
  /\ runner' = [runner EXCEPT ![r].ended = TRUE]
  /\ UNCHANGED <<database, creator, offered, requests>>

RunnerDies(r) ==
  /\ Lossy
  /\ runner[r].pc \notin {"idle", "done"}
  /\ Goto(r, "done")
  /\ UNCHANGED <<database, creator, offered, requests>>

-----------------------------------------------------------------------------
User == CreateCall \/ LiveKitGetsDispatch \/ CreatorReturns \/ DispatchFails
          \/ UserEnd \/ CompleteSession

Serve(q) == AdmitCall(q) \/ ActivateCall(q) \/ RecordTurn(q)
              \/ ReadConversation(q) \/ EndCall(q) \/ Unserved(q)

Run(r) == GetSessionConfig(r) \/ Connect(r) \/ HearTurn(r) \/ StartReturns(r)
            \/ RunFails(r) \/ MaxDuration(r) \/ Disconnected(r) \/ RunnerDies(r)

Next ==
  \/ User
  \/ LeaseExpires
  \/ \E q \in requests : Serve(q)
  \/ \E r \in Runners : Run(r)

Spec == Init /\ [][Next]_vars

\* The worker process and the API go on
FairSpec ==
  /\ Spec
  /\ WF_vars(\E q \in requests : Serve(q))
  /\ \A r \in Runners : WF_vars(Connect(r)) /\ WF_vars(StartReturns(r))

-----------------------------------------------------------------------------
\* Properties

Requests ==
  [kind : {"admit"}, from : Runners]
    \cup [kind : {"activate"}, from : Runners, token : Nat]
    \cup [kind : {"turn"}, from : Runners, token : Nat, number : Nat,
          text : BOOLEAN, interrupted : BOOLEAN]
    \cup [kind : {"end"}, from : Runners, reason : Reasons,
          saw : {"unread", "active", "completed"}]

CallRows ==
  [state : {"none", "created", "admitted", "active", "ended"},
   end_reason : Reasons \cup {NoReason}, lease_owner : Runners \cup {NoOwner},
   fencing_token : Nat, leased : BOOLEAN]

CallTurns == [token : Nat, message : Nat, state : {"started", "interrupted"}]

CompletionEvents == [message_count : Nat, end_reason : Reasons \cup {NoReason}]

RunnerStates ==
  [pc : {"idle", "admitting", "connecting", "activating", "starting", "started", "done"},
   token : Nat, ended : BOOLEAN, heard : Nat]

\* Every variable holds what the models and the runner declare.
TypeOK ==
  /\ call \in CallRows
  /\ conversation \in {"none", "active", "completed"}
  /\ turns \in Seq(CallTurns)
  /\ messages \in Nat
  /\ completions \in Seq(CompletionEvents)
  /\ creator \in {"idle", "dispatching", "done"}
  /\ offered \in BOOLEAN
  /\ requests \subseteq Requests
  /\ runner \in [Runners -> RunnerStates]

\* The turns of a call are all written by the runner that was admitted last:
\* no runner that lost the call has written one before or after.
OneWriter ==
  \A i \in DOMAIN turns : turns[i].token = call.fencing_token

\* A call that has ended, whoever ended it and however late, has its
\* conversation completed and announced for ingestion.
EndClosesConversation ==
  call.state = "ended" => conversation = "completed" /\ completions # <<>>

\* An event that announces the end of a call counts its whole transcript:
\* no message joins it afterwards, from whatever runner.
EndCountsTranscript ==
  \A i \in DOMAIN completions :
    completions[i].end_reason # NoReason =>
      call.state = "ended" /\ completions[i].message_count = messages

\* Readers of the call see the life CallContract promises, whatever the
\* runners, the user and the creating request do at the same time.
Contract == INSTANCE CallContract WITH
  phase <- call.state,
  token <- call.fencing_token,
  log <- [i \in DOMAIN turns |-> turns[i].token]
RefinesCallContract == Contract!Spec

\* A runner whose session has started ends its call when the room closes
\* ("akhiri session dengan end_reason eksplisit saat room tutup",
\* realtime/call_session.py:12).
RoomCloseEndsCall ==
  \A r \in Runners :
    (runner[r].pc = "started" /\ runner[r].ended) ~> (call.state = "ended")

=============================================================================
