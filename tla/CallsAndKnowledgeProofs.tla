---------------------- MODULE CallsAndKnowledgeProofs ----------------------
(***************************************************************************)
(* Proofs about a call, the projections of a document and what is learnt   *)
(* of a completed conversation: CallLifecycle, for any set of runners and  *)
(* any number of turns, with and without losses; EmbeddingProjections and  *)
(* AnalysisChain as MCCallsAndKnowledge composes them, for any workers,    *)
(* calls, chunks and profiles.                                             *)
(*                                                                         *)
(* A call takes turns only while it is active, and admissions, which alone *)
(* move the token, only before it: so the turns are all of one token.  An  *)
(* end decides on a conversation that may have been read long before; it   *)
(* is right all the same because a conversation never leaves "completed",  *)
(* and is announced when it gets there.                                    *)
(*                                                                         *)
(* A document's branch is marked only by a worker whose vector the store   *)
(* has accepted.  An extraction is the only one of its range because its   *)
(* insert waits for the one on its way, and a job is run by one worker at  *)
(* a time: what a worker leaves behind is there when its job succeeds.     *)
(***************************************************************************)
EXTENDS MCCallsAndKnowledge, SequenceTheorems, TLAPS
-----------------------------------------------------------------------------
(* A call *)

\* A call exists once its creator has committed, and before LiveKit is asked
Created ==
  /\ creator = "idle" <=> call.state = "none"
  /\ offered => creator # "idle"
  /\ requests # {} => offered
  /\ \A r \in Runners : runner[r].pc # "idle" => offered
  /\ call.state = "none" <=> conversation = "none"

\* Nothing is written to a call before it is active
Silent == call.state \in {"none", "created", "admitted"} => turns = <<>>

\* A conversation is announced when it is completed, and stays so
Announced == conversation = "completed" => completions # <<>>

\* What an end has read of the conversation is true or has been overtaken
Overtaken ==
  \A q \in requests :
    q.kind = "end" /\ q.saw = "completed" => conversation = "completed"

CallInv ==
  /\ TypeOK
  /\ Created
  /\ Silent
  /\ OneWriter
  /\ Announced
  /\ Overtaken
  /\ EndClosesConversation
  /\ EndCountsTranscript

-----------------------------------------------------------------------------
(* Types *)

LEMMA CloseConversationType ==
  ASSUME TypeOK, NEW saw, NEW reason \in Reasons \cup {NoReason},
         CloseConversation(saw, reason)
  PROVE  /\ conversation' \in {"none", "active", "completed"}
         /\ completions' \in Seq(CompletionEvents)
<1>1. [message_count |-> messages, end_reason |-> reason] \in CompletionEvents
  BY DEF TypeOK, CompletionEvents
<1>2. CASE saw = "active"
  BY <1>1, <1>2 DEF CloseConversation, TypeOK
<1>3. CASE saw # "active"
  BY <1>3 DEF CloseConversation, TypeOK
<1> QED
  BY <1>2, <1>3

LEMMA EndRowType ==
  ASSUME NEW row \in CallRows, NEW reason \in Reasons
  PROVE  EndRow(row, reason) \in CallRows
  BY DEF CallRows, EndRow

\* A runner sends requests of the four kinds, and only those
LEMMA RequestTypes ==
  ASSUME TypeOK, NEW r \in Runners, NEW text \in BOOLEAN, NEW interrupted \in BOOLEAN,
         NEW reason \in Reasons
  PROVE  /\ AdmitRequest(r) \in Requests
         /\ ActivateRequest(r) \in Requests
         /\ TurnRequest(r, text, interrupted) \in Requests
         /\ EndRequest(r, reason) \in Requests
<1>0. runner[r].token \in Nat /\ runner[r].heard \in Nat
  BY DEF TypeOK, RunnerStates
<1>1. AdmitRequest(r) \in [kind : {"admit"}, from : Runners]
  BY DEF AdmitRequest
<1>2. ActivateRequest(r) \in [kind : {"activate"}, from : Runners, token : Nat]
  BY <1>0 DEF ActivateRequest
<1>3. TurnRequest(r, text, interrupted) \in
        [kind : {"turn"}, from : Runners, token : Nat, number : Nat,
         text : BOOLEAN, interrupted : BOOLEAN]
  BY <1>0 DEF TurnRequest
<1>4. EndRequest(r, reason) \in
        [kind : {"end"}, from : Runners, reason : Reasons,
         saw : {"unread", "active", "completed"}]
  BY DEF EndRequest
<1> QED
  BY <1>1, <1>2, <1>3, <1>4 DEF Requests

\* The fields of a request are those of its kind
LEMMA RequestFields ==
  ASSUME NEW q \in Requests
  PROVE  /\ q.from \in Runners
         /\ q.kind \in {"activate", "turn"} => q.token \in Nat
         /\ q.kind = "end" =>
              /\ q \in [kind : {"end"}, from : Runners, reason : Reasons,
                        saw : {"unread", "active", "completed"}]
              /\ q.reason \in Reasons
              /\ q.saw \in {"unread", "active", "completed"}
  BY DEF Requests

\* A step of a runner changes its own state only
LEMMA RunnerUpdates ==
  ASSUME TypeOK, NEW r \in Runners,
         NEW pc \in {"admitting", "connecting", "activating", "starting", "started", "done"}
  PROVE  /\ [runner EXCEPT ![r].pc = pc] \in [Runners -> RunnerStates]
         /\ [runner EXCEPT ![r].pc = pc, ![r].ended = TRUE] \in [Runners -> RunnerStates]
         /\ [runner EXCEPT ![r].ended = TRUE] \in [Runners -> RunnerStates]
         /\ [runner EXCEPT ![r].heard = @ + 1] \in [Runners -> RunnerStates]
         /\ \A token \in Nat :
              [runner EXCEPT ![r].pc = pc, ![r].token = token] \in [Runners -> RunnerStates]
<1> DEFINE old == runner[r]
<1>1. old \in RunnerStates
  BY DEF TypeOK
<1> HIDE DEF old
<1>2. [old EXCEPT !.pc = pc] \in RunnerStates
  BY <1>1 DEF RunnerStates
<1>3. [old EXCEPT !.pc = pc, !.ended = TRUE] \in RunnerStates
  BY <1>1 DEF RunnerStates
<1>4. [old EXCEPT !.ended = TRUE] \in RunnerStates
  BY <1>1 DEF RunnerStates
<1>5. [old EXCEPT !.heard = @ + 1] \in RunnerStates
  <2>1. old.heard + 1 \in Nat
    BY <1>1 DEF RunnerStates
  <2> QED
    BY <1>1, <2>1 DEF RunnerStates
<1>6. ASSUME NEW token \in Nat
      PROVE  [old EXCEPT !.pc = pc, !.token = token] \in RunnerStates
  BY <1>1 DEF RunnerStates
<1> USE DEF old
<1>7. /\ [runner EXCEPT ![r].pc = pc] \in [Runners -> RunnerStates]
      /\ [runner EXCEPT ![r].pc = pc, ![r].ended = TRUE] \in [Runners -> RunnerStates]
      /\ [runner EXCEPT ![r].ended = TRUE] \in [Runners -> RunnerStates]
  BY <1>2, <1>3, <1>4 DEF TypeOK
<1>8. [runner EXCEPT ![r].heard = @ + 1] \in [Runners -> RunnerStates]
  BY <1>5 DEF TypeOK
<1>9. ASSUME NEW token \in Nat
      PROVE  [runner EXCEPT ![r].pc = pc, ![r].token = token] \in [Runners -> RunnerStates]
  BY <1>6 DEF TypeOK
<1> QED
  BY <1>7, <1>8, <1>9

LEMMA TypeInit == Init => TypeOK
<1> SUFFICES ASSUME Init PROVE TypeOK
  OBVIOUS
<1>1. runner \in [Runners -> RunnerStates]
  BY DEF Init, RunnerStates
<1>2. call \in CallRows
  BY DEF Init, NoCall, CallRows
<1> QED
  <2>1. turns \in Seq(CallTurns) /\ completions \in Seq(CompletionEvents)
    BY DEF Init
  <2>2. requests \subseteq Requests /\ messages \in Nat /\ offered \in BOOLEAN
    BY DEF Init
  <2>3. conversation \in {"none", "active", "completed"}
        /\ creator \in {"idle", "dispatching", "done"}
    BY DEF Init
  <2> QED
    BY <1>1, <1>2, <2>1, <2>2, <2>3 DEF TypeOK

LEMMA UserType == TypeOK /\ Created /\ User => TypeOK'
<1> SUFFICES ASSUME TypeOK, Created, User PROVE TypeOK'
  OBVIOUS
<1> USE DEF TypeOK
<1>0. {"user_hangup", "error"} \subseteq Reasons
  BY DEF Reasons
<1>1. CASE CreateCall
  <2>1. call' \in CallRows
    BY <1>1 DEF CreateCall, CallRows
  <2> QED
    BY <1>1, <2>1 DEF CreateCall
<1>2. CASE LiveKitGetsDispatch
  BY <1>2 DEF LiveKitGetsDispatch, database
<1>3. CASE CreatorReturns
  BY <1>3 DEF CreatorReturns, database
<1>4. CASE DispatchFails
  <2>1. call' \in CallRows
    BY <1>0, <1>4 DEF DispatchFails, CallRows
  <2> QED
    BY <1>0, <1>4, <2>1, CloseConversationType DEF DispatchFails
<1>5. CASE UserEnd
  BY <1>0, <1>5, CloseConversationType, EndRowType DEF UserEnd, EndOpen
<1>6. CASE CompleteSession
  BY <1>6, CloseConversationType DEF CompleteSession
<1> QED
  BY <1>1, <1>2, <1>3, <1>4, <1>5, <1>6 DEF User

LEMMA ServeType ==
  ASSUME TypeOK, Created, NEW q \in requests, Serve(q)
  PROVE  TypeOK'
<1> USE DEF TypeOK
<1>0. q \in Requests /\ q.from \in Runners
  BY RequestFields
<1>1. CASE AdmitCall(q)
  <2>0. call.fencing_token + 1 \in Nat
    BY DEF CallRows
  <2>1. call' \in CallRows /\ call'.fencing_token = call.fencing_token + 1
    BY <1>0, <1>1, <2>0 DEF AdmitCall, CallRows
  <2>2. runner' \in [Runners -> RunnerStates]
    <3>1. CASE UNCHANGED runner
      BY <3>1
    <3>2. CASE runner' = [runner EXCEPT ![q.from].pc = "connecting",
                                        ![q.from].token = call'.fencing_token]
      BY <1>0, <2>0, <2>1, <3>2, RunnerUpdates
    <3> QED
      BY <1>1, <3>1, <3>2 DEF AdmitCall
  <2> QED
    BY <1>1, <2>1, <2>2 DEF AdmitCall
<1>2. CASE ActivateCall(q)
  <2>1. call' \in CallRows
    BY <1>2 DEF ActivateCall, CallRows
  <2>2. runner' \in [Runners -> RunnerStates]
    <3>1. CASE UNCHANGED runner
      BY <3>1
    <3>2. CASE runner' = [runner EXCEPT ![q.from].pc = "starting"]
      BY <1>0, <3>2, RunnerUpdates
    <3> QED
      BY <1>2, <3>1, <3>2 DEF ActivateCall, Answer
  <2> QED
    BY <1>2, <2>1, <2>2 DEF ActivateCall
<1>3. CASE RecordTurn(q)
  <2>1. q.token \in Nat
    BY <1>0, <1>3, RequestFields DEF RecordTurn, Transcribed, NewTurn
  <2>2. [token |-> q.token,
         message |-> IF q.text THEN messages + 1 ELSE 0,
         state |-> IF q.interrupted THEN "interrupted" ELSE "started"] \in CallTurns
    BY <2>1 DEF CallTurns
  <2> QED
    BY <1>3, <2>2 DEF RecordTurn, Transcribed, NewTurn
<1>4. CASE ReadConversation(q)
  <2>1. conversation \in {"active", "completed"}
    BY DEF Created
  <2>2. [q EXCEPT !.saw = conversation] \in
          [kind : {"end"}, from : Runners, reason : Reasons,
           saw : {"unread", "active", "completed"}]
    BY <1>0, <1>4, <2>1, RequestFields DEF ReadConversation
  <2>3. requests' \subseteq Requests
    BY <1>4, <2>2 DEF ReadConversation, Requests
  <2> QED
    BY <1>4, <2>3 DEF ReadConversation, database
<1>5. CASE EndCall(q)
  <2>1. q.reason \in Reasons
    BY <1>0, <1>5, RequestFields DEF EndCall
  <2> QED
    BY <1>5, <2>1, CloseConversationType, EndRowType DEF EndCall, EndOpen
<1>6. CASE Unserved(q)
  BY <1>6 DEF Unserved, database
<1> QED
  BY <1>1, <1>2, <1>3, <1>4, <1>5, <1>6 DEF Serve

LEMMA SafeEndType ==
  ASSUME TypeOK, NEW r \in Runners, NEW pc \in {"starting", "done"},
         NEW reason \in Reasons, SafeEnd(r, pc, reason)
  PROVE  /\ runner' \in [Runners -> RunnerStates]
         /\ requests' \subseteq Requests
<1>1. runner' \in [Runners -> RunnerStates]
  BY RunnerUpdates DEF SafeEnd
<1>2. EndRequest(r, reason) \in Requests
  BY RequestTypes
<1> QED
  BY <1>1, <1>2 DEF SafeEnd, Send, TypeOK

LEMMA RunType ==
  ASSUME TypeOK, NEW r \in Runners, Run(r)
  PROVE  TypeOK'
<1> USE DEF TypeOK
<1>0. {"error", "timeout"} \subseteq Reasons
  BY DEF Reasons
<1>1. CASE GetSessionConfig(r)
  <2>1. AdmitRequest(r) \in Requests
    BY <1>0, RequestTypes
  <2> QED
    <3>1. CASE Goto(r, "done") /\ UNCHANGED requests
      BY <1>1, <3>1, RunnerUpdates DEF GetSessionConfig, Goto, database
    <3>2. CASE Goto(r, "admitting") /\ Send(AdmitRequest(r))
      BY <1>1, <2>1, <3>2, RunnerUpdates DEF GetSessionConfig, Goto, Send, database
    <3> QED
      BY <1>1, <3>1, <3>2 DEF GetSessionConfig
<1>2. CASE Connect(r)
  <2>1. ActivateRequest(r) \in Requests
    BY <1>0, RequestTypes
  <2> QED
    BY <1>2, <2>1, RunnerUpdates DEF Connect, Goto, Send, database
<1>3. CASE HearTurn(r)
  <2>1. PICK text \in BOOLEAN, interrupted \in BOOLEAN :
          Send(TurnRequest(r, text, interrupted))
    BY <1>3 DEF HearTurn
  <2>2. TurnRequest(r, text, interrupted) \in Requests
    BY <1>0, RequestTypes
  <2>3. runner' \in [Runners -> RunnerStates]
    BY <1>3, RunnerUpdates DEF HearTurn
  <2> QED
    BY <1>3, <2>1, <2>2, <2>3 DEF HearTurn, Send, database
<1>4. CASE StartReturns(r)
  BY <1>4, RunnerUpdates DEF StartReturns, Goto, database
<1>5. CASE RunFails(r)
  BY <1>0, <1>5, SafeEndType DEF RunFails, database
<1>6. CASE MaxDuration(r)
  BY <1>0, <1>6, SafeEndType DEF MaxDuration, database
<1>7. CASE Disconnected(r)
  BY <1>7, RunnerUpdates DEF Disconnected, database
<1>8. CASE RunnerDies(r)
  BY <1>8, RunnerUpdates DEF RunnerDies, Goto, database
<1> QED
  BY <1>1, <1>2, <1>3, <1>4, <1>5, <1>6, <1>7, <1>8 DEF Run

-----------------------------------------------------------------------------
(* The invariant *)

LEMMA AppendedTurn ==
  ASSUME NEW sent \in Seq(CallTurns), NEW longer,
         NEW token, NEW message, NEW state,
         longer = Append(sent, [token |-> token, message |-> message, state |-> state])
  PROVE  \A i \in DOMAIN longer :
           longer[i].token = token \/ (i \in DOMAIN sent /\ longer[i] = sent[i])
<1> SUFFICES ASSUME NEW i \in DOMAIN longer
             PROVE  longer[i].token = token \/ (i \in DOMAIN sent /\ longer[i] = sent[i])
  OBVIOUS
<1> DEFINE turn == [token |-> token, message |-> message, state |-> state]
<1>1. turn.token = token
  OBVIOUS
<1> HIDE DEF turn
<1>2. longer = Append(sent, turn)
  BY DEF turn
<1>3. i \in 1 .. Len(sent) + 1
  BY <1>2
<1>4. CASE i = Len(sent) + 1
  BY <1>1, <1>2, <1>4
<1>5. CASE i # Len(sent) + 1
  BY <1>2, <1>3, <1>5
<1> QED
  BY <1>4, <1>5

LEMMA AppendedEvent ==
  ASSUME NEW events \in Seq(CompletionEvents), NEW event \in CompletionEvents,
         NEW longer, longer = Append(events, event)
  PROVE  \A i \in DOMAIN longer :
           longer[i] = event \/ (i \in DOMAIN events /\ longer[i] = events[i])
<1> SUFFICES ASSUME NEW i \in DOMAIN longer
             PROVE  longer[i] = event \/ (i \in DOMAIN events /\ longer[i] = events[i])
  OBVIOUS
<1>1. i \in 1 .. Len(events) + 1
  OBVIOUS
<1>2. CASE i = Len(events) + 1
  BY <1>2
<1>3. CASE i # Len(events) + 1
  BY <1>1, <1>3
<1> QED
  BY <1>2, <1>3

\* An end that decides on a reading the conversation may have overtaken
\* closes it and announces it
LEMMA CloseCorrect ==
  ASSUME CallInv, call.state # "ended", call'.state = "ended", messages' = messages,
         NEW saw, saw = "active" \/ (saw = "completed" /\ conversation = "completed"),
         NEW reason \in Reasons, CloseConversation(saw, reason)
  PROVE  /\ conversation' = "completed"
         /\ completions' # <<>>
         /\ EndCountsTranscript'
<1>1. \A i \in DOMAIN completions : completions[i].end_reason = NoReason
  BY DEF CallInv, EndCountsTranscript
<1>2. CASE saw = "active"
  <2> DEFINE event == [message_count |-> messages, end_reason |-> reason]
  <2>1. conversation' = "completed" /\ completions' = Append(completions, event)
    BY <1>2 DEF CloseConversation
  <2>2. completions \in Seq(CompletionEvents) /\ event \in CompletionEvents
    BY DEF CallInv, TypeOK, CompletionEvents
  <2>3. completions' # <<>>
    BY <2>1, <2>2
  <2> HIDE DEF event
  <2>4. \A i \in DOMAIN completions' :
          completions'[i] = event \/ (i \in DOMAIN completions /\ completions'[i] = completions[i])
    BY <2>1, <2>2, AppendedEvent
  <2>5. event.message_count = messages
    BY DEF event
  <2>6. EndCountsTranscript'
    BY <1>1, <2>4, <2>5 DEF EndCountsTranscript
  <2> QED
    BY <2>1, <2>3, <2>6
<1>3. CASE saw = "completed" /\ conversation = "completed"
  <2>1. UNCHANGED <<conversation, completions>>
    BY <1>3 DEF CloseConversation
  <2>2. completions # <<>>
    BY <1>3 DEF CallInv, Announced
  <2> QED
    BY <1>1, <1>3, <2>1, <2>2 DEF EndCountsTranscript
<1> QED
  BY <1>2, <1>3

LEMMA EndOpenCorrect ==
  ASSUME CallInv, NEW saw, saw = "active" \/ (saw = "completed" /\ conversation = "completed"),
         NEW reason \in Reasons, EndOpen(saw, reason)
  PROVE  /\ call'.state = "ended"
         /\ call'.fencing_token = call.fencing_token
         /\ UNCHANGED <<turns, messages>>
         /\ conversation' = "completed"
         /\ completions' # <<>>
         /\ EndCountsTranscript'
<1>1. /\ call'.state = "ended"
      /\ call'.fencing_token = call.fencing_token
      /\ UNCHANGED <<turns, messages>>
  BY DEF CallInv, TypeOK, CallRows, EndOpen, EndRow
<1>2. call.state # "ended" /\ CloseConversation(saw, reason)
  BY DEF EndOpen
<1> QED
  BY <1>1, <1>2, CloseCorrect

\* An end by whoever may call end_call keeps the invariant
LEMMA EndInv ==
  ASSUME CallInv, TypeOK', call.state # "none",
         NEW saw, saw = "active" \/ (saw = "completed" /\ conversation = "completed"),
         NEW reason \in Reasons, EndOpen(saw, reason),
         requests' \subseteq requests, UNCHANGED <<creator, offered, runner>>
  PROVE  CallInv'
<1>1. /\ call'.state = "ended"
      /\ call'.fencing_token = call.fencing_token
      /\ UNCHANGED <<turns, messages>>
      /\ conversation' = "completed"
      /\ completions' # <<>>
      /\ EndCountsTranscript'
  BY EndOpenCorrect
<1>2. Created' /\ Silent' /\ Announced' /\ Overtaken'
  BY <1>1 DEF CallInv, Created, Silent, Announced, Overtaken
<1>3. OneWriter' /\ EndClosesConversation'
  BY <1>1 DEF CallInv, OneWriter, EndClosesConversation
<1> QED
  BY <1>1, <1>2, <1>3 DEF CallInv

LEMMA InitInv == Init => CallInv
<1> SUFFICES ASSUME Init PROVE CallInv
  OBVIOUS
<1>1. TypeOK
  BY TypeInit
<1>2. call.state = "none" /\ call.state # "ended"
  BY DEF Init, NoCall
<1>3. Created /\ Silent /\ Announced /\ Overtaken
  BY <1>2 DEF Init, Created, Silent, Announced, Overtaken
<1>4. OneWriter /\ EndClosesConversation /\ EndCountsTranscript
  BY <1>2 DEF Init, OneWriter, EndClosesConversation, EndCountsTranscript
<1> QED
  BY <1>1, <1>3, <1>4 DEF CallInv

\* A runner sends requests, and ends that have read nothing; nothing else
LEMMA RunSends ==
  ASSUME NEW r \in Runners, Run(r)
  PROVE  /\ UNCHANGED <<database, creator, offered>>
         /\ \A q \in requests' : q \in requests \/ q.kind # "end" \/ q.saw = "unread"
<1>1. UNCHANGED <<database, creator, offered>>
  BY DEF Run, GetSessionConfig, Connect, HearTurn, StartReturns, RunFails, MaxDuration,
         Disconnected, RunnerDies
<1>2. \A q \in requests' : q \in requests \/ q = AdmitRequest(r) \/ q = ActivateRequest(r)
        \/ (\E text, interrupted \in BOOLEAN : q = TurnRequest(r, text, interrupted))
        \/ (\E reason \in {"error", "timeout"} : q = EndRequest(r, reason))
  BY DEF Run, GetSessionConfig, Connect, HearTurn, StartReturns, RunFails, MaxDuration,
         Disconnected, RunnerDies, Send, SafeEnd
<1> QED
  BY <1>1, <1>2 DEF AdmitRequest, ActivateRequest, TurnRequest, EndRequest

\* A runner runs once LiveKit has the dispatch
LEMMA RunOffered ==
  ASSUME TypeOK, Created, NEW r \in Runners, Run(r)
  PROVE  /\ offered
         /\ \A s \in Runners : s # r => runner'[s].pc = runner[s].pc
<1>1. offered
  <2>1. runner[r].pc # "idle" => offered
    BY DEF Created
  <2> QED
    BY <2>1 DEF Run, GetSessionConfig, Connect, HearTurn, StartReturns, RunFails, MaxDuration,
           Disconnected, RunnerDies
<1>2. ASSUME NEW s \in Runners, s # r PROVE runner'[s].pc = runner[s].pc
  BY <1>2 DEF TypeOK, Run, GetSessionConfig, Connect, HearTurn, StartReturns, RunFails,
       MaxDuration, Disconnected, RunnerDies, Goto, SafeEnd
<1> QED
  BY <1>1, <1>2

LEMMA RunInv ==
  ASSUME CallInv, NEW r \in Runners, Run(r)
  PROVE  CallInv'
<1>1. TypeOK'
  BY RunType DEF CallInv
<1>2. UNCHANGED <<call, conversation, turns, messages, completions, creator, offered>>
  BY RunSends DEF database
<1>3. Created'
  BY <1>2, RunOffered DEF CallInv, Created
<1>4. Overtaken'
  BY <1>2, RunSends DEF CallInv, Overtaken
<1> QED
  BY <1>1, <1>2, <1>3, <1>4
  DEF CallInv, Silent, OneWriter, Announced, EndClosesConversation, EndCountsTranscript

LEMMA UserInv == CallInv /\ User => CallInv'
<1> SUFFICES ASSUME CallInv, User PROVE CallInv'
  OBVIOUS
<1>0. TypeOK'
  BY UserType DEF CallInv
<1>1. CASE CreateCall
  <2>1. /\ call.state = "none" /\ call'.state = "created"
        /\ call'.fencing_token = call.fencing_token
        /\ conversation' = "active"
        /\ creator' = "dispatching"
    BY <1>1 DEF CreateCall, CallInv, Created, TypeOK, CallRows
  <2>2. UNCHANGED <<turns, messages, completions, offered, requests, runner>>
    BY <1>1 DEF CreateCall
  <2>3. conversation = "none" /\ ~offered /\ requests = {}
    BY <1>1, <2>1 DEF CreateCall, CallInv, Created
  <2>4. Created' /\ Silent' /\ Announced' /\ Overtaken'
    BY <2>1, <2>2, <2>3 DEF CallInv, Created, Silent, Announced, Overtaken
  <2>5. OneWriter' /\ EndClosesConversation'
    BY <2>1, <2>2 DEF CallInv, OneWriter, EndClosesConversation
  <2>6. EndCountsTranscript'
    BY <2>1, <2>2 DEF CallInv, EndCountsTranscript
  <2> QED
    BY <1>0, <2>4, <2>5, <2>6 DEF CallInv
<1>2. CASE LiveKitGetsDispatch \/ CreatorReturns
  <2>1. UNCHANGED <<call, conversation, turns, messages, completions, requests, runner>>
    BY <1>2 DEF LiveKitGetsDispatch, CreatorReturns, database
  <2>2. Created'
    BY <1>2, <2>1 DEF LiveKitGetsDispatch, CreatorReturns, CallInv, Created
  <2> QED
    BY <1>0, <2>1, <2>2
    DEF CallInv, Silent, OneWriter, Announced, Overtaken, EndClosesConversation,
        EndCountsTranscript
<1>3. CASE DispatchFails
  <2>1. /\ call.state # "none" /\ call'.state = "ended"
        /\ call'.fencing_token = call.fencing_token
    BY <1>3 DEF DispatchFails, CallInv, Created, TypeOK, CallRows
  <2>2. UNCHANGED <<turns, messages, offered, requests, runner>> /\ creator' = "done"
    BY <1>3 DEF DispatchFails
  <2>3. /\ conversation' = "completed" /\ completions' # <<>>
        /\ EndCountsTranscript'
    <3>1. CASE call.state = "ended"
      <4>1. conversation = "completed" /\ completions # <<>>
        BY <3>1 DEF CallInv, EndClosesConversation
      <4>2. UNCHANGED <<conversation, completions>>
        BY <1>3, <4>1 DEF DispatchFails, CloseConversation
      <4> QED
        BY <2>1, <2>2, <3>1, <4>1, <4>2 DEF CallInv, EndCountsTranscript
    <3>2. CASE call.state # "ended"
      <4>1. conversation = "active" \/ conversation = "completed"
        BY <2>1 DEF CallInv, Created, TypeOK
      <4>2. "error" \in Reasons
        BY DEF Reasons
      <4>3. CloseConversation(conversation, "error")
        BY <1>3 DEF DispatchFails
      <4> QED
        BY <2>1, <2>2, <3>2, <4>1, <4>2, <4>3, CloseCorrect
    <3> QED
      BY <3>1, <3>2
  <2>4. Created' /\ Silent' /\ Announced' /\ Overtaken'
    BY <1>3, <2>1, <2>2, <2>3
    DEF DispatchFails, CallInv, Created, Silent, Announced, Overtaken
  <2>5. OneWriter' /\ EndClosesConversation'
    BY <2>1, <2>2, <2>3 DEF CallInv, OneWriter, EndClosesConversation
  <2> QED
    BY <1>0, <2>3, <2>4, <2>5 DEF CallInv
<1>4. CASE UserEnd
  <2>1. EndOpen(conversation, "user_hangup") /\ "user_hangup" \in Reasons
    BY <1>4 DEF UserEnd, Reasons
  <2>2. call.state # "none" /\ (conversation = "active" \/ conversation = "completed")
    BY <1>4 DEF UserEnd, CallInv, Created, TypeOK
  <2>3. UNCHANGED <<creator, offered, requests, runner>>
    BY <1>4 DEF UserEnd
  <2> QED
    BY <1>0, <2>1, <2>2, <2>3, EndInv
<1>5. CASE CompleteSession
  <2> DEFINE event == [message_count |-> messages, end_reason |-> NoReason]
  <2>1. /\ UNCHANGED <<call, turns, messages, creator, offered, requests, runner>>
        /\ conversation = "active" /\ conversation' = "completed"
        /\ completions' = Append(completions, event)
    BY <1>5 DEF CompleteSession, CloseConversation
  <2>2. completions \in Seq(CompletionEvents)
    BY DEF CallInv, TypeOK
  <2>3. completions' # <<>>
    BY <2>1, <2>2
  <2>4. EndCountsTranscript'
    BY <2>1, <2>2, AppendedEvent DEF CallInv, EndCountsTranscript
  <2>5. Created' /\ Silent' /\ Announced' /\ Overtaken'
    BY <2>1, <2>3 DEF CallInv, Created, Silent, Announced, Overtaken
  <2>6. OneWriter' /\ EndClosesConversation'
    BY <2>1, <2>3 DEF CallInv, OneWriter, EndClosesConversation
  <2> QED
    BY <1>0, <2>4, <2>5, <2>6 DEF CallInv
<1> QED
  BY <1>1, <1>2, <1>3, <1>4, <1>5 DEF User

LEMMA ServeInv ==
  ASSUME CallInv, NEW q \in requests, Serve(q)
  PROVE  CallInv'
<1>0. TypeOK'
  BY ServeType DEF CallInv
<1>a. call.state # "none" /\ conversation # "none" /\ creator # "idle" /\ offered
  BY DEF CallInv, Created
<1>1. CASE AdmitCall(q)
  <2>1. /\ call.state \in {"created", "admitted"} /\ call'.state = "admitted"
        /\ UNCHANGED <<conversation, turns, messages, completions, creator, offered>>
        /\ requests' \subseteq requests
    BY <1>1 DEF AdmitCall, CanAdmit, CallInv, TypeOK, CallRows
  <2>2. turns = <<>>
    BY <2>1 DEF CallInv, Silent
  <2>3. Created' /\ Silent' /\ Announced' /\ Overtaken'
    BY <1>a, <2>1, <2>2 DEF CallInv, Created, Silent, Announced, Overtaken
  <2>4. OneWriter' /\ EndClosesConversation' /\ EndCountsTranscript'
    BY <2>1, <2>2
    DEF CallInv, OneWriter, EndClosesConversation, EndCountsTranscript
  <2> QED
    BY <1>0, <2>3, <2>4 DEF CallInv
<1>2. CASE ActivateCall(q)
  <2>1. /\ call.state = "admitted" /\ call'.state = "active"
        /\ call'.fencing_token = call.fencing_token
        /\ UNCHANGED <<conversation, turns, messages, completions, creator, offered>>
        /\ requests' \subseteq requests
    BY <1>2 DEF ActivateCall, CanActivate, CallInv, TypeOK, CallRows
  <2>2. Created' /\ Silent' /\ Announced' /\ Overtaken'
    BY <1>a, <2>1 DEF CallInv, Created, Silent, Announced, Overtaken
  <2>3. OneWriter' /\ EndClosesConversation' /\ EndCountsTranscript'
    BY <2>1 DEF CallInv, OneWriter, EndClosesConversation, EndCountsTranscript
  <2> QED
    BY <1>0, <2>2, <2>3 DEF CallInv
<1>3. CASE RecordTurn(q)
  <2>1. /\ call.state = "active" /\ q.token = call.fencing_token
        /\ UNCHANGED <<call, conversation, completions, creator, offered, runner>>
        /\ requests' \subseteq requests
    BY <1>3 DEF RecordTurn, Transcribed, NewTurn, CanRecord, Fenced
  <2>2. Created' /\ Silent' /\ Announced' /\ Overtaken'
    BY <1>a, <2>1 DEF CallInv, Created, Silent, Announced, Overtaken
  <2>3. OneWriter'
    <3>1. \A i \in DOMAIN turns' :
            turns'[i].token = q.token \/ (i \in DOMAIN turns /\ turns'[i] = turns[i])
      BY <1>3, AppendedTurn DEF RecordTurn, Transcribed, NewTurn, CallInv, TypeOK
    <3> QED
      BY <2>1, <3>1 DEF CallInv, OneWriter
  <2>4. EndClosesConversation' /\ EndCountsTranscript'
    BY <2>1 DEF CallInv, EndClosesConversation, EndCountsTranscript
  <2> QED
    BY <1>0, <2>2, <2>3, <2>4 DEF CallInv
<1>4. CASE ReadConversation(q)
  <2>1. /\ UNCHANGED <<call, conversation, turns, messages, completions, creator, offered,
                       runner>>
        /\ requests' = (requests \ {q}) \cup {[q EXCEPT !.saw = conversation]}
        /\ [q EXCEPT !.saw = conversation].saw = conversation
    <3>1. q \in [kind : {"end"}, from : Runners, reason : Reasons,
                 saw : {"unread", "active", "completed"}]
      BY <1>4, RequestFields DEF ReadConversation, CallInv, TypeOK
    <3> QED
      BY <1>4, <3>1 DEF ReadConversation, database
  <2>2. Overtaken'
    BY <2>1 DEF CallInv, Overtaken
  <2>3. Created'
    BY <1>a, <2>1 DEF CallInv, Created
  <2> QED
    BY <1>0, <2>1, <2>2, <2>3
    DEF CallInv, Silent, OneWriter, Announced, EndClosesConversation, EndCountsTranscript
<1>5. CASE EndCall(q)
  <2>1. q.reason \in Reasons /\ (q.saw = "active" \/ q.saw = "completed")
    BY <1>5, RequestFields DEF EndCall, CallInv, TypeOK
  <2>2. q.saw = "active" \/ (q.saw = "completed" /\ conversation = "completed")
    BY <1>5, <2>1 DEF EndCall, CallInv, Overtaken
  <2>3. EndOpen(q.saw, q.reason)
    BY <1>5 DEF EndCall
  <2>4. requests' \subseteq requests /\ UNCHANGED <<creator, offered, runner>>
    BY <1>5 DEF EndCall
  <2> QED
    BY <1>0, <1>a, <2>1, <2>2, <2>3, <2>4, EndInv
<1>6. CASE Unserved(q)
  <2>1. /\ UNCHANGED <<call, conversation, turns, messages, completions, creator, offered,
                       runner>>
        /\ requests' \subseteq requests
    BY <1>6 DEF Unserved, database
  <2>2. Created' /\ Overtaken'
    BY <1>a, <2>1 DEF CallInv, Created, Overtaken
  <2> QED
    BY <1>0, <2>1, <2>2
    DEF CallInv, Silent, OneWriter, Announced, EndClosesConversation, EndCountsTranscript
<1> QED
  BY <1>1, <1>2, <1>3, <1>4, <1>5, <1>6 DEF Serve

LEMMA NextInv == CallInv /\ [Next]_vars => CallInv'
<1> SUFFICES ASSUME CallInv, [Next]_vars PROVE CallInv'
  OBVIOUS
<1>1. CASE User
  BY <1>1, UserInv
<1>2. CASE LeaseExpires
  <2>1. /\ call' \in CallRows
        /\ call'.state = call.state /\ call'.fencing_token = call.fencing_token
    BY <1>2 DEF LeaseExpires, CallInv, TypeOK, CallRows
  <2>2. UNCHANGED <<conversation, turns, messages, completions, creator, offered,
                    requests, runner>>
    BY <1>2 DEF LeaseExpires
  <2>3. TypeOK'
    BY <2>1, <2>2 DEF CallInv, TypeOK
  <2> QED
    BY <2>1, <2>2, <2>3
    DEF CallInv, Created, Silent, OneWriter, Announced, Overtaken, EndClosesConversation,
        EndCountsTranscript
<1>3. CASE \E q \in requests : Serve(q)
  BY <1>3, ServeInv
<1>4. CASE \E r \in Runners : Run(r)
  BY <1>4, RunInv
<1>5. CASE UNCHANGED vars
  BY <1>5
  DEF vars, database, CallInv, TypeOK, Created, Silent, OneWriter, Announced, Overtaken,
      EndClosesConversation, EndCountsTranscript
<1> QED
  BY <1>1, <1>2, <1>3, <1>4, <1>5 DEF Next

LEMMA Invariance == Spec => []CallInv
  BY InitInv, NextInv, PTL DEF Spec

-----------------------------------------------------------------------------
(* Theorems *)

\* The rows, the requests and the runners keep their types.
THEOREM CallTypeCorrect == Spec => []TypeOK
<1>1. CallInv => TypeOK
  BY DEF CallInv
<1> QED
  BY <1>1, Invariance, PTL

\* All turns of a call carry the token of its last admission.
THEOREM OneWriterCorrect == Spec => []OneWriter
<1>1. CallInv => OneWriter
  BY DEF CallInv
<1> QED
  BY <1>1, Invariance, PTL

\* A call that has ended has its conversation completed and announced, though
\* an end may decide on an old reading of it.
THEOREM EndClosesCorrect == Spec => []EndClosesConversation
<1>1. CallInv => EndClosesConversation
  BY DEF CallInv
<1> QED
  BY <1>1, Invariance, PTL

\* An event that announces an end counts the transcript as it will stay.
THEOREM EndCountsCorrect == Spec => []EndCountsTranscript
<1>1. CallInv => EndCountsTranscript
  BY DEF CallInv
<1> QED
  BY <1>1, Invariance, PTL

-----------------------------------------------------------------------------
(* The contract *)

Log == [i \in DOMAIN turns |-> turns[i].token]

LEMMA LogAppend ==
  ASSUME NEW sent \in Seq(CallTurns), NEW turn
  PROVE  [i \in DOMAIN Append(sent, turn) |-> Append(sent, turn)[i].token]
           = Append([i \in DOMAIN sent |-> sent[i].token], turn.token)
<1> DEFINE n == Len(sent)
           longer == Append(sent, turn)
           tokens == [i \in 1 .. n |-> sent[i].token]
<1>1. n \in Nat /\ DOMAIN sent = 1 .. n
  OBVIOUS
<1>2. ASSUME NEW i \in 1 .. n
      PROVE  sent[i].token \in Nat
  <2>1. sent[i] \in CallTurns
    BY <1>1, ElementOfSeq
  <2> QED
    BY <2>1 DEF CallTurns
<1>3. tokens \in Seq(Nat) /\ Len(tokens) = n
  <2>1. tokens \in [1 .. n -> Nat]
    BY <1>2
  <2>2. tokens \in Seq(Nat)
    BY <1>1, <2>1, IsASeq
  <2> QED
    BY <1>1, <2>1, <2>2, LenProperties
<1>4. DOMAIN longer = 1 .. (n + 1)
  BY <1>1
<1>5. DOMAIN Append(tokens, turn.token) = 1 .. (n + 1)
  BY <1>1, <1>3
<1>6. ASSUME NEW i \in 1 .. (n + 1)
      PROVE  longer[i].token = Append(tokens, turn.token)[i]
  <2>1. CASE i = n + 1
    <3>1. longer[i] = turn
      BY <1>1, <2>1
    <3>2. Append(tokens, turn.token)[i] = turn.token
      BY <1>3, <2>1
    <3> QED
      BY <3>1, <3>2
  <2>2. CASE i # n + 1
    <3>1. i \in 1 .. n
      BY <1>1, <2>2
    <3>2. longer[i] = sent[i]
      BY <3>1
    <3>3. Append(tokens, turn.token)[i] = tokens[i]
      BY <1>3, <3>1
    <3> QED
      BY <3>1, <3>2, <3>3
  <2> QED
    BY <2>1, <2>2
<1>7. [i \in DOMAIN longer |-> longer[i].token] = [i \in 1 .. (n + 1) |-> longer[i].token]
  BY <1>4
<1>8. Append(tokens, turn.token) = [i \in 1 .. (n + 1) |-> Append(tokens, turn.token)[i]]
  <2>1. Append(tokens, turn.token) = [i \in DOMAIN Append(tokens, turn.token) |->
                                        Append(tokens, turn.token)[i]]
    BY <1>3
  <2> QED
    BY <1>5, <2>1
<1>9. [i \in 1 .. (n + 1) |-> longer[i].token]
        = [i \in 1 .. (n + 1) |-> Append(tokens, turn.token)[i]]
  BY <1>6, Zenon
<1>10. tokens = [i \in DOMAIN sent |-> sent[i].token]
  BY <1>1
<1> HIDE DEF tokens, longer
<1>11. [i \in DOMAIN longer |-> longer[i].token] = Append(tokens, turn.token)
  BY <1>7, <1>8, <1>9
<1> QED
  BY <1>10, <1>11 DEF longer

\* A step that leaves the state and the token of the call, and its turns,
\* is one no reader of the contract sees
LEMMA Unseen ==
  ASSUME call'.state = call.state, call'.fencing_token = call.fencing_token, turns' = turns
  PROVE  UNCHANGED Contract!vars
  BY DEF Contract!vars

LEMMA EndStep ==
  ASSUME call.state \in {"created", "admitted", "active"}, call'.state = "ended",
         call'.fencing_token = call.fencing_token, turns' = turns
  PROVE  Contract!Next
  BY DEF Contract!Next, Contract!End

LEMMA ContractInit == Init => Contract!Init
<1> SUFFICES ASSUME Init PROVE Contract!Init
  OBVIOUS
<1>1. call.state = "none" /\ call.fencing_token = 0
  BY DEF Init, NoCall
<1>2. [i \in DOMAIN turns |-> turns[i].token] = <<>>
  BY DEF Init
<1> QED
  BY <1>1, <1>2 DEF Contract!Init

LEMMA ContractStep == CallInv /\ [Next]_vars => [Contract!Next]_(Contract!vars)
<1> SUFFICES ASSUME CallInv, [Next]_vars
             PROVE  Contract!Next \/ UNCHANGED Contract!vars
  OBVIOUS
<1>0. call \in CallRows
  BY DEF CallInv, TypeOK
<1>1. CASE CreateCall
  <2>1. /\ call.state = "none" /\ call'.state = "created"
        /\ call'.fencing_token = call.fencing_token /\ turns' = turns
    BY <1>0, <1>1 DEF CreateCall, CallInv, Created, CallRows
  <2> QED
    BY <2>1 DEF Contract!Next, Contract!Open
<1>2. CASE DispatchFails
  <2>1. /\ call.state # "none" /\ call'.state = "ended"
        /\ call'.fencing_token = call.fencing_token /\ turns' = turns
    BY <1>0, <1>2 DEF DispatchFails, CallInv, Created, CallRows
  <2>2. CASE call.state = "ended"
    BY <2>1, <2>2, Unseen
  <2>3. CASE call.state # "ended"
    BY <1>0, <2>1, <2>3, EndStep DEF CallRows
  <2> QED
    BY <2>2, <2>3
<1>3. ASSUME NEW saw, NEW reason, EndOpen(saw, reason), call.state # "none"
      PROVE  Contract!Next
  <2>1. /\ call.state \in {"created", "admitted", "active"} /\ call'.state = "ended"
        /\ call'.fencing_token = call.fencing_token /\ turns' = turns
    BY <1>0, <1>3 DEF EndOpen, EndRow, CallRows
  <2> QED
    BY <2>1, EndStep
<1>4. CASE UserEnd
  BY <1>3, <1>4 DEF UserEnd
<1>5. CASE LiveKitGetsDispatch \/ CreatorReturns \/ CompleteSession
  BY <1>5, Unseen DEF LiveKitGetsDispatch, CreatorReturns, CompleteSession, database
<1>6. CASE LeaseExpires
  BY <1>0, <1>6, Unseen DEF LeaseExpires, CallRows
<1>7. ASSUME NEW q \in requests, Serve(q)
      PROVE  Contract!Next \/ UNCHANGED Contract!vars
  <2>1. CASE AdmitCall(q)
    <3>1. /\ call.state \in {"created", "admitted"} /\ call'.state = "admitted"
          /\ call'.fencing_token = call.fencing_token + 1 /\ turns' = turns
      BY <1>0, <2>1 DEF AdmitCall, CanAdmit, CallRows
    <3> QED
      BY <3>1 DEF Contract!Next, Contract!Admit
  <2>2. CASE ActivateCall(q)
    <3>1. /\ call.state = "admitted" /\ call'.state = "active"
          /\ call'.fencing_token = call.fencing_token /\ turns' = turns
      BY <1>0, <2>2 DEF ActivateCall, CanActivate, CallRows
    <3> QED
      BY <3>1 DEF Contract!Next, Contract!Activate
  <2>3. CASE RecordTurn(q)
    <3>1. /\ call.state = "active" /\ call' = call /\ q.token = call.fencing_token
      BY <2>3 DEF RecordTurn, Transcribed, NewTurn, CanRecord, Fenced
    <3>2. Log' = Append(Log, call.fencing_token)
      <4> DEFINE turn == [token |-> q.token,
                          message |-> IF q.text THEN messages + 1 ELSE 0,
                          state |-> IF q.interrupted THEN "interrupted" ELSE "started"]
      <4>1. turns \in Seq(CallTurns) /\ turns' = Append(turns, turn)
        BY <2>3 DEF RecordTurn, Transcribed, NewTurn, CallInv, TypeOK
      <4>2. turn.token = call.fencing_token
        BY <3>1
      <4> HIDE DEF turn
      <4>3. Log' = Append(Log, turn.token)
        BY <4>1, LogAppend DEF Log
      <4> QED
        BY <4>2, <4>3
    <3> QED
      BY <3>1, <3>2 DEF Contract!Next, Contract!Record, Log
  <2>4. CASE ReadConversation(q) \/ Unserved(q)
    BY <2>4, Unseen DEF ReadConversation, Unserved, database
  <2>5. CASE EndCall(q)
    BY <1>3, <2>5 DEF EndCall, CallInv, Created
  <2> QED
    BY <1>7, <2>1, <2>2, <2>3, <2>4, <2>5 DEF Serve
<1>8. CASE \E r \in Runners : Run(r)
  BY <1>8, RunSends, Unseen DEF database
<1>9. CASE UNCHANGED vars
  BY <1>9, Unseen DEF vars, database
<1> QED
  BY <1>1, <1>2, <1>4, <1>5, <1>6, <1>7, <1>8, <1>9 DEF Next, User

\* CallService implements CallContract.
THEOREM CallImplementsContract == Spec => RefinesCallContract
<1>1. Init => Contract!Init
  BY ContractInit
<1>2. CallInv /\ [Next]_vars => [Contract!Next]_(Contract!vars)
  BY ContractStep
<1> QED
  BY <1>1, <1>2, Invariance, PTL DEF Spec, Contract!Spec, RefinesCallContract
-----------------------------------------------------------------------------
(* The projections of a document *)

\* The branches are of the document's chunks, and what a worker is at is one
\* of them
OfDocument ==
  /\ active \subseteq Profiles
  /\ DOMAIN branches \subseteq Chunks \X Profiles
  /\ DOMAIN projections = DOMAIN branches
  /\ DOMAIN embedding = Embedders
  /\ \A e \in Embedders :
       embedding[e].step # "idle" => embedding[e].branch \in DOMAIN branches

\* A worker that is about to mark has had its vector accepted, or refused in an
\* answer 200, and a delete finds only vectors that are of no branch
Accepted ==
  /\ \A e \in Embedders :
       embedding[e].step = "stored" /\ embedding[e].branch \notin refused =>
         \E v \in vectors : v.id = embedding[e].branch
  /\ \A v \in vectors : v.named => v.id \notin Chunks \X Profiles

EmbedInv == OfDocument /\ Accepted /\ ProjectedUnlessRefused

\* What a worker goes to is what it is at, and the others stay
LEMMA WorkerGoes ==
  ASSUME OfDocument, NEW e \in Embedders, NEW step, NEW b, Embedding!Goes(e, step, b)
  PROVE  /\ DOMAIN embedding' = Embedders
         /\ embedding'[e].step = step /\ embedding'[e].branch = b
         /\ \A d \in Embedders \ {e} : embedding'[d] = embedding[d]
  BY DEF OfDocument, Embedding!Goes

LEMMA RowsStep ==
  ASSUME OfDocument,
         \/ Embedding!CommitDocument \/ Embedding!ChangeProfile \/ Embedding!DispatchBranches
  PROVE  /\ OfDocument' /\ UNCHANGED <<vectors, refused, embedding>>
         /\ \A b \in DOMAIN projections' :
              projections'[b] = "projected" => b \in DOMAIN projections /\ projections[b] = "projected"
<1>1. CASE Embedding!CommitDocument
  BY <1>1 DEF Embedding!CommitDocument, OfDocument
<1>2. CASE Embedding!ChangeProfile
  BY <1>2 DEF Embedding!ChangeProfile, OfDocument
<1>3. CASE Embedding!DispatchBranches
  <2> DEFINE new == (Chunks \X active) \ DOMAIN branches
  <2>1. /\ DOMAIN projections' = DOMAIN projections \cup new
        /\ DOMAIN branches' = DOMAIN branches \cup new
        /\ \A b \in DOMAIN projections : projections'[b] = projections[b]
        /\ \A b \in new : b \notin DOMAIN projections => projections'[b] = "pending"
        /\ UNCHANGED <<active, vectors, refused, embedding>>
    BY <1>3 DEF Embedding!DispatchBranches, Embedding!With
  <2>2. new \subseteq Chunks \X Profiles
    BY DEF OfDocument
  <2>3. OfDocument'
    BY <2>1, <2>2 DEF OfDocument
  <2> QED
    BY <2>1, <2>3
<1> QED
  BY <1>1, <1>2, <1>3

LEMMA AstraStep ==
  ASSUME EmbedInv, Embedding!FlowStores \/ Embedding!DeleteVectors
  PROVE  EmbedInv'
<1>1. UNCHANGED <<active, branches, projections, refused, embedding>>
  BY DEF Embedding!FlowStores, Embedding!DeleteVectors, Embedding!rows
<1>2. OfDocument'
  BY <1>1 DEF EmbedInv, OfDocument
<1>3. /\ \A v \in vectors' : v.fits /\ (v.named => v.id \notin Chunks \X Profiles)
      /\ \A v \in vectors : v.id \in Chunks \X Profiles => v \in vectors'
  <2>1. CASE Embedding!FlowStores
    <3>1. PICK p \in bound :
            vectors' = vectors \cup {[id |-> <<"flow", p>>, fits |-> TRUE, named |-> TRUE]}
      BY <2>1 DEF Embedding!FlowStores
    <3>2. <<"flow", p>> \notin Chunks \X Profiles
      BY KnowledgeConstants
    <3> QED
      BY <3>1, <3>2 DEF EmbedInv, Accepted, ProjectedUnlessRefused, Embedding!ProjectedUnlessRefused
  <2>2. CASE Embedding!DeleteVectors
    BY <2>2 DEF EmbedInv, Accepted, ProjectedUnlessRefused, Embedding!ProjectedUnlessRefused,
                Embedding!DeleteVectors, Embedding!Deleted, Embedding!Matches
  <2> QED
    BY <2>1, <2>2
<1>4. Accepted'
  BY <1>1, <1>3 DEF EmbedInv, Accepted, OfDocument
<1>5. ProjectedUnlessRefused'
  BY <1>1, <1>3 DEF EmbedInv, ProjectedUnlessRefused, Embedding!ProjectedUnlessRefused, OfDocument
<1> QED
  BY <1>2, <1>4, <1>5 DEF EmbedInv

LEMMA EmbedderStep ==
  ASSUME EmbedInv, NEW e \in Embedders,
         \/ Embedding!Resolve(e) \/ Embedding!Embed(e) \/ Embedding!Unavailable(e)
         \/ Embedding!Store(e) \/ Embedding!Mark(e) \/ Embedding!Close(e) \/ Embedding!Die(e)
  PROVE  EmbedInv'
<1> USE DEF EmbedInv
<1>1. CASE Embedding!Resolve(e)
  <2>1. PICK b \in DOMAIN branches, step \in {"permanent", "succeeded", "resolved"} :
          Embedding!Goes(e, step, b) /\ DOMAIN branches' = DOMAIN branches
    <3>1. PICK b \in DOMAIN branches :
            /\ DOMAIN branches' = DOMAIN branches
            /\ \/ Embedding!Goes(e, "permanent", b) \/ Embedding!Goes(e, "succeeded", b)
               \/ Embedding!Goes(e, "resolved", b)
      BY <1>1, Zenon DEF Embedding!Resolve
    <3> QED
      BY <3>1
  <2>2. UNCHANGED <<active, projections, vectors, refused>>
    BY <1>1 DEF Embedding!Resolve, Embedding!rows
  <2> QED
    BY <2>1, <2>2, WorkerGoes DEF OfDocument, Accepted, ProjectedUnlessRefused, Embedding!ProjectedUnlessRefused
<1>2. CASE Embedding!Embed(e) \/ Embedding!Unavailable(e)
  <2>1. PICK step \in {"embedded", "distorted", "transient"} :
          Embedding!Goes(e, step, embedding[e].branch) /\ embedding[e].step # "idle"
    BY <1>2 DEF Embedding!Embed, Embedding!Unavailable
  <2>2. UNCHANGED <<active, branches, projections, vectors, refused>>
    BY <1>2 DEF Embedding!Embed, Embedding!Unavailable, Embedding!rows
  <2> QED
    BY <2>1, <2>2, WorkerGoes DEF OfDocument, Accepted, ProjectedUnlessRefused, Embedding!ProjectedUnlessRefused
<1>3. CASE Embedding!Store(e)
  <2>1. PICK step \in {"stored", "transient"} : Embedding!Goes(e, step, embedding[e].branch)
    BY <1>3 DEF Embedding!Store, Embedding!Stores, Embedding!Refuses
  <2>2. /\ embedding[e].step = "embedded" /\ embedding[e].branch \in DOMAIN branches
        /\ UNCHANGED <<active, branches, projections>>
    BY <1>3 DEF Embedding!Store, Embedding!RightLength, Embedding!rows, OfDocument
  <2>3. /\ vectors \subseteq vectors' /\ refused \subseteq refused'
        /\ embedding[e].branch \in refused' \/ \E v \in vectors' : v.id = embedding[e].branch
        /\ \A v \in vectors' \ vectors : v.fits /\ ~v.named
    <3>1. CASE Embedding!Refuses(e)
      BY <3>1 DEF Embedding!Refuses
    <3>2. CASE Embedding!Stores(e)
      <4> DEFINE d == Embedding!Document(e)
      <4>1. d.id = embedding[e].branch /\ d.fits /\ ~d.named
        BY <2>2 DEF Embedding!Document
      <4>2. /\ vectors' = IF \E v \in vectors : v.id = embedding[e].branch THEN vectors
                          ELSE vectors \cup {d}
            /\ UNCHANGED refused
        BY <3>2 DEF Embedding!Stores
      <4> QED
        BY <4>1, <4>2
    <3> QED
      BY <1>3, <3>1, <3>2 DEF Embedding!Store
  <2>4. OfDocument'
    BY <2>1, <2>2, WorkerGoes DEF OfDocument
  <2>5. Accepted'
    BY <2>1, <2>3, <2>4, WorkerGoes DEF OfDocument, Accepted
  <2>6. ProjectedUnlessRefused'
    BY <2>2, <2>3 DEF ProjectedUnlessRefused, Embedding!ProjectedUnlessRefused
  <2> QED
    BY <2>4, <2>5, <2>6
<1>4. CASE Embedding!Mark(e)
  <2>1. /\ Embedding!Goes(e, "succeeded", embedding[e].branch)
        /\ projections' = [projections EXCEPT ![embedding[e].branch] = "projected"]
        /\ embedding[e].step = "stored"
        /\ UNCHANGED <<active, branches, vectors, refused>>
    BY <1>4 DEF Embedding!Mark, Embedding!MayMark, Embedding!rows
  <2>2. OfDocument' /\ Accepted'
    BY <2>1, WorkerGoes DEF OfDocument, Accepted
  <2>3. ProjectedUnlessRefused'
    BY <2>1 DEF OfDocument, Accepted, ProjectedUnlessRefused, Embedding!ProjectedUnlessRefused
  <2> QED
    BY <2>2, <2>3
<1>5. CASE Embedding!Close(e) \/ Embedding!Die(e)
  <2>1. /\ Embedding!Goes(e, "idle", Embedding!NoBranch) /\ DOMAIN branches' = DOMAIN branches
        /\ UNCHANGED <<active, projections, vectors, refused>>
    BY <1>5 DEF Embedding!Close, Embedding!Die, Embedding!rows
  <2> QED
    BY <2>1, WorkerGoes DEF OfDocument, Accepted, ProjectedUnlessRefused, Embedding!ProjectedUnlessRefused
<1> QED
  BY <1>1, <1>2, <1>3, <1>4, <1>5

LEMMA EmbedInit == Embedding!EmbedInit => EmbedInv
  BY DEF Embedding!EmbedInit, EmbedInv, OfDocument, Accepted, ProjectedUnlessRefused, Embedding!ProjectedUnlessRefused

LEMMA EmbedStep == EmbedInv /\ [MCNext]_<<vars, chainVars, embedVars>> => EmbedInv'
<1> SUFFICES ASSUME EmbedInv, [MCNext]_<<vars, chainVars, embedVars>> PROVE EmbedInv'
  OBVIOUS
<1>1. CASE UNCHANGED embedVars
  BY <1>1 DEF embedVars, EmbedInv, OfDocument, Accepted, ProjectedUnlessRefused, Embedding!ProjectedUnlessRefused
<1>2. CASE Embedding!EmbedNext
  <2>1. CASE Embedding!CommitDocument \/ Embedding!ChangeProfile \/ Embedding!DispatchBranches
    BY <2>1, RowsStep
       DEF EmbedInv, OfDocument, Accepted, ProjectedUnlessRefused, Embedding!ProjectedUnlessRefused
  <2> QED
    BY <1>2, <2>1, AstraStep, EmbedderStep DEF Embedding!EmbedNext
<1> QED
  BY <1>1, <1>2 DEF MCNext

\* A branch is marked only when its vector is in Astra, and stays there, or when
\* Astra refused it in an answer 200: neither a crash between the vendor and the
\* table, nor a lost answer, nor a second worker parts them.
THEOREM ProjectionsStoredOrRefused == MCSpec => []ProjectedUnlessRefused
<1>1. MCInit => EmbedInv
  BY EmbedInit DEF MCInit
<1>2. EmbedInv /\ [MCNext]_<<vars, chainVars, embedVars>> => EmbedInv'
  BY EmbedStep
<1>3. EmbedInv => ProjectedUnlessRefused
  BY DEF EmbedInv
<1> QED
  BY <1>1, <1>2, <1>3, PTL DEF MCSpec
-----------------------------------------------------------------------------
(* What is learnt of a session: who is at what *)

WorkFields == {"step", "job", "range", "items", "item", "saw", "wrote", "old"}

\* The jobs are of ranges and of extractions that are stored
JobRows ==
  \A k \in DOMAIN jobs :
    /\ k = [purpose |-> k.purpose, of |-> k.of]
    /\ k.purpose \in {"ingest", "facts", "assess"}
    /\ k.purpose # "ingest" => \E e \in extractions : e.id = k.of
    /\ DOMAIN jobs[k] = {"state", "attempts"}

Running(w) ==
  /\ work[w].job \in DOMAIN jobs /\ jobs[work[w].job].state = "running"
  /\ \A v \in Workers \ {w} : work[v].step # "idle" => work[v].job # work[w].job
  /\ work[w].step \in {"upserting", "upsert"} => work[w].job.purpose = "facts"
  /\ work[w].step = "written" => work[w].job.purpose # "ingest"

\* A worker that is at something runs a job that no other worker runs
AtWork ==
  /\ DOMAIN work = Chain!Actors
  /\ \A a \in Chain!Actors :
       /\ DOMAIN work[a] = WorkFields
       /\ work[a].step = "idle" => work[a] = Chain!Idle
  /\ \A w \in Workers :
       /\ work[w].step \in {"idle", "transient", "permanent", "succeeded",
                            "upserting", "upsert", "written"}
       /\ work[w].step # "idle" => Running(w)
  /\ \A c \in Calls :
       /\ work[c].step \in {"idle", "extracted", "inserting", "upserting", "upsert", "written", "done"}
       /\ work[c].step \in {"extracted", "inserting"} => work[c].range # <<>>
       /\ work[c].step \in {"upserting", "upsert"} => work[c].range = <<>>

\* An extraction on its way is the only one of its range
Extracting(c) ==
  work[c].step = "written" /\ work[c].range # <<>> =>
    /\ work[c].wrote = {[id |-> c, range |-> work[c].range]}
    /\ \A e \in extractions : e.range # work[c].range
    /\ \A d \in Calls \ {c} : ~(work[d].step = "written" /\ work[d].range = work[c].range)

AssessmentOf(s) == \E e \in extractions : s = [of |-> e.id, range |-> e.range]

HasResult(k, rows) ==
  /\ k.purpose = "ingest" => k.of \in accepted
  /\ k.purpose = "assess" =>
       \E e \in extractions, s \in rows : e.id = k.of /\ s.range = e.range

\* What a worker is about to commit, or has committed
Analysing(w) ==
  /\ work[w].step = "written" /\ work[w].job.purpose = "assess" =>
       /\ \A s \in work[w].wrote : AssessmentOf(s)
       /\ HasResult(work[w].job, assessments \cup work[w].wrote)
  /\ work[w].step = "succeeded" => HasResult(work[w].job, assessments)

Analyses ==
  /\ \A e \in extractions : e.id \in Calls
  /\ \A e, f \in extractions : e.range = f.range => e = f
  /\ \A c \in Calls : Extracting(c)
  /\ \A s \in assessments : AssessmentOf(s)
  /\ \A w \in Workers : Analysing(w)
  /\ \A k \in DOMAIN jobs : jobs[k].state = "succeeded" => HasResult(k, assessments)

-----------------------------------------------------------------------------
\* Facts are written by the workers with a job for them, and by calls
Writing(a) ==
  \/ work[a].step \in {"upserting", "upsert"}
  \/ work[a].step = "written" /\ Chain!Purpose(a) = "facts"

By(a) == IF a \in Workers THEN work[a].job ELSE a

\* Who wrote a fact writes no other
Settled(b) ==
  \/ b \in Calls /\ work[b].step = "done"
  \/ /\ b \in DOMAIN jobs /\ b.purpose = "facts"
     /\ jobs[b].state \in {"running", "succeeded"}
     /\ \A w \in Workers :
          work[w].step # "idle" /\ work[w].job = b => work[w].step = "succeeded"

FactFields == {"key", "value", "status", "id"}

FactRows ==
  /\ \A f \in facts : /\ DOMAIN f = FactFields
                      /\ f.id = <<f.id[1], f.key>> /\ Settled(f.id[1])
  /\ \A f, g \in facts : f.id = g.id => f = g

\* A writer's items and rows are of different keys
Items(a) ==
  /\ \A i \in work[a].items \cup work[a].item : DOMAIN i = {"key", "value", "status"}
  /\ \A i, j \in work[a].items : i.key = j.key => i = j
  /\ \A i \in work[a].item, j \in work[a].items : i.key # j.key
  /\ \A h \in work[a].wrote :
       /\ DOMAIN h = FactFields /\ h.id = <<By(a), h.key>>
       /\ \A i \in work[a].items \cup work[a].item : i.key # h.key
       /\ \A g \in work[a].wrote : g.key = h.key => g = h

\* The row that was read is there, and was confirmed by nobody since
StillThere(s) ==
  \E f \in facts : f.id = s.id /\ f.key = s.key /\ (f.status = "confirmed" => s.status = "confirmed")

\* A fact that is to be superseded gives way to one as good
Supersedes(a) ==
  /\ work[a].step = "upserting" => work[a].saw = {}
  /\ work[a].step = "upsert" =>
       \E i \in work[a].item :
         /\ work[a].item = {i}
         /\ i.status \in {"proposed", "confirmed"}
         /\ \A s \in work[a].saw : s.key = i.key /\ ~Chain!Keeps(s, i) /\ StillThere(s)
  /\ \A i \in work[a].items : i.status \in {"proposed", "confirmed"}
  /\ \A o \in work[a].old :
       \E f \in facts :
         /\ f.id = o
         /\ f.status = "confirmed" =>
              \E h \in work[a].wrote : h.key = f.key /\ h.status = "confirmed"

FactsInv == FactRows /\ \A a \in Chain!Actors : Writing(a) => Items(a) /\ Supersedes(a)

-----------------------------------------------------------------------------
OthersAtWork(a) == \A b \in Chain!Actors \ {a} : work'[b] = work[b]

LEMMA SetFields ==
  ASSUME AtWork, NEW a \in Chain!Actors, NEW fields, DOMAIN fields \subseteq WorkFields,
         Chain!Set(a, fields)
  PROVE  /\ DOMAIN work' = Chain!Actors /\ OthersAtWork(a) /\ DOMAIN work'[a] = WorkFields
         /\ \A x \in WorkFields :
              work'[a][x] = IF x \in DOMAIN fields THEN fields[x] ELSE work[a][x]
<1>1. work'[a] = Chain!With(work[a], fields) /\ DOMAIN work' = Chain!Actors /\ OthersAtWork(a)
  BY DEF Chain!Set, AtWork, OthersAtWork
<1> QED
  BY <1>1 DEF Chain!With, AtWork

LEMMA OutcomeFields ==
  ASSUME AtWork, NEW a \in Chain!Actors, NEW outcome, Chain!Outcome(a, outcome)
  PROVE  /\ DOMAIN work' = Chain!Actors /\ OthersAtWork(a) /\ DOMAIN work'[a] = WorkFields
         /\ work'[a].step = IF a \in Workers THEN outcome ELSE "done"
         /\ work'[a].job = work[a].job /\ work'[a].range = <<>>
         /\ work'[a].items = {} /\ work'[a].item = {} /\ work'[a].saw = {}
         /\ work'[a].wrote = {} /\ work'[a].old = {}
<1> DEFINE done == [Chain!Idle EXCEPT !.step = IF a \in Workers THEN outcome ELSE "done",
                                      !.job = work[a].job]
<1>1. work'[a] = done /\ DOMAIN work' = Chain!Actors /\ OthersAtWork(a)
  BY DEF Chain!Outcome, AtWork, OthersAtWork
<1>2. /\ DOMAIN done = WorkFields
      /\ done.step = IF a \in Workers THEN outcome ELSE "done"
      /\ done.job = work[a].job /\ done.range = <<>>
      /\ done.items = {} /\ done.item = {} /\ done.saw = {} /\ done.wrote = {} /\ done.old = {}
  BY DEF Chain!Idle, WorkFields
<1> QED
  BY <1>1, <1>2

Stays(a, x) == work'[a][x] = work[a][x]
Shaped(a)   == DOMAIN work' = Chain!Actors /\ OthersAtWork(a) /\ DOMAIN work'[a] = WorkFields

-----------------------------------------------------------------------------
(* What each step changes *)

LEMMA ClaimMoves ==
  ASSUME AtWork, JobRows, NEW w \in Workers, NEW k \in DOMAIN jobs, NEW purpose, Chain!Begin(w, k, purpose)
  PROVE  /\ work[w] = Chain!Idle /\ k.purpose = purpose /\ jobs[k].state = "pending"
         /\ DOMAIN jobs' = DOMAIN jobs /\ jobs'[k].state = "running"
         /\ DOMAIN jobs'[k] = {"state", "attempts"}
         /\ \A j \in DOMAIN jobs \ {k} : jobs'[j] = jobs[j]
BY DEF Chain!Begin, Chain!At, AtWork, JobRows, Chain!Actors

LEMMA EndsMoves ==
  ASSUME AtWork, NEW w \in Workers, NEW k, NEW step, Chain!Ends(w, k, step), work[w] = Chain!Idle
  PROVE  /\ Shaped(w) /\ work'[w].step = step /\ work'[w].job = k
         /\ work'[w].range = <<>> /\ work'[w].wrote = {}
<1> DEFINE f == [step |-> step, job |-> k]
<1>1. DOMAIN f = {"step", "job"} /\ f.step = step /\ f.job = k /\ Chain!Set(w, f)
  BY DEF Chain!Ends
<1> HIDE DEF f
<1>2. Chain!Idle.range = <<>> /\ Chain!Idle.wrote = {}
  BY DEF Chain!Idle
<1> QED
  BY <1>1, <1>2, SetFields DEF WorkFields, Shaped, Chain!Actors

LEMMA AnalyseMoves ==
  ASSUME AtWork, JobRows, NEW w \in Workers, NEW k \in DOMAIN jobs, Chain!Analyse(w, k)
  PROVE  /\ Chain!Begin(w, k, "facts") /\ Shaped(w) /\ work'[w].job = k
         /\ work'[w].step \in {"succeeded", "upserting"}
         /\ work'[w].item = {} /\ work'[w].saw = {} /\ work'[w].wrote = {} /\ work'[w].old = {}
         /\ \E K \in SUBSET FactKeys : \E v \in [K -> Values] : work'[w].items = Chain!Proposed(v)
         /\ UNCHANGED <<ended, last, accepted, extractions, facts, assessments>>
<1>1. PICK K \in SUBSET FactKeys : \E v \in [K -> Values] :
        Chain!Set(w, [step |-> IF K = {} THEN "succeeded" ELSE "upserting", job |-> k,
                      items |-> Chain!Proposed(v)])
  BY DEF Chain!Analyse
<1>2. PICK v \in [K -> Values] :
        Chain!Set(w, [step |-> IF K = {} THEN "succeeded" ELSE "upserting", job |-> k,
                      items |-> Chain!Proposed(v)])
  BY <1>1
<1> DEFINE f == [step |-> IF K = {} THEN "succeeded" ELSE "upserting", job |-> k,
                 items |-> Chain!Proposed(v)]
<1>3. /\ DOMAIN f = {"step", "job", "items"} /\ f.step \in {"succeeded", "upserting"} /\ f.job = k
      /\ f.items = Chain!Proposed(v) /\ Chain!Set(w, f)
  BY <1>2
<1> HIDE DEF f
<1>4. /\ Chain!Begin(w, k, "facts")
      /\ UNCHANGED <<ended, last, accepted, extractions, facts, assessments>>
  BY DEF Chain!Analyse, Chain!tables
<1>5. /\ work[w].item = {} /\ work[w].saw = {} /\ work[w].wrote = {} /\ work[w].old = {}
  BY <1>4, ClaimMoves DEF Chain!Idle
<1> QED
  BY <1>3, <1>4, <1>5, SetFields DEF WorkFields, Shaped, Chain!Actors

LEMMA AssessMoves ==
  ASSUME AtWork, JobRows, NEW w \in Workers, NEW k \in DOMAIN jobs, Chain!Assess(w, k)
  PROVE  /\ Chain!Begin(w, k, "assess") /\ Shaped(w) /\ work'[w].job = k
         /\ work'[w].step = "written"
         /\ \E e \in extractions : e.id = k.of /\ work'[w].wrote = Chain!NewAssessment(e)
         /\ UNCHANGED <<ended, last, accepted, extractions, facts, assessments>>
<1>1. PICK e \in extractions :
        /\ e.id = k.of
        /\ Chain!Set(w, [step |-> "written", job |-> k, wrote |-> Chain!NewAssessment(e)])
  BY DEF Chain!Assess
<1> DEFINE f == [step |-> "written", job |-> k, wrote |-> Chain!NewAssessment(e)]
<1>2. /\ DOMAIN f = {"step", "job", "wrote"} /\ f.step = "written" /\ f.job = k
      /\ f.wrote = Chain!NewAssessment(e) /\ Chain!Set(w, f)
  BY <1>1
<1> HIDE DEF f
<1>3. /\ Chain!Begin(w, k, "assess")
      /\ UNCHANGED <<ended, last, accepted, extractions, facts, assessments>>
  BY DEF Chain!Assess, Chain!tables
<1> QED
  BY <1>1, <1>2, <1>3, SetFields DEF WorkFields, Shaped, Chain!Actors

LEMMA FinalizeMoves ==
  ASSUME AtWork, JobRows, NEW w \in Workers, Chain!Finalize(w)
  PROVE  /\ work[w].step \in {"succeeded", "permanent", "transient"}
         /\ DOMAIN work' = Chain!Actors /\ OthersAtWork(w) /\ work'[w] = Chain!Idle
         /\ DOMAIN jobs' = DOMAIN jobs
         /\ \A j \in DOMAIN jobs : DOMAIN jobs'[j] = {"state", "attempts"}
         /\ jobs'[work[w].job].state =
              IF work[w].step = "succeeded" THEN "succeeded"
              ELSE IF work[w].step = "permanent" THEN "failed"
              ELSE IF jobs[work[w].job].attempts >= MaxAttempts THEN "failed" ELSE "pending"
         /\ \A j \in DOMAIN jobs \ {work[w].job} : jobs'[j] = jobs[j]
         /\ UNCHANGED <<ended, last, accepted, extractions, facts, assessments>>
<1>1. /\ work[w].step \in {"succeeded", "permanent", "transient"} /\ work[w].job \in DOMAIN jobs
      /\ jobs' = [jobs EXCEPT ![work[w].job].state = Chain!StateAfter(w)]
      /\ UNCHANGED <<ended, last, accepted, extractions, facts, assessments>>
  BY DEF Chain!Finalize, Chain!tables, AtWork, Running
<1>2. DOMAIN work' = Chain!Actors /\ OthersAtWork(w) /\ work'[w] = Chain!Idle
  BY DEF Chain!Finalize, AtWork, OthersAtWork, Chain!Actors
<1> DEFINE j == work[w].job  after == Chain!StateAfter(w)
<1>3. Chain!StateAfter(w) =
              IF work[w].step = "succeeded" THEN "succeeded"
              ELSE IF work[w].step = "permanent" THEN "failed"
              ELSE IF jobs[work[w].job].attempts >= MaxAttempts THEN "failed" ELSE "pending"
  BY <1>1 DEF Chain!StateAfter
<1>4. DOMAIN jobs[j] = {"state", "attempts"} /\ jobs' = [jobs EXCEPT ![j] = [jobs[j] EXCEPT !.state = after]]
  BY <1>1 DEF JobRows
<1> HIDE DEF j, after
<1>5. jobs'[j].state = after /\ DOMAIN jobs'[j] = {"state", "attempts"}
  BY <1>1, <1>4 DEF j
<1>6. DOMAIN jobs' = DOMAIN jobs /\ \A i \in DOMAIN jobs \ {j} : jobs'[i] = jobs[i]
  BY <1>4
<1> QED
  BY <1>1, <1>2, <1>3, <1>5, <1>6 DEF j, after, JobRows

LEMMA CallMoves ==
  ASSUME AtWork, NEW c \in Calls,
         \/ Chain!CallPersist(c) \/ Chain!CallUpsert(c)
         \/ Chain!FindExtraction(c) \/ Chain!InsertExtraction(c)
  PROVE  /\ Shaped(c) /\ UNCHANGED <<ended, last, accepted, extractions, facts, assessments, jobs>>
         /\ \/ /\ work[c] = Chain!Idle /\ work'[c].step = "extracted" /\ work'[c].range # <<>>
            \/ /\ work[c] = Chain!Idle /\ work'[c].step = "upserting" /\ Stays(c, "range")
               /\ Stays(c, "item") /\ Stays(c, "saw") /\ Stays(c, "wrote") /\ Stays(c, "old")
               /\ \E i : /\ work'[c].items = {i} /\ DOMAIN i = {"key", "value", "status"}
                         /\ i.status \in {"proposed", "confirmed"}
            \/ /\ work[c].step \in {"extracted", "inserting"} /\ Chain!Outcome(c, "done")
            \/ /\ work[c].step = "extracted" /\ work'[c].step = "inserting" /\ Stays(c, "range")
            \/ /\ work[c].step = "inserting" /\ work'[c].step = "written" /\ Stays(c, "range")
               /\ work'[c].wrote = {[id |-> c, range |-> work[c].range]}
               /\ \A e \in extractions : e.range # work[c].range
               /\ \A d \in Calls \ {c} :
                    ~(work[d].step = "written" /\ work[d].range = work[c].range)
<1>1. CASE Chain!CallPersist(c)
  <2>1. PICK i, j : Chain!Set(c, [step |-> "extracted", range |-> <<i, j>>])
    BY <1>1 DEF Chain!CallPersist
  <2> DEFINE f == [step |-> "extracted", range |-> <<i, j>>]
  <2>2. /\ DOMAIN f = {"step", "range"} /\ f.step = "extracted" /\ f.range # <<>> /\ Chain!Set(c, f)
    BY <2>1
  <2> HIDE DEF f
  <2>3. /\ work[c] = Chain!Idle
        /\ UNCHANGED <<ended, last, accepted, extractions, facts, assessments, jobs>>
    BY <1>1 DEF Chain!CallPersist, Chain!tables, Chain!At, AtWork, Chain!Actors
  <2> QED
    BY <2>2, <2>3, SetFields DEF WorkFields, Shaped, Chain!Actors
<1>2. CASE Chain!CallUpsert(c)
  <2>1. PICK k \in FactKeys, v \in Values, s \in {"proposed", "confirmed"} :
          Chain!Set(c, [step |-> "upserting", items |-> {[key |-> k, value |-> v, status |-> s]}])
    BY <1>2 DEF Chain!CallUpsert
  <2> DEFINE i == [key |-> k, value |-> v, status |-> s]
             f == [step |-> "upserting", items |-> {i}]
  <2>2. DOMAIN i = {"key", "value", "status"} /\ i.status \in {"proposed", "confirmed"}
    OBVIOUS
  <2>3. DOMAIN f = {"step", "items"} /\ f.step = "upserting" /\ f.items = {i} /\ Chain!Set(c, f)
    BY <2>1
  <2> HIDE DEF f, i
  <2>4. /\ work[c] = Chain!Idle
        /\ UNCHANGED <<ended, last, accepted, extractions, facts, assessments, jobs>>
    BY <1>2 DEF Chain!CallUpsert, Chain!tables, Chain!At, AtWork, Chain!Actors
  <2> QED
    BY <2>2, <2>3, <2>4, SetFields DEF WorkFields, Shaped, Stays, Chain!Actors
<1>3. CASE Chain!FindExtraction(c)
  <2>1. /\ work[c].step = "extracted"
        /\ Chain!Outcome(c, "done") \/ Chain!Set(c, [step |-> "inserting"])
        /\ UNCHANGED <<ended, last, accepted, extractions, facts, assessments, jobs>>
    BY <1>3 DEF Chain!FindExtraction, Chain!At, Chain!tables
  <2> DEFINE f == [step |-> "inserting"]
  <2>2. DOMAIN f = {"step"} /\ f.step = "inserting"
    OBVIOUS
  <2>3. CASE Chain!Set(c, f)
    <3> HIDE DEF f
    <3> QED
      BY <2>1, <2>2, <2>3, SetFields DEF WorkFields, Shaped, Stays, Chain!Actors
  <2> QED
    BY <2>1, <2>3, OutcomeFields DEF Shaped, Chain!Actors
<1>4. CASE Chain!InsertExtraction(c)
  <2> DEFINE f == [step |-> "written", wrote |-> {[id |-> c, range |-> work[c].range]}]
  <2>1. /\ work[c].step = "inserting"
        /\ \A d \in Calls \ {c} : ~(work[d].step = "written" /\ work[d].range = work[c].range)
        /\ \/ Chain!Outcome(c, "done")
           \/ Chain!Set(c, f) /\ \A e \in extractions : e.range # work[c].range
        /\ UNCHANGED <<ended, last, accepted, extractions, facts, assessments, jobs>>
    BY <1>4 DEF Chain!InsertExtraction, Chain!At, Chain!tables, Chain!RangeTaken
  <2>2. DOMAIN f = {"step", "wrote"} /\ f.step = "written" /\ f.wrote = {[id |-> c, range |-> work[c].range]}
    OBVIOUS
  <2>3. CASE Chain!Set(c, f)
    <3>1. \A e \in extractions : e.range # work[c].range
      BY <2>1, <2>3, OutcomeFields, SetFields, <2>2 DEF WorkFields, Chain!Actors
    <3> HIDE DEF f
    <3> QED
      BY <2>1, <2>2, <2>3, <3>1, SetFields DEF WorkFields, Shaped, Stays, Chain!Actors
  <2> QED
    BY <2>1, <2>3, OutcomeFields DEF Shaped, Chain!Actors
<1> QED
  BY <1>1, <1>2, <1>3, <1>4

LEMMA FindFactMoves ==
  ASSUME AtWork, NEW a \in Chain!Actors, Chain!FindFact(a)
  PROVE  /\ UNCHANGED <<ended, last, accepted, extractions, facts, assessments, jobs>>
         /\ work[a].step = "upserting" /\ Shaped(a)
         /\ \/ Chain!Outcome(a, "permanent")
            \/ /\ Stays(a, "job") /\ Stays(a, "range") /\ Stays(a, "wrote") /\ Stays(a, "old")
               /\ \E i \in work[a].items :
                    /\ work'[a].items = work[a].items \ {i}
                    /\ \/ /\ work'[a].step = IF work[a].items \ {i} = {} THEN "written" ELSE "upserting"
                          /\ Stays(a, "item") /\ Stays(a, "saw")
                       \/ work'[a].step = "upsert" /\ work'[a].item = {i} /\ Stays(a, "saw")
                       \/ /\ work'[a].step = "upsert" /\ work'[a].item = {i}
                          /\ \E f \in Chain!Active(i.key) : work'[a].saw = {f} /\ ~Chain!Keeps(f, i)
<1>1. /\ UNCHANGED <<ended, last, accepted, extractions, facts, assessments, jobs>>
      /\ work[a].step = "upserting"
  BY DEF Chain!FindFact, Chain!tables, Chain!At
<1>2. PICK i \in work[a].items :
        LET rest == [items |-> work[a].items \ {i}]
        IN  \/ Chain!Outcome(a, "permanent")
            \/ Chain!Set(a, Chain!With(rest, [step |-> "upsert", item |-> {i}]))
            \/ Chain!Set(a, Chain!With(rest, [step |-> Chain!Onward(work[a].items \ {i})]))
            \/ \E f \in Chain!Active(i.key) :
                 /\ ~Chain!Keeps(f, i)
                 /\ Chain!Set(a, Chain!With(rest, [step |-> "upsert", item |-> {i}, saw |-> {f}]))
  BY Zenon DEF Chain!FindFact
<1> DEFINE rest == [items |-> work[a].items \ {i}]
<1>3. CASE Chain!Outcome(a, "permanent")
  BY <1>1, <1>3, OutcomeFields DEF Shaped
<1>4. CASE Chain!Set(a, Chain!With(rest, [step |-> Chain!Onward(work[a].items \ {i})]))
  <2> DEFINE g == Chain!With(rest, [step |-> Chain!Onward(work[a].items \ {i})])
  <2>1. /\ DOMAIN g = {"items", "step"} /\ g.items = work[a].items \ {i}
        /\ g.step = IF work[a].items \ {i} = {} THEN "written" ELSE "upserting"
        /\ Chain!Set(a, g)
    BY <1>4 DEF Chain!With, Chain!Onward
  <2> HIDE DEF g
  <2> QED
    BY <1>1, <2>1, SetFields DEF WorkFields, Shaped, Stays
<1>5. CASE Chain!Set(a, Chain!With(rest, [step |-> "upsert", item |-> {i}]))
  <2> DEFINE g == Chain!With(rest, [step |-> "upsert", item |-> {i}])
  <2>1. /\ DOMAIN g = {"items", "step", "item"} /\ g.items = work[a].items \ {i}
        /\ g.step = "upsert" /\ g.item = {i} /\ Chain!Set(a, g)
    BY <1>5 DEF Chain!With
  <2> HIDE DEF g
  <2> QED
    BY <1>1, <2>1, SetFields DEF WorkFields, Shaped, Stays
<1>6. ASSUME NEW f \in Chain!Active(i.key), ~Chain!Keeps(f, i),
             Chain!Set(a, Chain!With(rest, [step |-> "upsert", item |-> {i}, saw |-> {f}]))
      PROVE  /\ Shaped(a) /\ Stays(a, "job") /\ Stays(a, "range") /\ Stays(a, "wrote") /\ Stays(a, "old")
             /\ work'[a].items = work[a].items \ {i} /\ work'[a].step = "upsert"
             /\ work'[a].item = {i} /\ work'[a].saw = {f}
  <2> DEFINE g == Chain!With(rest, [step |-> "upsert", item |-> {i}, saw |-> {f}])
  <2>1. /\ DOMAIN g = {"items", "step", "item", "saw"} /\ g.items = work[a].items \ {i}
        /\ g.step = "upsert" /\ g.item = {i} /\ g.saw = {f} /\ Chain!Set(a, g)
    BY <1>6 DEF Chain!With
  <2> HIDE DEF g
  <2> QED
    BY <1>1, <2>1, SetFields DEF WorkFields, Shaped, Stays
<1> QED
  BY <1>1, <1>2, <1>3, <1>4, <1>5, <1>6

LEMMA WriteFactMoves ==
  ASSUME AtWork, NEW a \in Chain!Actors, Chain!WriteFact(a)
  PROVE  /\ UNCHANGED <<ended, last, accepted, extractions, facts, assessments, jobs>>
         /\ work[a].step = "upsert" /\ Shaped(a)
         /\ work'[a].step = IF work[a].items = {} THEN "written" ELSE "upserting"
         /\ Stays(a, "job") /\ Stays(a, "range") /\ Stays(a, "items")
         /\ work'[a].item = {} /\ work'[a].saw = {}
         /\ \E i \in work[a].item :
              work'[a].wrote = work[a].wrote \cup {Chain!With(i, [id |-> <<By(a), i.key>>])}
         /\ work'[a].old = work[a].old \cup {f.id : f \in work[a].saw}
<1>1. /\ UNCHANGED <<ended, last, accepted, extractions, facts, assessments, jobs>>
      /\ work[a].step = "upsert"
  BY DEF Chain!WriteFact, Chain!tables, Chain!At
<1> DEFINE rows(i) == work[a].wrote \cup {Chain!With(i, [id |-> <<By(a), i.key>>])}
           olds == work[a].old \cup {f.id : f \in work[a].saw}
<1>2. PICK i \in work[a].item :
        Chain!Set(a, [step |-> Chain!Onward(work[a].items), item |-> {}, saw |-> {},
                      wrote |-> rows(i), old |-> olds])
  BY DEF Chain!WriteFact, By
<1> DEFINE g == [step |-> Chain!Onward(work[a].items), item |-> {}, saw |-> {},
                 wrote |-> rows(i), old |-> olds]
<1>3. /\ DOMAIN g = {"step", "item", "saw", "wrote", "old"} /\ g.item = {} /\ g.saw = {}
      /\ g.step = IF work[a].items = {} THEN "written" ELSE "upserting"
      /\ g.wrote = rows(i) /\ g.old = olds /\ Chain!Set(a, g)
  BY <1>2 DEF Chain!Onward
<1> HIDE DEF g
<1> QED
  BY <1>1, <1>3, SetFields DEF WorkFields, Shaped, Stays

-----------------------------------------------------------------------------
(* A worker runs a job of its own *)

LEMMA NoneIsBoth == \A a \in Workers : a \notin Calls
  BY KnowledgeConstants

LEMMA Claimed ==
  ASSUME AtWork, JobRows, NEW w \in Workers, NEW k \in DOMAIN jobs, NEW purpose,
         Chain!Begin(w, k, purpose), Shaped(w), work'[w].job = k, extractions' = extractions,
         work'[w].step \in {"transient", "succeeded", "upserting", "written"},
         work'[w].step = "upserting" => purpose = "facts",
         work'[w].step = "written" => purpose # "ingest"
  PROVE  AtWork' /\ JobRows'
<1>1. /\ k.purpose = purpose /\ jobs[k].state = "pending"
      /\ DOMAIN jobs' = DOMAIN jobs /\ jobs'[k].state = "running"
      /\ DOMAIN jobs'[k] = {"state", "attempts"}
      /\ \A j \in DOMAIN jobs \ {k} : jobs'[j] = jobs[j]
  BY ClaimMoves
<1>2. \A v \in Workers \ {w} :
        work'[v] = work[v] /\ (work[v].step # "idle" => Running(v) /\ work[v].job # k)
  BY <1>1 DEF Shaped, OthersAtWork, AtWork, Running, Chain!Actors
<1>3. \A v \in Workers : work'[v].step # "idle" => Running(v)'
  <2>1. Running(w)'
    BY <1>1, <1>2 DEF Running
  <2>2. ASSUME NEW v \in Workers \ {w}, work'[v].step # "idle"
        PROVE  Running(v)'
    BY <1>1, <1>2, <2>2 DEF Running
  <2> QED
    BY <2>1, <2>2
<1>4. AtWork'
  <2>1. \A c \in Calls : work'[c] = work[c]
    BY NoneIsBoth DEF Shaped, OthersAtWork, Chain!Actors
  <2> QED
    BY <1>2, <1>3, <2>1 DEF AtWork, Shaped, OthersAtWork, Chain!Actors
<1>5. JobRows'
  BY <1>1 DEF JobRows
<1> QED
  BY <1>4, <1>5

LEMMA Onwards ==
  ASSUME AtWork, NEW a \in Chain!Actors, Shaped(a), jobs' = jobs,
         a \in Workers =>
           /\ work[a].step # "idle" /\ Stays(a, "job")
           /\ work'[a].step \in {"permanent", "succeeded", "upserting", "upsert", "written"}
           /\ work'[a].step \in {"upserting", "upsert", "written"} =>
                work[a].step \in {"upserting", "upsert"},
         a \in Calls =>
           /\ work'[a].step \in {"extracted", "inserting", "upserting", "upsert", "written", "done"}
           /\ work'[a].step \in {"extracted", "inserting"} => work'[a].range # <<>>
           /\ work'[a].step \in {"upserting", "upsert"} => work'[a].range = <<>>
  PROVE  AtWork'
<1>1. \A b \in Chain!Actors \ {a} : work'[b] = work[b]
  BY DEF Shaped, OthersAtWork
<1>2. \A v \in Workers : work'[v].step # "idle" =>
        work[v].step # "idle" /\ work'[v].job = work[v].job /\ Running(v)
  BY <1>1 DEF AtWork, Stays, Chain!Actors
<1>3. \A v \in Workers : work'[v].step # "idle" => Running(v)'
  <2> SUFFICES ASSUME NEW v \in Workers, work'[v].step # "idle" PROVE Running(v)'
    OBVIOUS
  <2>1. CASE v = a
    BY <1>2, <2>1 DEF Running
  <2>2. CASE v # a
    <3>1. work'[v] = work[v]
      BY <1>1, <2>2 DEF Chain!Actors
    <3> QED
      BY <1>2, <3>1 DEF Running
  <2> QED
    BY <2>1, <2>2
<1>4. \A c \in Calls : work'[c].step # "idle" \/ work'[c] = work[c]
  BY <1>1 DEF Chain!Actors
<1> QED
  BY <1>1, <1>3, <1>4 DEF AtWork, Shaped, Chain!Actors

LEMMA Rests ==
  ASSUME AtWork, JobRows, NEW w \in Workers, Chain!Finalize(w) \/ Chain!Crash(w)
  PROVE  AtWork' /\ JobRows'
<1>1. CASE Chain!Finalize(w)
  <2>1. /\ DOMAIN work' = Chain!Actors /\ work'[w] = Chain!Idle
        /\ \A b \in Chain!Actors \ {w} : work'[b] = work[b]
        /\ DOMAIN jobs' = DOMAIN jobs /\ extractions' = extractions
        /\ \A j \in DOMAIN jobs : DOMAIN jobs'[j] = {"state", "attempts"}
        /\ work[w].step # "idle"
        /\ \A j \in DOMAIN jobs \ {work[w].job} : jobs'[j] = jobs[j]
    BY <1>1, FinalizeMoves DEF OthersAtWork
  <2>2. JobRows'
    BY <2>1 DEF JobRows
  <2>4. Chain!Idle.step = "idle" /\ DOMAIN Chain!Idle = WorkFields
    BY DEF Chain!Idle, WorkFields
  <2>3. ASSUME NEW v \in Workers \ {w}
        PROVE  work'[v] = work[v] /\ (work[v].step # "idle" => Running(v)')
    <3>1. \A u \in Workers : work'[u] = work[u] \/ work'[u] = Chain!Idle
      BY <2>1 DEF Chain!Actors
    <3>2. work[v].step # "idle" => Running(v) /\ (work[w].step # "idle" => work[v].job # work[w].job)
      BY DEF AtWork, Running
    <3> QED
      BY <2>1, <3>1, <3>2, <2>4 DEF Running, Chain!Actors
  <2>5. AtWork'
    BY <2>1, <2>3, <2>4, NoneIsBoth DEF AtWork, Chain!Actors
  <2> QED
    BY <2>2, <2>5
<1>2. CASE Chain!Crash(w)
  <2>1. /\ DOMAIN work' = Chain!Actors /\ work'[w] = Chain!Idle
        /\ \A b \in Chain!Actors \ {w} : work'[b] = work[b]
        /\ jobs' = jobs /\ extractions' = extractions
    BY <1>2 DEF Chain!Crash, AtWork, Chain!Actors, Chain!tables
  <2>2. JobRows'
    BY <2>1 DEF JobRows
  <2>4. Chain!Idle.step = "idle" /\ DOMAIN Chain!Idle = WorkFields
    BY DEF Chain!Idle, WorkFields
  <2>3. ASSUME NEW v \in Workers \ {w}
        PROVE  work'[v] = work[v] /\ (work[v].step # "idle" => Running(v)')
    <3>1. \A u \in Workers : work'[u] = work[u] \/ work'[u] = Chain!Idle
      BY <2>1 DEF Chain!Actors
    <3>2. work[v].step # "idle" => Running(v) /\ (work[w].step # "idle" => work[v].job # work[w].job)
      BY DEF AtWork, Running
    <3> QED
      BY <2>1, <3>1, <3>2, <2>4 DEF Running, Chain!Actors
  <2>5. AtWork'
    BY <2>1, <2>3, <2>4, NoneIsBoth DEF AtWork, Chain!Actors
  <2> QED
    BY <2>2, <2>5
<1> QED
  BY <1>1, <1>2

\* A delivery adds the jobs that are not there
LEMMA NewJobsMoves ==
  ASSUME NEW new, Chain!NewJobs(new)
  PROVE  /\ DOMAIN jobs' = DOMAIN jobs \cup new
         /\ \A k \in DOMAIN jobs : jobs'[k] = jobs[k]
         /\ \A k \in new \ DOMAIN jobs :
              jobs'[k].state = "pending" /\ DOMAIN jobs'[k] = {"state", "attempts"}
<1> DEFINE row == [state |-> "pending", attempts |-> 0]
<1>1. /\ DOMAIN jobs' = DOMAIN jobs \cup new
      /\ \A k \in DOMAIN jobs : jobs'[k] = jobs[k]
      /\ \A k \in new \ DOMAIN jobs : jobs'[k] = row
  BY DEF Chain!NewJobs, Chain!With
<1>2. row.state = "pending" /\ DOMAIN row = {"state", "attempts"}
  OBVIOUS
<1> HIDE DEF row
<1> QED
  BY <1>1, <1>2

LEMMA EventMoves ==
  ASSUME JobRows,
         \/ Chain!Message \/ Chain!SessionCompleted
         \/ \E e \in extractions : Chain!ExtractionCommitted(e.id)
  PROVE  /\ UNCHANGED <<ended, accepted, extractions, facts, assessments, work>>
         /\ DOMAIN jobs \subseteq DOMAIN jobs' /\ \A k \in DOMAIN jobs : jobs'[k] = jobs[k]
         /\ \A k \in DOMAIN jobs' \ DOMAIN jobs :
              jobs'[k].state = "pending" /\ DOMAIN jobs'[k] = {"state", "attempts"}
         /\ JobRows'
<1>1. CASE Chain!Message
  BY <1>1 DEF Chain!Message, JobRows
<1>2. CASE Chain!SessionCompleted
  <2> DEFINE new == {[purpose |-> "ingest", of |-> r] : r \in Chain!Ranges(last)}
  <2>1. Chain!NewJobs(new) /\ UNCHANGED <<ended, accepted, extractions, facts, assessments, work>>
    BY <1>2 DEF Chain!SessionCompleted, Chain!tables
  <2>2. \A k \in new : k = [purpose |-> k.purpose, of |-> k.of] /\ k.purpose = "ingest"
    OBVIOUS
  <2> HIDE DEF new
  <2>3. /\ DOMAIN jobs' = DOMAIN jobs \cup new
        /\ \A k \in DOMAIN jobs : jobs'[k] = jobs[k]
        /\ \A k \in new \ DOMAIN jobs :
             jobs'[k].state = "pending" /\ DOMAIN jobs'[k] = {"state", "attempts"}
    BY <2>1, NewJobsMoves
  <2>4. JobRows'
    BY <2>1, <2>2, <2>3 DEF JobRows
  <2> QED
    BY <2>1, <2>3, <2>4
<1>3. ASSUME NEW e \in extractions, Chain!ExtractionCommitted(e.id)
      PROVE  /\ UNCHANGED <<ended, accepted, extractions, facts, assessments, work>>
             /\ DOMAIN jobs \subseteq DOMAIN jobs' /\ \A k \in DOMAIN jobs : jobs'[k] = jobs[k]
             /\ \A k \in DOMAIN jobs' \ DOMAIN jobs :
                  jobs'[k].state = "pending" /\ DOMAIN jobs'[k] = {"state", "attempts"}
             /\ JobRows'
  <2> DEFINE new == {[purpose |-> p, of |-> e.id] : p \in {"facts", "assess"}}
  <2>1. Chain!NewJobs(new) /\ UNCHANGED <<ended, accepted, extractions, facts, assessments, work>>
    BY <1>3 DEF Chain!ExtractionCommitted, Chain!tables
  <2>2. \A k \in new : /\ k = [purpose |-> k.purpose, of |-> k.of]
                       /\ k.purpose \in {"facts", "assess"} /\ k.of = e.id
    OBVIOUS
  <2> HIDE DEF new
  <2>3. /\ DOMAIN jobs' = DOMAIN jobs \cup new
        /\ \A k \in DOMAIN jobs : jobs'[k] = jobs[k]
        /\ \A k \in new \ DOMAIN jobs :
             jobs'[k].state = "pending" /\ DOMAIN jobs'[k] = {"state", "attempts"}
    BY <2>1, NewJobsMoves
  <2>4. JobRows'
    BY <2>1, <2>2, <2>3 DEF JobRows
  <2> QED
    BY <2>1, <2>3, <2>4
<1> QED
  BY <1>1, <1>2, <1>3

LEMMA Outcomes ==
  ASSUME AtWork, NEW a \in Chain!Actors, Chain!Commit(a) \/ Chain!Abort(a)
  PROVE  /\ Chain!Outcome(a, "succeeded") \/ Chain!Outcome(a, "permanent")
         /\ jobs' = jobs /\ UNCHANGED <<ended, last, accepted>>
         /\ work[a].step \in {"extracted", "inserting", "upserting", "upsert", "written"}
         /\ Shaped(a) /\ AtWork'
<1>1. /\ Chain!Outcome(a, "succeeded") \/ Chain!Outcome(a, "permanent")
      /\ jobs' = jobs /\ UNCHANGED <<ended, last, accepted>>
      /\ work[a].step \in {"extracted", "inserting", "upserting", "upsert", "written"}
  BY DEF Chain!Commit, Chain!Abort, Chain!At, Chain!tables
<1>2. /\ Shaped(a) /\ Stays(a, "job")
      /\ work'[a].step \in IF a \in Workers THEN {"succeeded", "permanent"} ELSE {"done"}
  BY <1>1, OutcomeFields DEF Shaped, Stays
<1>3. a \in Calls => a \notin Workers
  BY NoneIsBoth
<1>4. AtWork'
  BY <1>1, <1>2, <1>3, Onwards
<1> QED
  BY <1>1, <1>2, <1>4

LEMMA BaseStep == AtWork /\ JobRows /\ Chain!Next => AtWork' /\ JobRows'
<1> SUFFICES ASSUME AtWork, JobRows, Chain!Next PROVE AtWork' /\ JobRows'
  OBVIOUS
<1>1. CASE \/ Chain!Message \/ Chain!SessionCompleted
           \/ \E e \in extractions : Chain!ExtractionCommitted(e.id)
  <2>1. work' = work /\ JobRows' /\ DOMAIN jobs \subseteq DOMAIN jobs'
        /\ \A k \in DOMAIN jobs : jobs'[k] = jobs[k]
    BY <1>1, EventMoves
  <2>2. \A w \in Workers : Running(w) => Running(w)'
    BY <2>1 DEF Running
  <2> QED
    BY <2>1, <2>2 DEF AtWork
<1>2. ASSUME NEW w \in Workers, Chain!WorkerStep(w) PROVE AtWork' /\ JobRows'
  <2>1. CASE Chain!Finalize(w) \/ Chain!Crash(w)
    BY <2>1, Rests
  <2>2. ASSUME NEW k \in DOMAIN jobs, Chain!VendorFails(w, k) PROVE AtWork' /\ JobRows'
    <3>1. PICK purpose : Chain!Begin(w, k, purpose) /\ Chain!Ends(w, k, "transient") /\ extractions' = extractions
      BY <2>2 DEF Chain!VendorFails, Chain!tables
    <3>2. work[w] = Chain!Idle
      BY <3>1, ClaimMoves
    <3>3. Shaped(w) /\ work'[w].job = k /\ work'[w].step = "transient"
      BY <3>1, <3>2, EndsMoves
    <3> QED
      BY <3>1, <3>3, Claimed
  <2>3. ASSUME NEW k \in DOMAIN jobs, Chain!Dispatch(w, k) PROVE AtWork' /\ JobRows'
    <3>1. PICK step \in {"succeeded", "transient"} :
            Chain!Begin(w, k, "ingest") /\ Chain!Ends(w, k, step) /\ extractions' = extractions
      BY <2>3 DEF Chain!Dispatch, Chain!Extract
    <3>2. work[w] = Chain!Idle
      BY <3>1, ClaimMoves
    <3>3. Shaped(w) /\ work'[w].job = k /\ work'[w].step = step
      BY <3>1, <3>2, EndsMoves
    <3> QED
      BY <3>1, <3>3, Claimed
  <2>4. ASSUME NEW k \in DOMAIN jobs, Chain!Analyse(w, k) PROVE AtWork' /\ JobRows'
    BY <2>4, AnalyseMoves, Claimed
  <2>5. ASSUME NEW k \in DOMAIN jobs, Chain!Assess(w, k) PROVE AtWork' /\ JobRows'
    BY <2>5, AssessMoves, Claimed
  <2> QED
    BY <1>2, <2>1, <2>2, <2>3, <2>4, <2>5 DEF Chain!WorkerStep
<1>3. ASSUME NEW c \in Calls, Chain!CallStep(c) PROVE AtWork' /\ JobRows'
  <2>1. c \in Chain!Actors /\ c \notin Workers
    BY NoneIsBoth DEF Chain!Actors
  <2>2. /\ Shaped(c) /\ jobs' = jobs /\ extractions' = extractions
        /\ \/ work[c] = Chain!Idle /\ work'[c].step = "extracted" /\ work'[c].range # <<>>
           \/ work[c] = Chain!Idle /\ work'[c].step = "upserting" /\ Stays(c, "range")
           \/ Chain!Outcome(c, "done")
           \/ work[c].step = "extracted" /\ work'[c].step = "inserting" /\ Stays(c, "range")
           \/ work'[c].step = "written"
    BY <1>3, CallMoves DEF Chain!CallStep
  <2>3. Chain!Idle.range = <<>>
    BY DEF Chain!Idle
  <2>4. /\ work'[c].step \in {"extracted", "inserting", "upserting", "upsert", "written", "done"}
        /\ work'[c].step \in {"extracted", "inserting"} => work'[c].range # <<>>
        /\ work'[c].step \in {"upserting", "upsert"} => work'[c].range = <<>>
    BY <2>1, <2>2, <2>3, OutcomeFields DEF AtWork, Stays
  <2>5. AtWork'
    BY <2>1, <2>2, <2>4, Onwards
  <2>6. JobRows'
    BY <2>2 DEF JobRows
  <2> QED
    BY <2>5, <2>6
<1>4. ASSUME NEW a \in Chain!Actors, Chain!FindFact(a) \/ Chain!WriteFact(a) PROVE AtWork' /\ JobRows'
  <2>1. /\ jobs' = jobs /\ extractions' = extractions /\ Shaped(a)
        /\ work[a].step \in {"upserting", "upsert"}
        /\ \/ Chain!Outcome(a, "permanent")
           \/ /\ work'[a].step \in {"upserting", "upsert", "written"}
              /\ Stays(a, "job") /\ Stays(a, "range")
    BY <1>4, FindFactMoves, WriteFactMoves
  <2>2. a \in Workers => a \notin Calls
    BY NoneIsBoth
  <2>3. a \in Calls => work[a].range = <<>>
    BY <2>1 DEF AtWork
  <2>4. AtWork'
    BY <2>1, <2>2, <2>3, OutcomeFields, Onwards DEF Stays
  <2>5. JobRows'
    BY <2>1 DEF JobRows
  <2> QED
    BY <2>4, <2>5
<1>5. ASSUME NEW a \in Chain!Actors, Chain!Commit(a) \/ Chain!Abort(a) PROVE AtWork' /\ JobRows'
  <2>1. AtWork' /\ jobs' = jobs
    BY <1>5, Outcomes
  <2>2. extractions \subseteq extractions'
    BY <1>5 DEF Chain!Commit, Chain!Abort, Chain!tables
  <2> QED
    BY <2>1, <2>2 DEF JobRows
<1> QED
  BY <1>1, <1>2, <1>3, <1>4, <1>5 DEF Chain!Next, Chain!ActorStep

-----------------------------------------------------------------------------
(* No stretch is analysed twice, and what succeeded is stored *)

LEMMA ResultStays ==
  ASSUME NEW k, extractions \subseteq extractions', accepted \subseteq accepted',
         assessments \subseteq assessments', HasResult(k, assessments)
  PROVE  HasResult(k, assessments)'
BY DEF HasResult

\* A step of one actor that stores nothing
LEMMA AnalysesKept ==
  ASSUME Analyses, AtWork, NEW a \in Chain!Actors, OthersAtWork(a),
         extractions' = extractions, assessments' = assessments, accepted \subseteq accepted',
         a \in Workers => Analysing(a)',
         a \in Calls => Extracting(a)',
         a \in Workers => ~(a \in Calls),
         \A k \in DOMAIN jobs' : jobs'[k].state = "succeeded" =>
           (k \in DOMAIN jobs /\ jobs[k].state = "succeeded") \/ HasResult(k, assessments)
  PROVE  Analyses'
<1>1. \A b \in Chain!Actors : b # a => work'[b] = work[b]
  BY DEF OthersAtWork
<1>2. \A s \in assessments' : AssessmentOf(s)'
  BY DEF Analyses, AssessmentOf
<1>3. \A c \in Calls : Extracting(c)'
  <2> SUFFICES ASSUME NEW c \in Calls, c # a PROVE Extracting(c)'
    OBVIOUS
  <2>1. work'[c] = work[c] /\ Extracting(c)
    BY <1>1 DEF Analyses, Chain!Actors
  <2>2. \A d \in Calls \ {c} : d # a => work'[d] = work[d]
    BY <1>1 DEF Chain!Actors
  <2>3. CASE a \in Calls
    <3>1. work'[a].step = "written" /\ work'[a].range # <<>> =>
            ~(work'[c].step = "written" /\ work'[c].range = work'[a].range)
      BY <2>3 DEF Extracting
    <3> QED
      BY <2>1, <2>2, <3>1 DEF Extracting
  <2>4. CASE a \notin Calls
    BY <2>1, <2>2, <2>4 DEF Extracting
  <2> QED
    BY <2>3, <2>4
<1>4. \A w \in Workers : Analysing(w)'
  <2> SUFFICES ASSUME NEW w \in Workers, w # a PROVE Analysing(w)'
    OBVIOUS
  <2>1. work'[w] = work[w] /\ Analysing(w)
    BY <1>1 DEF Analyses, Chain!Actors
  <2>2. \A rows : HasResult(work[w].job, rows) =>
          /\ work[w].job.purpose = "ingest" => work[w].job.of \in accepted'
          /\ work[w].job.purpose = "assess" =>
               \E e \in extractions', s \in rows : e.id = work[w].job.of /\ s.range = e.range
    BY DEF HasResult
  <2> QED
    BY <2>1, <2>2 DEF Analysing, HasResult, AssessmentOf
<1>5. \A k \in DOMAIN jobs' : jobs'[k].state = "succeeded" => HasResult(k, assessments)'
  BY ResultStays DEF Analyses
<1> QED
  BY <1>2, <1>3, <1>4, <1>5 DEF Analyses

LEMMA ClaimAnalyses ==
  ASSUME Analyses, AtWork, JobRows, NEW w \in Workers, NEW k \in DOMAIN jobs,
         \/ Chain!VendorFails(w, k) \/ Chain!Dispatch(w, k)
         \/ Chain!Analyse(w, k) \/ Chain!Assess(w, k)
  PROVE  Analyses'
<1>1. w \in Chain!Actors /\ w \notin Calls
  BY NoneIsBoth DEF Chain!Actors
<1>2. ASSUME NEW purpose, Chain!Begin(w, k, purpose)
      PROVE  /\ work[w] = Chain!Idle /\ k.purpose = purpose
             /\ \A j \in DOMAIN jobs' : jobs'[j].state = "succeeded" =>
                  j \in DOMAIN jobs /\ jobs[j].state = "succeeded"
  BY <1>2, ClaimMoves
<1>3. CASE Chain!VendorFails(w, k)
  <2>1. PICK purpose : /\ Chain!Begin(w, k, purpose) /\ Chain!Ends(w, k, "transient")
                       /\ UNCHANGED <<accepted, extractions, assessments>>
    BY <1>3 DEF Chain!VendorFails, Chain!tables
  <2>2. Shaped(w) /\ work'[w].step = "transient"
    BY <1>2, <2>1, EndsMoves
  <2> QED
    BY <1>1, <1>2, <2>1, <2>2, AnalysesKept DEF Analysing, Shaped
<1>4. CASE Chain!Dispatch(w, k)
  <2>1. PICK step \in {"succeeded", "transient"} :
          /\ Chain!Begin(w, k, "ingest") /\ Chain!Ends(w, k, step)
          /\ accepted' = accepted \cup {k.of} /\ UNCHANGED <<extractions, assessments>>
    BY <1>4 DEF Chain!Dispatch, Chain!Extract
  <2>2. Shaped(w) /\ work'[w].step \in {"succeeded", "transient"} /\ work'[w].job = k
    BY <1>2, <2>1, EndsMoves
  <2>3. Analysing(w)'
    BY <1>2, <2>1, <2>2 DEF Analysing, HasResult
  <2> QED
    BY <1>1, <1>2, <2>1, <2>2, <2>3, AnalysesKept DEF Shaped
<1>5. CASE Chain!Analyse(w, k)
  <2>1. /\ Chain!Begin(w, k, "facts") /\ Shaped(w) /\ work'[w].step \in {"succeeded", "upserting"}
        /\ work'[w].job = k /\ UNCHANGED <<accepted, extractions, assessments>>
    BY <1>5, AnalyseMoves
  <2>2. Analysing(w)'
    BY <1>2, <2>1 DEF Analysing, HasResult
  <2> QED
    BY <1>1, <1>2, <2>1, <2>2, AnalysesKept DEF Shaped
<1>6. CASE Chain!Assess(w, k)
  <2>1. /\ Chain!Begin(w, k, "assess") /\ Shaped(w) /\ work'[w].step = "written"
        /\ work'[w].job = k /\ UNCHANGED <<accepted, extractions, assessments>>
    BY <1>6, AssessMoves
  <2>2. PICK e \in extractions : e.id = k.of /\ work'[w].wrote = Chain!NewAssessment(e)
    BY <1>6, AssessMoves
  <2> DEFINE s == [of |-> e.id, range |-> e.range]
  <2>3. s = [of |-> e.id, range |-> e.range] /\ s.range = e.range
    OBVIOUS
  <2> HIDE DEF s
  <2>4. /\ work'[w].wrote \subseteq {s}
        /\ \E t \in assessments \cup work'[w].wrote : t.range = e.range
    BY <2>2, <2>3 DEF Chain!NewAssessment, s
  <2>5. k.purpose = "assess"
    BY <1>2, <2>1
  <2>6. /\ \A t \in work'[w].wrote : AssessmentOf(t)'
        /\ HasResult(work'[w].job, assessments \cup work'[w].wrote)
    BY <2>1, <2>2, <2>3, <2>4, <2>5 DEF AssessmentOf, HasResult
  <2>7. Analysing(w)'
    BY <2>1, <2>6 DEF Analysing, HasResult
  <2> QED
    BY <1>1, <1>2, <2>1, <2>7, AnalysesKept DEF Shaped
<1> QED
  BY <1>3, <1>4, <1>5, <1>6

LEMMA RestAnalyses ==
  ASSUME Analyses, AtWork, JobRows, NEW w \in Workers, Chain!Finalize(w) \/ Chain!Crash(w)
  PROVE  Analyses'
<1>1. w \in Chain!Actors /\ w \notin Calls /\ Chain!Idle.step = "idle"
  BY NoneIsBoth DEF Chain!Actors, Chain!Idle
<1>2. CASE Chain!Finalize(w)
  <2>1. /\ OthersAtWork(w) /\ work'[w] = Chain!Idle /\ DOMAIN jobs' = DOMAIN jobs
        /\ jobs'[work[w].job].state = "succeeded" => work[w].step = "succeeded"
        /\ \A j \in DOMAIN jobs \ {work[w].job} : jobs'[j] = jobs[j]
        /\ UNCHANGED <<accepted, extractions, assessments>>
    BY <1>2, FinalizeMoves
  <2>2. work[w].step = "succeeded" => HasResult(work[w].job, assessments)
    BY DEF Analyses, Analysing
  <2>3. Analysing(w)'
    BY <1>1, <2>1 DEF Analysing
  <2> QED
    BY <1>1, <2>1, <2>2, <2>3, AnalysesKept
<1>3. CASE Chain!Crash(w)
  <2>1. /\ OthersAtWork(w) /\ work'[w] = Chain!Idle /\ jobs' = jobs
        /\ UNCHANGED <<accepted, extractions, assessments>>
    BY <1>1, <1>3 DEF Chain!Crash, Chain!tables, AtWork, OthersAtWork
  <2>2. Analysing(w)'
    BY <1>1, <2>1 DEF Analysing
  <2> QED
    BY <1>1, <2>1, <2>2, AnalysesKept
<1> QED
  BY <1>2, <1>3

LEMMA CallAnalyses ==
  ASSUME Analyses, AtWork, NEW c \in Calls, Chain!CallStep(c)
  PROVE  Analyses'
<1>1. c \in Chain!Actors /\ c \notin Workers
  BY NoneIsBoth DEF Chain!Actors
<1>2. /\ Shaped(c) /\ UNCHANGED <<accepted, extractions, assessments, jobs>>
      /\ \/ work'[c].step \in {"extracted", "inserting", "upserting"}
         \/ Chain!Outcome(c, "done")
         \/ /\ work'[c].step = "written" /\ Stays(c, "range")
            /\ work'[c].wrote = {[id |-> c, range |-> work[c].range]}
            /\ \A e \in extractions : e.range # work[c].range
            /\ \A d \in Calls \ {c} : ~(work[d].step = "written" /\ work[d].range = work[c].range)
  BY CallMoves DEF Chain!CallStep
<1>3. Extracting(c)'
  <2>1. \A d \in Calls \ {c} : work'[d] = work[d]
    BY <1>2 DEF Shaped, OthersAtWork, Chain!Actors
  <2>2. CASE work'[c].step \in {"extracted", "inserting", "upserting"}
    BY <2>2 DEF Extracting
  <2>3. CASE Chain!Outcome(c, "done")
    <3>1. work'[c].step = "done"
      BY <1>1, <2>3, OutcomeFields
    <3> QED
      BY <3>1 DEF Extracting
  <2>4. CASE /\ work'[c].step = "written" /\ Stays(c, "range")
             /\ work'[c].wrote = {[id |-> c, range |-> work[c].range]}
             /\ \A e \in extractions : e.range # work[c].range
             /\ \A d \in Calls \ {c} : ~(work[d].step = "written" /\ work[d].range = work[c].range)
    BY <1>2, <2>1, <2>4 DEF Extracting, Stays
  <2> QED
    BY <1>2, <2>2, <2>3, <2>4
<1> QED
  BY <1>1, <1>2, <1>3, AnalysesKept DEF Shaped

LEMMA FactAnalyses ==
  ASSUME Analyses, AtWork, NEW a \in Chain!Actors, Chain!FindFact(a) \/ Chain!WriteFact(a)
  PROVE  Analyses'
<1>1. /\ Shaped(a) /\ UNCHANGED <<accepted, extractions, assessments, jobs>>
      /\ work[a].step \in {"upserting", "upsert"}
      /\ \/ Chain!Outcome(a, "permanent")
         \/ /\ work'[a].step \in {"upserting", "upsert", "written"}
            /\ Stays(a, "job") /\ Stays(a, "range")
  BY FindFactMoves, WriteFactMoves
<1>2. ASSUME a \in Calls PROVE Extracting(a)'
  <2>1. work'[a].range = <<>>
    BY <1>1, <1>2, OutcomeFields DEF AtWork, Stays
  <2> QED
    BY <2>1 DEF Extracting
<1>3. ASSUME a \in Workers PROVE Analysing(a)'
  <2>1. work'[a].step = "written" => work'[a].job.purpose = "facts"
    BY <1>1, <1>3, OutcomeFields DEF AtWork, Running, Stays
  <2>2. work'[a].step # "succeeded"
    BY <1>1, <1>3, OutcomeFields
  <2> QED
    BY <2>1, <2>2 DEF Analysing
<1> QED
  BY <1>1, <1>2, <1>3, NoneIsBoth, AnalysesKept DEF Shaped

LEMMA AbortAnalyses ==
  ASSUME Analyses, AtWork, NEW a \in Chain!Actors, Chain!Abort(a)
  PROVE  Analyses'
<1>1. /\ Shaped(a) /\ UNCHANGED <<accepted, extractions, assessments, jobs>>
      /\ work'[a].step = IF a \in Workers THEN "permanent" ELSE "done"
  BY Outcomes, OutcomeFields DEF Chain!Abort, Chain!tables
<1>2. a \in Calls => Extracting(a)'
  BY <1>1, NoneIsBoth DEF Extracting
<1>3. a \in Workers => Analysing(a)'
  BY <1>1 DEF Analysing
<1> QED
  BY <1>1, <1>2, <1>3, NoneIsBoth, AnalysesKept DEF Shaped

LEMMA CommitAnalyses ==
  ASSUME Analyses, AtWork, JobRows, NEW a \in Chain!Actors, Chain!Commit(a)
  PROVE  Analyses'
<1>1. /\ Shaped(a) /\ UNCHANGED <<accepted, jobs>> /\ Chain!Outcome(a, "succeeded")
      /\ work[a].step = "written" /\ work'[a].job = work[a].job
      /\ work'[a].step = IF a \in Workers THEN "succeeded" ELSE "done"
  BY Outcomes, OutcomeFields DEF Chain!Commit, Chain!At
<1>2. /\ Chain!Purpose(a) # "assess" => assessments' = assessments
      /\ Chain!Purpose(a) = "assess" => assessments' = assessments \cup work[a].wrote
      /\ Chain!Purpose(a) # "extract" => extractions' = extractions
      /\ Chain!Purpose(a) = "extract" => extractions' = extractions \cup work[a].wrote
  BY DEF Chain!Commit
<1>3. \A b \in Chain!Actors : b # a => work'[b] = work[b]
  BY <1>1 DEF Shaped, OthersAtWork
<1>4. CASE a \in Workers
  <2>1. /\ Chain!Purpose(a) = work[a].job.purpose /\ a \notin Calls
        /\ work[a].job \in DOMAIN jobs /\ work[a].job.purpose # "ingest"
    BY <1>1, <1>4, NoneIsBoth DEF Chain!Purpose, AtWork, Running
  <2>2. work[a].job.purpose \in {"facts", "assess"} /\ extractions' = extractions
    BY <1>2, <2>1 DEF JobRows
  <2>3. CASE work[a].job.purpose = "facts"
    <3>1. Analysing(a)'
      BY <1>1, <1>4, <2>3 DEF Analysing, HasResult
    <3> QED
      BY <1>1, <1>2, <2>1, <2>2, <2>3, <3>1, AnalysesKept DEF Shaped
  <2>4. CASE work[a].job.purpose = "assess"
    <3>1. /\ assessments' = assessments \cup work[a].wrote
          /\ \A s \in work[a].wrote : AssessmentOf(s)
          /\ HasResult(work[a].job, assessments')
      BY <1>1, <1>2, <1>4, <2>1, <2>4 DEF Analyses, Analysing
    <3>2. \A s \in assessments' : AssessmentOf(s)'
      BY <2>2, <3>1 DEF Analyses, AssessmentOf
    <3>3. \A c \in Calls : Extracting(c)'
      <4>1. \A c \in Calls : work'[c] = work[c]
        BY <1>3, <2>1 DEF Chain!Actors
      <4> QED
        BY <2>2, <4>1 DEF Analyses, Extracting
    <3>4. \A w \in Workers : Analysing(w)'
      <4>1. Analysing(a)'
        BY <1>1, <1>4, <2>2, <3>1 DEF Analysing, HasResult
      <4>2. ASSUME NEW w \in Workers, w # a PROVE Analysing(w)'
        <5>1. work'[w] = work[w] /\ Analysing(w)
          BY <1>3, <4>2 DEF Analyses, Chain!Actors
        <5> QED
          BY <1>1, <2>2, <3>1, <5>1 DEF Analysing, HasResult, AssessmentOf
      <4> QED
        BY <4>1, <4>2
    <3>5. \A k \in DOMAIN jobs' : jobs'[k].state = "succeeded" => HasResult(k, assessments)'
      BY <1>1, <2>2, <3>1, ResultStays DEF Analyses
    <3> QED
      BY <2>2, <3>2, <3>3, <3>4, <3>5 DEF Analyses
  <2> QED
    BY <2>2, <2>3, <2>4
<1>5. CASE a \in Calls
  <2>1. /\ a \notin Workers /\ assessments' = assessments
        /\ Chain!Purpose(a) = IF work[a].range # <<>> THEN "extract" ELSE "facts"
    BY <1>2, <1>5, NoneIsBoth DEF Chain!Purpose
  <2>2. Extracting(a)' /\ \A w \in Workers : work'[w] = work[w]
    BY <1>1, <1>3, <2>1 DEF Extracting, Chain!Actors
  <2>3. CASE work[a].range = <<>>
    BY <1>1, <1>2, <2>1, <2>2, <2>3, AnalysesKept DEF Shaped
  <2>4. CASE work[a].range # <<>>
    <3> DEFINE x == [id |-> a, range |-> work[a].range]
    <3>1. x.id = a /\ x.range = work[a].range
      OBVIOUS
    <3>2. work[a].wrote = {x} /\ \A e \in extractions : e.range # work[a].range
      BY <1>1, <1>5, <2>4 DEF Analyses, Extracting
    <3> HIDE DEF x
    <3>3. extractions' = extractions \cup {x}
      BY <1>2, <2>1, <2>4, <3>2
    <3>4. /\ \A e \in extractions' : e.id \in Calls
          /\ \A e, f \in extractions' : e.range = f.range => e = f
      BY <1>5, <3>1, <3>2, <3>3 DEF Analyses
    <3>5. \A s \in assessments' : AssessmentOf(s)'
      BY <2>1, <3>3 DEF Analyses, AssessmentOf
    <3>6. ASSUME NEW c \in Calls, c # a PROVE Extracting(c)'
      <4>1. /\ \A d \in Calls : d # a => work'[d] = work[d]
            /\ Extracting(c) /\ work'[a].step = "done"
        BY <1>1, <1>3, <2>1 DEF Chain!Actors, Analyses
      <4>2. \A d \in Calls \ {c} : ~(work'[d].step = "written" /\ work'[d].range = work[c].range)
            \/ ~(work[c].step = "written" /\ work[c].range # <<>>)
        BY <4>1 DEF Extracting
      <4>3. work[c].step = "written" /\ work[c].range # <<>> => x.range # work[c].range
        BY <1>1, <1>5, <3>1, <3>6, <4>1 DEF Extracting
      <4> QED
        BY <3>3, <3>6, <4>1, <4>2, <4>3 DEF Extracting
    <3>7. \A w \in Workers : Analysing(w)'
      <4> SUFFICES ASSUME NEW w \in Workers PROVE Analysing(w)'
        OBVIOUS
      <4>1. Analysing(w) /\ work'[w] = work[w] /\ extractions \subseteq extractions'
        BY <2>2, <3>3 DEF Analyses
      <4> QED
        BY <1>1, <2>1, <4>1 DEF Analysing, HasResult, AssessmentOf
    <3>8. \A k \in DOMAIN jobs' : jobs'[k].state = "succeeded" => HasResult(k, assessments)'
      BY <1>1, <2>1, <3>3, ResultStays DEF Analyses
    <3> QED
      BY <2>2, <3>4, <3>5, <3>6, <3>7, <3>8 DEF Analyses
  <2> QED
    BY <2>3, <2>4
<1> QED
  BY <1>4, <1>5 DEF Chain!Actors

-----------------------------------------------------------------------------
(* What the user has confirmed stands *)

LEMMA WriterUnsettled ==
  ASSUME AtWork, JobRows, Analyses, NEW a \in Chain!Actors, Writing(a)
  PROVE  /\ ~Settled(By(a))
         /\ a \in Workers => work[a].job \in DOMAIN jobs /\ work[a].job.purpose = "facts"
<1>1. CASE a \in Workers
  <2>1. work[a].job \in DOMAIN jobs /\ work[a].job.purpose = "facts" /\ By(a) = work[a].job
    BY <1>1 DEF AtWork, Running, Writing, Chain!Purpose, By
  <2>2. work[a].job \in [purpose : {"facts"}, of : Calls]
    BY <2>1 DEF JobRows, Analyses
  <2>3. work[a].job \notin Calls
    BY <2>2, KnowledgeConstants
  <2> QED
    BY <1>1, <2>1, <2>3 DEF Settled, Writing
<1>2. CASE a \in Calls
  <2>1. By(a) = a /\ work[a].step # "done" /\ a \notin Workers
    BY <1>2, NoneIsBoth DEF By, Writing
  <2>2. ASSUME a \in DOMAIN jobs, a.purpose = "facts" PROVE FALSE
    <3>1. a \in [purpose : {"facts"}, of : Calls]
      BY <2>2 DEF JobRows, Analyses
    <3> QED
      BY <1>2, <3>1, KnowledgeConstants
  <2> QED
    BY <2>1, <2>2 DEF Settled
<1> QED
  BY <1>1, <1>2 DEF Chain!Actors

\* What is settled stays settled: through a claim, ...
LEMMA ClaimSettled ==
  ASSUME AtWork, JobRows, NEW w \in Workers, NEW k \in DOMAIN jobs, NEW purpose,
         Chain!Begin(w, k, purpose), OthersAtWork(w), work'[w].job = k, NEW b, Settled(b)
  PROVE  Settled(b)'
<1>1. /\ jobs[k].state = "pending" /\ DOMAIN jobs' = DOMAIN jobs
      /\ \A j \in DOMAIN jobs \ {k} : jobs'[j] = jobs[j]
  BY ClaimMoves
<1>2. /\ \A c \in Calls : work'[c] = work[c]
      /\ \A v \in Workers : v # w => work'[v] = work[v]
  BY NoneIsBoth DEF OthersAtWork, Chain!Actors
<1> QED
  BY <1>1, <1>2 DEF Settled

\* ... the end of a job, ...
LEMMA RestSettled ==
  ASSUME AtWork, JobRows, NEW w \in Workers, Chain!Finalize(w) \/ Chain!Crash(w), NEW b, Settled(b)
  PROVE  Settled(b)'
<1>1. /\ OthersAtWork(w) /\ work'[w].step = "idle" /\ work[w].step # "idle"
      /\ DOMAIN jobs' = DOMAIN jobs
      /\ \A j \in DOMAIN jobs : j # work[w].job => jobs'[j] = jobs[j]
      /\ work[w].step = "succeeded" =>
           jobs'[work[w].job] = jobs[work[w].job] \/ jobs'[work[w].job].state = "succeeded"
      /\ work[w].step # "succeeded" =>
           jobs'[work[w].job] = jobs[work[w].job] \/ Chain!Finalize(w)
  <2>1. Chain!Idle.step = "idle"
    BY DEF Chain!Idle
  <2>2. CASE Chain!Finalize(w)
    BY <2>1, <2>2, FinalizeMoves
  <2>3. CASE Chain!Crash(w)
    BY <2>1, <2>3 DEF Chain!Crash, Chain!At, Chain!tables, AtWork, OthersAtWork, Chain!Actors
  <2> QED
    BY <2>2, <2>3
<1>2. /\ \A c \in Calls : work'[c] = work[c]
      /\ \A v \in Workers : v # w => work'[v] = work[v]
  BY <1>1, NoneIsBoth DEF OthersAtWork, Chain!Actors
<1>3. CASE b \in Calls /\ work[b].step = "done"
  BY <1>2, <1>3 DEF Settled
<1>4. CASE /\ b \in DOMAIN jobs /\ b.purpose = "facts"
           /\ jobs[b].state \in {"running", "succeeded"}
           /\ \A v \in Workers :
                work[v].step # "idle" /\ work[v].job = b => work[v].step = "succeeded"
  <2>1. jobs'[b].state \in {"running", "succeeded"}
    BY <1>1, <1>4
  <2> QED
    BY <1>1, <1>2, <1>4, <2>1 DEF Settled
<1> QED
  BY <1>3, <1>4 DEF Settled

\* ... a step of a transaction.
LEMMA ActorSettled ==
  ASSUME NEW a \in Chain!Actors, OthersAtWork(a), jobs' = jobs,
         a \in Workers => work[a].step \notin {"idle", "succeeded"} /\ work'[a].job = work[a].job,
         a \in Calls => work[a].step # "done",
         NEW b, Settled(b)
  PROVE  Settled(b)'
<1>1. \A c \in Chain!Actors : c # a => work'[c] = work[c]
  BY DEF OthersAtWork
<1> QED
  BY <1>1 DEF Settled, Chain!Actors

LEMMA FactsKept ==
  ASSUME FactsInv, NEW a \in Chain!Actors, OthersAtWork(a), facts' = facts,
         \A b : Settled(b) => Settled(b)',
         Writing(a)' => Items(a)' /\ Supersedes(a)'
  PROVE  FactsInv'
<1>1. FactRows'
  BY DEF FactsInv, FactRows
<1>2. ASSUME NEW d \in Chain!Actors, Writing(d)', d # a PROVE Items(d)' /\ Supersedes(d)'
  <2>1. work'[d] = work[d]
    BY <1>2 DEF OthersAtWork
  <2>2. Writing(d) /\ By(d)' = By(d)
    BY <1>2, <2>1 DEF Writing, Chain!Purpose, By
  <2>3. Items(d) /\ Supersedes(d)
    BY <2>2 DEF FactsInv
  <2>4. Items(d)'
    BY <2>1, <2>2, <2>3 DEF Items
  <2>5. Supersedes(d)'
    BY <2>1, <2>3 DEF Supersedes, StillThere
  <2> QED
    BY <2>4, <2>5
<1> QED
  BY <1>1, <1>2 DEF FactsInv

LEMMA ClaimFacts ==
  ASSUME FactsInv, AtWork, JobRows, NEW w \in Workers, NEW k \in DOMAIN jobs,
         \/ Chain!VendorFails(w, k) \/ Chain!Dispatch(w, k)
         \/ Chain!Analyse(w, k) \/ Chain!Assess(w, k)
  PROVE  FactsInv'
<1>1. w \in Chain!Actors
  BY DEF Chain!Actors
<1>2. ASSUME NEW purpose, Chain!Begin(w, k, purpose), Shaped(w), work'[w].job = k
      PROVE  k.purpose = purpose /\ work[w] = Chain!Idle /\ \A b : Settled(b) => Settled(b)'
  BY <1>2, ClaimMoves, ClaimSettled DEF Shaped
<1>3. CASE Chain!VendorFails(w, k) \/ Chain!Dispatch(w, k)
  <2>1. PICK purpose \in {"ingest", "facts", "assess"}, step \in {"transient", "succeeded"} :
          Chain!Begin(w, k, purpose) /\ Chain!Ends(w, k, step) /\ facts' = facts
    <3>1. CASE Chain!VendorFails(w, k)
      BY <3>1 DEF Chain!VendorFails, Chain!tables
    <3>2. CASE Chain!Dispatch(w, k)
      BY <3>2 DEF Chain!Dispatch, Chain!Extract
    <3> QED
      BY <1>3, <3>1, <3>2
  <2>2. work[w] = Chain!Idle
    BY <2>1, ClaimMoves
  <2>3. Shaped(w) /\ work'[w].step \in {"transient", "succeeded"} /\ work'[w].job = k
    BY <2>1, <2>2, EndsMoves
  <2>4. ~Writing(w)'
    BY <2>3 DEF Writing
  <2> QED
    BY <1>1, <1>2, <2>1, <2>3, <2>4, FactsKept DEF Shaped
<1>4. CASE Chain!Analyse(w, k)
  <2>1. /\ Chain!Begin(w, k, "facts") /\ Shaped(w) /\ work'[w].job = k
        /\ work'[w].step \in {"succeeded", "upserting"} /\ facts' = facts
        /\ work'[w].item = {} /\ work'[w].saw = {} /\ work'[w].wrote = {} /\ work'[w].old = {}
    BY <1>4, AnalyseMoves
  <2>2. \E K \in SUBSET FactKeys : \E v \in [K -> Values] : work'[w].items = Chain!Proposed(v)
    BY <1>4, AnalyseMoves
  <2>3. /\ \A i \in work'[w].items : DOMAIN i = {"key", "value", "status"} /\ i.status = "proposed"
        /\ \A i, j \in work'[w].items : i.key = j.key => i = j
    BY <2>2 DEF Chain!Proposed
  <2>4. Items(w)' /\ Supersedes(w)'
    BY <2>1, <2>3 DEF Items, Supersedes
  <2> QED
    BY <1>1, <1>2, <2>1, <2>4, FactsKept DEF Shaped
<1>5. CASE Chain!Assess(w, k)
  <2>1. /\ Chain!Begin(w, k, "assess") /\ Shaped(w) /\ work'[w].job = k
        /\ work'[w].step = "written" /\ facts' = facts
    BY <1>5, AssessMoves
  <2>2. ~Writing(w)'
    BY <1>2, <2>1 DEF Writing, Chain!Purpose
  <2> QED
    BY <1>1, <1>2, <2>1, <2>2, FactsKept DEF Shaped
<1> QED
  BY <1>3, <1>4, <1>5

LEMMA CallFacts ==
  ASSUME FactsInv, AtWork, NEW c \in Calls, Chain!CallStep(c)
  PROVE  FactsInv'
<1>1. c \in Chain!Actors /\ c \notin Workers
  BY NoneIsBoth DEF Chain!Actors
<1>2. /\ Shaped(c) /\ facts' = facts /\ jobs' = jobs
      /\ work[c].step \in {"idle", "extracted", "inserting"}
      /\ \/ work'[c].step \in {"extracted", "inserting"}
         \/ Chain!Outcome(c, "done")
         \/ work'[c].step = "written" /\ Stays(c, "range") /\ work[c].step = "inserting"
         \/ /\ work'[c].step = "upserting" /\ work[c] = Chain!Idle
            /\ Stays(c, "item") /\ Stays(c, "saw") /\ Stays(c, "wrote") /\ Stays(c, "old")
            /\ \E i : /\ work'[c].items = {i} /\ DOMAIN i = {"key", "value", "status"}
                      /\ i.status \in {"proposed", "confirmed"}
  <2>1. Chain!Idle.step = "idle"
    BY DEF Chain!Idle
  <2> QED
    BY <2>1, CallMoves DEF Chain!CallStep
<1>3. \A b : Settled(b) => Settled(b)'
  BY <1>1, <1>2, ActorSettled DEF Shaped
<1>4. Writing(c)' => Items(c)' /\ Supersedes(c)'
  <2>1. CASE work'[c].step \in {"extracted", "inserting"}
    BY <2>1 DEF Writing
  <2>2. CASE Chain!Outcome(c, "done")
    BY <1>1, <2>2, OutcomeFields DEF Writing
  <2>3. CASE work'[c].step = "written" /\ Stays(c, "range") /\ work[c].step = "inserting"
    <3>1. work'[c].range # <<>>
      BY <2>3 DEF AtWork, Stays
    <3> QED
      BY <1>1, <2>3, <3>1 DEF Writing, Chain!Purpose
  <2>4. ASSUME NEW i, work'[c].step = "upserting", work[c] = Chain!Idle,
               Stays(c, "item"), Stays(c, "saw"), Stays(c, "wrote"), Stays(c, "old"),
               work'[c].items = {i}, DOMAIN i = {"key", "value", "status"},
               i.status \in {"proposed", "confirmed"}
        PROVE  Items(c)' /\ Supersedes(c)'
    <3>1. work'[c].item = {} /\ work'[c].saw = {} /\ work'[c].wrote = {} /\ work'[c].old = {}
      BY <2>4 DEF Stays, Chain!Idle
    <3> QED
      BY <2>4, <3>1 DEF Items, Supersedes
  <2> QED
    BY <1>2, <2>1, <2>2, <2>3, <2>4
<1> QED
  BY <1>1, <1>2, <1>3, <1>4, FactsKept DEF Shaped

LEMMA FindFacts ==
  ASSUME FactsInv, AtWork, NEW a \in Chain!Actors, Chain!FindFact(a)
  PROVE  FactsInv'
<1>1. work[a].step = "upserting" /\ Shaped(a) /\ facts' = facts /\ jobs' = jobs
  BY FindFactMoves
<1>2. Items(a) /\ Supersedes(a) /\ work[a].saw = {}
  BY <1>1 DEF FactsInv, Writing, Supersedes
<1>3. CASE Chain!Outcome(a, "permanent")
  <2>1. ~Writing(a)' /\ work'[a].job = work[a].job
    BY <1>3, OutcomeFields DEF Writing
  <2>2. \A b : Settled(b) => Settled(b)'
    BY <1>1, <2>1, ActorSettled DEF Shaped
  <2> QED
    BY <1>1, <2>1, <2>2, FactsKept DEF Shaped
<1>4. CASE ~Chain!Outcome(a, "permanent")
  <2>1. PICK i \in work[a].items :
          /\ work'[a].items = work[a].items \ {i}
          /\ work'[a].job = work[a].job /\ work'[a].wrote = work[a].wrote
          /\ work'[a].old = work[a].old
          /\ \/ /\ work'[a].step \in {"written", "upserting"}
                /\ work'[a].item = work[a].item /\ work'[a].saw = work[a].saw
             \/ work'[a].step = "upsert" /\ work'[a].item = {i} /\ work'[a].saw = work[a].saw
             \/ /\ work'[a].step = "upsert" /\ work'[a].item = {i}
                /\ \E f \in Chain!Active(i.key) : work'[a].saw = {f} /\ ~Chain!Keeps(f, i)
    BY <1>4, FindFactMoves DEF Stays
  <2>2. \A b : Settled(b) => Settled(b)'
    BY <1>1, <2>1, ActorSettled DEF Shaped
  <2>3. By(a)' = By(a)
    BY <2>1 DEF By
  <2>4. Items(a)'
    BY <1>2, <2>1, <2>3 DEF Items
  <2>5. \A o \in work'[a].old : \E f \in facts' :
          /\ f.id = o
          /\ f.status = "confirmed" => \E h \in work'[a].wrote : h.key = f.key /\ h.status = "confirmed"
    BY <1>1, <1>2, <2>1 DEF Supersedes
  <2>6. work'[a].step = "upsert" =>
          \A s \in work'[a].saw : s.key = i.key /\ ~Chain!Keeps(s, i) /\ StillThere(s)'
    <3>1. \A f \in Chain!Active(i.key) : f.key = i.key /\ StillThere(f)'
      BY <1>1 DEF Chain!Active, StillThere
    <3> QED
      BY <1>2, <2>1, <3>1
  <2>7. /\ i.status \in {"proposed", "confirmed"}
        /\ \A j \in work'[a].items : j.status \in {"proposed", "confirmed"}
        /\ work'[a].step = "upserting" => work'[a].saw = {}
        /\ work'[a].step = "upsert" => work'[a].item = {i}
    BY <1>2, <2>1 DEF Supersedes
  <2>8. Supersedes(a)'
    BY <2>5, <2>6, <2>7 DEF Supersedes, Chain!Keeps
  <2> QED
    BY <1>1, <2>2, <2>4, <2>8, FactsKept DEF Shaped
<1> QED
  BY <1>3, <1>4

LEMMA WriteFacts ==
  ASSUME FactsInv, AtWork, NEW a \in Chain!Actors, Chain!WriteFact(a)
  PROVE  FactsInv'
<1>1. /\ work[a].step = "upsert" /\ Shaped(a) /\ facts' = facts /\ jobs' = jobs
      /\ work'[a].step \in {"written", "upserting"}
      /\ work'[a].job = work[a].job /\ work'[a].items = work[a].items
      /\ work'[a].item = {} /\ work'[a].saw = {}
      /\ work'[a].old = work[a].old \cup {f.id : f \in work[a].saw}
  BY WriteFactMoves DEF Stays
<1>2. PICK i \in work[a].item :
        work'[a].wrote = work[a].wrote \cup {Chain!With(i, [id |-> <<By(a), i.key>>])}
  BY WriteFactMoves
<1>3. /\ Items(a) /\ Supersedes(a) /\ By(a)' = By(a)
      /\ DOMAIN i = {"key", "value", "status"}
  BY <1>1 DEF FactsInv, Writing, Items, By
<1> DEFINE h == Chain!With(i, [id |-> <<By(a), i.key>>])
<1>4. /\ DOMAIN h = FactFields /\ h.id = <<By(a), i.key>> /\ h.key = i.key /\ h.status = i.status
  BY <1>3 DEF Chain!With, FactFields
<1>5. work'[a].wrote = work[a].wrote \cup {h}
  BY <1>2
<1> HIDE DEF h
<1>6. Items(a)'
  BY <1>1, <1>3, <1>4, <1>5 DEF Items
<1>7. /\ i.status \in {"proposed", "confirmed"}
      /\ \A s \in work[a].saw : s.key = i.key /\ ~Chain!Keeps(s, i) /\ StillThere(s)
  BY <1>1, <1>3 DEF Supersedes
<1>8. \A s \in work[a].saw : \E f \in facts' :
        f.id = s.id /\ f.key = i.key /\ (f.status = "confirmed" => h.status = "confirmed")
  BY <1>1, <1>4, <1>7 DEF Chain!Keeps, StillThere
<1>9. \A o \in work'[a].old : \E f \in facts' :
        /\ f.id = o
        /\ f.status = "confirmed" => \E g \in work'[a].wrote : g.key = f.key /\ g.status = "confirmed"
  <2>1. \A o \in work[a].old : \E f \in facts :
        /\ f.id = o
        /\ f.status = "confirmed" => \E g \in work[a].wrote : g.key = f.key /\ g.status = "confirmed"
    BY <1>3 DEF Supersedes
  <2> QED
    BY <1>1, <1>4, <1>5, <1>8, <2>1
<1>10. Supersedes(a)'
  BY <1>1, <1>3, <1>9 DEF Supersedes
<1>11. \A b : Settled(b) => Settled(b)'
  BY <1>1, ActorSettled DEF Shaped
<1> QED
  BY <1>1, <1>6, <1>10, <1>11, FactsKept DEF Shaped

LEMMA RestFacts ==
  ASSUME FactsInv, AtWork, JobRows, NEW w \in Workers, Chain!Finalize(w) \/ Chain!Crash(w)
  PROVE  FactsInv'
<1>1. w \in Chain!Actors /\ Chain!Idle.step = "idle"
  BY DEF Chain!Actors, Chain!Idle
<1>2. OthersAtWork(w) /\ work'[w] = Chain!Idle /\ facts' = facts
  <2>1. CASE Chain!Finalize(w)
    BY <2>1, FinalizeMoves
  <2>2. CASE Chain!Crash(w)
    BY <1>1, <2>2 DEF Chain!Crash, Chain!tables, AtWork, OthersAtWork
  <2> QED
    BY <2>1, <2>2
<1>3. \A b : Settled(b) => Settled(b)'
  BY RestSettled
<1>4. ~Writing(w)'
  BY <1>1, <1>2 DEF Writing
<1> QED
  BY <1>1, <1>2, <1>3, <1>4, FactsKept

LEMMA EventFacts ==
  ASSUME FactsInv, JobRows,
         \/ Chain!Message \/ Chain!SessionCompleted
         \/ \E e \in extractions : Chain!ExtractionCommitted(e.id)
  PROVE  FactsInv'
<1>1. /\ UNCHANGED <<facts, work>> /\ DOMAIN jobs \subseteq DOMAIN jobs'
      /\ \A k \in DOMAIN jobs : jobs'[k] = jobs[k]
  BY EventMoves
<1>2. \A b : Settled(b) => Settled(b)'
  BY <1>1 DEF Settled
<1>3. FactRows'
  BY <1>1, <1>2 DEF FactsInv, FactRows
<1>4. ASSUME NEW a \in Chain!Actors, Writing(a)' PROVE Items(a)' /\ Supersedes(a)'
  <2>1. Writing(a) /\ By(a)' = By(a)
    BY <1>1, <1>4 DEF Writing, Chain!Purpose, By
  <2>2. Items(a)'
    BY <1>1, <2>1 DEF FactsInv, Items
  <2>3. Supersedes(a)'
    BY <1>1, <2>1 DEF FactsInv, Supersedes, StillThere
  <2> QED
    BY <2>2, <2>3
<1> QED
  BY <1>3, <1>4 DEF FactsInv

\* What the commit of a writer leaves of a row, and adds
Left(a, f) == IF f.id \in work[a].old THEN [f EXCEPT !.status = "superseded"] ELSE f

LEMMA CommitMoves ==
  ASSUME FactsInv, AtWork, JobRows, Analyses, NEW a \in Chain!Actors, Chain!Commit(a), Writing(a)
  PROVE  /\ facts' = {Left(a, f) : f \in facts} \cup work[a].wrote
         /\ \A f \in facts : /\ DOMAIN Left(a, f) = FactFields
                             /\ Left(a, f).id = f.id /\ Left(a, f).key = f.key
                             /\ Left(a, f).status = f.status \/ Left(a, f).status = "superseded"
                             /\ f.id \notin work[a].old => Left(a, f) = f
         /\ \A f \in facts, h \in work[a].wrote : f.id # h.id
         /\ Items(a) /\ Supersedes(a) /\ \A b : Settled(b) \/ b = By(a) => Settled(b)'
<1>1. /\ work[a].step = "written" /\ Chain!Purpose(a) = "facts" /\ Items(a) /\ Supersedes(a)
      /\ Shaped(a) /\ jobs' = jobs /\ Chain!Outcome(a, "succeeded")
  BY Outcomes DEF Chain!Commit, Chain!At, Writing, FactsInv
<1>2. facts' = {Left(a, f) : f \in facts} \cup work[a].wrote
  BY <1>1 DEF Chain!Commit, Left
<1>3. \A f \in facts : /\ DOMAIN Left(a, f) = FactFields
                       /\ Left(a, f).id = f.id /\ Left(a, f).key = f.key
                       /\ Left(a, f).status = f.status \/ Left(a, f).status = "superseded"
                       /\ f.id \notin work[a].old => Left(a, f) = f
  BY DEF Left, FactsInv, FactRows, FactFields
<1>4. ASSUME NEW f \in facts, NEW h \in work[a].wrote PROVE f.id # h.id
  <2>1. h.id = <<By(a), h.key>> /\ f.id = <<f.id[1], f.key>> /\ Settled(f.id[1])
    BY <1>1 DEF Items, FactsInv, FactRows
  <2>2. ~Settled(By(a))
    BY WriterUnsettled
  <2> QED
    BY <2>1, <2>2
<1>5. \A b : b = By(a) => Settled(b)'
  <2>1. /\ work'[a].step = IF a \in Workers THEN "succeeded" ELSE "done"
        /\ work'[a].job = work[a].job
    BY <1>1, OutcomeFields
  <2>2. CASE a \in Workers
    <3>1. /\ By(a) = work[a].job /\ work[a].job \in DOMAIN jobs
          /\ jobs[work[a].job].state = "running" /\ work[a].job.purpose = "facts"
          /\ \A v \in Workers \ {a} : work[v].step # "idle" => work[v].job # work[a].job
      BY <1>1, <2>1, <2>2 DEF By, AtWork, Running, Chain!Purpose
    <3>2. \A v \in Workers \ {a} : work'[v] = work[v]
      BY <1>1 DEF Shaped, OthersAtWork, Chain!Actors
    <3> QED
      BY <1>1, <2>1, <2>2, <3>1, <3>2 DEF Settled
  <2>3. CASE a \notin Workers
    BY <2>1, <2>3 DEF By, Settled, Chain!Actors
  <2> QED
    BY <2>2, <2>3
<1>6. \A b : Settled(b) => Settled(b)'
  <2>1. work'[a].job = work[a].job
    BY <1>1, OutcomeFields
  <2> QED
    BY <1>1, <2>1, ActorSettled DEF Shaped
<1> QED
  BY <1>1, <1>2, <1>3, <1>4, <1>5, <1>6

LEMMA CommitFacts ==
  ASSUME FactsInv, AtWork, JobRows, Analyses, NEW a \in Chain!Actors,
         Chain!Commit(a) \/ Chain!Abort(a)
  PROVE  FactsInv'
<1>1. /\ Shaped(a) /\ jobs' = jobs /\ work'[a].job = work[a].job
      /\ work'[a].step \in {"succeeded", "permanent", "done"} /\ ~Writing(a)'
      /\ work[a].step \in {"extracted", "inserting", "upserting", "upsert", "written"}
  <2>1. work'[a].step \in {"succeeded", "permanent", "done"}
    BY Outcomes, OutcomeFields
  <2> QED
    BY <2>1, Outcomes, OutcomeFields DEF Writing
<1>2. CASE facts' = facts
  <2>1. \A b : Settled(b) => Settled(b)'
    BY <1>1, ActorSettled DEF Shaped
  <2> QED
    BY <1>1, <1>2, <2>1, FactsKept DEF Shaped
<1>3. CASE facts' # facts
  <2>1. Chain!Commit(a) /\ Writing(a)
    BY <1>3 DEF Chain!Commit, Chain!Abort, Chain!tables, Writing, Chain!At
  <2>2. /\ facts' = {Left(a, f) : f \in facts} \cup work[a].wrote
        /\ \A f \in facts : /\ DOMAIN Left(a, f) = FactFields
                            /\ Left(a, f).id = f.id /\ Left(a, f).key = f.key
                            /\ Left(a, f).status = f.status \/ Left(a, f).status = "superseded"
        /\ \A f \in facts, h \in work[a].wrote : f.id # h.id
        /\ Items(a) /\ \A b : Settled(b) \/ b = By(a) => Settled(b)'
    BY <2>1, CommitMoves
  <2>3. ASSUME NEW g \in facts'
        PROVE  DOMAIN g = FactFields /\ g.id = <<g.id[1], g.key>> /\ Settled(g.id[1])'
    <3>1. CASE g \in work[a].wrote
      <4>1. DOMAIN g = FactFields /\ g.id = <<By(a), g.key>> /\ g.id[1] = By(a)
        BY <2>2, <3>1 DEF Items
      <4> QED
        BY <2>2, <4>1
    <3>2. ASSUME NEW f \in facts, g = Left(a, f)
          PROVE  DOMAIN g = FactFields /\ g.id = <<g.id[1], g.key>> /\ Settled(g.id[1])'
      BY <2>2, <3>2 DEF FactsInv, FactRows
    <3> QED
      BY <2>2, <3>1, <3>2
  <2>4. \A f, g \in facts' : f.id = g.id => f = g
    <3>1. \A f, g \in facts : Left(a, f).id = Left(a, g).id => f = g
      BY <2>2 DEF FactsInv, FactRows
    <3>2. \A f \in facts, h \in work[a].wrote : Left(a, f).id # h.id
      BY <2>2
    <3>3. \A f, g \in work[a].wrote : f.id = g.id => f = g
      BY <2>2 DEF Items
    <3> QED
      BY <2>2, <3>1, <3>2, <3>3
  <2>5. FactRows'
    BY <2>3, <2>4 DEF FactRows
  <2>6. ASSUME NEW d \in Chain!Actors, Writing(d)' PROVE Items(d)' /\ Supersedes(d)'
    <3>1. d # a /\ work'[d] = work[d]
      BY <1>1, <2>6 DEF Shaped, OthersAtWork
    <3>2. Writing(d) /\ By(d)' = By(d)
      BY <2>6, <3>1 DEF Writing, Chain!Purpose, By
    <3>3. Items(d) /\ Supersedes(d)
      BY <3>2 DEF FactsInv
    <3>4. Items(d)'
      BY <3>1, <3>2, <3>3 DEF Items
    <3>5. \A f \in facts : \E g \in facts' :
            g.id = f.id /\ g.key = f.key /\ (g.status = "confirmed" => f.status = "confirmed")
      BY <2>2
    <3>6. \A s : StillThere(s) => StillThere(s)'
      BY <3>5 DEF StillThere
    <3>7. \A o \in work[d].old : \E g \in facts' :
            /\ g.id = o
            /\ g.status = "confirmed" => \E h \in work[d].wrote : h.key = g.key /\ h.status = "confirmed"
      BY <3>3, <3>5 DEF Supersedes
    <3>8. Supersedes(d)'
      BY <3>1, <3>3, <3>6, <3>7 DEF Supersedes, Chain!Keeps
    <3> QED
      BY <3>4, <3>8
  <2> QED
    BY <2>5, <2>6 DEF FactsInv
<1> QED
  BY <1>2, <1>3

-----------------------------------------------------------------------------
LearntInv == AtWork /\ JobRows /\ Analyses /\ FactsInv

LEMMA LearntInit == Chain!Init => LearntInv
<1> SUFFICES ASSUME Chain!Init PROVE LearntInv
  OBVIOUS
<1>1. /\ work = [a \in Chain!Actors |-> Chain!Idle] /\ DOMAIN jobs = {}
      /\ extractions = {} /\ facts = {} /\ assessments = {}
  BY DEF Chain!Init
<1>2. Chain!Idle.step = "idle" /\ DOMAIN Chain!Idle = WorkFields
  BY DEF Chain!Idle, WorkFields
<1> HIDE DEF Chain!Idle
<1>3. \A a \in Chain!Actors : work[a] = Chain!Idle
  BY <1>1
<1>4. AtWork /\ JobRows
  BY <1>1, <1>2, <1>3 DEF AtWork, JobRows, Chain!Actors
<1>5. Analyses
  BY <1>1, <1>2, <1>3 DEF Analyses, Extracting, Analysing, Chain!Actors
<1>6. FactsInv
  BY <1>1, <1>2, <1>3 DEF FactsInv, FactRows, Writing
<1> QED
  BY <1>4, <1>5, <1>6 DEF LearntInv

LEMMA LearntNext == LearntInv /\ Chain!Next => LearntInv'
<1> SUFFICES ASSUME LearntInv, Chain!Next PROVE LearntInv'
  OBVIOUS
<1> USE DEF LearntInv
<1>1. AtWork' /\ JobRows'
  BY BaseStep
<1>2. CASE \/ Chain!Message \/ Chain!SessionCompleted
           \/ \E e \in extractions : Chain!ExtractionCommitted(e.id)
  <2>1. FactsInv'
    BY <1>2, EventFacts
  <2>2. /\ UNCHANGED <<accepted, extractions, assessments, work>>
        /\ \A k \in DOMAIN jobs' : jobs'[k].state = "succeeded" =>
             k \in DOMAIN jobs /\ jobs[k].state = "succeeded"
    BY <1>2, EventMoves
  <2>3. Analyses'
    BY <2>2 DEF Analyses, Extracting, Analysing, HasResult, AssessmentOf
  <2> QED
    BY <1>1, <2>1, <2>3
<1>3. ASSUME NEW w \in Workers, Chain!WorkerStep(w) PROVE LearntInv'
  BY <1>1, <1>3, ClaimAnalyses, ClaimFacts, RestAnalyses, RestFacts DEF Chain!WorkerStep
<1>4. ASSUME NEW c \in Calls, Chain!CallStep(c) PROVE LearntInv'
  BY <1>1, <1>4, CallAnalyses, CallFacts
<1>5. ASSUME NEW a \in Chain!Actors, Chain!ActorStep(a) PROVE LearntInv'
  <2>1. Chain!FindFact(a) \/ Chain!WriteFact(a) => Analyses' /\ FactsInv'
    BY FactAnalyses, FindFacts, WriteFacts
  <2>2. Chain!Commit(a) \/ Chain!Abort(a) => Analyses' /\ FactsInv'
    BY CommitAnalyses, AbortAnalyses, CommitFacts
  <2> QED
    BY <1>1, <1>5, <2>1, <2>2 DEF Chain!ActorStep
<1> QED
  BY <1>2, <1>3, <1>4, <1>5 DEF Chain!Next

LEMMA LearntStep == LearntInv /\ [MCNext]_<<vars, chainVars, embedVars>> => LearntInv'
<1> SUFFICES ASSUME LearntInv, [MCNext]_<<vars, chainVars, embedVars>> PROVE LearntInv'
  OBVIOUS
<1>1. CASE UNCHANGED chainVars
  <2>1. UNCHANGED <<ended, last, jobs, accepted, extractions, facts, assessments, work>>
    BY <1>1 DEF chainVars
  <2>2. AtWork' /\ JobRows'
    BY <2>1 DEF LearntInv, AtWork, JobRows, Running
  <2>3. Analyses'
    BY <2>1 DEF LearntInv, Analyses, Extracting, Analysing, HasResult, AssessmentOf
  <2>4. \A a \in Chain!Actors : Writing(a)' = Writing(a) /\ By(a)' = By(a)
    BY <2>1 DEF Writing, Chain!Purpose, By
  <2>5. FactRows'
    BY <2>1 DEF LearntInv, FactsInv, FactRows, Settled
  <2>6. \A a \in Chain!Actors : (Items(a) => Items(a)') /\ (Supersedes(a) => Supersedes(a)')
    BY <2>1, <2>4 DEF Items, Supersedes, StillThere
  <2>7. FactsInv'
    BY <2>4, <2>5, <2>6 DEF LearntInv, FactsInv
  <2> QED
    BY <2>2, <2>3, <2>7 DEF LearntInv
<1>2. CASE Chain!Next
  BY <1>2, LearntNext
<1> QED
  BY <1>1, <1>2 DEF MCNext

LEMMA LearntHolds == MCSpec => []LearntInv
<1>1. MCInit => LearntInv
  BY LearntInit DEF MCInit
<1> QED
  BY <1>1, LearntStep, PTL DEF MCSpec

\* An extraction and an assessment are of a range of their own, however often the
\* vendor runs a flow again whose answer was lost.
THEOREM StretchesAnalysedOnce == MCSpec => []AnalysedOnce
<1>1. LearntInv => AnalysedOnce
  <2> SUFFICES ASSUME LearntInv PROVE AnalysedOnce
    OBVIOUS
  <2>1. \A e, f \in extractions : e.range = f.range => e = f
    BY DEF LearntInv, Analyses
  <2>2. ASSUME NEW s \in assessments, NEW t \in assessments, s.range = t.range PROVE s = t
    <3>1. PICK e \in extractions : s = [of |-> e.id, range |-> e.range]
      BY DEF LearntInv, Analyses, AssessmentOf
    <3>2. PICK f \in extractions : t = [of |-> f.id, range |-> f.range]
      BY DEF LearntInv, Analyses, AssessmentOf
    <3>3. s.range = e.range /\ t.range = f.range
      BY <3>1, <3>2
    <3> QED
      BY <2>1, <2>2, <3>1, <3>2, <3>3
  <2>3. \A k \in DOMAIN jobs : k.purpose # "ingest" => \E e \in extractions : e.id = k.of
    BY DEF LearntInv, JobRows
  <2> QED
    BY <2>1, <2>2, <2>3 DEF AnalysedOnce, Chain!AnalysedOnce
<1> QED
  BY <1>1, LearntHolds, PTL

\* What a job that succeeded was for is there: its flow is with the vendor, or its
\* assessment is stored.
THEOREM ResultsStored == MCSpec => []SucceededStored
<1>1. LearntInv => SucceededStored
  BY DEF LearntInv, JobRows, Analyses, HasResult, SucceededStored, Chain!SucceededStored
<1> QED
  BY <1>1, LearntHolds, PTL

\* A confirmed fact gives way to a confirmed one only, though every writer decides
\* on a row that it has read without a lock.
THEOREM ConfirmedFactsStand == MCSpec => ConfirmedStands
<1> DEFINE Stands == \A f \in facts, g \in facts' :
      (f.id = g.id /\ f.status = "confirmed" /\ g.status # "confirmed") =>
        \E h \in facts' \ facts : h.key = f.key /\ h.status = "confirmed"
<1>1. LearntInv /\ Chain!Next => Stands
  <2> SUFFICES ASSUME LearntInv, Chain!Next, NEW f \in facts, NEW g \in facts',
                      f.id = g.id, f.status = "confirmed", g.status # "confirmed"
               PROVE  \E h \in facts' \ facts : h.key = f.key /\ h.status = "confirmed"
    OBVIOUS
  <2>1. facts' # facts
    BY DEF LearntInv, FactsInv, FactRows
  <2>2. PICK a \in Chain!Actors : Chain!Commit(a)
    <3>1. \A w \in Workers, k \in DOMAIN jobs :
            Chain!VendorFails(w, k) \/ Chain!Dispatch(w, k) => facts' = facts
      BY DEF Chain!VendorFails, Chain!Dispatch, Chain!Extract, Chain!tables
    <3>2. \A w \in Workers, k \in DOMAIN jobs :
            Chain!Analyse(w, k) \/ Chain!Assess(w, k) => facts' = facts
      BY DEF Chain!Analyse, Chain!Assess, Chain!tables
    <3>3. \A w \in Workers : Chain!WorkerStep(w) => facts' = facts
      BY <3>1, <3>2 DEF Chain!WorkerStep, Chain!Finalize, Chain!Crash, Chain!tables
    <3>4. \A c \in Calls : Chain!CallStep(c) => facts' = facts
      BY DEF Chain!CallStep, Chain!CallPersist, Chain!CallUpsert, Chain!FindExtraction,
             Chain!InsertExtraction, Chain!tables
    <3>5. \A a \in Chain!Actors :
            Chain!FindFact(a) \/ Chain!WriteFact(a) \/ Chain!Abort(a) => facts' = facts
      BY DEF Chain!FindFact, Chain!WriteFact, Chain!Abort, Chain!tables
    <3>6. \/ Chain!Message \/ Chain!SessionCompleted
          \/ \E e \in extractions : Chain!ExtractionCommitted(e.id)
          => facts' = facts
      BY DEF Chain!Message, Chain!SessionCompleted, Chain!ExtractionCommitted, Chain!tables
    <3> QED
      BY <2>1, <3>3, <3>4, <3>5, <3>6 DEF Chain!Next, Chain!ActorStep
  <2>3. Writing(a)
    BY <2>1, <2>2 DEF Chain!Commit, Writing, Chain!At
  <2>4. /\ facts' = {Left(a, x) : x \in facts} \cup work[a].wrote
        /\ \A x \in facts : Left(a, x).id = x.id /\ (x.id \notin work[a].old => Left(a, x) = x)
        /\ \A x \in facts, h \in work[a].wrote : x.id # h.id
        /\ Supersedes(a)
    BY <2>2, <2>3, CommitMoves DEF LearntInv
  <2>5. g = Left(a, f)
    BY <2>4 DEF LearntInv, FactsInv, FactRows
  <2>6. f.id \in work[a].old
    BY <2>4, <2>5
  <2>7. PICK h \in work[a].wrote : h.key = f.key /\ h.status = "confirmed"
    BY <2>4, <2>6 DEF Supersedes, LearntInv, FactsInv, FactRows
  <2> QED
    BY <2>4, <2>7
<1>2. LearntInv /\ UNCHANGED chainVars => UNCHANGED Chain!vars
  BY DEF chainVars, Chain!vars, Chain!tables
<1>3. LearntInv /\ [MCNext]_<<vars, chainVars, embedVars>> => [Stands]_(Chain!vars)
  BY <1>1, <1>2 DEF MCNext
<1> QED
  BY <1>3, LearntHolds, PTL DEF MCSpec, ConfirmedStands, Chain!ConfirmedStands

-----------------------------------------------------------------------------
(* The ranges of a session *)

LEMMA Remainder ==
  ASSUME NEW x \in Nat, NEW n \in Nat \ {0}
  PROVE  x % n \in 0 .. (n - 1) /\ x = (n * (x \div n)) + (x % n) /\ x \div n \in Nat
BY SMT

\* Two multiples are a block apart
LEMMA BlocksApart ==
  ASSUME NEW n \in Nat \ {0}, NEW a \in Nat, NEW b \in Nat, a % n = 0, b % n = 0, a < b
  PROVE  a + n <= b
<1> DEFINE p == a \div n  q == b \div n
<1>1. a = n * p /\ b = n * q /\ p \in Nat /\ q \in Nat
  BY Remainder
<1> HIDE DEF p, q
<1>2. p + 1 <= q
  BY <1>1
<1>3. n * (p + 1) <= n * q
  BY <1>1, <1>2
<1> QED
  BY <1>1, <1>3

\* The block of a number begins at a multiple
LEMMA BlockBegins ==
  ASSUME NEW x \in Nat, NEW n \in Nat \ {0}
  PROVE  (x - (x % n)) % n = 0 /\ x - (x % n) \in Nat
<1> DEFINE q == x \div n  y == n * q  p == y \div n  r == y % n
<1>1. y = x - (x % n) /\ q \in Nat /\ y \in Nat
  BY Remainder
<1>2. n * q = (n * p) + r /\ p \in Nat /\ r \in 0 .. (n - 1)
  BY <1>1, Remainder
<1> SUFFICES r = 0
  BY <1>1
<1> HIDE DEF q, p, r
<1>3. p < q => n * (p + 1) <= n * q
  BY <1>1, <1>2
<1>4. q < p => n * (q + 1) <= n * p
  BY <1>1, <1>2
<1>5. p = q
  BY <1>1, <1>2, <1>3, <1>4
<1> QED
  BY <1>2, <1>5

RangeOf(n, r) ==
  /\ r[1] \in 1..n /\ (r[1] - 1) % RangeSize = 0
  /\ r[2] = IF r[1] + RangeSize - 1 < n THEN r[1] + RangeSize - 1 ELSE n

\* Each range is of some delivery, and those of one delivery at least are all there
RangesInv ==
  /\ ended \in 1..Last /\ last \in ended..Last
  /\ \A r \in Chain!IngestRanges : \E n \in ended..last : RangeOf(n, r)
  /\ Chain!IngestRanges # {} => \E n \in ended..last : Chain!Ranges(n) \subseteq Chain!IngestRanges

LEMMA RangesNext == RangesInv /\ JobRows /\ AtWork /\ Chain!Next => RangesInv'
<1> SUFFICES ASSUME RangesInv, JobRows, AtWork, Chain!Next PROVE RangesInv'
  OBVIOUS
<1>1. CASE Chain!Message
  <2>1. UNCHANGED <<ended, jobs>> /\ last' = last + 1 /\ last < Last
    BY <1>1 DEF Chain!Message
  <2>2. Chain!IngestRanges' = Chain!IngestRanges /\ \A n : Chain!Ranges(n)' = Chain!Ranges(n)
    BY <2>1 DEF Chain!IngestRanges, Chain!Ranges
  <2>3. last' \in ended'..Last /\ \A n \in ended..last : n \in ended'..last'
    BY <2>1, KnowledgeConstants DEF RangesInv
  <2> QED
    BY <2>1, <2>2, <2>3 DEF RangesInv, RangeOf
<1>2. CASE Chain!SessionCompleted
  <2> DEFINE new == {[purpose |-> "ingest", of |-> r] : r \in Chain!Ranges(last)}
  <2>1. Chain!NewJobs(new) /\ UNCHANGED <<ended, last>>
    BY <1>2 DEF Chain!SessionCompleted, Chain!tables
  <2>2. /\ \A k \in new : k.purpose = "ingest" /\ k.of \in Chain!Ranges(last)
        /\ \A r \in Chain!Ranges(last) : \E k \in new : k.of = r
    <3> DEFINE key(r) == [purpose |-> "ingest", of |-> r]
    <3>1. \A r : key(r).purpose = "ingest" /\ key(r).of = r
      OBVIOUS
    <3>2. new = {key(r) : r \in Chain!Ranges(last)}
      OBVIOUS
    <3> HIDE DEF key, new
    <3> QED
      BY <3>1, <3>2
  <2> HIDE DEF new
  <2>3. DOMAIN jobs' = DOMAIN jobs \cup new
    BY <2>1, NewJobsMoves
  <2>4. Chain!IngestRanges' = Chain!IngestRanges \cup Chain!Ranges(last)
    BY <2>2, <2>3 DEF Chain!IngestRanges
  <2>5. last \in ended..last /\ \A r \in Chain!Ranges(last) : RangeOf(last, r)
    BY KnowledgeConstants DEF RangesInv, Chain!Ranges, RangeOf
  <2>6. \A n : Chain!Ranges(n)' = Chain!Ranges(n)
    BY DEF Chain!Ranges
  <2> QED
    BY <2>1, <2>4, <2>5, <2>6 DEF RangesInv, RangeOf
<1>3. ASSUME UNCHANGED <<ended, last>>, Chain!IngestRanges' = Chain!IngestRanges PROVE RangesInv'
  BY <1>3 DEF RangesInv, RangeOf, Chain!Ranges
<1>4. ASSUME NEW e \in extractions, Chain!ExtractionCommitted(e.id) PROVE RangesInv'
  <2> DEFINE new == {[purpose |-> p, of |-> e.id] : p \in {"facts", "assess"}}
  <2>1. Chain!NewJobs(new) /\ UNCHANGED <<ended, last>>
    BY <1>4 DEF Chain!ExtractionCommitted, Chain!tables
  <2>2. \A k \in new : k.purpose # "ingest"
    OBVIOUS
  <2> HIDE DEF new
  <2>3. Chain!IngestRanges' = Chain!IngestRanges
    BY <2>1, <2>2, NewJobsMoves DEF Chain!IngestRanges
  <2> QED
    BY <1>3, <2>1, <2>3
<1>5. ASSUME DOMAIN jobs' = DOMAIN jobs PROVE Chain!IngestRanges' = Chain!IngestRanges
  BY <1>5 DEF Chain!IngestRanges
<1>6. ASSUME NEW w \in Workers, Chain!WorkerStep(w) PROVE RangesInv'
  <2>1. ASSUME NEW k \in DOMAIN jobs, Chain!VendorFails(w, k) \/ Chain!Dispatch(w, k)
        PROVE  UNCHANGED <<ended, last>> /\ \E p : Chain!Begin(w, k, p)
    BY <2>1 DEF Chain!VendorFails, Chain!Dispatch, Chain!Extract, Chain!tables
  <2>2. ASSUME NEW k \in DOMAIN jobs, Chain!Analyse(w, k) \/ Chain!Assess(w, k)
        PROVE  UNCHANGED <<ended, last>> /\ \E p : Chain!Begin(w, k, p)
    BY <2>2 DEF Chain!Analyse, Chain!Assess, Chain!tables
  <2>3. ASSUME NEW k \in DOMAIN jobs, NEW p, Chain!Begin(w, k, p) PROVE DOMAIN jobs' = DOMAIN jobs
    BY <2>3, ClaimMoves
  <2>4. CASE Chain!Finalize(w) \/ Chain!Crash(w)
    <3>1. UNCHANGED <<ended, last>> /\ DOMAIN jobs' = DOMAIN jobs
      BY <2>4, FinalizeMoves DEF Chain!Crash, Chain!tables
    <3> QED
      BY <1>3, <1>5, <3>1
  <2> QED
    BY <1>3, <1>5, <1>6, <2>1, <2>2, <2>3, <2>4 DEF Chain!WorkerStep
<1>7. ASSUME NEW c \in Calls, Chain!CallStep(c) PROVE RangesInv'
  BY <1>3, <1>5, <1>7, CallMoves DEF Chain!CallStep
<1>8. ASSUME NEW a \in Chain!Actors, Chain!ActorStep(a) PROVE RangesInv'
  BY <1>3, <1>5, <1>8, FindFactMoves, WriteFactMoves, Outcomes DEF Chain!ActorStep
<1> QED
  BY <1>1, <1>2, <1>4, <1>6, <1>7, <1>8 DEF Chain!Next

LEMMA TilesInv == RangesInv => RangesTile
<1> SUFFICES ASSUME RangesInv, Chain!IngestRanges # {}
             PROVE  /\ 1..ended \subseteq UNION {r[1]..r[2] : r \in Chain!IngestRanges}
                    /\ \A r, s \in Chain!IngestRanges : r[1] < s[1] => r[2] < s[1]
  BY DEF RangesTile, Chain!RangesTile
<1>1. ASSUME NEW x \in 1..ended PROVE \E r \in Chain!IngestRanges : x \in r[1]..r[2]
  <2>1. PICK n \in ended..last : Chain!Ranges(n) \subseteq Chain!IngestRanges
    BY DEF RangesInv
  <2> DEFINE over == (x - 1) % RangeSize
             start == (x - 1) - over
             i == start + 1
             r == <<i, IF i + RangeSize - 1 < n THEN i + RangeSize - 1 ELSE n>>
  <2>2. x - 1 \in Nat /\ n \in Nat /\ x <= n
    BY <2>1, KnowledgeConstants DEF RangesInv
  <2>3. over \in 0 .. (RangeSize - 1) /\ start % RangeSize = 0 /\ start \in Nat
    BY <2>2, KnowledgeConstants, Remainder, BlockBegins
  <2> HIDE DEF over
  <2>4. i \in 1..n /\ i - 1 = start /\ i <= x /\ x <= i + RangeSize - 1
    BY <2>2, <2>3, KnowledgeConstants
  <2>5. r \in Chain!Ranges(n)
    BY <2>3, <2>4 DEF Chain!Ranges
  <2>6. x \in r[1]..r[2]
    BY <2>2, <2>4, KnowledgeConstants
  <2> QED
    BY <2>1, <2>5, <2>6
<1>2. ASSUME NEW r \in Chain!IngestRanges, NEW s \in Chain!IngestRanges, r[1] < s[1]
      PROVE  r[2] < s[1]
  <2>1. PICK n \in ended..last : RangeOf(n, r)
    BY DEF RangesInv
  <2>2. PICK m \in ended..last : RangeOf(m, s)
    BY DEF RangesInv
  <2>3. /\ r[1] - 1 \in Nat /\ s[1] - 1 \in Nat /\ n \in Nat /\ r[1] \in Nat /\ s[1] \in Nat
        /\ (r[1] - 1) % RangeSize = 0 /\ (s[1] - 1) % RangeSize = 0
    BY <2>1, <2>2, KnowledgeConstants DEF RangesInv, RangeOf
  <2>4. (r[1] - 1) + RangeSize <= s[1] - 1
    BY <1>2, <2>3, BlocksApart, KnowledgeConstants
  <2>5. r[2] <= r[1] + RangeSize - 1
    BY <2>1, <2>3, KnowledgeConstants DEF RangeOf
  <2>6. r[2] \in Nat
    BY <2>1, <2>3, KnowledgeConstants DEF RangeOf
  <2> QED
    BY <2>3, <2>4, <2>5, <2>6, KnowledgeConstants
<1> QED
  BY <1>1, <1>2

\* The ranges leave out no message that was there when the session was completed,
\* and two have a message in common only if they begin at the same one, for ranges
\* of any size and whatever commits between two deliveries.
THEOREM RangesTileSession == MCSpec => []RangesTile
<1>1. MCInit => RangesInv
  BY KnowledgeConstants DEF MCInit, Chain!Init, RangesInv, Chain!IngestRanges
<1>2. RangesInv /\ LearntInv /\ [MCNext]_<<vars, chainVars, embedVars>> => RangesInv'
  <2> SUFFICES ASSUME RangesInv, LearntInv, [MCNext]_<<vars, chainVars, embedVars>> PROVE RangesInv'
    OBVIOUS
  <2>1. CASE UNCHANGED chainVars
    BY <2>1 DEF chainVars, RangesInv, RangeOf, Chain!Ranges, Chain!IngestRanges
  <2>2. CASE Chain!Next
    BY <2>2, RangesNext DEF LearntInv
  <2> QED
    BY <2>1, <2>2 DEF MCNext
<1>3. RangesInv => RangesTile
  BY TilesInv
<1> QED
  BY <1>1, <1>2, <1>3, LearntHolds, PTL DEF MCSpec
=============================================================================
