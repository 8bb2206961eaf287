----------------------------- MODULE ChatTurns -----------------------------
(***************************************************************************)
(* Practice chat: one room and the requests on it, from the routers of     *)
(* /v1/practice (api/routers/practice.py) through ChatService (modules/    *)
(* conversations/chat.py) to ConversationService (services.py).            *)
(*                                                                         *)
(* A request is one READ COMMITTED transaction that ends with the router's *)
(* commit, or is rolled back with whatever it wrote.  A turn answers in    *)
(* one of two ways:                                                        *)
(*                                                                         *)
(*   sync    prepared -> answered -> checked -> written -> replying        *)
(*           -> replied -> (commit) done                                   *)
(*   stream  prepared -> checked -> written -> streaming -> replying       *)
(*           -> replied -> told -> (commit) done                           *)
(*                                                                         *)
(* A message is inserted under UNIQUE (session, sequence) and UNIQUE       *)
(* (session, client_key), and its foreign key share-locks the room's row:  *)
(* the insert waits for a transaction that holds the same key, or the row, *)
(* and meets what that one leaves.  Completing or deleting takes the row   *)
(* FOR UPDATE, so it waits for every transaction that has inserted.        *)
(***************************************************************************)
EXTENDS Integers, FiniteSets, WorkflowStream, RowUpdates

CONSTANTS
  Requests,   \* requests, each made once
  Keys,       \* client_message_id values a client sends and sends again
  MaxFrames   \* bound on the frames of a stream

None == "none"

VARIABLES
  room,      \* conversation_sessions, practice_sessions; "ended" counts the
             \* session_completed events in the outbox
  messages,  \* conversation_messages, the committed rows
  request    \* the requests, with what each has read and written

vars == <<room, messages, request>>

\* "open" is a history: whether the room was active when the turn last looked
NewRequest == [op |-> None, step |-> "idle", stream |-> FALSE, key |-> None,
               seq |-> 0, replay |-> FALSE, open |-> FALSE, wrote |-> {},
               frames |-> <<>>]

Init ==
  /\ room \in [state : {None, "active"}, ended : {0}]
  /\ messages = {}
  /\ request = [q \in Requests |-> NewRequest]

Set(q, fields) == request' = [request EXCEPT ![q] = With(request[q], fields)]
\* The transaction is over; what it has not committed is gone
Finish(q) ==
  Set(q, [step |-> "done", wrote |-> {}, frames |-> <<>>, seq |-> 0, stream |-> FALSE,
          open |-> FALSE])

\* Where a turn goes on from its user's message
AfterUser(q) == IF request[q].stream THEN "streaming" ELSE "written"

At(q, op, step) == request[q].op = op /\ request[q].step = step

-----------------------------------------------------------------------------
(* Inserting a message *)

\* max(sequence) + 1 over what this transaction sees
NextSequence(q) ==
  LET seen == {m.seq : m \in messages \cup request[q].wrote}
  IN  1 + CHOOSE n \in seen \cup {0} : \A k \in seen : k <= n

\* Mutant: the table has no unique constraint on the sequence
SameKeyOnly(m, n) == m.key # None /\ m.key = n.key
Clashes(m, n)     == m.seq = n.seq \/ (m.key # None /\ m.key = n.key)

\* Mutant: a turn also waits for those that have only read the same sequence
WaitsForReaders(q, m) ==
  \E p \in Requests \ {q} :
    \/ \E n \in request[p].wrote : Clashes(m, n)
    \/ request[p].step \in {"checked", "replying"} /\ request[p].seq = m.seq
    \/ request[p].step = "locked"
\* Somebody else holds the key, or the row's lock, until it commits
Waits(q, m) ==
  \E p \in Requests \ {q} :
    \/ \E n \in request[p].wrote : Clashes(m, n)
    \/ request[p].step = "locked" /\ request[q].wrote = {}

\* Inserted as the next step, unless it meets a committed row of the same key
\* (IntegrityError) or the room is gone: no AppError, so a stream just stops
Insert(q, m, next) ==
  /\ ~Waits(q, m)
  /\ IF room.state = "deleted" \/ \E n \in messages : Clashes(m, n)
     THEN Finish(q)
     ELSE Set(q, With(next, [wrote |-> request[q].wrote \cup {m}]))
  /\ UNCHANGED <<room, messages>>

-----------------------------------------------------------------------------
(* A turn *)

\* _prepare_turn: the room must be active
Prepare(q, op, stream, key) ==
  /\ request[q].step = "idle"
  /\ room.state # None
  /\ IF room.state = "active"
     THEN Set(q, [op |-> op, stream |-> stream, key |-> key,
                  step |-> "prepared", open |-> TRUE])
     ELSE Set(q, [op |-> op, stream |-> stream, key |-> key, step |-> "done"])
  /\ UNCHANGED <<room, messages>>

Send(q) == \E key \in Keys \cup {None} : Prepare(q, "send", FALSE, key)
SendStream(q) == \E key \in Keys \cup {None} : Prepare(q, "send", TRUE, key)
Suggest(q) == Prepare(q, "suggest", FALSE, None)

\* An AppError before anything is written: a flow that is not configured,
\* media that is not ready, a provider that cannot be understood
Refuse(q) ==
  /\ request[q].step = "prepared"
  /\ Finish(q)
  /\ UNCHANGED <<room, messages>>

\* Mode sync: the whole result at once, before anything is written
ProviderAnswers(q) ==
  /\ At(q, "send", "prepared") /\ ~request[q].stream
  /\ Set(q, [step |-> "answered"])
  /\ UNCHANGED <<room, messages>>

\* Suggestions are not kept
SuggestionsCome(q) ==
  /\ At(q, "suggest", "prepared")
  /\ Finish(q)
  /\ UNCHANGED <<room, messages>>

\* Mutant: the state is not looked at again before the message is stored
CheckKeyOnly(q) ==
  /\ request[q].op = "send"
  /\ request[q].step = (IF request[q].stream THEN "prepared" ELSE "answered")
  /\ IF \E m \in messages : m.key # None /\ m.key = request[q].key
     THEN Set(q, [step |-> AfterUser(q), replay |-> TRUE])
     ELSE Set(q, [step |-> "checked", seq |-> NextSequence(q), open |-> room.state = "active"])
  /\ UNCHANGED <<room, messages>>

\* append_user_message: the room is looked at again; a client key that is
\* there already stands for this message, and the turn goes on without it
CheckUser(q) ==
  /\ request[q].op = "send"
  /\ request[q].step = (IF request[q].stream THEN "prepared" ELSE "answered")
  /\ IF room.state # "active" THEN Finish(q)
     ELSE IF \E m \in messages : m.key # None /\ m.key = request[q].key
     THEN Set(q, [step |-> AfterUser(q), replay |-> TRUE, open |-> TRUE])
     ELSE Set(q, [step |-> "checked", seq |-> NextSequence(q), open |-> TRUE])
  /\ UNCHANGED <<room, messages>>

InsertUser(q) ==
  /\ request[q].step = "checked"
  /\ Insert(q, [seq |-> request[q].seq, role |-> "user", turn |-> q, key |-> request[q].key],
            [step |-> AfterUser(q)])

\* append_agent_message looks at nothing but the sequence
ReadReply(q) ==
  /\ request[q].step = "written"
  /\ Set(q, [step |-> "replying", seq |-> NextSequence(q)])
  /\ UNCHANGED <<room, messages>>

InsertReply(q) ==
  /\ request[q].step = "replying"
  /\ Insert(q, [seq |-> request[q].seq, role |-> "agent", turn |-> q, key |-> None],
            [step |-> "replied"])

-----------------------------------------------------------------------------
(* Mode stream: what the provider sends, and what the client is told *)

\* The frames of a stream concern no other request: several of them are
\* only looked at before another begins, else the one that has the result
WholeResult == [kind |-> "output", from |-> "ChatOutput", text |-> "ok"]
Alone(q)    == \A p \in Requests \ {q} : request[p].step = "idle"
LongStream  == \E q \in Requests : Len(request[q].frames) > 1

Frame(q) ==
  /\ request[q].step = "streaming"
  /\ Len(request[q].frames) < IF Alone(q) THEN MaxFrames ELSE 1
  /\ \E f \in IF Alone(q) THEN Frames ELSE {WholeResult} :
       Set(q, [frames |-> Append(request[q].frames, f)])
  /\ UNCHANGED <<room, messages>>

Understood(q) ==
  LET final == FinalOutput(request[q].frames)
  IN  IF request[q].op = "create" THEN GreetingResult(final) ELSE TurnResult(final)

\* The provider closes the stream: the final output makes a result, or none
StreamCloses(q) ==
  /\ request[q].step = "streaming"
  /\ IF Understood(q) THEN Set(q, [step |-> "written", frames |-> <<>>])
     ELSE Set(q, [step |-> "told", frames |-> <<>>])
  /\ UNCHANGED <<room, messages>>

\* A transport error, a timeout, or more frames than are read
StreamBreaks(q) ==
  /\ request[q].step = "streaming"
  /\ Set(q, [step |-> "told", frames |-> <<>>])
  /\ UNCHANGED <<room, messages>>

\* The terminal event leaves before the router commits
TellCompleted(q) ==
  /\ request[q].step = "replied" /\ request[q].stream
  /\ Set(q, [step |-> "told"])
  /\ UNCHANGED <<room, messages>>

-----------------------------------------------------------------------------
(* The room *)

\* create_session_with_greeting: the room's rows are in this transaction only
Create(q, stream) ==
  /\ request[q].step = "idle"
  /\ room.state = None
  /\ \A p \in Requests : request[p].op # "create"
  /\ Set(q, [op |-> "create", stream |-> stream,
             step |-> IF stream THEN "streaming" ELSE "greeting"])
  /\ UNCHANGED <<room, messages>>

\* Mode sync: no greeting (its savepoint is rolled back) is no failure
Greet(q) ==
  /\ request[q].step = "greeting"
  /\ \E next \in {"written", "replied"} : Set(q, [step |-> next])
  /\ UNCHANGED <<room, messages>>

\* FOR UPDATE waits for a holder, and for whoever has inserted a message
LockFree(q) ==
  \A p \in Requests \ {q} : request[p].wrote = {} /\ request[p].step # "locked"

\* A completed session is answered as it is
Complete(q) ==
  /\ request[q].step = "idle"
  /\ room.state \notin {None, "deleted"}
  /\ LockFree(q)
  /\ IF room.state = "completed"
     THEN Set(q, [op |-> "complete", step |-> "done"])
     ELSE Set(q, [op |-> "complete", step |-> "locked", seq |-> Cardinality(messages)])
  /\ UNCHANGED <<room, messages>>

\* conversation_messages is append-only by trigger: a DELETE of a row fails
Deletable == messages = {}

Delete(q) ==
  /\ request[q].step = "idle"
  /\ room.state \notin {None, "deleted"}
  /\ LockFree(q)
  /\ IF Deletable THEN Set(q, [op |-> "delete", step |-> "locked"])
     ELSE Set(q, [op |-> "delete", step |-> "done"])
  /\ UNCHANGED <<room, messages>>

-----------------------------------------------------------------------------
(* The end of a request *)

RoomAfter(q) ==
  CASE request[q].op = "create"   -> [room EXCEPT !.state = "active"]
    [] request[q].op = "complete" -> [state |-> "completed", ended |-> room.ended + 1]
    [] request[q].op = "delete"   -> [room EXCEPT !.state = "deleted"]
    [] request[q].op = "send"     -> room

Commit(q) ==
  /\ \/ request[q].step \in {"told", "locked"}
     \/ request[q].step = "replied" /\ ~request[q].stream
  /\ room' = RoomAfter(q)
  /\ messages' = messages \cup request[q].wrote
  /\ Finish(q)

\* The client leaves a stream, the process dies, the commit fails
Drop(q) ==
  /\ request[q].step \notin {"idle", "done"}
  /\ Finish(q)
  /\ UNCHANGED <<room, messages>>

-----------------------------------------------------------------------------

Begin(q) ==
  /\ ~LongStream
  /\ \/ \E stream \in BOOLEAN : Create(q, stream)
     \/ Send(q) \/ SendStream(q) \/ Suggest(q) \/ Complete(q) \/ Delete(q)

Step(q) ==
  \/ ProviderAnswers(q) \/ SuggestionsCome(q) \/ CheckUser(q) \/ InsertUser(q)
  \/ ReadReply(q) \/ InsertReply(q) \/ StreamCloses(q) \/ TellCompleted(q) \/ Greet(q) \/ Commit(q)

Next == \E q \in Requests : Begin(q) \/ Step(q) \/ Refuse(q) \/ Frame(q)
                            \/ StreamBreaks(q) \/ Drop(q)

\* A request runs on by itself, and the provider closes its streams
Fairness == \A q \in Requests : WF_vars(Step(q))

Spec == Init /\ [][Next]_vars /\ Fairness

-----------------------------------------------------------------------------
(* Properties *)

Rooms == [state : {None, "active", "completed", "deleted"}, ended : Nat]
Message == [seq : Nat, role : {"user", "agent"}, turn : Requests, key : Keys \cup {None}]

\* A request's fields and the room's are what the code can make them
TypeOK ==
  /\ room \in Rooms
  /\ messages \subseteq Message
  /\ \A q \in Requests :
       /\ request[q].step \in {"idle", "prepared", "answered", "checked", "written",
                               "streaming", "greeting", "replying", "replied", "told",
                               "locked", "done"}
       /\ request[q].wrote \subseteq Message
       /\ request[q].step \in {"idle", "done"} => request[q].wrote = {}

\* Concurrent turns never interleave in the history: the sequences have no
\* gap, and an answer stands right behind the message of its own turn; an
\* answer without one is the greeting, or that of a repeated client key
\* (_next_sequence reads without a lock, UNIQUE decides).
TurnsWhole ==
  /\ {m.seq : m \in messages} = 1..Cardinality(messages)
  /\ \A m \in messages : m.role = "agent" =>
       \/ \E u \in messages : u.role = "user" /\ u.turn = m.turn /\ u.seq = m.seq - 1
       \/ request[m.turn].op = "create" /\ m.seq = 1
       \/ request[m.turn].replay
          /\ \E u \in messages : u.key = request[m.turn].key /\ u.seq < m.seq

\* What is stored in a room that is already completed is from turns that had
\* found it active: nothing begins afterwards (append_user_message checks,
\* but not under the lock complete_session takes).
LateTurnsBegan ==
  [][\A m \in messages' \ messages :
       room.state = "completed" => request[m.turn].open]_vars

\* However its frames are ordered, the adapter makes of a flow ChatOutput's
\* answer, or TextOutput's if it has none, or else the end frame's own, and never
\* the echo of an envelope (_select_final_output and what feeds it).  A TextOutput
\* whose end_vertex answers is not among these flows: it would come first.
StreamMeant ==
  \A q \in Requests : request[q].step = "streaming" =>
    LET frames == request[q].frames
    IN  AsDeployed(frames) => FinalOutput(frames) = Meant(frames)

\* No request waits for ever on another's rows: each is made once, and in the
\* end none is under way (inserts wait for inserts and for the row's lock,
\* never for a reader).
RequestsEnd == <>[](\A q \in Requests : request[q].step \in {"idle", "done"})

\* chat.py:390 says a client key that is sent again never calls Langflow
\* again: it would be answered once.
AnsweredOnce ==
  \A m, n \in messages :
    /\ m.role = "agent" /\ n.role = "agent"
    /\ request[m.turn].key # None /\ request[m.turn].key = request[n.turn].key
    => m = n

=============================================================================
