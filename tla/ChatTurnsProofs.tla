--------------------------- MODULE ChatTurnsProofs ---------------------------
(***************************************************************************)
(* Proofs about ChatTurns, for any requests, client keys and frames.       *)
(*                                                                         *)
(* A turn reads its sequence without a lock, so many may hold the same     *)
(* one; the first insert makes the others wait, and so there is one turn   *)
(* at a time with rows that are not committed.  These continue the history *)
(* without a gap until that turn commits, whatever it waits for meanwhile. *)
(*                                                                         *)
(* Of a stream, what is kept of its first k frames determines the answer   *)
(* whatever frame comes next; an induction on k carries it to the end.     *)
(***************************************************************************)
EXTENDS ChatTurns, FiniteSetTheorems, WellFoundedInduction, TLAPS

RequestFields == {"op", "step", "stream", "key", "seq", "replay", "open", "wrote", "frames"}

Shapes ==
  /\ DOMAIN request = Requests /\ \A q \in Requests : DOMAIN request[q] = RequestFields
  /\ DOMAIN room = {"state", "ended"}

N == Cardinality(messages)

\* Steps of a turn that has its user's message, or needs none
Answering == {"streaming", "written", "replying"}

\* What each kind of request comes to
Course(q) ==
  /\ request[q].step = "idle" => request[q].op = None /\ ~request[q].replay
  /\ request[q].step = "prepared" => request[q].op \in {"send", "suggest"}
  /\ request[q].step \in {"answered", "checked"} => request[q].op = "send"
  /\ request[q].step \in Answering \cup {"replied", "told"} => request[q].op \in {"send", "create"}
  /\ request[q].step = "greeting" => request[q].op = "create"
  /\ request[q].step = "locked" => request[q].op \in {"complete", "delete"}

\* A room is created once, and nothing else is begun before it is
InRoom(q) ==
  /\ request[q].op = "create" => /\ request[q].step # "done" => room.state = None
                                 /\ \A p \in Requests : request[p].op = "create" => p = q
  /\ request[q].op \notin {None, "create"} => room.state # None

UserMessage(q, n)  == [seq |-> n, role |-> "user", turn |-> q, key |-> request[q].key]
AgentMessage(q, n) == [seq |-> n, role |-> "agent", turn |-> q, key |-> None]

\* A client key that was found stands for a message in the history
Repeats(q)     == \E u \in messages : u.key = request[q].key
\* A reply without a message of its own
NeedsNoUser(q) == request[q].op = "create" \/ request[q].replay

\* What a turn has written continues the history
Continues(q) ==
  \/ request[q].wrote = {}
  \/ /\ request[q].wrote = {UserMessage(q, N + 1)} /\ request[q].op = "send"
     /\ request[q].step \in Answering \cup {"told"}
  \/ /\ request[q].wrote = {UserMessage(q, N + 1), AgentMessage(q, N + 2)}
     /\ request[q].op = "send" /\ request[q].step \in {"replied", "told"}
  \/ /\ request[q].wrote = {AgentMessage(q, N + 1)} /\ NeedsNoUser(q)
     /\ request[q].step \in {"replied", "told"}

\* The sequence a turn holds may have been taken meanwhile, but leaves no gap
Sequenced(q) ==
  /\ request[q].step \in Answering => request[q].wrote # {} \/ NeedsNoUser(q)
  /\ request[q].step \in {"checked", "replying"} =>
       IF request[q].wrote = {} THEN request[q].seq \in 1 .. N + 1 ELSE request[q].seq = N + 2

Turn(q) ==
  /\ Course(q) /\ InRoom(q) /\ Continues(q) /\ Sequenced(q)
  /\ request[q].replay => Repeats(q)
  /\ request[q].op = "send" /\ request[q].step # "done" => request[q].open

OneWriter ==
  \A p, q \in Requests : request[p].wrote # {} /\ request[q].wrote # {} => p = q

\* The history of committed messages
InTurn(m) ==
  \/ \E u \in messages : u.role = "user" /\ u.turn = m.turn /\ u.seq = m.seq - 1
  \/ request[m.turn].op = "create" /\ m.seq = 1
  \/ request[m.turn].replay
     /\ \E u \in messages : u.key = request[m.turn].key /\ u.seq < m.seq
History ==
  /\ IsFiniteSet(messages) /\ {m.seq : m \in messages} = 1 .. N
  /\ \A m \in messages : /\ m.turn \in Requests /\ request[m.turn].step = "done"
                         /\ m.role = "agent" => InTurn(m)
  /\ room.state = None => messages = {}

ChatInv == Shapes /\ History /\ OneWriter /\ \A q \in Requests : Turn(q)

-----------------------------------------------------------------------------

OthersStay(q) == \A p \in Requests : p # q => request'[p] = request[p]

LEMMA SetFields ==
  ASSUME Shapes, NEW q \in Requests, NEW fields, DOMAIN fields \subseteq RequestFields, Set(q, fields)
  PROVE  /\ DOMAIN request' = Requests /\ OthersStay(q) /\ DOMAIN request'[q] = RequestFields
         /\ \A x \in RequestFields :
              request'[q][x] = IF x \in DOMAIN fields THEN fields[x] ELSE request[q][x]
<1>1. request'[q] = With(request[q], fields) /\ DOMAIN request' = Requests /\ OthersStay(q)
  BY DEF Set, Shapes, OthersStay
<1> QED
  BY <1>1 DEF With, Shapes

LEMMA MessageCount ==
  ASSUME History
  PROVE  N \in Nat /\ (N = 0 <=> messages = {}) /\ \A m \in messages : m.seq \in 1 .. N
BY FS_CardinalityType, FS_EmptySet DEF History, N

\* max(sequence) + 1
LEMMA NextSequenceIs ==
  ASSUME NEW q \in Requests, NEW k \in Nat, {m.seq : m \in messages \cup request[q].wrote} = 1 .. k
  PROVE  NextSequence(q) = k + 1
<1> DEFINE seen == {m.seq : m \in messages \cup request[q].wrote}
           Top(n) == \A j \in seen : j <= n
           top == CHOOSE n \in seen \cup {0} : Top(n)
<1>1. seen = 1 .. k
  OBVIOUS
<1>2. NextSequence(q) = 1 + top
  BY DEF NextSequence
<1>3. k \in seen \cup {0} /\ Top(k)
  BY <1>1
<1>4. \A n \in seen \cup {0} : Top(n) => n = k
  BY <1>1
<1> HIDE DEF seen, Top
<1>5. top = k
  BY <1>3, <1>4 DEF top
<1> HIDE DEF top
<1> QED
  BY <1>2, <1>5

LEMMA ChatInit == Init => ChatInv
<1> SUFFICES ASSUME Init
             PROVE  ChatInv
  OBVIOUS
<1>1. N = 0 /\ IsFiniteSet(messages) /\ messages = {}
  BY FS_EmptySet DEF Init, N
<1>2. \A q \in Requests : request[q] = NewRequest
  BY DEF Init
<1>3. /\ DOMAIN NewRequest = RequestFields /\ NewRequest.op = None /\ NewRequest.step = "idle"
      /\ NewRequest.wrote = {} /\ ~NewRequest.replay
  BY DEF NewRequest, RequestFields
<1>4. \A q \in Requests : Turn(q)
  BY <1>2, <1>3 DEF Turn, Course, InRoom, Continues, Sequenced, Answering, None
<1>5. Shapes /\ OneWriter
  BY <1>2, <1>3 DEF Shapes, Init, OneWriter
<1>6. History
  BY <1>1 DEF History
<1> QED
  BY <1>4, <1>5, <1>6 DEF ChatInv

\* A step of one request that commits nothing: the others are as they were
LEMMA LocalStep ==
  ASSUME ChatInv, NEW q \in Requests, request[q].step # "done", UNCHANGED <<room, messages>>,
         DOMAIN request' = Requests, OthersStay(q), DOMAIN request'[q] = RequestFields,
         request'[q].op = "create" =>
           request[q].op = "create" \/ \A p \in Requests : request[p].op # "create",
         request'[q].wrote # {} =>
           \A p \in Requests : p # q => request[p].wrote = {},
         Turn(q)'
  PROVE  ChatInv'
<1>1. Shapes'
  BY DEF ChatInv, Shapes, OthersStay
<1>2. N' = N
  BY DEF N
<1>3. OneWriter'
  BY DEF ChatInv, OneWriter, OthersStay
<1>4. ASSUME NEW m \in messages
      PROVE  m.turn \in Requests /\ m.turn # q /\ request'[m.turn] = request[m.turn]
  BY DEF ChatInv, History, OthersStay
<1>5. History'
  BY <1>2, <1>4 DEF ChatInv, History, InTurn
<1>6. ASSUME NEW p \in Requests, p # q
      PROVE  Turn(p)'
  <2>1. request'[p] = request[p] /\ Turn(p)
    BY <1>6 DEF ChatInv, OthersStay
  <2>2. InRoom(p)'
    BY <1>6, <2>1 DEF Turn, InRoom, OthersStay, ChatInv
  <2>3. (Course(p) /\ Continues(p) /\ Sequenced(p))'
    BY <1>2, <2>1
       DEF Turn, Course, Continues, Sequenced, UserMessage, AgentMessage, NeedsNoUser
  <2> QED
    BY <2>1, <2>2, <2>3 DEF Turn, Repeats
<1> QED
  BY <1>1, <1>3, <1>5, <1>6 DEF ChatInv

\* The fields a step leaves alone, by name
LEMMA SetNamed ==
  ASSUME Shapes, NEW q \in Requests, NEW fields, DOMAIN fields \subseteq RequestFields, Set(q, fields)
  PROVE  LET old == request[q]  new == request'[q]
         IN  /\ "op" \notin DOMAIN fields => new.op = old.op
             /\ "key" \notin DOMAIN fields => new.key = old.key
             /\ "seq" \notin DOMAIN fields => new.seq = old.seq
             /\ "replay" \notin DOMAIN fields => new.replay = old.replay
             /\ "open" \notin DOMAIN fields => new.open = old.open
             /\ "wrote" \notin DOMAIN fields => new.wrote = old.wrote
BY SetFields DEF RequestFields

\* A request that ends has nothing in the room any more
LEMMA FinishStep ==
  ASSUME ChatInv, NEW q \in Requests, request[q].step # "done", Finish(q), UNCHANGED <<room, messages>>
  PROVE  ChatInv'
<1> DEFINE f == [step |-> "done", wrote |-> {}, frames |-> <<>>, seq |-> 0, stream |-> FALSE,
                 open |-> FALSE]
<1>1. DOMAIN f = {"step", "wrote", "frames", "seq", "stream", "open"}
  OBVIOUS
<1>2. f.step = "done" /\ f.wrote = {} /\ Set(q, f)
  BY DEF Finish
<1> HIDE DEF f
<1>3. DOMAIN f \subseteq RequestFields
  BY <1>1 DEF RequestFields
<1>4. /\ DOMAIN request' = Requests /\ OthersStay(q) /\ DOMAIN request'[q] = RequestFields
      /\ request'[q].step = "done" /\ request'[q].wrote = {}
  BY <1>1, <1>2, <1>3, SetFields DEF ChatInv, RequestFields
<1>5. /\ request'[q].op = request[q].op /\ request'[q].key = request[q].key
      /\ request'[q].replay = request[q].replay
  BY <1>1, <1>2, <1>3, SetNamed DEF ChatInv
<1>6. Turn(q) /\ "done" \notin Answering
  BY DEF ChatInv, Answering
<1>7. InRoom(q)'
  BY <1>4, <1>5, <1>6 DEF Turn, InRoom, OthersStay
<1>8. Turn(q)'
  BY <1>4, <1>5, <1>6, <1>7 DEF Turn, Course, Continues, Sequenced, Repeats
<1> QED
  BY <1>4, <1>5, <1>8, LocalStep

\* A request goes on with what it has written, and what it has found out
LEMMA GoOn ==
  ASSUME ChatInv, NEW q \in Requests, request[q].step # "done", UNCHANGED <<room, messages>>,
         NEW f, Set(q, f), DOMAIN f \subseteq {"step", "seq", "replay", "open", "frames"},
         Course(q)', Continues(q)', Sequenced(q)',
         request'[q].replay => request[q].replay \/ Repeats(q),
         request'[q].open \/ request'[q].open = request[q].open \/ request[q].op # "send"
  PROVE  ChatInv'
<1>1. DOMAIN f \subseteq RequestFields
  BY DEF RequestFields
<1>2. /\ DOMAIN request' = Requests /\ OthersStay(q) /\ DOMAIN request'[q] = RequestFields
      /\ request'[q].op = request[q].op /\ request'[q].key = request[q].key
      /\ request'[q].wrote = request[q].wrote
  BY <1>1, SetFields, SetNamed DEF ChatInv
<1>3. Turn(q)
  BY DEF ChatInv
<1>4. InRoom(q)'
  BY <1>2, <1>3 DEF Turn, InRoom, OthersStay
<1>5. (request[q].replay => Repeats(q)) /\ (Repeats(q)' <=> Repeats(q))
  BY <1>2, <1>3 DEF Turn, Repeats
<1>6. Turn(q)'
  BY <1>2, <1>3, <1>4, <1>5 DEF Turn
<1>7. request'[q].wrote # {} => \A p \in Requests : p # q => request[p].wrote = {}
  BY <1>2 DEF ChatInv, OneWriter
<1> QED
  BY <1>2, <1>6, <1>7, LocalStep

-----------------------------------------------------------------------------
(* The steps of a turn that leave its rows alone *)

\* What the step of a turn says of its rows
LEMMA Rows ==
  ASSUME ChatInv, NEW q \in Requests
  PROVE  /\ request[q].step \notin Answering \cup {"replied", "told"} => request[q].wrote = {}
         /\ request[q].step \in Answering =>
              IF request[q].wrote = {} THEN NeedsNoUser(q)
              ELSE request[q].wrote = {UserMessage(q, N + 1)} /\ request[q].op = "send"
         /\ N \in Nat
BY MessageCount DEF ChatInv, Turn, Continues, Sequenced, Answering

LEMMA AnswerSteps ==
  ASSUME ChatInv, NEW q \in Requests,
         ProviderAnswers(q) \/ Greet(q) \/ TellCompleted(q) \/ Frame(q) \/ StreamCloses(q)
                            \/ StreamBreaks(q)
  PROVE  ChatInv'
<1>1. UNCHANGED <<room, messages>> /\ N' = N
  BY DEF ProviderAnswers, Greet, TellCompleted, Frame, StreamCloses, StreamBreaks, N
<1>2. Shapes /\ Turn(q)
  BY DEF ChatInv
<1>3. ASSUME NEW f, Set(q, f), DOMAIN f = {"step"}, request[q].step = "prepared",
             request[q].op = "send", f.step = "answered"
      PROVE  ChatInv'
  <2>1. request'[q].step = "answered"
    BY <1>2, <1>3, SetFields DEF RequestFields
  <2>2. /\ request'[q].op = "send" /\ request'[q].wrote = {} /\ request'[q].open = request[q].open
        /\ request'[q].replay = request[q].replay
    BY <1>2, <1>3, SetNamed, Rows DEF RequestFields, Answering
  <2>3. Course(q)' /\ Continues(q)' /\ Sequenced(q)'
    BY <2>1, <2>2 DEF Course, Continues, Sequenced, Answering
  <2> QED
    BY <1>1, <1>3, <2>2, <2>3, GoOn
\* The steps of an answer, from its first frame to its last
<1>4. ASSUME NEW f, Set(q, f), DOMAIN f \subseteq {"step", "frames"},
             request[q].step \in {"greeting", "streaming"}, request'[q].step \in Answering \cup {"told"},
             request'[q].step # "replying"
      PROVE  ChatInv'
  <2>1. /\ request'[q].op = request[q].op /\ request'[q].wrote = request[q].wrote
        /\ request'[q].key = request[q].key
        /\ request'[q].open = request[q].open /\ request'[q].replay = request[q].replay
    BY <1>2, <1>4, SetNamed DEF RequestFields
  <2>2. /\ request[q].op \in {"send", "create"}
        /\ IF request[q].wrote = {} THEN NeedsNoUser(q)
           ELSE request[q].wrote = {UserMessage(q, N + 1)} /\ request[q].op = "send"
    BY <1>2, <1>4, Rows DEF Turn, Course, Answering, NeedsNoUser
  <2>3. Course(q)' /\ Sequenced(q)'
    BY <1>4, <2>1, <2>2 DEF Course, Sequenced, NeedsNoUser, Answering
  <2>4. Continues(q)'
    BY <1>1, <1>4, <2>1, <2>2 DEF Continues, UserMessage
  <2> QED
    BY <1>1, <1>4, <2>1, <2>3, <2>4, GoOn
<1>5. ASSUME NEW f, Set(q, f), DOMAIN f = {"step"}, request[q].step \in {"greeting", "replied"},
             f.step \in {"replied", "told"}
      PROVE  ChatInv'
  <2>1. request'[q].step = f.step
    BY <1>2, <1>5, SetFields DEF RequestFields
  <2>2. /\ request'[q].op = request[q].op /\ request'[q].wrote = request[q].wrote
        /\ request'[q].key = request[q].key
        /\ request'[q].open = request[q].open /\ request'[q].replay = request[q].replay
    BY <1>2, <1>5, SetNamed DEF RequestFields
  <2>3. request[q].op \in {"send", "create"}
    BY <1>2, <1>5 DEF Turn, Course
  <2>4. Course(q)' /\ Sequenced(q)'
    BY <1>5, <2>1, <2>2, <2>3 DEF Course, Sequenced, Answering
  <2>5. Continues(q)'
    BY <1>1, <1>2, <1>5, <2>1, <2>2 DEF Turn, Continues, UserMessage, AgentMessage, NeedsNoUser,
                                        Answering
  <2> QED
    BY <1>1, <1>5, <2>2, <2>4, <2>5, GoOn
<1>6. CASE ProviderAnswers(q)
  BY <1>3, <1>6 DEF ProviderAnswers, At
<1>7. CASE Greet(q)
  <2>1. PICK next \in {"written", "replied"} : Set(q, [step |-> next]) /\ request[q].step = "greeting"
    BY <1>7 DEF Greet
  <2>2. request'[q].step = next
    BY <1>2, <2>1, SetFields DEF RequestFields
  <2> QED
    BY <1>4, <1>5, <2>1, <2>2 DEF Answering
<1>8. CASE TellCompleted(q)
  BY <1>5, <1>8 DEF TellCompleted
<1>9. CASE Frame(q)
  <2>1. PICK f : Set(q, [frames |-> f]) /\ request[q].step = "streaming"
    BY <1>9 DEF Frame
  <2>2. request'[q].step = "streaming"
    BY <1>2, <2>1, SetFields DEF RequestFields
  <2> QED
    BY <1>4, <2>1, <2>2 DEF Answering
<1>10. CASE StreamCloses(q) \/ StreamBreaks(q)
  <2>1. PICK next \in {"written", "told"} :
          Set(q, [step |-> next, frames |-> <<>>]) /\ request[q].step = "streaming"
    BY <1>10 DEF StreamCloses, StreamBreaks
  <2>2. request'[q].step = next
    BY <1>2, <2>1, SetFields DEF RequestFields
  <2> QED
    BY <1>4, <2>1, <2>2 DEF Answering
<1> QED
  BY <1>6, <1>7, <1>8, <1>9, <1>10

-----------------------------------------------------------------------------
(* How a request begins *)

LEMMA BeginStep ==
  ASSUME ChatInv, NEW q \in Requests, request[q].step = "idle", UNCHANGED <<room, messages>>,
         NEW f, Set(q, f), "wrote" \notin DOMAIN f, "replay" \notin DOMAIN f,
         {"op", "step"} \subseteq DOMAIN f, DOMAIN f \subseteq RequestFields,
         f.op \in {"send", "suggest", "complete", "delete", "create"},
         IF f.op = "create"
         THEN room.state = None /\ \A p \in Requests : request[p].op # "create"
         ELSE room.state # None,
         \/ f.op \in {"send", "suggest"} /\ f.step = "prepared" /\ "open" \in DOMAIN f /\ f.open
         \/ f.op = "create" /\ f.step \in {"streaming", "greeting"}
         \/ f.op \in {"complete", "delete"} /\ f.step = "locked"
         \/ f.step = "done" /\ f.op # "create"
  PROVE  ChatInv'
<1>1. Shapes /\ Turn(q)
  BY DEF ChatInv
<1>2. /\ DOMAIN request' = Requests /\ OthersStay(q) /\ DOMAIN request'[q] = RequestFields
      /\ request'[q].op = f.op /\ request'[q].step = f.step
      /\ "open" \in DOMAIN f => request'[q].open = f.open
  BY <1>1, SetFields DEF RequestFields
<1>3. request'[q].wrote = {} /\ ~request'[q].replay
  BY <1>1, SetNamed, Rows DEF Turn, Course, Answering
<1>4. None \notin {"send", "suggest", "complete", "delete", "create"}
  BY DEF None
<1>5. Course(q)' /\ Continues(q)'
  BY <1>2, <1>3 DEF Course, Continues, Answering
<1>6. Sequenced(q)'
  BY <1>2, <1>3 DEF Sequenced, Answering, NeedsNoUser
<1>7. InRoom(q)'
  BY <1>2, <1>4 DEF InRoom, OthersStay
<1>8. Turn(q)'
  BY <1>2, <1>3, <1>5, <1>6, <1>7 DEF Turn
<1> QED
  BY <1>2, <1>3, <1>8, LocalStep

LEMMA BeginSteps ==
  ASSUME ChatInv, NEW q \in Requests, Begin(q)
  PROVE  ChatInv'
<1>1. CASE \E stream \in BOOLEAN : Create(q, stream)
  <2>1. PICK stream : Create(q, stream)
    BY <1>1
  <2> DEFINE f == [op |-> "create", stream |-> stream,
                   step |-> IF stream THEN "streaming" ELSE "greeting"]
  <2>2. DOMAIN f = {"op", "stream", "step"} /\ f.op = "create" /\ f.step \in {"streaming", "greeting"}
    OBVIOUS
  <2>3. Set(q, f) /\ request[q].step = "idle" /\ UNCHANGED <<room, messages>> /\ room.state = None
        /\ \A p \in Requests : request[p].op # "create"
    BY <2>1 DEF Create
  <2> HIDE DEF f
  <2> QED
    BY <2>2, <2>3, BeginStep DEF RequestFields
<1>2. ASSUME NEW op \in {"send", "suggest"}, NEW stream, NEW key, Prepare(q, op, stream, key)
      PROVE  ChatInv'
  <2>1. request[q].step = "idle" /\ room.state # None /\ UNCHANGED <<room, messages>>
    BY <1>2 DEF Prepare
  <2>2. CASE room.state = "active"
    <3> DEFINE f == [op |-> op, stream |-> stream, key |-> key, step |-> "prepared", open |-> TRUE]
    <3>1. /\ DOMAIN f = {"op", "stream", "key", "step", "open"}
          /\ f.op = op /\ f.step = "prepared" /\ f.open
      OBVIOUS
    <3>2. Set(q, f)
      BY <1>2, <2>2 DEF Prepare
    <3> HIDE DEF f
    <3> QED
      BY <1>2, <2>1, <3>1, <3>2, BeginStep DEF RequestFields
  <2>3. CASE room.state # "active"
    <3> DEFINE f == [op |-> op, stream |-> stream, key |-> key, step |-> "done"]
    <3>1. DOMAIN f = {"op", "stream", "key", "step"} /\ f.op = op /\ f.step = "done"
      OBVIOUS
    <3>2. Set(q, f)
      BY <1>2, <2>3 DEF Prepare
    <3> HIDE DEF f
    <3> QED
      BY <1>2, <2>1, <3>1, <3>2, BeginStep DEF RequestFields
  <2> QED
    BY <2>2, <2>3
<1>3. CASE Complete(q)
  <2>1. request[q].step = "idle" /\ room.state # None /\ UNCHANGED <<room, messages>>
    BY <1>3 DEF Complete
  <2>2. CASE room.state = "completed"
    <3> DEFINE f == [op |-> "complete", step |-> "done"]
    <3>1. DOMAIN f = {"op", "step"} /\ f.op = "complete" /\ f.step = "done"
      OBVIOUS
    <3>2. Set(q, f)
      BY <1>3, <2>2 DEF Complete
    <3> HIDE DEF f
    <3> QED
      BY <2>1, <3>1, <3>2, BeginStep DEF RequestFields
  <2>3. CASE room.state # "completed"
    <3> DEFINE f == [op |-> "complete", step |-> "locked", seq |-> Cardinality(messages)]
    <3>1. DOMAIN f = {"op", "step", "seq"} /\ f.op = "complete" /\ f.step = "locked"
      OBVIOUS
    <3>2. Set(q, f)
      BY <1>3, <2>3 DEF Complete
    <3> HIDE DEF f
    <3> QED
      BY <2>1, <3>1, <3>2, BeginStep DEF RequestFields
  <2> QED
    BY <2>2, <2>3
<1>4. CASE Delete(q)
  <2>1. PICK step \in {"locked", "done"} : Set(q, [op |-> "delete", step |-> step])
    BY <1>4 DEF Delete
  <2> DEFINE f == [op |-> "delete", step |-> step]
  <2>2. DOMAIN f = {"op", "step"} /\ f.op = "delete" /\ f.step = step /\ Set(q, f)
    BY <2>1
  <2> HIDE DEF f
  <2> QED
    BY <1>4, <2>1, <2>2, BeginStep DEF Delete, RequestFields
<1> QED
  BY <1>1, <1>2, <1>3, <1>4 DEF Begin, Send, SendStream, Suggest

-----------------------------------------------------------------------------
(* Sequences that are read, and rows that are inserted *)

LEMMA CheckUserStep ==
  ASSUME ChatInv, NEW q \in Requests, CheckUser(q)
  PROVE  ChatInv'
<1>1. /\ request[q].op = "send" /\ request[q].step \in {"prepared", "answered"}
      /\ UNCHANGED <<room, messages>> /\ N' = N
  BY DEF CheckUser, N
<1>2. Shapes /\ Turn(q) /\ request[q].wrote = {} /\ N \in Nat
  BY <1>1, Rows DEF ChatInv, Answering
<1>3. CASE Finish(q)
  BY <1>1, <1>3, FinishStep
<1>4. CASE /\ \E m \in messages : m.key # None /\ m.key = request[q].key
           /\ Set(q, [step |-> AfterUser(q), replay |-> TRUE, open |-> TRUE])
  <2> DEFINE f == [step |-> AfterUser(q), replay |-> TRUE, open |-> TRUE]
  <2>1. /\ DOMAIN f = {"step", "replay", "open"} /\ f.step \in {"streaming", "written"}
        /\ f.replay /\ f.open
    BY DEF AfterUser
  <2>2. Set(q, f) /\ Repeats(q)
    BY <1>4 DEF Repeats
  <2> HIDE DEF f
  <2>3. request'[q].step \in {"streaming", "written"} /\ request'[q].replay /\ request'[q].open
    BY <1>2, <2>1, <2>2, SetFields DEF RequestFields
  <2>4. request'[q].op = "send" /\ request'[q].wrote = {}
    BY <1>1, <1>2, <2>1, <2>2, SetNamed DEF RequestFields
  <2>5. Course(q)' /\ Continues(q)' /\ Sequenced(q)'
    BY <2>3, <2>4 DEF Course, Continues, Sequenced, NeedsNoUser, Answering
  <2> QED
    BY <1>1, <2>1, <2>2, <2>3, <2>5, GoOn
<1>5. CASE Set(q, [step |-> "checked", seq |-> NextSequence(q), open |-> TRUE])
  <2> DEFINE f == [step |-> "checked", seq |-> NextSequence(q), open |-> TRUE]
  <2>1. NextSequence(q) = N + 1
    BY <1>2, NextSequenceIs DEF ChatInv, History
  <2>2. DOMAIN f = {"step", "seq", "open"} /\ f.step = "checked" /\ f.seq = N + 1 /\ f.open /\ Set(q, f)
    BY <1>5, <2>1
  <2> HIDE DEF f
  <2>3. request'[q].step = "checked" /\ request'[q].seq = N + 1 /\ request'[q].open
    BY <1>2, <2>2, SetFields DEF RequestFields
  <2>4. /\ request'[q].op = "send" /\ request'[q].wrote = {}
        /\ request'[q].replay = request[q].replay
    BY <1>1, <1>2, <2>2, SetNamed DEF RequestFields
  <2>5. Course(q)' /\ Continues(q)' /\ Sequenced(q)'
    BY <1>1, <1>2, <2>3, <2>4 DEF Course, Continues, Sequenced, Answering
  <2> QED
    BY <1>1, <2>2, <2>3, <2>4, <2>5, GoOn
<1> QED
  BY <1>3, <1>4, <1>5 DEF CheckUser

LEMMA ReadReplyStep ==
  ASSUME ChatInv, NEW q \in Requests, ReadReply(q)
  PROVE  ChatInv'
<1>1. request[q].step = "written" /\ UNCHANGED <<room, messages>> /\ N' = N
  BY DEF ReadReply, N
<1>2. /\ Shapes /\ Turn(q) /\ N \in Nat
      /\ IF request[q].wrote = {} THEN NeedsNoUser(q)
         ELSE request[q].wrote = {UserMessage(q, N + 1)} /\ request[q].op = "send"
  BY <1>1, Rows DEF ChatInv, Answering
<1>3. NextSequence(q) = IF request[q].wrote = {} THEN N + 1 ELSE N + 2
  <2>1. {m.seq : m \in messages} = 1 .. N
    BY DEF ChatInv, History
  <2>2. CASE request[q].wrote = {}
    BY <1>2, <2>1, <2>2, NextSequenceIs
  <2>3. CASE request[q].wrote # {}
    <3>1. request[q].wrote = {UserMessage(q, N + 1)} /\ UserMessage(q, N + 1).seq = N + 1
      BY <1>2, <2>3 DEF UserMessage
    <3>2. {m.seq : m \in messages \cup request[q].wrote} = {m.seq : m \in messages} \cup {N + 1}
      BY <3>1
    <3>3. (1 .. N) \cup {N + 1} = 1 .. N + 1
      BY <1>2
    <3> QED
      BY <1>2, <2>1, <2>3, <3>2, <3>3, NextSequenceIs
  <2> QED
    BY <2>2, <2>3
<1> DEFINE f == [step |-> "replying", seq |-> NextSequence(q)]
<1>4. DOMAIN f = {"step", "seq"} /\ f.step = "replying" /\ f.seq = NextSequence(q) /\ Set(q, f)
  BY DEF ReadReply
<1> HIDE DEF f
<1>5. request'[q].step = "replying" /\ request'[q].seq = NextSequence(q)
  BY <1>2, <1>4, SetFields DEF RequestFields
<1>6. /\ request'[q].op = request[q].op /\ request'[q].wrote = request[q].wrote
      /\ request'[q].key = request[q].key
      /\ request'[q].replay = request[q].replay /\ request'[q].open = request[q].open
  BY <1>2, <1>4, SetNamed DEF RequestFields
<1>7. Course(q)' /\ Continues(q)'
  BY <1>1, <1>2, <1>5, <1>6 DEF Turn, Course, Continues, UserMessage, Answering
<1>8. Sequenced(q)'
  BY <1>1, <1>2, <1>3, <1>5, <1>6 DEF Sequenced, NeedsNoUser, Answering
<1> QED
  BY <1>1, <1>4, <1>6, <1>7, <1>8, GoOn

\* An insert that neither waits nor meets a row of the history continues it, and
\* nobody else has rows then
LEMMA InsertMeets ==
  ASSUME ChatInv, NEW q \in Requests, NEW m, m.seq = request[q].seq,
         request[q].step \in {"checked", "replying"},
         ~Waits(q, m), ~ \E n \in messages : Clashes(m, n)
  PROVE  /\ m.seq = IF request[q].wrote = {} THEN N + 1 ELSE N + 2
         /\ \A p \in Requests : p # q => request[p].wrote = {}
<1>1. N \in Nat /\ Sequenced(q) /\ {n.seq : n \in messages} = 1 .. N
  BY MessageCount DEF ChatInv, Turn, History
<1>2. CASE request[q].wrote = {}
  <2>1. m.seq \in 1 .. N + 1
    BY <1>1, <1>2 DEF Sequenced
  <2>2. \A n \in messages : n.seq # m.seq
    BY DEF Clashes
  <2>3. m.seq \notin 1 .. N
    BY <1>1, <2>2
  <2>4. m.seq = N + 1
    BY <1>1, <2>1, <2>3
  <2>5. ASSUME NEW p \in Requests, p # q, request[p].wrote # {}
        PROVE  FALSE
    <3>1. \E n \in request[p].wrote : n.seq = N + 1
      <4>1. UserMessage(p, N + 1).seq = N + 1 /\ AgentMessage(p, N + 1).seq = N + 1
        BY DEF UserMessage, AgentMessage
      <4>2. UserMessage(p, N + 1) \in request[p].wrote \/ AgentMessage(p, N + 1) \in request[p].wrote
        BY <2>5 DEF ChatInv, Turn, Continues
      <4> QED
        BY <4>1, <4>2
    <3> QED
      BY <2>4, <2>5, <3>1 DEF Waits, Clashes
  <2> QED
    BY <1>2, <2>4, <2>5
<1>3. CASE request[q].wrote # {}
  BY <1>1, <1>3 DEF Sequenced, ChatInv, OneWriter
<1> QED
  BY <1>2, <1>3

\* The row is inserted, and continues what the request has written
LEMMA Inserted ==
  ASSUME ChatInv, NEW q \in Requests, NEW m, NEW next, next.step \in {"streaming", "written", "replied"},
         DOMAIN next = {"step"}, m.seq = request[q].seq, request[q].step \in {"checked", "replying"},
         Insert(q, m, next), ~Finish(q)
  PROVE  /\ UNCHANGED <<room, messages>> /\ N' = N
         /\ DOMAIN request' = Requests /\ OthersStay(q) /\ DOMAIN request'[q] = RequestFields
         /\ request'[q].step = next.step /\ request'[q].wrote = request[q].wrote \cup {m}
         /\ request'[q].op = request[q].op /\ request'[q].key = request[q].key
         /\ request'[q].replay = request[q].replay /\ request'[q].open = request[q].open
         /\ m.seq = IF request[q].wrote = {} THEN N + 1 ELSE N + 2
         /\ \A p \in Requests : p # q => request[p].wrote = {}
<1> DEFINE f == With(next, [wrote |-> request[q].wrote \cup {m}])
<1>1. DOMAIN f = {"step", "wrote"} /\ f.step = next.step /\ f.wrote = request[q].wrote \cup {m}
  BY DEF With
<1>2. /\ Set(q, f) /\ UNCHANGED <<room, messages>> /\ N' = N
      /\ ~Waits(q, m) /\ ~ \E n \in messages : Clashes(m, n)
  BY DEF Insert, N
<1> HIDE DEF f
<1>3. DOMAIN f \subseteq RequestFields /\ Shapes
  BY <1>1 DEF RequestFields, ChatInv
<1>4. /\ DOMAIN request' = Requests /\ OthersStay(q) /\ DOMAIN request'[q] = RequestFields
      /\ request'[q].step = next.step /\ request'[q].wrote = request[q].wrote \cup {m}
  BY <1>1, <1>2, <1>3, SetFields DEF RequestFields
<1>5. /\ request'[q].op = request[q].op /\ request'[q].key = request[q].key
      /\ request'[q].replay = request[q].replay /\ request'[q].open = request[q].open
  BY <1>1, <1>2, <1>3, SetNamed
<1>6. /\ m.seq = IF request[q].wrote = {} THEN N + 1 ELSE N + 2
      /\ \A p \in Requests : p # q => request[p].wrote = {}
  BY <1>2, InsertMeets
<1> QED
  BY <1>2, <1>4, <1>5, <1>6

LEMMA InsertStep ==
  ASSUME ChatInv, NEW q \in Requests, InsertUser(q) \/ InsertReply(q)
  PROVE  ChatInv'
<1>1. /\ request[q].step \in {"checked", "replying"} /\ UNCHANGED <<room, messages>> /\ Turn(q)
      /\ N \in Nat
  BY MessageCount DEF InsertUser, InsertReply, Insert, ChatInv
<1>2. CASE Finish(q)
  BY <1>1, <1>2, FinishStep
<1>3. ASSUME InsertUser(q), ~Finish(q)
      PROVE  ChatInv'
  <2> DEFINE m == [seq |-> request[q].seq, role |-> "user", turn |-> q, key |-> request[q].key]
             next == [step |-> AfterUser(q)]
  <2>1. Insert(q, m, next) /\ request[q].step = "checked"
    BY <1>3 DEF InsertUser
  <2>2. m.seq = request[q].seq /\ DOMAIN next = {"step"} /\ next.step \in {"streaming", "written"}
    BY DEF AfterUser
  <2>3. request[q].wrote = {} /\ request[q].op = "send"
    BY <1>1, <2>1, Rows DEF Turn, Course, Answering
  <2>4. m.seq = N + 1 => m = UserMessage(q, N + 1)
    BY DEF UserMessage
  <2> HIDE DEF m, next
  <2>5. /\ N' = N /\ DOMAIN request' = Requests /\ OthersStay(q) /\ DOMAIN request'[q] = RequestFields
        /\ request'[q].step \in {"streaming", "written"}
        /\ request'[q].wrote = {UserMessage(q, N + 1)}
        /\ request'[q].op = "send" /\ request'[q].key = request[q].key
        /\ request'[q].replay = request[q].replay /\ request'[q].open = request[q].open
        /\ \A p \in Requests : p # q => request[p].wrote = {}
    BY <1>1, <1>3, <2>1, <2>2, <2>3, <2>4, Inserted
  <2>6. UserMessage(q, N + 1)' = UserMessage(q, N + 1)
    BY <2>5 DEF UserMessage
  <2>7. Course(q)' /\ Continues(q)' /\ Sequenced(q)' /\ InRoom(q)'
    BY <1>1, <2>3, <2>5, <2>6 DEF Turn, Course, Continues, Sequenced, InRoom, Answering, OthersStay
  <2>8. Turn(q)'
    BY <1>1, <2>1, <2>3, <2>5, <2>7 DEF Turn, Repeats
  <2> QED
    BY <1>1, <2>1, <2>3, <2>5, <2>8, LocalStep
<1>4. ASSUME InsertReply(q), ~Finish(q)
      PROVE  ChatInv'
  <2> DEFINE m == [seq |-> request[q].seq, role |-> "agent", turn |-> q, key |-> None]
             next == [step |-> "replied"]
  <2>1. Insert(q, m, next) /\ request[q].step = "replying"
    BY <1>4 DEF InsertReply
  <2>2. m.seq = request[q].seq /\ DOMAIN next = {"step"} /\ next.step = "replied"
    OBVIOUS
  <2>3. /\ request[q].op \in {"send", "create"}
        /\ IF request[q].wrote = {} THEN NeedsNoUser(q)
           ELSE request[q].wrote = {UserMessage(q, N + 1)} /\ request[q].op = "send"
    BY <1>1, <2>1, Rows DEF Turn, Course, Answering
  <2>4. \A n : m.seq = n => m = AgentMessage(q, n)
    BY DEF AgentMessage
  <2> HIDE DEF m, next
  <2>5. /\ N' = N /\ DOMAIN request' = Requests /\ OthersStay(q) /\ DOMAIN request'[q] = RequestFields
        /\ request'[q].step = "replied" /\ request'[q].wrote = request[q].wrote \cup {m}
        /\ request'[q].op = request[q].op /\ request'[q].key = request[q].key
        /\ request'[q].replay = request[q].replay /\ request'[q].open = request[q].open
        /\ m.seq = IF request[q].wrote = {} THEN N + 1 ELSE N + 2
        /\ \A p \in Requests : p # q => request[p].wrote = {}
    BY <1>1, <1>4, <2>1, <2>2, Inserted
  <2>6. UserMessage(q, N + 1)' = UserMessage(q, N + 1)
    BY <2>5 DEF UserMessage
  <2>7. Continues(q)'
    <3>1. CASE request[q].wrote = {}
      BY <2>3, <2>4, <2>5, <3>1 DEF Continues, NeedsNoUser, AgentMessage
    <3>2. CASE request[q].wrote # {}
      <4>1. request'[q].wrote = {UserMessage(q, N + 1), AgentMessage(q, N + 2)}
        BY <2>3, <2>4, <2>5, <3>2
      <4> QED
        BY <2>3, <2>5, <2>6, <3>2, <4>1 DEF Continues, AgentMessage
    <3> QED
      BY <3>1, <3>2
  <2>8. Course(q)' /\ Sequenced(q)' /\ InRoom(q)'
    BY <1>1, <2>1, <2>3, <2>5 DEF Turn, Course, Sequenced, InRoom, Answering, OthersStay
  <2>9. Turn(q)'
    BY <1>1, <2>1, <2>5, <2>7, <2>8 DEF Turn, Repeats
  <2> QED
    BY <1>1, <2>1, <2>5, <2>9, LocalStep
<1> QED
  BY <1>2, <1>3, <1>4

-----------------------------------------------------------------------------
(* The end of a request *)

-----------------------------------------------------------------------------
(* The end of a request *)

\* Two more rows, with the sequences that follow
LEMMA HistoryGrows ==
  ASSUME History, NEW m, m.seq = N + 1
  PROVE  /\ IsFiniteSet(messages \cup {m}) /\ Cardinality(messages \cup {m}) = N + 1
         /\ {n.seq : n \in messages \cup {m}} = 1 .. N + 1
         /\ \A k : k.seq = N + 2 =>
              /\ IsFiniteSet(messages \cup {m, k}) /\ Cardinality(messages \cup {m, k}) = N + 2
              /\ {n.seq : n \in messages \cup {m, k}} = 1 .. N + 2
<1>1. N \in Nat /\ m \notin messages
  BY MessageCount
<1>2. IsFiniteSet(messages \cup {m}) /\ Cardinality(messages \cup {m}) = N + 1
  BY <1>1, FS_AddElement DEF History, N
<1>3. {n.seq : n \in messages \cup {m}} = 1 .. N + 1
  <2>1. {n.seq : n \in messages \cup {m}} = {n.seq : n \in messages} \cup {N + 1}
    OBVIOUS
  <2>2. (1 .. N) \cup {N + 1} = 1 .. N + 1
    BY <1>1
  <2> QED
    BY <2>1, <2>2 DEF History
<1>4. ASSUME NEW k, k.seq = N + 2
      PROVE  /\ IsFiniteSet(messages \cup {m, k}) /\ Cardinality(messages \cup {m, k}) = N + 2
             /\ {n.seq : n \in messages \cup {m, k}} = 1 .. N + 2
  <2> DEFINE M == messages \cup {m}
  <2>1. k \notin M
    <3>1. \A n \in M : n.seq \in 1 .. N + 1
      BY <1>3
    <3> QED
      BY <1>1, <1>4, <3>1
  <2>2. messages \cup {m, k} = M \cup {k}
    OBVIOUS
  <2>3. IsFiniteSet(M \cup {k}) /\ Cardinality(M \cup {k}) = N + 2
    BY <1>1, <1>2, <2>1, FS_AddElement
  <2>4. {n.seq : n \in M \cup {k}} = (1 .. N + 1) \cup {N + 2}
    BY <1>3, <1>4
  <2>5. (1 .. N + 1) \cup {N + 2} = 1 .. N + 2
    BY <1>1
  <2> QED
    BY <2>2, <2>3, <2>4, <2>5
<1> QED
  BY <1>2, <1>3, <1>4

LEMMA CommitStep ==
  ASSUME ChatInv, NEW q \in Requests, Commit(q)
  PROVE  ChatInv'
<1>1. /\ request[q].step \in {"replied", "told", "locked"} /\ Finish(q) /\ room' = RoomAfter(q)
      /\ messages' = messages \cup request[q].wrote
  BY DEF Commit
<1>2. /\ Shapes /\ History /\ Turn(q) /\ N \in Nat
      /\ request[q].op \in {"create", "send", "complete", "delete"}
      /\ request[q].wrote # {} => request[q].op \in {"create", "send"}
  <2>1. Turn(q)
    BY DEF ChatInv
  <2> QED
    BY <1>1, <2>1, MessageCount, Rows DEF ChatInv, Turn, Course, Answering
<1> DEFINE f == [step |-> "done", wrote |-> {}, frames |-> <<>>, seq |-> 0, stream |-> FALSE,
                 open |-> FALSE]
<1>3. DOMAIN f = {"step", "wrote", "frames", "seq", "stream", "open"} /\ f.step = "done"
      /\ f.wrote = {} /\ Set(q, f)
  BY <1>1 DEF Finish
<1> HIDE DEF f
<1>4. /\ DOMAIN request' = Requests /\ OthersStay(q) /\ DOMAIN request'[q] = RequestFields
      /\ request'[q].step = "done" /\ request'[q].wrote = {}
  BY <1>2, <1>3, SetFields DEF RequestFields
<1>5. /\ request'[q].op = request[q].op /\ request'[q].key = request[q].key
      /\ request'[q].replay = request[q].replay
  BY <1>2, <1>3, SetNamed DEF RequestFields
<1>6. DOMAIN room' = {"state", "ended"} /\ room'.state # None
  <2>1. None \notin {"active", "completed", "deleted"}
    BY DEF None
  <2>2. CASE request[q].op = "send"
    BY <1>1, <1>2, <2>2 DEF RoomAfter, Shapes, Turn, InRoom, None
  <2>3. CASE request[q].op # "send"
    BY <1>1, <1>2, <2>1, <2>3 DEF RoomAfter, Shapes
  <2> QED
    BY <2>2, <2>3
<1>7. Shapes'
  BY <1>2, <1>4, <1>6 DEF Shapes, OthersStay
<1>8. OneWriter'
  BY <1>4 DEF ChatInv, OneWriter, OthersStay
<1>9. /\ \A m \in request[q].wrote : m.turn = q
      /\ IsFiniteSet(messages') /\ {m.seq : m \in messages'} = 1 .. N'
      /\ N' \in Nat /\ N <= N'
      /\ N' # N => request[q].wrote # {}
  <2>1. \A n : /\ UserMessage(q, n).seq = n /\ UserMessage(q, n).turn = q
               /\ AgentMessage(q, n).seq = n /\ AgentMessage(q, n).turn = q
    BY DEF UserMessage, AgentMessage
  <2>2. CASE request[q].wrote = {}
    BY <1>1, <1>2, <2>2 DEF N, History
  <2>3. ASSUME NEW m, request[q].wrote = {m}, m.turn = q, m.seq = N + 1
        PROVE  /\ \A n \in request[q].wrote : n.turn = q
               /\ IsFiniteSet(messages') /\ {n.seq : n \in messages'} = 1 .. N'
               /\ N' = N + 1
    BY <1>1, <1>2, <2>3, HistoryGrows DEF N
  <2>4. CASE request[q].wrote = {UserMessage(q, N + 1), AgentMessage(q, N + 2)}
    <3> DEFINE u == UserMessage(q, N + 1)  a == AgentMessage(q, N + 2)
    <3>1. u.turn = q /\ a.turn = q /\ u.seq = N + 1 /\ a.seq = N + 2
      BY <2>1
    <3>2. request[q].wrote = {u, a}
      BY <2>4
    <3> HIDE DEF u, a
    <3>3. messages' = messages \cup {u, a}
      BY <1>1, <3>2
    <3>4. IsFiniteSet(messages') /\ {n.seq : n \in messages'} = 1 .. N + 2 /\ N' = N + 2
      BY <1>2, <3>1, <3>3, HistoryGrows DEF N
    <3> QED
      BY <1>2, <3>1, <3>2, <3>4
  <2> QED
    BY <1>2, <2>1, <2>2, <2>3, <2>4 DEF Turn, Continues
<1>10. ASSUME NEW m \in messages
       PROVE  /\ m.turn \in Requests /\ request'[m.turn].step = "done"
              /\ m.role = "agent" => InTurn(m)'
  <2>1. m.turn \in Requests /\ m.turn # q /\ request'[m.turn] = request[m.turn]
    BY <1>1, <1>2, <1>4 DEF History, OthersStay
  <2>2. messages \subseteq messages'
    BY <1>1
  <2> QED
    BY <1>2, <2>1, <2>2 DEF History, InTurn
<1>11. ASSUME NEW m \in request[q].wrote, m.role = "agent"
       PROVE  InTurn(m)'
  <2>1. m.turn = q
    BY <1>9
  <2>2. CASE request[q].wrote = {UserMessage(q, N + 1)}
    BY <1>11, <2>2 DEF UserMessage
  <2>3. CASE request[q].wrote = {UserMessage(q, N + 1), AgentMessage(q, N + 2)}
    <3>1. m = AgentMessage(q, N + 2)
      BY <1>11, <2>3 DEF UserMessage
    <3> DEFINE u == UserMessage(q, N + 1)
    <3>2. m.seq = N + 2 /\ u.role = "user" /\ u.turn = q /\ u.seq = N + 1
      BY <3>1 DEF UserMessage, AgentMessage
    <3>3. u \in messages'
      BY <1>1, <2>3
    <3> HIDE DEF u
    <3>4. u.seq = m.seq - 1
      BY <1>2, <3>2
    <3> QED
      BY <2>1, <3>2, <3>3, <3>4 DEF InTurn
  <2>4. CASE request[q].wrote = {AgentMessage(q, N + 1)} /\ NeedsNoUser(q)
    <3>1. m.seq = N + 1
      BY <2>4 DEF AgentMessage
    <3>2. CASE request[q].op = "create"
      <4>1. N = 0
        BY <1>1, <1>2, <3>2, MessageCount DEF Turn, InRoom, History
      <4> QED
        BY <1>5, <2>1, <3>1, <3>2, <4>1 DEF InTurn
    <3>3. CASE request[q].replay
      <4>1. PICK u \in messages : u.key = request[q].key
        BY <1>2, <3>3 DEF Turn, Repeats
      <4>2. u \in messages' /\ u.seq < m.seq
        BY <1>1, <1>2, <3>1, <4>1, MessageCount
      <4> QED
        BY <1>5, <2>1, <3>3, <4>1, <4>2 DEF InTurn
    <3> QED
      BY <2>4, <3>2, <3>3 DEF NeedsNoUser
  <2> QED
    BY <1>2, <1>11, <2>2, <2>3, <2>4 DEF Turn, Continues
<1>12. History'
  BY <1>1, <1>4, <1>6, <1>9, <1>10, <1>11 DEF History
<1>13. Turn(q)'
  <2>1. Course(q)' /\ Continues(q)' /\ Sequenced(q)'
    BY <1>4 DEF Course, Continues, Sequenced, Answering
  <2>2. InRoom(q)'
    BY <1>2, <1>4, <1>5, <1>6 DEF Turn, InRoom, OthersStay
  <2>3. Repeats(q) => Repeats(q)'
    BY <1>1, <1>5 DEF Repeats
  <2> QED
    BY <1>2, <1>4, <1>5, <2>1, <2>2, <2>3 DEF Turn
<1>14. ASSUME NEW p \in Requests, p # q
       PROVE  Turn(p)'
  <2>1. request'[p] = request[p] /\ Turn(p)
    BY <1>4, <1>14 DEF ChatInv, OthersStay
  <2>2. N' # N => request[p].wrote = {}
    BY <1>9, <1>14 DEF ChatInv, OneWriter
  <2>3. Course(p)'
    BY <2>1 DEF Turn, Course
  <2>4. InRoom(p)'
    <3>1. request[p].op = "create" => request[p].step = "done"
      <4>1. room.state = None => request[q].op = "create"
        BY <1>1, <1>2 DEF Turn, InRoom, None
      <4> QED
        BY <1>2, <1>14, <2>1, <4>1 DEF Turn, InRoom
    <3> QED
      BY <1>4, <1>5, <1>6, <1>14, <2>1, <3>1 DEF Turn, InRoom, OthersStay
  <2>5. Continues(p)'
    <3>1. CASE request[p].wrote = {}
      BY <2>1, <3>1 DEF Continues
    <3>2. CASE request[p].wrote # {}
      BY <2>1, <2>2, <3>2 DEF Turn, Continues, UserMessage, AgentMessage, NeedsNoUser
    <3> QED
      BY <3>1, <3>2
  <2>6. Sequenced(p)'
    <3>1. CASE request[p].wrote = {}
      BY <1>2, <1>9, <2>1, <3>1 DEF Turn, Sequenced, NeedsNoUser
    <3>2. CASE request[p].wrote # {}
      BY <2>1, <2>2, <3>2 DEF Turn, Sequenced, NeedsNoUser
    <3> QED
      BY <3>1, <3>2
  <2>7. Repeats(p) => Repeats(p)'
    BY <1>1, <2>1 DEF Repeats
  <2> QED
    BY <2>1, <2>3, <2>4, <2>5, <2>6, <2>7 DEF Turn
<1> QED
  BY <1>7, <1>8, <1>12, <1>13, <1>14 DEF ChatInv

LEMMA ChatStep ==
  ASSUME ChatInv, Next \/ UNCHANGED vars
  PROVE  ChatInv'
<1>1. ASSUME NEW q \in Requests, Refuse(q) \/ SuggestionsCome(q) \/ Drop(q)
      PROVE  ChatInv'
  BY <1>1, FinishStep DEF Refuse, SuggestionsCome, Drop, At
<1>2. CASE UNCHANGED vars
  BY <1>2 DEF vars, ChatInv, Shapes, History, InTurn, OneWriter, Turn, Course, InRoom, Continues,
              Sequenced, Repeats, NeedsNoUser, UserMessage, AgentMessage, N
<1> QED
  BY <1>1, <1>2, AnswerSteps, BeginSteps, CheckUserStep, ReadReplyStep, InsertStep, CommitStep
     DEF Next, Step

LEMMA ChatInvHolds == Spec => []ChatInv
<1>1. ChatInv /\ [Next]_vars => ChatInv'
  BY ChatStep
<1> QED
  BY ChatInit, <1>1, PTL DEF Spec

\* Concurrent turns never interleave in the history: its sequences have no gap, and an
\* answer stands right behind its own turn's message, or is the greeting or the answer
\* to a client key that was sent again.
THEOREM TurnsStayWhole == Spec => []TurnsWhole
<1>1. ChatInv => TurnsWhole
  BY DEF ChatInv, History, InTurn, TurnsWhole, N
<1> QED
  BY <1>1, ChatInvHolds, PTL

LEMMA NewMessages ==
  ASSUME ChatInv, Next, NEW m \in messages' \ messages, room.state = "completed"
  PROVE  request[m.turn].open
<1>1. PICK q \in Requests : Commit(q)
  BY DEF Next, Begin, Step, Create, Send, SendStream, Suggest, Prepare, Complete, Delete,
         ProviderAnswers, SuggestionsCome, CheckUser, InsertUser, ReadReply, InsertReply, Insert,
         StreamCloses, TellCompleted, Greet, Refuse, Frame, StreamBreaks, Drop
<1>2. m \in request[q].wrote /\ Turn(q) /\ request[q].step # "done"
  BY <1>1 DEF Commit, ChatInv
<1>3. m.turn = q /\ request[q].op = "send"
  <2>1. request[q].op # "create"
    BY <1>2 DEF Turn, InRoom, None
  <2>2. request[q].op = "send"
    BY <1>2, <2>1 DEF Turn, Continues, Course, NeedsNoUser
  <2> QED
    BY <1>2, <2>2 DEF Turn, Continues, UserMessage, AgentMessage
<1> QED
  BY <1>2, <1>3 DEF Turn

\* What is stored in a room that is completed is from turns that found it active.
THEOREM LateTurnsHadBegun == Spec => LateTurnsBegan
<1>1. ChatInv /\ [Next]_vars =>
        [\A m \in messages' \ messages : room.state = "completed" => request[m.turn].open]_vars
  BY NewMessages
<1> QED
  BY <1>1, ChatInvHolds, PTL DEF Spec, LateTurnsBegan
-----------------------------------------------------------------------------
(* What is made of a stream: FoldLeft takes the frames one by one, and what  *)
(* is kept of a prefix is an invariant of the fold.  The induction over the  *)
(* frames is one over natural numbers.                                       *)

\* A set of natural numbers has a least one
LEMMA LeastNatural ==
  ASSUME NEW T, T \subseteq Nat, T # {}
  PROVE  \E n \in T : \A m \in T : n <= m
<1> DEFINE less == {p \in Nat \X Nat : p[1] < p[2]}
<1>1. IsWellFoundedOn(less, Nat)
  BY NatLessThanWellFounded DEF OpToRel
<1>2. \A x, y \in Nat : x < y => <<x, y>> \in less
  OBVIOUS
<1> HIDE DEF less
<1>3. \E x \in T : \A y \in T : ~(<<y, x>> \in less)
  BY <1>1, WFMin
<1>4. PICK n \in T : \A m \in T : ~(<<m, n>> \in less)
  BY <1>3
<1>5. ASSUME NEW m \in T PROVE n <= m
  <2>1. n \in Nat /\ m \in Nat
    OBVIOUS
  <2>2. ~(m < n)
    BY <1>2, <1>4, <2>1
  <2> QED
    BY <2>1, <2>2
<1> QED
  BY <1>5

\* The last of some of the frames
LEMMA LastOf ==
  ASSUME NEW k \in Nat, NEW s \in SUBSET (1 .. k), s # {}
  PROVE  /\ Max(s) \in s /\ Max(s) \in 1 .. k
         /\ s \ {Max(s)} \in SUBSET (1 .. Max(s) - 1)
<1> DEFINE T == {k - x : x \in s}
<1>1. T \subseteq Nat /\ T # {}
  <2>1. \A x \in s : k - x \in Nat
    OBVIOUS
  <2> QED
    BY <2>1
<1>2. PICK t \in T : \A m \in T : t <= m
  <2> HIDE DEF T
  <2> QED
    BY <1>1, LeastNatural
<1>3. PICK x \in s : t = k - x
  OBVIOUS
<1>4. \A y \in s : x >= y
  <2> TAKE y \in s
  <2>1. k - y \in T /\ x \in 1 .. k /\ y \in 1 .. k
    OBVIOUS
  <2>2. k - x <= k - y
    BY <1>2, <1>3, <2>1
  <2> QED
    BY <2>1, <2>2
<1>5. Max(s) \in s /\ \A y \in s : Max(s) >= y
  BY <1>4 DEF Max
<1> HIDE DEF T
<1>6. \A y \in s : y # Max(s) => y \in 1 .. Max(s) - 1
  <2> TAKE y \in s
  <2>1. y \in 1 .. k /\ Max(s) \in 1 .. k /\ Max(s) >= y
    BY <1>5
  <2> QED
    BY <2>1
<1> QED
  BY <1>5, <1>6

\* What the adapter has made of some of the frames
Heard(frames) ==
  CHOOSE g : g = [s \in SUBSET (DOMAIN frames) |->
                    IF s = {} THEN StreamState
                    ELSE Capture(g[s \ {Max(s)}], frames[Max(s)])]

LEMMA FoldIsHeard ==
  ASSUME NEW frames
  PROVE  FoldLeft(Capture, StreamState, frames) = Heard(frames)[DOMAIN frames]
  BY DEF FoldLeft, MapThenFoldSet, Heard

\* The recursion over the frames has a solution
LEMMA HeardSolves ==
  ASSUME NEW frames, NEW n \in Nat, DOMAIN frames = 1 .. n
  PROVE  \A s \in SUBSET (1 .. n) :
           Heard(frames)[s] = IF s = {} THEN StreamState
                              ELSE Capture(Heard(frames)[s \ {Max(s)}], frames[Max(s)])
<1> DEFINE Solves(g, k) ==
             g = [s \in SUBSET (1 .. k) |->
                    IF s = {} THEN StreamState ELSE Capture(g[s \ {Max(s)}], frames[Max(s)])]
           Solved(k) == \E g : Solves(g, k)
<1>1. Solved(0)
  <2> DEFINE g == [s \in SUBSET (1 .. 0) |-> StreamState]
  <2>1. \A s \in SUBSET (1 .. 0) : s = {}
    OBVIOUS
  <2>2. Solves(g, 0)
    BY <2>1
  <2> QED
    BY <2>2
<1>2. ASSUME NEW k \in Nat, k # 0, Solved(k - 1)
      PROVE  Solved(k)
  <2>1. PICK g : Solves(g, k - 1)
    BY <1>2
  <2> DEFINE h == [s \in SUBSET (1 .. k) |->
                     IF s = {} THEN StreamState ELSE Capture(g[s \ {Max(s)}], frames[Max(s)])]
  <2>2. \A s \in SUBSET (1 .. k - 1) : s \in SUBSET (1 .. k) /\ h[s] = g[s]
    <3> TAKE s \in SUBSET (1 .. k - 1)
    <3>1. s \in SUBSET (1 .. k)
      OBVIOUS
    <3>2. g[s] = IF s = {} THEN StreamState ELSE Capture(g[s \ {Max(s)}], frames[Max(s)])
      BY <2>1
    <3> QED
      BY <3>1, <3>2
  <2>3. \A s \in SUBSET (1 .. k) : s # {} => s \ {Max(s)} \in SUBSET (1 .. k - 1)
    <3> SUFFICES ASSUME NEW s \in SUBSET (1 .. k), s # {}
                 PROVE  s \ {Max(s)} \in SUBSET (1 .. k - 1)
      OBVIOUS
    <3>1. Max(s) \in 1 .. k /\ s \ {Max(s)} \in SUBSET (1 .. Max(s) - 1)
      BY LastOf
    <3>2. 1 .. Max(s) - 1 \subseteq 1 .. k - 1
      BY <3>1
    <3> QED
      BY <3>1, <3>2
  <2>4. \A s \in SUBSET (1 .. k) : s # {} => h[s \ {Max(s)}] = g[s \ {Max(s)}]
    BY <2>2, <2>3
  <2>5. Solves(h, k)
    BY <2>4
  <2> QED
    BY <2>5
<1> HIDE DEF Solved
<1>3. Solved(n)
  <2> DEFINE bad == {k \in Nat : ~Solved(k)}
  <2>1. SUFFICES ASSUME bad # {} PROVE FALSE
    OBVIOUS
  <2>2. PICK k \in bad : \A m \in bad : k <= m
    BY <2>1, LeastNatural
  <2>3. k # 0 /\ k - 1 \in Nat /\ Solved(k - 1)
    BY <1>1, <2>2
  <2> QED
    BY <1>2, <2>2, <2>3
<1>4. PICK g : Solves(g, n)
  BY <1>3 DEF Solved
<1>5. Solves(Heard(frames), n)
  BY <1>4 DEF Heard
<1> QED
  BY <1>5

\* The state after k frames
After(frames, k) == Heard(frames)[1 .. k]

LEMMA AfterFrames ==
  ASSUME NEW frames, NEW n \in Nat, DOMAIN frames = 1 .. n
  PROVE  /\ After(frames, 0) = StreamState
         /\ \A k \in 1 .. n : After(frames, k) = Capture(After(frames, k - 1), frames[k])
         /\ FoldLeft(Capture, StreamState, frames) = After(frames, n)
<1>1. After(frames, 0) = StreamState
  <2>1. {} \in SUBSET (1 .. n) /\ 1 .. 0 = {}
    OBVIOUS
  <2> QED
    BY <2>1, HeardSolves DEF After
<1>2. ASSUME NEW k \in 1 .. n
      PROVE  After(frames, k) = Capture(After(frames, k - 1), frames[k])
  <2>1. 1 .. k \in SUBSET (1 .. n) /\ 1 .. k # {}
    <3>1. k \in 1 .. k /\ \A i \in 1 .. k : i \in 1 .. n
      OBVIOUS
    <3> QED
      BY <3>1
  <2>2. Max(1 .. k) = k
    <3>1. Max(1 .. k) \in 1 .. k /\ (1 .. k) \ {Max(1 .. k)} \in SUBSET (1 .. Max(1 .. k) - 1)
      BY LastOf
    <3>2. k \in 1 .. k
      OBVIOUS
    <3>3. Max(1 .. k) # k => k \in 1 .. Max(1 .. k) - 1
      BY <3>1, <3>2
    <3> QED
      BY <3>1, <3>3
  <2>3. (1 .. k) \ {k} = 1 .. k - 1
    OBVIOUS
  <2> QED
    BY <2>1, <2>2, <2>3, HeardSolves DEF After
<1> QED
  BY <1>1, <1>2, FoldIsHeard DEF After

States == [final : Texts \cup {Unset}, outputs : [Components -> Texts \cup {Unset}]]

\* What the adapter keeps of the first k frames of a flow, none of which is its end
Kept(frames, k, s) ==
  /\ s \in States
  /\ s.final = Unset \/ s.final \in Answers(frames, "ChatOutput")
  /\ \A c \in Components : s.outputs[c] = Unset \/ s.outputs[c] \in Said(frames, c)
  /\ \A i \in 1 .. k :
       IF frames[i].kind = "output" THEN s.outputs[frames[i].from] = frames[i].text
       ELSE frames[i].from = "ChatOutput" /\ frames[i].text # "echo" => s.final # Unset

\* An output that is no echo is an answer
LEMMA Heeded ==
  ASSUME NEW frames, NEW k, NEW s, Kept(frames, k, s), NEW c \in Components
  PROVE  /\ WithoutEcho(s.outputs[c]) \in Texts \cup {Unset}
         /\ WithoutEcho(s.outputs[c]) = Unset \/ WithoutEcho(s.outputs[c]) \in Answers(frames, c)
         /\ s.outputs[c] \notin {Unset, "echo"} => WithoutEcho(s.outputs[c]) # Unset
<1>1. s.outputs[c] \in Texts \cup {Unset}
  BY DEF Kept, States
<1>2. s.outputs[c] = Unset \/ s.outputs[c] \in Said(frames, c)
  BY DEF Kept
<1> QED
  BY <1>1, <1>2 DEF WithoutEcho, Answers

\* What is selected: the answers come in their order, and none is passed over
LEMMA Selected ==
  ASSUME NEW frames, NEW k, NEW s, Kept(frames, k, s)
  PROVE  LET r == SelectFinalOutput(s)
         IN  /\ r \in States /\ r.outputs = s.outputs
             /\ s.final # Unset => r = s
             /\ \/ r.final = Unset
                \/ r.final \in Answers(frames, "ChatOutput")
                \/ /\ r.final \in Answers(frames, "TextOutput")
                   /\ s.final = Unset /\ s.outputs["ChatOutput"] \in {Unset, "echo"}
             /\ \A c \in Components : s.outputs[c] \notin {Unset, "echo"} => r.final # Unset
<1>1. /\ s.final \in Texts \cup {Unset} /\ s.outputs \in [Components -> Texts \cup {Unset}]
      /\ DOMAIN s = {"final", "outputs"} /\ s \in States
  BY DEF Kept, States
<1>2. CASE s.final # Unset
  <2>1. SelectFinalOutput(s) = s
    BY <1>2 DEF SelectFinalOutput
  <2> QED
    BY <1>1, <1>2, <2>1 DEF Kept
<1>3. CASE s.final = Unset
  <2> DEFINE chat == WithoutEcho(s.outputs["ChatOutput"])
             text == WithoutEcho(s.outputs["TextOutput"])
             first == IF chat # Unset THEN chat ELSE text
  <2>1. SelectFinalOutput(s) = [s EXCEPT !.final = first]
    BY <1>3 DEF SelectFinalOutput
  <2>2. /\ chat \in Texts \cup {Unset}
        /\ chat = Unset \/ chat \in Answers(frames, "ChatOutput")
        /\ s.outputs["ChatOutput"] \notin {Unset, "echo"} => chat # Unset
    BY Heeded DEF Components
  <2>3. /\ text \in Texts \cup {Unset}
        /\ text = Unset \/ text \in Answers(frames, "TextOutput")
        /\ s.outputs["TextOutput"] \notin {Unset, "echo"} => text # Unset
    BY Heeded DEF Components
  <2> HIDE DEF chat, text
  <2>4. /\ first \in Texts \cup {Unset}
        /\ \/ first = Unset
           \/ first \in Answers(frames, "ChatOutput")
           \/ /\ first \in Answers(frames, "TextOutput")
              /\ s.outputs["ChatOutput"] \in {Unset, "echo"}
        /\ \A c \in Components : s.outputs[c] \notin {Unset, "echo"} => first # Unset
    <3>1. CASE chat # Unset
      <4>1. first = chat
        BY <3>1
      <4> QED
        BY <2>2, <3>1, <4>1
    <3>2. CASE chat = Unset
      <4>1. first = text
        BY <3>2
      <4>2. s.outputs["ChatOutput"] \in {Unset, "echo"}
        BY <2>2, <3>2
      <4> HIDE DEF first
      <4> QED
        BY <2>3, <4>1, <4>2 DEF Components
    <3> QED
      BY <3>1, <3>2
  <2> HIDE DEF first
  <2>5. /\ SelectFinalOutput(s).final = first /\ SelectFinalOutput(s).outputs = s.outputs
        /\ SelectFinalOutput(s) \in States
    BY <1>1, <2>1, <2>4 DEF States
  <2> QED
    BY <1>3, <2>4, <2>5
<1> QED
  BY <1>2, <1>3

LEMMA KeptStep ==
  ASSUME NEW n \in Nat, NEW frames \in [1 .. n -> Frames], AsDeployed(frames),
         NEW k \in 1 .. n, frames[k].kind # "end", NEW s, Kept(frames, k - 1, s)
  PROVE  Kept(frames, k, Capture(s, frames[k]))
<1> DEFINE f == frames[k]
<1>1. /\ f \in Frames /\ DOMAIN frames = 1 .. n
      /\ \A i \in 1 .. n : frames[i] \in Frames
  OBVIOUS
<1>2. /\ f.kind \in {"end_vertex", "output"} /\ f.from \in Components /\ f.text \in Texts
  BY <1>1 DEF Frames
<1>3. f.text \in Said(frames, f.from)
  BY <1>1 DEF Said
<1>4. /\ f.kind = "end_vertex" /\ f.from = "TextOutput" => f.text = "echo"
      /\ \A i \in 1 .. n : i # k /\ frames[i].kind = f.kind => frames[i].from # f.from
  BY <1>1 DEF AsDeployed
<1>5. \A i \in 1 .. k : i = k \/ i \in 1 .. k - 1
  OBVIOUS
<1>6. /\ s \in States /\ DOMAIN s = {"final", "outputs"}
      /\ s.final \in Texts \cup {Unset} /\ s.outputs \in [Components -> Texts \cup {Unset}]
  BY DEF Kept, States
<1> HIDE DEF f
<1>7. CASE f.kind = "end_vertex"
  <2>1. Capture(s, f) = MapEndVertex(s, f)
    BY <1>7 DEF Capture
  <2>2. CASE f.text = "echo"
    <3>1. MapEndVertex(s, f) = s
      BY <2>2 DEF MapEndVertex, WithoutEcho
    <3> QED
      BY <1>5, <1>7, <2>1, <2>2, <3>1 DEF Kept, f
  <2>3. CASE f.text # "echo"
    <3>1. f.from = "ChatOutput" /\ f.text \in Answers(frames, "ChatOutput") /\ f.text # Unset
      BY <1>2, <1>3, <1>4, <1>7, <2>3 DEF Components, Answers, Texts, Unset
    <3>2. MapEndVertex(s, f) = [s EXCEPT !.final = f.text]
      BY <2>3, <3>1 DEF MapEndVertex, WithoutEcho
    <3>3. /\ MapEndVertex(s, f).final = f.text /\ MapEndVertex(s, f).outputs = s.outputs
          /\ MapEndVertex(s, f) \in States
      BY <1>2, <1>6, <3>2 DEF States
    <3> QED
      BY <1>5, <1>7, <2>1, <3>1, <3>3 DEF Kept, f
  <2> QED
    BY <2>2, <2>3
<1>8. CASE f.kind = "output"
  <2>1. Capture(s, f) = [s EXCEPT !.outputs[f.from] = f.text]
    BY <1>8 DEF Capture, CaptureOutputFrame
  <2> DEFINE outputs == [s.outputs EXCEPT ![f.from] = f.text]
  <2>2. /\ outputs \in [Components -> Texts \cup {Unset}] /\ outputs[f.from] = f.text
        /\ \A c \in Components : c # f.from => outputs[c] = s.outputs[c]
    BY <1>2, <1>6
  <2>3. Capture(s, f) = [s EXCEPT !.outputs = outputs]
    BY <2>1
  <2> HIDE DEF outputs
  <2>4. /\ Capture(s, f).final = s.final /\ Capture(s, f).outputs = outputs
        /\ Capture(s, f) \in States
    BY <1>6, <2>2, <2>3 DEF States
  <2>5. \A c \in Components : outputs[c] = Unset \/ outputs[c] \in Said(frames, c)
    BY <1>3, <2>2 DEF Kept
  <2>6. ASSUME NEW i \in 1 .. k - 1, frames[i].kind = "output"
        PROVE  outputs[frames[i].from] = frames[i].text
    <3>1. i \in 1 .. n /\ i # k
      OBVIOUS
    <3>2. frames[i].from \in Components /\ frames[i].from # f.from
      BY <1>1, <1>4, <1>8, <2>6, <3>1 DEF Frames
    <3> QED
      BY <2>2, <2>6, <3>2 DEF Kept
  <2>7. ASSUME NEW i \in 1 .. k
        PROVE  IF frames[i].kind = "output" THEN outputs[frames[i].from] = frames[i].text
               ELSE frames[i].from = "ChatOutput" /\ frames[i].text # "echo" => s.final # Unset
    BY <1>5, <1>8, <2>2, <2>6 DEF Kept, f
  <2>8. Kept(frames, k, Capture(s, f))
    BY <2>4, <2>5, <2>7 DEF Kept
  <2> QED
    BY <2>8 DEF f
<1> QED
  BY <1>2, <1>7, <1>8 DEF f

\* No answer of a component is passed over
LEMMA Unheard ==
  ASSUME NEW n \in Nat, NEW frames \in [1 .. n -> Frames], AsDeployed(frames),
         NEW m \in Nat, m <= n, \A i \in 1 .. n : i > m => frames[i].kind = "end",
         NEW s, Kept(frames, m, s), NEW c \in Components, NEW t \in Answers(frames, c)
  PROVE  \/ s.outputs[c] \notin {Unset, "echo"}
         \/ c = "ChatOutput" /\ s.final # Unset
<1>1. PICK i \in 1 .. n : frames[i].from = c /\ frames[i].text = t /\ t \notin {"echo", Unset}
  BY DEF Answers, Said
<1>2. frames[i] \in Frames /\ DOMAIN frames = 1 .. n
  OBVIOUS
<1>3. frames[i].kind \in {"end_vertex", "output"} /\ i \in 1 .. m
  BY <1>1, <1>2 DEF Frames, Components
<1>4. CASE frames[i].kind = "output"
  BY <1>1, <1>3, <1>4 DEF Kept
<1>5. CASE frames[i].kind = "end_vertex"
  <2>1. c = "ChatOutput"
    BY <1>1, <1>2, <1>5 DEF AsDeployed, Components
  <2> QED
    BY <1>1, <1>3, <1>5, <2>1 DEF Kept
<1> QED
  BY <1>3, <1>4, <1>5

\* The frames of a flow may come in any order and number
LEMMA DeployedUnderstood ==
  ASSUME NEW frames \in Seq(Frames), AsDeployed(frames)
  PROVE  FinalOutput(frames) = Meant(frames)
<1>1. PICK n \in Nat : n = Len(frames) /\ frames \in [1 .. n -> Frames]
  <2>1. Len(frames) \in Nat /\ frames \in [1 .. Len(frames) -> Frames]
    OBVIOUS
  <2> QED
    BY <2>1
<1>2. DOMAIN frames = 1 .. n
  BY <1>1
<1>3. \A i \in 1 .. n : frames[i].kind = "end" => i = n
  BY <1>1, <1>2 DEF AsDeployed
<1>4. PICK m \in Nat : /\ m <= n
                       /\ \A i \in 1 .. m : frames[i].kind # "end"
                       /\ \/ m = n
                          \/ m = n - 1 /\ n \in 1 .. n /\ frames[n].kind = "end"
  <2>1. CASE n \in 1 .. n /\ frames[n].kind = "end"
    <3>1. n - 1 \in Nat /\ n - 1 <= n /\ \A i \in 1 .. n - 1 : i \in 1 .. n /\ i # n
      BY <2>1
    <3> QED
      BY <1>3, <2>1, <3>1
  <2>2. CASE ~(n \in 1 .. n /\ frames[n].kind = "end")
    <3>1. ASSUME NEW i \in 1 .. n, frames[i].kind = "end" PROVE FALSE
      <4>1. i = n
        BY <1>3, <3>1
      <4> QED
        BY <2>2, <3>1, <4>1
    <3>2. n <= n /\ \A i \in 1 .. n : frames[i].kind # "end"
      BY <3>1
    <3> QED
      BY <3>2
  <2> QED
    BY <2>1, <2>2
<1> DEFINE s == After(frames, m)
           r == SelectFinalOutput(s)
<1>5. Kept(frames, m, s)
  <2> DEFINE bad == {k \in Nat : k <= m /\ ~Kept(frames, k, After(frames, k))}
  <2>1. SUFFICES ASSUME bad # {} PROVE FALSE
    OBVIOUS
  <2>2. PICK k \in bad : \A l \in bad : k <= l
    BY <2>1, LeastNatural
  <2>3. CASE k = 0
    <3>1. After(frames, 0) = StreamState
      BY <1>2, AfterFrames
    <3>2. StreamState \in States /\ StreamState.final = Unset
          /\ \A c \in Components : StreamState.outputs[c] = Unset
      BY DEF StreamState, States
    <3> QED
      BY <2>3, <3>1, <3>2 DEF Kept
  <2>4. CASE k # 0
    <3>1. k \in 1 .. n /\ k \in 1 .. m /\ k - 1 \in Nat /\ k - 1 <= m /\ k - 1 < k
      BY <1>4, <2>4
    <3>2. Kept(frames, k - 1, After(frames, k - 1))
      BY <2>2, <3>1
    <3>3. After(frames, k) = Capture(After(frames, k - 1), frames[k])
      BY <1>2, <3>1, AfterFrames
    <3> QED
      BY <1>1, <1>4, <3>1, <3>2, <3>3, KeptStep
  <2> QED
    BY <2>3, <2>4
<1> DEFINE Chat == Answers(frames, "ChatOutput")
           Text == Answers(frames, "TextOutput")
           End  == Answers(frames, "flow")
<1>6. /\ r \in States /\ r.outputs = s.outputs
      /\ s.final # Unset => r = s
      /\ \/ r.final = Unset
         \/ r.final \in Chat
         \/ r.final \in Text /\ s.final = Unset /\ s.outputs["ChatOutput"] \in {Unset, "echo"}
      /\ \A c \in Components : s.outputs[c] \notin {Unset, "echo"} => r.final # Unset
  BY <1>5, Selected
<1>7. \A i \in 1 .. n : i > m => frames[i].kind = "end"
  <2>1. \A i \in 1 .. n : i > m => i = n
    BY <1>4
  <2> QED
    BY <1>4, <2>1
<1>8. /\ Chat # {} => (s.outputs["ChatOutput"] \notin {Unset, "echo"} \/ s.final # Unset)
      /\ Text # {} => s.outputs["TextOutput"] \notin {Unset, "echo"}
  BY <1>1, <1>4, <1>5, <1>7, Unheard DEF Components
<1>9. /\ Chat # {} => r.final \in Chat
      /\ (Chat = {} /\ Text # {}) => r.final \in Text
      /\ (Chat = {} /\ Text = {}) => r.final = Unset
  <2> HIDE DEF s, r, Chat, Text
  <2> QED
    BY <1>6, <1>8 DEF Components
<1>10. \A i, j \in 1 .. n :
         frames[i].kind = frames[j].kind /\ frames[i].from = frames[j].from => i = j
  BY <1>2 DEF AsDeployed
<1>11. /\ \A a \in Chat : \A b \in Chat : a = b
       /\ \A a \in Text : \A b \in Text : a = b
       /\ \A a \in End : \A b \in End : a = b
  <2>1. \A a \in Chat : \A b \in Chat : a = b
    BY DEF AsDeployed
  <2>2. ASSUME NEW a \in Text, NEW b \in Text PROVE a = b
    <3>1. PICK i \in 1 .. n : frames[i].from = "TextOutput" /\ frames[i].text = a /\ a # "echo"
      BY <1>2 DEF Answers, Said
    <3>2. PICK j \in 1 .. n : frames[j].from = "TextOutput" /\ frames[j].text = b /\ b # "echo"
      BY <1>2 DEF Answers, Said
    <3>3. frames[i] \in Frames /\ frames[j] \in Frames
      BY <1>1
    <3>4. frames[i].kind = "output" /\ frames[j].kind = "output"
      BY <1>2, <3>1, <3>2, <3>3 DEF Frames, AsDeployed
    <3> QED
      BY <1>10, <3>1, <3>2, <3>4
  <2>3. ASSUME NEW a \in End, NEW b \in End PROVE a = b
    <3>1. PICK i \in 1 .. n : frames[i].from = "flow" /\ frames[i].text = a
      BY <1>2 DEF Answers, Said
    <3>2. PICK j \in 1 .. n : frames[j].from = "flow" /\ frames[j].text = b
      BY <1>2 DEF Answers, Said
    <3>3. frames[i] \in Frames /\ frames[j] \in Frames
      BY <1>1
    <3>4. frames[i].kind = "end" /\ frames[j].kind = "end"
      BY <3>1, <3>2, <3>3 DEF Frames, Components
    <3> QED
      BY <1>10, <3>1, <3>2, <3>4
  <2> QED
    BY <2>1, <2>2, <2>3
<1>12. CASE m = n
  <2>1. FinalOutput(frames) = r.final
    BY <1>2, <1>12, AfterFrames DEF FinalOutput
  <2>2. End = {}
    <3>1. \A i \in 1 .. n : frames[i].kind # "end" /\ frames[i] \in Frames
      BY <1>1, <1>4, <1>12
    <3>2. \A i \in 1 .. n : frames[i].from # "flow"
      BY <3>1 DEF Frames, Components
    <3> QED
      BY <1>2, <3>2 DEF Answers, Said
  <2> HIDE DEF s, r, Chat, Text, End
  <2>3. r.final = IF Chat # {} THEN CHOOSE t \in Chat : TRUE
                  ELSE IF Text # {} THEN CHOOSE t \in Text : TRUE
                  ELSE IF End # {} THEN CHOOSE t \in End : TRUE
                  ELSE Unset
    BY <1>9, <1>11, <2>2
  <2> QED
    BY <2>1, <2>3 DEF Meant, Chat, Text, End
<1>13. CASE m = n - 1 /\ n \in 1 .. n /\ frames[n].kind = "end"
  <2> DEFINE f == frames[n]
             e == IF r.final # Unset THEN r ELSE [r EXCEPT !.final = WithoutEcho(f.text)]
  <2>1. After(frames, n) = e
    <3>1. After(frames, n) = Capture(s, f)
      BY <1>2, <1>13, AfterFrames
    <3> QED
      BY <1>13, <3>1 DEF Capture, CaptureEndFrame
  <2>2. FinalOutput(frames) = SelectFinalOutput(e).final
    BY <1>2, <2>1, AfterFrames DEF FinalOutput
  <2>3. f \in Frames
    BY <1>1, <1>13
  <2>4. f.from = "flow" /\ f.text \in Texts \cup {Unset}
    BY <1>13, <2>3 DEF Frames
  <2>5. End = {f.text} \ {"echo", Unset}
    <3>1. \A i \in 1 .. n : frames[i] \in Frames
      BY <1>1
    <3>2. \A i \in 1 .. n : frames[i].from = "flow" => frames[i].kind = "end"
      BY <3>1 DEF Frames, Components
    <3>3. \A i \in 1 .. n : frames[i].from = "flow" => i = n
      BY <1>3, <3>2
    <3> QED
      BY <1>2, <1>13, <2>4, <3>3 DEF Answers, Said
  <2>6. CASE r.final # Unset
    <3>1. SelectFinalOutput(e).final = r.final
      BY <2>6 DEF SelectFinalOutput
    <3>2. Chat # {} \/ Text # {}
      BY <1>9, <2>6
    <3> HIDE DEF s, r, e, Chat, Text, End
    <3>3. r.final = IF Chat # {} THEN CHOOSE t \in Chat : TRUE ELSE CHOOSE t \in Text : TRUE
      BY <1>9, <1>11, <3>2
    <3> QED
      BY <2>2, <3>1, <3>2, <3>3 DEF Meant, Chat, Text
  <2>7. CASE r.final = Unset
    <3> DEFINE own == WithoutEcho(f.text)
    <3>1. Chat = {} /\ Text = {}
      <4>1. Unset \notin Chat /\ Unset \notin Text
        BY DEF Answers
      <4> QED
        BY <1>9, <2>7, <4>1
    <3>2. s.final = Unset /\ s.outputs["ChatOutput"] \in {Unset, "echo"}
          /\ s.outputs["TextOutput"] \in {Unset, "echo"}
      <4> HIDE DEF s, r, Chat, Text
      <4>1. s.final = Unset
        BY <1>6, <2>7
      <4> QED
        BY <1>6, <2>7, <4>1 DEF Components
    <3>3. /\ e = [r EXCEPT !.final = own] /\ DOMAIN r = {"final", "outputs"}
          /\ r.outputs = s.outputs
      <4>1. e = [r EXCEPT !.final = own]
        BY <2>7
      <4> HIDE DEF s, r, e, own
      <4> QED
        BY <1>6, <4>1 DEF States
    <3> HIDE DEF s, r, e, own
    <3>4. e.final = own /\ e.outputs = s.outputs /\ DOMAIN e = {"final", "outputs"}
      BY <3>3
    <3>5. SelectFinalOutput(e).final = own
      <4>1. CASE own # Unset
        BY <3>4, <4>1 DEF SelectFinalOutput
      <4>2. CASE own = Unset
        <5>1. /\ WithoutEcho(e.outputs["ChatOutput"]) = Unset
              /\ WithoutEcho(e.outputs["TextOutput"]) = Unset
          BY <3>2, <3>4 DEF WithoutEcho
        <5>2. SelectFinalOutput(e) = [e EXCEPT !.final = Unset]
          BY <3>4, <4>2, <5>1 DEF SelectFinalOutput
        <5> QED
          BY <3>4, <4>2, <5>2
      <4> QED
        BY <4>1, <4>2
    <3>6. own = IF f.text \in {"echo", Unset} THEN Unset ELSE f.text
      BY <2>4 DEF own, WithoutEcho
    <3>7. own = IF End # {} THEN CHOOSE t \in End : TRUE ELSE Unset
      BY <1>11, <2>5, <3>6
    <3> QED
      BY <2>2, <3>1, <3>5, <3>7 DEF Meant, Chat, Text, End
  <2> QED
    BY <2>6, <2>7
<1> QED
  BY <1>4, <1>12, <1>13

Streams == \A q \in Requests : request[q].frames \in Seq(Frames)

LEMMA SetStreams ==
  ASSUME Shapes, Streams, NEW q \in Requests, NEW fields, DOMAIN fields \subseteq RequestFields,
         Set(q, fields), "frames" \in DOMAIN fields => fields.frames \in Seq(Frames)
  PROVE  Streams'
<1>1. request'[q].frames \in Seq(Frames)
  BY SetFields DEF RequestFields, Streams
<1>2. OthersStay(q)
  BY SetFields
<1> QED
  BY <1>1, <1>2 DEF OthersStay, Streams

LEMMA FinishStreams ==
  ASSUME Shapes, Streams, NEW q \in Requests, Finish(q)
  PROVE  Streams'
<1> DEFINE f == [step |-> "done", wrote |-> {}, frames |-> <<>>, seq |-> 0, stream |-> FALSE,
                 open |-> FALSE]
<1>1. DOMAIN f = {"step", "wrote", "frames", "seq", "stream", "open"} /\ f.frames = <<>>
  OBVIOUS
<1>2. Set(q, f)
  BY DEF Finish
<1> HIDE DEF f
<1>3. <<>> \in Seq(Frames)
  OBVIOUS
<1> QED
  BY <1>1, <1>2, <1>3, SetStreams DEF RequestFields

\* The steps that set fields, none of them the frames
LEMMA PlainStreams ==
  ASSUME Shapes, Streams, NEW q \in Requests, NEW fields, Set(q, fields),
         DOMAIN fields \subseteq RequestFields \ {"frames"}
  PROVE  Streams'
  BY SetStreams

LEMMA InsertStreams ==
  ASSUME Shapes, Streams, NEW q \in Requests, NEW m, NEW next, DOMAIN next = {"step"},
         Insert(q, m, next)
  PROVE  Streams'
<1>1. CASE Finish(q)
  BY <1>1, FinishStreams
<1>2. CASE Set(q, With(next, [wrote |-> request[q].wrote \cup {m}]))
  <2> DEFINE f == With(next, [wrote |-> request[q].wrote \cup {m}])
  <2>1. DOMAIN f = {"step", "wrote"}
    BY DEF With
  <2>2. Set(q, f)
    BY <1>2
  <2> HIDE DEF f
  <2> QED
    BY <2>1, <2>2, PlainStreams DEF RequestFields
<1> QED
  BY <1>1, <1>2 DEF Insert

LEMMA StreamsStep ==
  ASSUME Shapes, Streams, [Next]_vars
  PROVE  Streams'
<1>1. CASE UNCHANGED vars
  BY <1>1 DEF vars, Streams
<1>2. ASSUME NEW q \in Requests,
             Refuse(q) \/ SuggestionsCome(q) \/ Drop(q) \/ Commit(q)
      PROVE  Streams'
  BY <1>2, FinishStreams DEF Refuse, SuggestionsCome, Drop, Commit
<1>3. ASSUME NEW q \in Requests, InsertUser(q) \/ InsertReply(q)
      PROVE  Streams'
  <2>1. CASE InsertUser(q)
    BY <2>1, InsertStreams DEF InsertUser
  <2>2. CASE InsertReply(q)
    BY <2>2, InsertStreams DEF InsertReply
  <2> QED
    BY <1>3, <2>1, <2>2
<1>4. ASSUME NEW q \in Requests, CheckUser(q)
      PROVE  Streams'
  <2>1. CASE Finish(q)
    BY <2>1, FinishStreams
  <2>2. CASE Set(q, [step |-> AfterUser(q), replay |-> TRUE, open |-> TRUE])
    BY <2>2, PlainStreams DEF RequestFields
  <2>3. CASE Set(q, [step |-> "checked", seq |-> NextSequence(q), open |-> TRUE])
    BY <2>3, PlainStreams DEF RequestFields
  <2> QED
    BY <1>4, <2>1, <2>2, <2>3 DEF CheckUser
<1>5. ASSUME NEW q \in Requests, NEW next,
             \/ Set(q, [step |-> next])
             \/ \E n : Set(q, [step |-> next, seq |-> n])
      PROVE  Streams'
  BY <1>5, PlainStreams DEF RequestFields
<1>6. ASSUME NEW q \in Requests,
             \/ ProviderAnswers(q) \/ ReadReply(q) \/ TellCompleted(q) \/ Greet(q)
      PROVE  Streams'
  BY <1>5, <1>6 DEF ProviderAnswers, ReadReply, TellCompleted, Greet
<1>7. ASSUME NEW q \in Requests, StreamCloses(q) \/ StreamBreaks(q)
      PROVE  Streams'
  <2>1. PICK next : Set(q, [step |-> next, frames |-> <<>>])
    BY <1>7 DEF StreamCloses, StreamBreaks
  <2>2. <<>> \in Seq(Frames)
    OBVIOUS
  <2> QED
    BY <2>1, <2>2, SetStreams DEF RequestFields
<1>8. ASSUME NEW q \in Requests, Frame(q)
      PROVE  Streams'
  <2>1. PICK f \in Frames : Set(q, [frames |-> Append(request[q].frames, f)])
    BY <1>8 DEF Frame, WholeResult, Frames, Components, Texts
  <2>2. Append(request[q].frames, f) \in Seq(Frames)
    BY DEF Streams
  <2> QED
    BY <2>1, <2>2, SetStreams DEF RequestFields
<1>9. ASSUME NEW q \in Requests, NEW op, NEW stream, NEW key, Prepare(q, op, stream, key)
      PROVE  Streams'
  <2>1. CASE Set(q, [op |-> op, stream |-> stream, key |-> key, step |-> "prepared",
                     open |-> TRUE])
    BY <2>1, PlainStreams DEF RequestFields
  <2>2. CASE Set(q, [op |-> op, stream |-> stream, key |-> key, step |-> "done"])
    BY <2>2, PlainStreams DEF RequestFields
  <2> QED
    BY <1>9, <2>1, <2>2 DEF Prepare
<1>10. ASSUME NEW q \in Requests, Begin(q)
       PROVE  Streams'
  <2>1. ASSUME NEW stream, Create(q, stream) PROVE Streams'
    BY <2>1, PlainStreams DEF Create, RequestFields
  <2>2. CASE Complete(q)
    <3>1. CASE Set(q, [op |-> "complete", step |-> "done"])
      BY <3>1, PlainStreams DEF RequestFields
    <3>2. CASE Set(q, [op |-> "complete", step |-> "locked", seq |-> Cardinality(messages)])
      BY <3>2, PlainStreams DEF RequestFields
    <3> QED
      BY <2>2, <3>1, <3>2 DEF Complete
  <2>3. ASSUME NEW next, Set(q, [op |-> "delete", step |-> next]) PROVE Streams'
    BY <2>3, PlainStreams DEF RequestFields
  <2>4. CASE Delete(q)
    BY <2>3, <2>4 DEF Delete
  <2> QED
    BY <1>9, <1>10, <2>1, <2>2, <2>4 DEF Begin, Send, SendStream, Suggest
<1> QED
  BY <1>1, <1>2, <1>3, <1>4, <1>6, <1>7, <1>8, <1>10 DEF Next, Step

\* Whatever frames the provider sends of a flow whose TextOutput only echoes in its
\* end_vertex, and in whatever order, the adapter (langflow.py) makes of them the
\* answer of ChatOutput, or of TextOutput if it has none, or else the end's own.
THEOREM StreamsUnderstood == Spec => []StreamMeant
<1>1. Init => Streams
  <2>1. NewRequest.frames = <<>> /\ <<>> \in Seq(Frames)
    BY DEF NewRequest
  <2> QED
    BY <2>1 DEF Init, Streams
<1>2. ChatInv /\ Streams /\ [Next]_vars => Streams'
  BY StreamsStep DEF ChatInv
<1>3. Streams => StreamMeant
  BY DeployedUnderstood DEF Streams, StreamMeant
<1> QED
  BY <1>1, <1>2, <1>3, ChatInvHolds, PTL DEF Spec
=============================================================================
