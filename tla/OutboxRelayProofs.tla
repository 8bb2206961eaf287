------------------------- MODULE OutboxRelayProofs -------------------------
(***************************************************************************)
(* Proofs about OutboxRelay, for any events, workers and batches and any   *)
(* number of faults.                                                       *)
(*                                                                         *)
(* Deliveries of one event race: its handler looks the jobs up, and        *)
(* decides on what it saw when it commits.  Jobs are never removed, so     *)
(* what it saw is still there; what it did not see, the UNIQUE key tells.  *)
(***************************************************************************)
EXTENDS OutboxRelay, SequenceTheorems, TLAPS

\* A sequence, of whatever is in it
IsSequence(s) == \E S : s \in Seq(S)

Shapes ==
  /\ jobs \in [Events -> Nat] /\ faults \in Nat
  /\ IsSequence(stream)
  /\ DOMAIN entries = Workers /\ \A w \in Workers : IsSequence(entries[w])
  /\ DOMAIN pc = Workers /\ DOMAIN sawJob = Workers

\* What a handler is at
Handling(w) ==
  /\ pc[w] # "idle" => entries[w] # <<>>
  /\ sawJob[w] => /\ pc[w] # "idle"
                  /\ Entry(w) \in Handled => jobs[Entry(w)] > 0
  /\ pc[w] = "acking" => Entry(w) \in published

RelayInv == Shapes /\ HandledOnce /\ \A w \in Workers : Handling(w)

-----------------------------------------------------------------------------
(* Sequences *)

LEMMA AppendIs ==
  ASSUME NEW s, IsSequence(s), NEW x
  PROVE  IsSequence(Append(s, x))
<1>1. PICK S : s \in Seq(S)
  BY DEF IsSequence
<1>2. s \in Seq(S \cup {x}) /\ x \in S \cup {x}
  BY <1>1
<1>3. Append(s, x) \in Seq(S \cup {x})
  BY <1>2
<1> QED
  BY <1>3 DEF IsSequence

LEMMA TailIs ==
  ASSUME NEW s, IsSequence(s), s # <<>>
  PROVE  IsSequence(Tail(s)) /\ Tail(s) # s
<1>1. PICK S : s \in Seq(S)
  BY DEF IsSequence
<1>2. Tail(s) \in Seq(S) /\ Len(Tail(s)) = Len(s) - 1 /\ Len(s) \in Nat
  BY <1>1
<1>3. ASSUME Tail(s) = s
      PROVE  FALSE
  <2> DEFINE n == Len(s)
  <2>1. n = n - 1 /\ n \in Nat
    BY <1>2, <1>3
  <2> HIDE DEF n
  <2> QED
    BY <2>1
<1> QED
  BY <1>2, <1>3 DEF IsSequence

LEMMA BatchIs ==
  ASSUME NEW s, IsSequence(s), s # <<>>, NEW n, n = IF Len(s) < Batch THEN Len(s) ELSE Batch
  PROVE  /\ IsSequence(SubSeq(s, 1, n)) /\ SubSeq(s, 1, n) # <<>>
         /\ IsSequence(SubSeq(s, n + 1, Len(s)))
<1>1. PICK S : s \in Seq(S)
  BY DEF IsSequence
<1>2. Len(s) \in Nat \ {0} /\ Batch \in Nat \ {0} /\ n \in 1..Len(s)
  BY <1>1, OutboxConstants
<1>3. SubSeq(s, 1, n) \in Seq(S) /\ Len(SubSeq(s, 1, n)) = n
  <2>1. \A i \in 1..n : s[i] \in S
    BY <1>1, <1>2
  <2> QED
    BY <1>1, <1>2, <2>1, SubSeqProperties
<1>4. SubSeq(s, n + 1, Len(s)) \in Seq(S)
  BY <1>1, <1>2, SubSeqProperties
<1>5. SubSeq(s, 1, n) # <<>>
  BY <1>2, <1>3
<1> QED
  BY <1>3, <1>4, <1>5 DEF IsSequence

-----------------------------------------------------------------------------

LEMMA RelayInit == Init => RelayInv
<1> SUFFICES ASSUME Init
             PROVE  RelayInv
  OBVIOUS
<1>1. <<>> \in Seq({})
  OBVIOUS
<1>2. Shapes
  BY <1>1, OutboxConstants DEF Init, Shapes, IsSequence
<1>3. HandledOnce
  BY OutboxConstants DEF Init, HandledOnce
<1>4. ASSUME NEW w \in Workers
      PROVE  Handling(w)
  <2>1. pc[w] = "idle" /\ sawJob[w] = FALSE
    BY DEF Init
  <2> QED
    BY <2>1 DEF Handling
<1> QED
  BY <1>2, <1>3, <1>4 DEF RelayInv

\* What other dispatchers hold is theirs, and no job and no mark is removed
OnlyMoves(w) ==
  /\ DOMAIN entries' = Workers /\ DOMAIN pc' = Workers /\ DOMAIN sawJob' = Workers
  /\ \A x \in Workers : x # w =>
       entries'[x] = entries[x] /\ pc'[x] = pc[x] /\ sawJob'[x] = sawJob[x]
Grows ==
  /\ jobs' \in [Events -> Nat] /\ \A e \in Events : jobs'[e] >= jobs[e]
  /\ published \subseteq published'

LEMMA HandlerMoves ==
  ASSUME RelayInv, NEW w \in Workers, OnlyMoves(w), Grows,
         IsSequence(entries'[w]), IsSequence(stream'), faults' \in Nat,
         HandledOnce', Handling(w)'
  PROVE  RelayInv'
<1> USE DEF OnlyMoves, Grows
<1>1. OnlyMoves(w)
  OBVIOUS
<1>2. Shapes'
  <2>1. ASSUME NEW x \in Workers
        PROVE  IsSequence(entries'[x])
    BY <1>1 DEF RelayInv, Shapes
  <2> QED
    BY <1>1, <2>1 DEF Shapes
<1>3. ASSUME NEW x \in Workers, x # w
      PROVE  Handling(x)'
  <2>1. Handling(x) /\ entries'[x] = entries[x] /\ pc'[x] = pc[x] /\ sawJob'[x] = sawJob[x]
    BY <1>1, <1>3 DEF RelayInv
  <2>2. Entry(x) \in Handled => jobs'[Entry(x)] >= jobs[Entry(x)] /\ jobs[Entry(x)] \in Nat
                                /\ jobs'[Entry(x)] \in Nat
    BY OutboxConstants DEF RelayInv, Shapes
  <2> QED
    BY <2>1, <2>2 DEF Handling, Entry
<1> QED
  BY <1>2, <1>3 DEF RelayInv

LEMMA RelayStep ==
  ASSUME RelayInv, Next \/ UNCHANGED vars
  PROVE  RelayInv'
<1> USE DEF Shapes
<1>1. /\ \A w \in Workers : Handling(w) /\ IsSequence(entries[w])
      /\ IsSequence(stream) /\ \A e \in Events : jobs[e] \in Nat /\ jobs[e] >= jobs[e]
      /\ jobs \in [Events -> Nat] /\ faults \in Nat
  BY DEF RelayInv
<1>2. CASE UNCHANGED <<jobs, published, entries, pc, sawJob, faults>> /\ IsSequence(stream')
  BY <1>2 DEF RelayInv, HandledOnce, Handling, Entry
<1>3. CASE \E e \in Events : Record(e)
  BY <1>1, <1>2, <1>3 DEF Record, redis, workers
<1>4. ASSUME NEW w \in Workers, RelayRead(w)
      PROVE  RelayInv'
  BY <1>1, <1>2, <1>4 DEF RelayRead, domain, redis
<1>5. ASSUME NEW w \in Workers, RelayPublish(w)
      PROVE  RelayInv'
  BY <1>1, <1>2, <1>5, AppendIs DEF RelayPublish, domain
<1>6. ASSUME NEW w \in Workers, ReadBatch(w)
      PROVE  RelayInv'
  <2> DEFINE n == IF Len(stream) < Batch THEN Len(stream) ELSE Batch
             batch == SubSeq(stream, 1, n)
             rest == SubSeq(stream, n + 1, Len(stream))
  <2>1. IsSequence(batch) /\ batch # <<>> /\ IsSequence(rest)
    BY <1>1, <1>6, BatchIs DEF ReadBatch
  <2>2. /\ entries[w] = <<>> /\ entries' = [entries EXCEPT ![w] = batch] /\ stream' = rest
        /\ UNCHANGED <<jobs, published, pc, sawJob, faults>>
    BY <1>6 DEF ReadBatch, domain
  <2> HIDE DEF n, batch, rest
  <2>3. entries'[w] = batch
    BY <2>2 DEF RelayInv
  <2>4. pc[w] = "idle" /\ ~sawJob[w]
    BY <1>1, <2>2 DEF Handling
  <2>5. Handling(w)'
    BY <2>2, <2>4 DEF Handling
  <2>6. OnlyMoves(w)
    BY <2>2, <2>3 DEF RelayInv, OnlyMoves
  <2>7. HandledOnce'
    BY <2>2 DEF RelayInv, HandledOnce
  <2>8. /\ Grows /\ IsSequence(entries'[w]) /\ IsSequence(stream') /\ faults' \in Nat
    BY <1>1, <2>1, <2>2, <2>3 DEF Grows
  <2> QED
    BY <2>5, <2>6, <2>7, <2>8, HandlerMoves
<1>7. ASSUME NEW w \in Workers, StartHandler(w)
      PROVE  RelayInv'
  <2>1. /\ pc[w] = "idle" /\ entries[w] # <<>> /\ pc' = [pc EXCEPT ![w] = "handling"]
        /\ sawJob' = [sawJob EXCEPT ![w] = jobs[Entry(w)] > 0]
        /\ UNCHANGED <<jobs, published, stream, entries, faults>>
    BY <1>7 DEF StartHandler, domain, redis
  <2>2. pc'[w] = "handling" /\ sawJob'[w] = (jobs[Entry(w)] > 0)
    BY <2>1 DEF RelayInv
  <2>3. Handling(w)'
    BY <2>1, <2>2 DEF Handling, Entry
  <2>4. OnlyMoves(w) /\ IsSequence(entries'[w])
    BY <1>1, <2>1, <2>2 DEF RelayInv, OnlyMoves
  <2>5. HandledOnce'
    BY <2>1 DEF RelayInv, HandledOnce
  <2>6. Grows /\ IsSequence(stream') /\ faults' \in Nat
    BY <1>1, <2>1 DEF Grows
  <2> QED
    BY <2>3, <2>4, <2>5, <2>6, HandlerMoves
<1>8. ASSUME NEW w \in Workers, CommitHandler(w)
      PROVE  RelayInv'
  <2> DEFINE e == Entry(w)
  <2>1. /\ pc[w] = "handling" /\ ~Fails(w) /\ published' = published \cup {e}
        /\ pc' = [pc EXCEPT ![w] = "acking"]
        /\ jobs' = IF Inserts(w) THEN [jobs EXCEPT ![e] = @ + 1] ELSE jobs
        /\ UNCHANGED <<stream, entries, sawJob, faults>>
    BY <1>8 DEF CommitHandler, redis
  <2>2. ASSUME Inserts(w)
        PROVE  e \in Events /\ jobs[e] = 0
    <3>1. e \in Events
      BY <2>2, OutboxConstants DEF Inserts
    <3>2. jobs[e] \in Nat /\ ~(jobs[e] > 0)
      BY <1>1, <2>1, <2>2, <3>1 DEF Fails
    <3> QED
      BY <3>1, <3>2
  <2>3. e \in Handled /\ ~Inserts(w) => jobs[e] > 0
    BY <1>1 DEF Handling, Inserts
  <2> HIDE DEF e
  <2>4. /\ jobs' \in [Events -> Nat]
        /\ \A f \in Events : jobs'[f] = IF Inserts(w) /\ f = e THEN 1 ELSE jobs[f]
    BY <1>1, <2>1, <2>2
  <2>5. \A f \in Events : jobs'[f] >= jobs[f]
    BY <1>1, <2>2, <2>4
  <2>6. ASSUME NEW f \in Handled
        PROVE  jobs'[f] = IF f \in published' THEN 1 ELSE 0
    <3>1. f \in Events /\ jobs[f] = (IF f \in published THEN 1 ELSE 0)
      BY OutboxConstants DEF RelayInv, HandledOnce
    <3>2. CASE f = e
      BY <1>1, <2>1, <2>3, <2>4, <3>1, <3>2
    <3>3. CASE f # e
      BY <2>1, <2>4, <3>1, <3>3
    <3> QED
      BY <3>2, <3>3
  <2>7. HandledOnce'
    BY <2>6 DEF HandledOnce
  <2>8. pc'[w] = "acking"
    BY <2>1 DEF RelayInv
  <2>9. Handling(w)'
    <3>1. entries[w] # <<>> /\ (sawJob[w] /\ e \in Handled => jobs[e] > 0)
      BY <1>1, <2>1 DEF Handling, e
    <3>2. e \in Handled => jobs'[e] >= jobs[e] /\ jobs'[e] \in Nat /\ jobs[e] \in Nat
      BY <1>1, <2>4, <2>5, OutboxConstants
    <3> QED
      BY <2>1, <2>8, <3>1, <3>2 DEF Handling, Entry, e
  <2>10. OnlyMoves(w) /\ IsSequence(entries'[w])
    BY <1>1, <2>1, <2>8 DEF RelayInv, OnlyMoves
  <2>11. Grows
    BY <2>1, <2>4, <2>5 DEF Grows
  <2>12. IsSequence(stream') /\ faults' \in Nat
    BY <1>1, <2>1
  <2> QED
    BY <2>7, <2>9, <2>10, <2>11, <2>12, HandlerMoves
\* The dispatcher leaves an entry, or all of them
<1>9. ASSUME NEW w \in Workers, NEW rest, IsSequence(rest), faults' \in Nat,
             entries' = [entries EXCEPT ![w] = rest], pc' = [pc EXCEPT ![w] = "idle"],
             sawJob' = [sawJob EXCEPT ![w] = FALSE], UNCHANGED <<jobs, published, stream>>
      PROVE  RelayInv'
  <2>1. entries'[w] = rest /\ pc'[w] = "idle" /\ ~sawJob'[w] /\ sawJob'[w] = FALSE
    BY <1>9 DEF RelayInv
  <2>2. Handling(w)'
    BY <2>1 DEF Handling
  <2>3. HandledOnce'
    BY <1>9 DEF RelayInv, HandledOnce
  <2>4. OnlyMoves(w) /\ IsSequence(entries'[w])
    BY <1>9, <2>1 DEF RelayInv, OnlyMoves
  <2>5. IsSequence(stream') /\ Grows
    BY <1>1, <1>9 DEF Grows
  <2> QED
    BY <1>9, <2>2, <2>3, <2>4, <2>5, HandlerMoves
<1>10. ASSUME NEW w \in Workers, pc[w] # "idle", NextEntry(w), faults' \in Nat,
              UNCHANGED <<jobs, published, stream>>
       PROVE  RelayInv'
  <2>1. IsSequence(Tail(entries[w]))
    BY <1>1, <1>10, TailIs DEF Handling
  <2> QED
    BY <1>9, <1>10, <2>1 DEF NextEntry
<1>11. ASSUME NEW w \in Workers, Ack(w) \/ HandlerFails(w) \/ Disturbed(w)
       PROVE  RelayInv'
  BY <1>1, <1>10, <1>11 DEF Ack, HandlerFails, Disturbed, DeadLetter, domain, redis
<1>12. ASSUME NEW w \in Workers, Crash(w)
       PROVE  RelayInv'
  <2>1. IsSequence(<<>>)
    <3>1. <<>> \in Seq({})
      OBVIOUS
    <3> QED
      BY <3>1 DEF IsSequence
  <2>2. /\ entries' = [entries EXCEPT ![w] = <<>>] /\ pc' = [pc EXCEPT ![w] = "idle"]
        /\ sawJob' = [sawJob EXCEPT ![w] = FALSE] /\ UNCHANGED <<jobs, published, stream>>
        /\ faults' \in Nat
    BY <1>1, <1>12 DEF Crash, domain, redis
  <2> QED
    BY <1>9, <2>1, <2>2
<1>13. CASE UNCHANGED vars
  BY <1>1, <1>2, <1>13 DEF vars, domain, redis, workers
<1> QED
  BY <1>3, <1>4, <1>5, <1>6, <1>7, <1>8, <1>11, <1>12, <1>13 DEF Next

LEMMA RelayInvHolds == Spec => []RelayInv
<1>1. RelayInv /\ [Next]_vars => RelayInv'
  BY RelayStep
<1> QED
  BY RelayInit, <1>1, PTL DEF Spec, Safety

\* An event has its jobs once, exactly when it is marked published, however often it
\* is delivered and to however many workers at a time.
THEOREM EventsHandledOnce == Spec => []HandledOnce
<1>1. RelayInv => HandledOnce
  BY DEF RelayInv
<1> QED
  BY <1>1, RelayInvHolds, PTL

LEMMA EntriesSettled ==
  ASSUME RelayInv, Next, NEW w \in Workers,
         entries[w] # <<>>, entries'[w] = Tail(entries[w]), faults' = faults
  PROVE  Entry(w) \in published \cup deadLetters'
<1>1. entries'[w] # entries[w]
  BY TailIs DEF RelayInv, Shapes
<1>2. faults + 1 # faults /\ DOMAIN entries = Workers
  BY DEF RelayInv, Shapes
<1>3. PICK x \in Workers : ReadBatch(x) \/ Ack(x) \/ HandlerFails(x)
  BY <1>1, <1>2
     DEF Next, Record, RelayRead, RelayPublish, StartHandler, CommitHandler, Disturbed, Crash,
         domain, redis, workers
<1>4. x = w
  BY <1>1, <1>2, <1>3 DEF ReadBatch, Ack, HandlerFails, DeadLetter, NextEntry
<1> QED
  BY <1>3, <1>4 DEF ReadBatch, Ack, HandlerFails, DeadLetter, RelayInv, Handling

\* An entry that leaves a dispatcher without a fault is settled: its event is marked
\* published, or is among the dead letters.
THEOREM EntriesSettle == Spec => SettledOnAck
<1>1. RelayInv /\ [Next]_vars =>
        [\A w \in Workers : entries[w] # <<>> /\ entries'[w] = Tail(entries[w]) /\ faults' = faults
           => Entry(w) \in published \cup deadLetters']_vars
  BY EntriesSettled
<1> QED
  BY <1>1, RelayInvHolds, PTL DEF Spec, Safety, SettledOnAck
=============================================================================
