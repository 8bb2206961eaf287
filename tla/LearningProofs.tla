--------------------------- MODULE LearningProofs ---------------------------
(***************************************************************************)
(* Proofs about what MCLearning composes, for any requests, documents,     *)
(* keys, grants and questions: TOEFL attempts, the tools that write a      *)
(* learner's records, and uploads with the podcast made of them.           *)
(***************************************************************************)
EXTENDS MCLearning, SequenceTheorems, TLAPS

(* TOEFL attempts *)

\* A request that writes the attempt holds its lock
Locking(q) == busy[q].step \in {"answering", "submitting", "grading"}

BusyRows == [step : {"idle", "answering", "submitting", "grading", "scoring", "storing"},
             on : Rubrics \cup {"none"}, of : [Questions -> Toefl!Submissions] \cup {<<>>}]

AttemptTypes ==
  /\ attempt \in Toefl!AttemptStates
  /\ answers \in [Questions -> Toefl!Submissions]
  /\ busy \in [Requests -> BusyRows]

OneLocks == \A p, q \in Requests : Locking(p) /\ Locking(q) => p = q

\* What a request that is under way has found of the attempt is so
AtState ==
  \A q \in Requests :
    /\ busy[q].step \in {"answering", "submitting"} => attempt = "in_progress"
    /\ busy[q].step \in {"grading", "scoring", "storing"} => attempt \in {"submitted", "evaluated"}
    /\ busy[q].step = "storing" => busy[q].of = answers

\* An attempt that is open has no score
ToeflInv ==
  /\ AttemptTypes
  /\ OneLocks
  /\ AtState
  /\ ScoredAsSubmitted

LEMMA ToeflInit == Toefl!Init => ToeflInv
<1> SUFFICES ASSUME Toefl!Init PROVE ToeflInv
  OBVIOUS
<1>1. AttemptTypes
  BY DEF Toefl!Init, AttemptTypes, Toefl!AttemptStates, Toefl!Submissions, BusyRows, Toefl!Idle
<1>2. OneLocks /\ AtState
  BY DEF Toefl!Init, Toefl!Idle, OneLocks, Locking, AtState
<1>3. ScoredAsSubmitted
  BY DEF Toefl!Init, ScoredAsSubmitted, Toefl!ScoredAsSubmitted
<1> QED
  BY <1>1, <1>2, <1>3 DEF ToeflInv

\* A request that takes the lock
LEMMA ToeflLock ==
  ASSUME ToeflInv, NEW q \in Requests,
         Toefl!LockToAnswer(q) \/ Toefl!LockToSubmit(q) \/ Toefl!LockToGrade(q)
  PROVE  ToeflInv'
<1>1. PICK step \in {"answering", "submitting", "grading"} :
        /\ busy[q].step = "idle" /\ Toefl!LockFree
        /\ step \in {"answering", "submitting"} => attempt = "in_progress"
        /\ step = "grading" => attempt \in {"submitted", "evaluated"}
        /\ busy' = [busy EXCEPT ![q] = [step |-> step, on |-> "none", of |-> <<>>]]
        /\ UNCHANGED <<attempt, answers, scores>>
  BY DEF Toefl!LockToAnswer, Toefl!LockToSubmit, Toefl!LockToGrade, Toefl!Lock, Toefl!Goto
<1>2. AttemptTypes'
  BY <1>1 DEF ToeflInv, AttemptTypes, BusyRows
<1>3. /\ busy'[q].step = step
      /\ \A p \in Requests : p # q => busy'[p] = busy[p] /\ ~Locking(p)
  BY <1>1 DEF ToeflInv, AttemptTypes, Toefl!LockFree, Locking
<1>4. OneLocks' /\ AtState'
  BY <1>1, <1>3 DEF ToeflInv, OneLocks, AtState, Locking
<1> QED
  BY <1>1, <1>2, <1>4 DEF ToeflInv, ScoredAsSubmitted, Toefl!ScoredAsSubmitted

\* A request that goes from one step of the scoring to the next, or ends
LEMMA ToeflGoes ==
  ASSUME ToeflInv, NEW q \in Requests,
         (\E r \in Rubrics : Toefl!ReadAttempt(q, r)) \/ Toefl!ReadAnswers(q) \/ Toefl!GiveUp(q)
  PROVE  ToeflInv'
<1>1. PICK b \in BusyRows :
        /\ busy' = [busy EXCEPT ![q] = b]
        /\ b.step \in {"idle", "scoring", "storing"}
        /\ b.step # "idle" => attempt \in {"submitted", "evaluated"}
        /\ b.step = "storing" => b.of = answers
        /\ UNCHANGED <<attempt, answers, scores>>
  <2>1. ASSUME NEW r \in Rubrics, Toefl!ReadAttempt(q, r)
        PROVE  [step |-> "scoring", on |-> r, of |-> <<>>] \in BusyRows
    BY DEF BusyRows
  <2>2. [step |-> "storing", on |-> busy[q].on, of |-> answers] \in BusyRows
    BY DEF ToeflInv, AttemptTypes, BusyRows
  <2>3. [step |-> "idle", on |-> "none", of |-> <<>>] \in BusyRows
    BY DEF BusyRows
  <2>4. CASE \E r \in Rubrics : Toefl!ReadAttempt(q, r)
    BY <2>1, <2>4 DEF Toefl!ReadAttempt, Toefl!Goto
  <2>5. CASE Toefl!ReadAnswers(q)
    BY <2>2, <2>5 DEF Toefl!ReadAnswers, Toefl!Goto, ToeflInv, AtState
  <2>6. CASE Toefl!GiveUp(q)
    BY <2>3, <2>6 DEF Toefl!GiveUp, Toefl!Leave, Toefl!Idle
  <2> QED
    BY <2>4, <2>5, <2>6
<1>2. AttemptTypes'
  BY <1>1 DEF ToeflInv, AttemptTypes
<1>3. /\ busy'[q] = b
      /\ \A p \in Requests : p # q => busy'[p] = busy[p]
  BY <1>1 DEF ToeflInv, AttemptTypes
<1>4. OneLocks' /\ AtState'
  BY <1>1, <1>3 DEF ToeflInv, OneLocks, AtState, Locking
<1> QED
  BY <1>1, <1>2, <1>4 DEF ToeflInv, ScoredAsSubmitted, Toefl!ScoredAsSubmitted

\* The commits of the attempt itself: while one is under way nothing is scored,
\* or the lock is free
LEMMA ToeflCommits ==
  ASSUME ToeflInv, NEW q \in Requests,
         \/ \E t \in Questions : Toefl!PutSubmission(q, t)
         \/ Toefl!Submit(q) \/ Toefl!StoreObjective(q) \/ Toefl!RecordWriting(q)
  PROVE  ToeflInv'
<1> DEFINE none == [step |-> "idle", on |-> "none", of |-> <<>>]
<1>1. busy' = [busy EXCEPT ![q] = none] /\ none \in BusyRows
  BY DEF Toefl!PutSubmission, Toefl!Submit, Toefl!StoreObjective, Toefl!RecordWriting, Toefl!Leave,
         Toefl!Idle, BusyRows
<1>2. /\ busy'[q].step = "idle"
      /\ busy' \in [Requests -> BusyRows]
      /\ \A p \in Requests : p # q => busy'[p] = busy[p]
  BY <1>1 DEF ToeflInv, AttemptTypes
<1>3. OneLocks'
  BY <1>2 DEF ToeflInv, OneLocks, Locking
<1>4. ASSUME NEW t \in Questions, Toefl!PutSubmission(q, t)
      PROVE  ToeflInv'
  <2>1. PICK s \in Toefl!Sections, x \in Texts :
          answers' = [answers EXCEPT ![t] = IF @ = <<>> THEN <<s, x>> ELSE <<@[1], x>>]
    BY <1>4 DEF Toefl!PutSubmission
  <2>2. answers' \in [Questions -> Toefl!Submissions]
    BY <2>1 DEF ToeflInv, AttemptTypes, Toefl!Submissions
  <2>3. /\ attempt = "in_progress" /\ UNCHANGED <<attempt, scores>> /\ scores = {}
        /\ \A p \in Requests : busy[p].step # "storing"
    BY <1>4 DEF Toefl!PutSubmission, ToeflInv, AtState, ScoredAsSubmitted, Toefl!ScoredAsSubmitted
  <2>4. AtState'
    BY <1>2, <2>3 DEF ToeflInv, AtState
  <2> QED
    BY <1>2, <1>3, <2>2, <2>3, <2>4
       DEF ToeflInv, AttemptTypes, ScoredAsSubmitted, Toefl!ScoredAsSubmitted
<1>5. CASE Toefl!Submit(q)
  <2>1. /\ busy[q].step = "submitting" /\ attempt = "in_progress" /\ attempt' = "submitted"
        /\ UNCHANGED <<answers, scores>> /\ scores = {}
    BY <1>5 DEF Toefl!Submit, ToeflInv, AtState, ScoredAsSubmitted, Toefl!ScoredAsSubmitted
  <2>2. \A p \in Requests : p # q => busy[p].step \notin {"answering", "submitting"}
    BY <2>1 DEF ToeflInv, OneLocks, Locking
  <2>3. AtState'
    BY <1>2, <2>1, <2>2 DEF ToeflInv, AtState
  <2> QED
    BY <1>2, <1>3, <2>1, <2>3
       DEF ToeflInv, AttemptTypes, Toefl!AttemptStates, ScoredAsSubmitted, Toefl!ScoredAsSubmitted
<1>6. CASE Toefl!StoreObjective(q) \/ Toefl!RecordWriting(q)
  <2>1. PICK new :
          /\ \/ new = {} /\ UNCHANGED attempt
             \/ /\ attempt' = "evaluated"
                /\ \E r, n : /\ new = {[rubric |-> r, of |-> answers, total |-> n]}
                            /\ \A s \in scores : s.rubric # r
          /\ scores' = scores \cup new
          /\ UNCHANGED answers
          /\ attempt \in {"submitted", "evaluated"}
          /\ \A p \in Requests : p # q => busy[p].step \notin {"answering", "submitting"}
    <3>1. CASE Toefl!StoreObjective(q)
      <4>1. /\ busy[q].of = answers /\ attempt \in {"submitted", "evaluated"}
            /\ \A p \in Requests : p # q => busy[p].step \notin {"answering", "submitting"}
        BY <3>1 DEF Toefl!StoreObjective, Toefl!LockFree, ToeflInv, AtState
      <4>2. CASE \E s \in scores : s.rubric = busy[q].on
        <5>1. scores' = scores \cup {} /\ UNCHANGED <<attempt, answers>>
          BY <3>1, <4>2 DEF Toefl!StoreObjective
        <5> QED
          BY <4>1, <5>1
      <4>3. CASE ~ \E s \in scores : s.rubric = busy[q].on
        <5>1. /\ scores' = scores \cup {[rubric |-> busy[q].on, of |-> answers,
                                        total |-> Toefl!ObjectiveTotal(busy[q].of)]}
              /\ attempt' = "evaluated" /\ UNCHANGED answers
          BY <3>1, <4>1, <4>3 DEF Toefl!StoreObjective
        <5> QED
          BY <4>1, <4>3, <5>1
      <4> QED
        BY <4>2, <4>3
    <3>2. CASE Toefl!RecordWriting(q)
      <4>1. \A p \in Requests : p # q => busy[p].step \notin {"answering", "submitting"}
        BY <3>2 DEF Toefl!RecordWriting, ToeflInv, OneLocks, Locking
      <4>2. PICK d \in Toefl!Dimensions :
              scores' = scores \cup {[rubric |-> Toefl!Practice, of |-> answers,
                                     total |-> Toefl!PracticeScore(d)]}
        BY <3>2 DEF Toefl!RecordWriting
      <4>3. /\ attempt = "submitted" /\ attempt' = "evaluated" /\ UNCHANGED answers
            /\ \A s \in scores : s.rubric # Toefl!Practice
        BY <3>2 DEF Toefl!RecordWriting
      <4> QED
        BY <4>1, <4>2, <4>3
    <3> QED
      BY <1>6, <3>1, <3>2
  <2>2. AttemptTypes' /\ AtState'
    BY <1>2, <2>1 DEF ToeflInv, AttemptTypes, Toefl!AttemptStates, AtState
  <2>3. ASSUME new = {}, UNCHANGED attempt
        PROVE  ScoredAsSubmitted'
    <3>1. UNCHANGED <<scores, attempt, answers>>
      BY <2>1, <2>3
    <3> QED
      BY <3>1 DEF ToeflInv, ScoredAsSubmitted, Toefl!ScoredAsSubmitted
  <2>4. ASSUME NEW r, NEW n, new = {[rubric |-> r, of |-> answers, total |-> n]},
               \A s \in scores : s.rubric # r, attempt' = "evaluated"
        PROVE  ScoredAsSubmitted'
    <3> DEFINE row == [rubric |-> r, of |-> answers, total |-> n]
    <3>1. row.rubric = r /\ row.of = answers
      OBVIOUS
    <3> HIDE DEF row
    <3>2. scores' = scores \cup {row} /\ UNCHANGED answers
      BY <2>1, <2>4 DEF row
    <3> QED
      BY <2>4, <3>1, <3>2 DEF ToeflInv, ScoredAsSubmitted, Toefl!ScoredAsSubmitted
  <2>5. ScoredAsSubmitted'
    BY <2>1, <2>3, <2>4
  <2> QED
    BY <1>3, <2>2, <2>5 DEF ToeflInv
<1> QED
  BY <1>4, <1>5, <1>6

LEMMA ToeflStep ==
  ASSUME ToeflInv, Toefl!Next \/ UNCHANGED attempts
  PROVE  ToeflInv'
<1>1. CASE Toefl!StartAttempt
  BY <1>1 DEF Toefl!StartAttempt, ToeflInv, AttemptTypes, Toefl!AttemptStates, OneLocks, Locking,
              AtState, ScoredAsSubmitted, Toefl!ScoredAsSubmitted
<1>2. CASE UNCHANGED attempts
  BY <1>2 DEF attempts, ToeflInv, AttemptTypes, OneLocks, Locking, AtState, ScoredAsSubmitted,
              Toefl!ScoredAsSubmitted
<1> QED
  BY <1>1, <1>2, ToeflLock, ToeflGoes, ToeflCommits DEF Toefl!Next

\* A score is of the answers that stay, an attempt is evaluated exactly when it
\* has one, and a rubric scores it once: answering, submitting, scoring and grading
\* may overlap as the locks allow.
THEOREM AttemptsScoredAsSubmitted == LearningSpec => []ScoredAsSubmitted
<1>1. LearningInit => ToeflInv
  BY ToeflInit DEF LearningInit
<1>2. ToeflInv /\ [LearningNext]_<<vars, records, attempts>> => ToeflInv'
  BY ToeflStep DEF LearningNext
<1>3. ToeflInv => ScoredAsSubmitted
  BY DEF ToeflInv
<1> QED
  BY <1>1, <1>2, <1>3, PTL DEF LearningSpec

-----------------------------------------------------------------------------
(* Tools that write a learner's records *)

\* A change is recorded under its key, and a key is recorded once
CallFields == {"step", "tool", "arg", "key", "saw"}

CallsTyped ==
  /\ DOMAIN asked = Requests
  /\ \A q \in Requests :
       /\ DOMAIN asked[q] = CallFields
       /\ asked[q].step \in {"called", "handled"} => /\ asked[q].tool \in Records!Tools
                                                    /\ asked[q].key \in Keys

ToolsInv ==
  /\ CallsTyped
  /\ DOMAIN applied = Records!Tools \X Keys
  /\ \A c \in Records!Tools \X Keys : applied[c] # <<>> => Records!OfKey(c[1], c[2]) # {}
  /\ ExecutedOnce

LEMMA ToolsInit == Records!Init => ToolsInv
<1> SUFFICES ASSUME Records!Init PROVE ToolsInv
  OBVIOUS
<1>1. CallsTyped
  BY DEF Records!Init, CallsTyped, CallFields, Records!Idle
<1>2. DOMAIN applied = Records!Tools \X Keys /\ \A c \in Records!Tools \X Keys : applied[c] = <<>>
  BY DEF Records!Init
<1> QED
  BY <1>1, <1>2 DEF ToolsInv, ExecutedOnce, Records!ExecutedOnce

\* Steps that commit no change of a tool
LEMMA ToolsQuiet ==
  ASSUME ToolsInv, CallsTyped', UNCHANGED <<executions, applied>>
  PROVE  ToolsInv'
BY DEF ToolsInv, ExecutedOnce, Records!ExecutedOnce, Records!OfKey

LEMMA CallsInv ==
  ASSUME CallsTyped, Records!Next \/ UNCHANGED records
  PROVE  CallsTyped'
<1>1. ASSUME NEW q \in Requests, NEW c, asked' = [asked EXCEPT ![q] = c], DOMAIN c = CallFields,
             c.step \in {"called", "handled"} => c.tool \in Records!Tools /\ c.key \in Keys
      PROVE  CallsTyped'
  BY <1>1 DEF CallsTyped
<1>2. ASSUME NEW q \in Requests, Records!Finish(q) PROVE CallsTyped'
  BY <1>1, <1>2 DEF Records!Finish, Records!Idle, CallFields
<1>3. ASSUME NEW q \in Requests, NEW tool \in Records!ByLearner, Records!Ask(q, tool)
      PROVE  CallsTyped'
  BY <1>1, <1>3 DEF Records!Ask, CallFields
<1>4. ASSUME NEW q \in Requests, NEW g \in Grants, NEW tool \in Records!Tools, NEW key \in Keys,
             Records!CallTool(q, g, tool, key)
      PROVE  CallsTyped'
  BY <1>1, <1>4 DEF Records!CallTool, CallFields
<1>5. ASSUME NEW q \in Requests, Records!ReadRows(q) PROVE CallsTyped'
  BY <1>5 DEF Records!ReadRows, CallsTyped, CallFields
<1>6. CASE UNCHANGED asked
  BY <1>6 DEF CallsTyped
<1> QED
  BY <1>2, <1>3, <1>4, <1>5, <1>6
     DEF Records!Next, records, Records!CommitAsked, Records!CommitTool, Records!Lose,
         Records!IssueGrant, Records!Expire, Records!ValidateGrant

\* The UNIQUE key lets the first of concurrent executions commit its change
LEMMA ToolsCommit ==
  ASSUME ToolsInv, NEW q \in Requests, Records!CommitTool(q)
  PROVE  ToolsInv'
<1> DEFINE r == asked[q]
           refused == Records!Refused(r.tool, r.arg, r.saw)
           k == <<r.tool, r.key>>
           e == [tool |-> r.tool, key |-> r.key, arg |-> r.arg,
                 status |-> IF refused THEN "failed" ELSE "succeeded"]
<1>1. CallsTyped'
  BY CallsInv DEF ToolsInv, Records!Next
<1>2. r.tool \in Records!Tools /\ r.key \in Keys
  BY DEF Records!CommitTool, ToolsInv, CallsTyped
<1>3. CASE UNCHANGED <<executions, applied>>
  BY <1>1, <1>3, ToolsQuiet
<1>4. CASE ~UNCHANGED <<executions, applied>>
  <2>1. /\ Records!OfKey(r.tool, r.key) = {}
        /\ executions' = executions \cup {e}
        /\ IF refused THEN UNCHANGED applied
           ELSE applied' = [applied EXCEPT ![k] = Append(@, r.arg)]
    BY <1>4 DEF Records!CommitTool, Records!KeyTaken
  <2>2. applied[k] = <<>>
    BY <1>2, <2>1 DEF ToolsInv
  <2>3. e.tool = r.tool /\ e.key = r.key /\ e.arg = r.arg /\ (~refused => e.status = "succeeded")
    OBVIOUS
  <2>4. k \in Records!Tools \X Keys /\ k[1] = r.tool /\ k[2] = r.key
    BY <1>2
  <2>5. \A d \in Records!Tools \X Keys : d # k => d[1] # r.tool \/ d[2] # r.key
    OBVIOUS
  <2> HIDE DEF e, k, r, refused
  <2>6. \A d \in Records!Tools \X Keys :
          Records!OfKey(d[1], d[2])' = IF d = k THEN {e} ELSE Records!OfKey(d[1], d[2])
    <3> SUFFICES ASSUME NEW d \in Records!Tools \X Keys
                 PROVE  Records!OfKey(d[1], d[2])' = IF d = k THEN {e} ELSE Records!OfKey(d[1], d[2])
      OBVIOUS
    <3>1. CASE d = k
      BY <2>1, <2>3, <2>4, <3>1 DEF Records!OfKey
    <3>2. CASE d # k
      BY <2>1, <2>3, <2>5, <3>2 DEF Records!OfKey
    <3> QED
      BY <3>1, <3>2
  <2>7. /\ DOMAIN applied' = Records!Tools \X Keys
        /\ \A d \in Records!Tools \X Keys : d # k => applied'[d] = applied[d]
        /\ applied'[k] = IF refused THEN <<>> ELSE <<r.arg>>
    <3>1. DOMAIN applied = Records!Tools \X Keys
      BY DEF ToolsInv
    <3>2. CASE refused
      BY <2>1, <2>2, <3>1, <3>2
    <3>3. CASE ~refused
      <4>1. Append(<<>>, r.arg) = <<r.arg>>
        OBVIOUS
      <4> QED
        BY <2>1, <2>2, <2>4, <3>1, <3>3, <4>1
    <3> QED
      BY <3>2, <3>3
  <2>8. \A d \in Records!Tools \X Keys : applied'[d] # <<>> => Records!OfKey(d[1], d[2])' # {}
    BY <2>6, <2>7 DEF ToolsInv
  <2>9. ExecutedOnce'
    <3> SUFFICES ASSUME NEW d \in Records!Tools \X Keys, applied'[d] # <<>>
                 PROVE  /\ Len(applied'[d]) = 1
                        /\ \A f \in Records!OfKey(d[1], d[2])' :
                             f.status = "succeeded" /\ f.arg = applied'[d][1]
      BY <2>7 DEF ExecutedOnce, Records!ExecutedOnce
    <3>1. CASE d = k
      BY <2>3, <2>6, <2>7, <3>1
    <3>2. CASE d # k
      BY <2>6, <2>7, <3>2 DEF ToolsInv, ExecutedOnce, Records!ExecutedOnce
    <3> QED
      BY <3>1, <3>2
  <2> QED
    BY <1>1, <2>7, <2>8, <2>9 DEF ToolsInv
<1> QED
  BY <1>3, <1>4

LEMMA ToolsStep ==
  ASSUME ToolsInv, Records!Next \/ UNCHANGED records
  PROVE  ToolsInv'
<1>1. CASE \E q \in Requests : Records!CommitTool(q)
  BY <1>1, ToolsCommit
<1>2. CASE UNCHANGED <<executions, applied>>
  BY <1>2, CallsInv, ToolsQuiet DEF ToolsInv
<1> QED
  BY <1>1, <1>2
     DEF Records!Next, records, Records!Ask, Records!CallTool, Records!CommitAsked, Records!ReadRows,
         Records!Lose, Records!IssueGrant, Records!Expire, Records!ValidateGrant

\* However many calls carry one key at once, at most one of them changes the
\* learner's records, and later calls are answered from the execution of it.
THEOREM ToolsExecutedOnce == LearningSpec => []ExecutedOnce
<1>1. LearningInit => ToolsInv
  BY ToolsInit DEF LearningInit
<1>2. ToolsInv /\ [LearningNext]_<<vars, records, attempts>> => ToolsInv'
  BY ToolsStep DEF LearningNext
<1>3. ToolsInv => ExecutedOnce
  BY DEF ToolsInv
<1> QED
  BY <1>1, <1>2, <1>3, PTL DEF LearningSpec

-----------------------------------------------------------------------------
(* Uploads *)

LEMMA SeqUpdate ==
  ASSUME NEW S, NEW s \in Seq(S), NEW i, NEW x, i \in DOMAIN s => x \in S
  PROVE  LET t == [s EXCEPT ![i] = x]
         IN  /\ t \in Seq(S) /\ DOMAIN t = DOMAIN s /\ Len(t) = Len(s)
             /\ \A j \in DOMAIN s : t[j] = IF j = i THEN x ELSE s[j]
<1>1. DOMAIN s = 1..Len(s) /\ s \in [1..Len(s) -> S] /\ Len(s) \in Nat
  OBVIOUS
<1>2. CASE i \in DOMAIN s
  BY <1>1, <1>2, ExceptSeq
<1>3. CASE i \notin DOMAIN s
  <2>1. [s EXCEPT ![i] = x] = s
    BY <1>1, <1>3
  <2> QED
    BY <1>3, <2>1
<1> QED
  BY <1>2, <1>3

\* A scan tells what is in the object, and a document or a recording that is in
\* use was scanned
UploadsInv ==
  /\ content \in [Media -> {"clean", "malicious"}]
  /\ DOMAIN scan = Media
  /\ \A m \in Media : scan[m] = "clean" => content[m] = "clean"
  /\ heard \subseteq Media
  /\ sources \in Seq(SourceRows)
  /\ OnlyCleanUsed

LEMMA UploadsStep ==
  ASSUME UploadsInv, Next \/ UNCHANGED vars
  PROVE  UploadsInv'
<1>1. ASSUME UNCHANGED <<content, scan, heard, sources>>
      PROVE  UploadsInv'
  BY <1>1 DEF UploadsInv, OnlyCleanUsed
<1>2. ASSUME NEW m \in Media, Finalize(m) \/ ApplyScan(m)
      PROVE  UploadsInv'
  <2>1. PICK v \in {content[m], "error", scan[m]} :
          scan' = [scan EXCEPT ![m] = v] /\ UNCHANGED <<content, heard, sources>>
    BY <1>2 DEF Finalize, ApplyScan, Verdicts, stories
  <2> QED
    BY <2>1 DEF UploadsInv, OnlyCleanUsed
<1>3. ASSUME NEW m \in Media, Transcribe(m) \/ VoiceNote(m)
      PROVE  UploadsInv'
  BY <1>3 DEF Transcribe, VoiceNote, Hear, Usable, stories, UploadsInv, OnlyCleanUsed
<1>4. ASSUME NEW m \in Media, AddSource(m)
      PROVE  UploadsInv'
  <2> DEFINE s == [media |-> m, parse |-> "pending"]
  <2>1. s \in SourceRows /\ s.media = m /\ content[m] = "clean"
    BY <1>4 DEF AddSource, Usable, SourceRows, UploadsInv
  <2>2. sources' = Append(sources, s) /\ UNCHANGED uploads
    BY <1>4 DEF AddSource
  <2> HIDE DEF s
  <2>3. /\ sources' \in Seq(SourceRows)
        /\ \A r \in DOMAIN sources' :
             (r \in DOMAIN sources /\ sources'[r] = sources[r]) \/ sources'[r] = s
    BY <2>1, <2>2 DEF UploadsInv
  <2> QED
    BY <2>1, <2>2, <2>3 DEF uploads, UploadsInv, OnlyCleanUsed
<1>5. ASSUME NEW q \in Requests, ApplyIngestion(q)
      PROVE  UploadsInv'
  <2>1. UNCHANGED uploads
    BY <1>5 DEF ApplyIngestion
  <2>2. /\ sources' \in Seq(SourceRows) /\ DOMAIN sources' = DOMAIN sources
        /\ \A r \in DOMAIN sources : sources'[r].media = sources[r].media
    <3> DEFINE i == work[q].on
               x == [sources[i] EXCEPT !.parse = "parsed"]
    <3>1. sources \in Seq(SourceRows)
      BY DEF UploadsInv
    <3>2. sources' = sources \/ sources' = [sources EXCEPT ![i] = x]
      BY <1>5 DEF ApplyIngestion
    <3>3. i \in DOMAIN sources => x \in SourceRows /\ x.media = sources[i].media
      <4>1. i \in DOMAIN sources => sources[i] \in SourceRows
        BY <3>1
      <4> QED
        BY <4>1 DEF SourceRows
    <3> HIDE DEF i, x
    <3> QED
      BY <3>1, <3>2, <3>3, SeqUpdate
  <2> QED
    BY <2>1, <2>2 DEF uploads, UploadsInv, OnlyCleanUsed
<1>6. ASSUME Delete
      PROVE  UploadsInv'
  BY <1>6 DEF Delete, uploads, UploadsInv, OnlyCleanUsed
<1> QED
  BY <1>1, <1>2, <1>3, <1>4, <1>5, <1>6
     DEF Next, vars, uploads, stories, Register, CreatePodcast, SourceUploaded, Trigger, LockSource,
         IngestionFails, Abort, CreateScript, ReadScript, AddSegment, MarkReady, Play, ScriptComes,
         NoScript, CacheAudio, StartPlayback, ReadInterrupt, Interrupt, ReadEnd, EndPlayback,
         CompleteSession

\* Nothing that a scanner would reject becomes a document or is transcribed,
\* whichever scans are repeated, fail or come late.
THEOREM OnlyCleanUploadsUsed == LearningSpec => []OnlyCleanUsed
<1>1. Init => UploadsInv
  BY DEF Init, UploadsInv, OnlyCleanUsed
<1>2. UploadsInv /\ [LearningNext]_<<vars, records, attempts>> => UploadsInv'
  BY UploadsStep DEF LearningNext, PodcastsNext, vars
<1>3. UploadsInv => OnlyCleanUsed
  BY DEF UploadsInv
<1> QED
  BY <1>1, <1>2, <1>3, PTL DEF LearningSpec, LearningInit

-----------------------------------------------------------------------------
(* Podcasts *)

ScriptBook   == [source : Nat, status : {"draft", "ready"}, speakers : SUBSET Speakers]
PlaybackBook == [script : Nat, state : {"playing", "interrupted", "ended"}, epoch : Nat,
                 session : {"active", "completed"}, announced : Nat]
PodcastBook  == [state : {"none", "created", "source_processing", "source_ready",
                          "script_generating", "script_ready", "gone"},
                 source : Nat, script : Nat]
WorkRows     == [step : {"idle", "marking", "adding", "generating", "interrupting", "ending"},
                 on : Nat, saw : {"none", "pending", "parsed", "active", "completed"}]

StoryTypes ==
  /\ podcast \in PodcastBook
  /\ sources \in Seq(SourceRows)
  /\ scripts \in Seq(ScriptBook)
  /\ playbacks \in Seq(PlaybackBook)
  /\ work \in [Requests -> WorkRows]

\* The current document stays while a script is written from it
CurrentSource ==
  /\ podcast.source # 0 => podcast.source \in DOMAIN sources
  /\ \A q \in Requests : At(q, "generating") =>
       /\ work[q].on = podcast.source /\ podcast.source # 0
       /\ sources[podcast.source].parse = "parsed"

\* A request that interrupts or ends a playback holds it, and what it has found
\* of it is so
Holding(q) == work[q].step \in {"interrupting", "ending"}

HeldPlaybacks ==
  /\ \A p, q \in Requests : Holding(p) /\ Holding(q) /\ work[p].on = work[q].on => p = q
  /\ \A q \in Requests : Holding(q) =>
       /\ work[q].on \in DOMAIN playbacks
       /\ At(q, "interrupting") => playbacks[work[q].on].state = "playing"
       /\ At(q, "ending") => /\ playbacks[work[q].on].state # "ended"
                             /\ work[q].saw # "active" => playbacks[work[q].on].session = "completed"

\* A playback ends with its conversation, whose completion was announced
Ended(b) == /\ b.state = "ended" => b.session = "completed"
            /\ b.session = "completed" => b.announced > 0

PodcastInv ==
  /\ StoryTypes
  /\ CurrentSource
  /\ HeldPlaybacks
  /\ \A p \in DOMAIN playbacks : Ended(playbacks[p])

LEMMA PodcastInit == Init => PodcastInv
<1> SUFFICES ASSUME Init PROVE PodcastInv
  OBVIOUS
<1>1. StoryTypes
  BY DEF Init, StoryTypes, PodcastBook, WorkRows, Idle
<1>2. CurrentSource /\ HeldPlaybacks
  BY DEF Init, CurrentSource, HeldPlaybacks, Holding, At, Idle
<1> QED
  BY <1>1, <1>2 DEF PodcastInv, Init

\* What the steps do to the requests
LEMMA WorkStep ==
  ASSUME StoryTypes, Next
  PROVE  \/ UNCHANGED work
         \/ \E q \in Requests : \E b \in WorkRows :
              /\ work' = [work EXCEPT ![q] = b]
              /\ \/ b.step = "idle"
                 \/ b.step \in {"marking", "adding"} /\ UNCHANGED stories
                 \/ b.step = "generating" /\ b.on = podcast.source /\ Play(q)
                 \/ b.step = "interrupting" /\ b.on \in DOMAIN playbacks /\ ReadInterrupt(q, b.on)
                 \/ /\ b.step = "ending" /\ b.on \in DOMAIN playbacks /\ ReadEnd(q, b.on)
                    /\ b.saw = playbacks[b.on].session
<1>1. ASSUME NEW q \in Requests, Done(q)
      PROVE  Idle \in WorkRows /\ Idle.step = "idle" /\ work' = [work EXCEPT ![q] = Idle]
  BY <1>1 DEF Done, Idle, WorkRows
<1>2. ASSUME NEW q \in Requests, NEW r \in 1..MaxSources, LockSource(q, r)
      PROVE  [step |-> "marking", on |-> r, saw |-> sources[r].parse] \in WorkRows
  <2>1. r \in DOMAIN sources /\ sources \in Seq(SourceRows)
    BY <1>2 DEF LockSource, StoryTypes
  <2>2. r \in Nat /\ sources[r] \in SourceRows
    BY <2>1
  <2> QED
    BY <2>2 DEF SourceRows, WorkRows
<1>3. ASSUME NEW s \in 1..MaxScripts
      PROVE  [step |-> "adding", on |-> s, saw |-> "none"] \in WorkRows
  BY DEF WorkRows
<1>4. [step |-> "generating", on |-> podcast.source, saw |-> "none"] \in WorkRows
  BY DEF StoryTypes, PodcastBook, WorkRows
<1>5. ASSUME NEW p \in 1..MaxPlaybacks, p \in DOMAIN playbacks
      PROVE  /\ [step |-> "interrupting", on |-> p, saw |-> "none"] \in WorkRows
             /\ [step |-> "ending", on |-> p, saw |-> playbacks[p].session] \in WorkRows
  <2>1. playbacks \in Seq(PlaybackBook)
    BY DEF StoryTypes
  <2>2. p \in Nat /\ playbacks[p] \in PlaybackBook
    BY <1>5, <2>1
  <2> QED
    BY <2>2 DEF PlaybackBook, WorkRows
<1>6. CASE \E q \in Requests : \E r \in 1..MaxSources : LockSource(q, r)
  BY <1>2, <1>6 DEF LockSource, Set
<1>7. CASE \E q \in Requests : \E s \in 1..MaxScripts : ReadScript(q, s)
  BY <1>3, <1>7 DEF ReadScript, Set
<1>8. CASE \E q \in Requests : Play(q)
  BY <1>4, <1>8 DEF Play, Set
<1>9. CASE \E q \in Requests : \E p \in 1..MaxPlaybacks : ReadInterrupt(q, p)
  BY <1>5, <1>9 DEF ReadInterrupt, Set
<1>10. CASE \E q \in Requests : \E p \in 1..MaxPlaybacks : ReadEnd(q, p)
  BY <1>5, <1>10 DEF ReadEnd, Set
<1>11. CASE \E q \in Requests : Done(q)
  BY <1>1, <1>11
<1>12. CASE UNCHANGED work
  BY <1>12
<1> QED
  BY <1>6, <1>7, <1>8, <1>9, <1>10, <1>11, <1>12
     DEF Next, Register, Finalize, ApplyScan, Transcribe, VoiceNote, Hear, AddSource, CreatePodcast,
         Delete, SourceUploaded, Trigger, CreateScript, MarkReady, CacheAudio, StartPlayback,
         CompleteSession, ApplyIngestion, AddSegment, ScriptComes, NoScript, IngestionFails,
         Interrupt, EndPlayback, Abort

LEMMA PlaybackRecords ==
  ASSUME NEW b \in PlaybackBook
  PROVE  /\ LET x == [b EXCEPT !.state = "interrupted", !.epoch = @ + 1]
            IN  /\ x \in PlaybackBook /\ x.state = "interrupted"
                /\ x.session = b.session /\ x.announced = b.announced
         /\ LET x == [b EXCEPT !.session = "completed", !.announced = @ + 1]
            IN  /\ x \in PlaybackBook /\ x.session = "completed" /\ x.announced > 0
                /\ x.state = b.state /\ x.epoch = b.epoch
<1> DEFINE n == b.epoch + 1
           k == b.announced + 1
<1>1. n \in Nat /\ k \in Nat /\ k > 0
  BY DEF PlaybackBook
<1> HIDE DEF n, k
<1>2. [b EXCEPT !.state = "interrupted", !.epoch = n] \in PlaybackBook
  BY <1>1 DEF PlaybackBook
<1>3. LET x == [b EXCEPT !.state = "interrupted", !.epoch = n]
      IN  x.state = "interrupted" /\ x.session = b.session /\ x.announced = b.announced
  BY DEF PlaybackBook
<1>4. [b EXCEPT !.session = "completed", !.announced = k] \in PlaybackBook
  BY <1>1 DEF PlaybackBook
<1>5. LET x == [b EXCEPT !.session = "completed", !.announced = k]
      IN  x.session = "completed" /\ x.announced = k /\ x.state = b.state /\ x.epoch = b.epoch
  BY DEF PlaybackBook
<1>6. /\ [b EXCEPT !.state = "interrupted", !.epoch = n]
           = [b EXCEPT !.state = "interrupted", !.epoch = @ + 1]
      /\ [b EXCEPT !.session = "completed", !.announced = k]
           = [b EXCEPT !.session = "completed", !.announced = @ + 1]
  BY DEF n, k, PlaybackBook
<1> QED
  BY <1>1, <1>2, <1>3, <1>4, <1>5, <1>6

\* What a request that holds a playback makes of it
LEMMA HeldPlaybackMoves ==
  ASSUME PodcastInv, NEW q \in Requests, Interrupt(q) \/ EndPlayback(q)
  PROVE  LET p == work[q].on
         IN  /\ Holding(q) /\ p \in DOMAIN playbacks
             /\ playbacks[p].state # "ended"
             /\ \E x \in PlaybackBook :
                  /\ playbacks' = [playbacks EXCEPT ![p] = x]
                  /\ Ended(x)
                  /\ playbacks[p].session = "completed" => x.session = "completed"
<1> DEFINE p == work[q].on
           b == playbacks[p]
<1>1. Holding(q) /\ p \in DOMAIN playbacks
  BY DEF Interrupt, EndPlayback, At, Holding, PodcastInv, HeldPlaybacks
<1>2. b \in PlaybackBook /\ Ended(b) /\ playbacks \in Seq(PlaybackBook)
  BY <1>1 DEF PodcastInv, StoryTypes
<1>3. CASE Interrupt(q)
  <2> DEFINE x == [b EXCEPT !.state = "interrupted", !.epoch = @ + 1]
             y == [b EXCEPT !.state = "interrupted"]
  <2>1. b.state = "playing"
    BY <1>1, <1>3 DEF Interrupt, PodcastInv, HeldPlaybacks
  <2>2. /\ x \in PlaybackBook /\ x.state = "interrupted"
        /\ x.session = b.session /\ x.announced = b.announced
    BY <1>2, PlaybackRecords
  <2>3. playbacks' = [[playbacks EXCEPT ![p] = y] EXCEPT ![p].epoch = @ + 1]
    BY <1>3 DEF Interrupt
  <2>4. [playbacks EXCEPT ![p] = y][p] = y
    BY <1>1
  <2>5. x = [y EXCEPT !.epoch = @ + 1]
    BY <1>2 DEF PlaybackBook
  <2> HIDE DEF p, b, x, y
  <2>6. playbacks' = [playbacks EXCEPT ![p] = x]
    BY <1>1, <1>2, <2>3, <2>4, <2>5
  <2> QED
    BY <1>1, <1>2, <2>1, <2>2, <2>6 DEF Ended, p, b
<1>4. CASE EndPlayback(q)
  <2> DEFINE c == [b EXCEPT !.session = "completed", !.announced = @ + 1]
             d == IF work[q].saw = "active" THEN c ELSE b
             x == [d EXCEPT !.state = "ended"]
  <2>1. /\ b.state # "ended"
        /\ work[q].saw # "active" => b.session = "completed"
    BY <1>1, <1>4 DEF EndPlayback, PodcastInv, HeldPlaybacks
  <2>2. /\ c \in PlaybackBook /\ c.session = "completed" /\ c.announced > 0
    BY <1>2, PlaybackRecords
  <2>3. playbacks' = [playbacks EXCEPT ![p] = x]
    BY <1>4 DEF EndPlayback, Completed
  <2> HIDE DEF c
  <2>4. d \in PlaybackBook /\ d.session = "completed" /\ d.announced > 0
    BY <1>2, <2>1, <2>2 DEF Ended
  <2> HIDE DEF d
  <2>5. /\ x \in PlaybackBook /\ x.session = "completed" /\ x.announced > 0
    BY <2>4 DEF PlaybackBook
  <2> QED
    BY <1>1, <2>1, <2>3, <2>5 DEF Ended
<1> QED
  BY <1>3, <1>4

\* A session completed on its own
LEMMA SessionMoves ==
  ASSUME PodcastInv, NEW p, CompleteSession(p)
  PROVE  /\ p \in DOMAIN playbacks
         /\ \E x \in PlaybackBook :
              /\ playbacks' = [playbacks EXCEPT ![p] = x]
              /\ x.state = playbacks[p].state /\ x.epoch = playbacks[p].epoch
              /\ x.session = "completed" /\ x.announced > 0
<1> DEFINE x == [playbacks[p] EXCEPT !.session = "completed", !.announced = @ + 1]
<1>1. p \in DOMAIN playbacks /\ playbacks' = [playbacks EXCEPT ![p] = x]
  BY DEF CompleteSession, Completed
<1>2. playbacks[p] \in PlaybackBook
  BY <1>1 DEF PodcastInv, StoryTypes
<1>3. /\ x \in PlaybackBook /\ x.state = playbacks[p].state /\ x.epoch = playbacks[p].epoch
      /\ x.session = "completed" /\ x.announced > 0
  BY <1>2, PlaybackRecords
<1> QED
  BY <1>1, <1>3

LEMMA StoryTypesStep ==
  ASSUME PodcastInv, Next
  PROVE  StoryTypes'
<1>1. work' \in [Requests -> WorkRows]
  BY WorkStep DEF PodcastInv, StoryTypes
<1>2. /\ podcast \in PodcastBook /\ sources \in Seq(SourceRows)
      /\ scripts \in Seq(ScriptBook) /\ playbacks \in Seq(PlaybackBook)
      /\ Len(sources) \in Nat /\ Len(scripts) \in Nat
  BY DEF PodcastInv, StoryTypes
<1>3. ASSUME NEW r \in Nat, NEW status \in {"draft", "ready"}, NEW speakers \in SUBSET Speakers,
             NewScript(r, status, speakers)
      PROVE  scripts' \in Seq(ScriptBook)
  <2>1. [source |-> r, status |-> status, speakers |-> speakers] \in ScriptBook
    BY DEF ScriptBook
  <2> QED
    BY <1>2, <1>3, <2>1 DEF NewScript
<1>4. ASSUME NEW s \in Nat, NewPlayback(s)
      PROVE  playbacks' \in Seq(PlaybackBook)
  <2>1. [script |-> s, state |-> "playing", epoch |-> 0, session |-> "active", announced |-> 0]
          \in PlaybackBook
    BY DEF PlaybackBook
  <2> QED
    BY <1>2, <1>4, <2>1 DEF NewPlayback
<1>5. sources' \in Seq(SourceRows)
  <2>1. ASSUME NEW m \in Media, AddSource(m)
        PROVE  sources' \in Seq(SourceRows)
    <3>1. [media |-> m, parse |-> "pending"] \in SourceRows
      BY <2>1 DEF AddSource, SourceRows
    <3> QED
      BY <1>2, <2>1, <3>1 DEF AddSource
  <2>2. ASSUME NEW q \in Requests, ApplyIngestion(q)
        PROVE  sources' \in Seq(SourceRows)
    <3> DEFINE i == work[q].on
               x == [sources[i] EXCEPT !.parse = "parsed"]
    <3>1. sources' = sources \/ sources' = [sources EXCEPT ![i] = x]
      BY <2>2 DEF ApplyIngestion
    <3>2. i \in DOMAIN sources => sources[i] \in SourceRows
      BY <1>2
    <3>3. i \in DOMAIN sources => x \in SourceRows
      BY <3>2 DEF SourceRows
    <3> HIDE DEF i, x
    <3> QED
      BY <1>2, <3>1, <3>3, SeqUpdate
  <2>3. CASE UNCHANGED sources
    BY <1>2, <2>3
  <2>4. CASE Delete
    BY <2>4 DEF Delete
  <2> QED
    BY <2>1, <2>2, <2>3, <2>4
       DEF Next, stories, Register, Finalize, ApplyScan, Transcribe, VoiceNote, Hear, CreatePodcast,
           SourceUploaded, Trigger, CreateScript, MarkReady, CacheAudio, StartPlayback,
           CompleteSession, AddSegment, Play, ScriptComes, NoScript, IngestionFails, Interrupt,
           EndPlayback, Abort, LockSource, ReadScript, ReadInterrupt, ReadEnd
<1>6. scripts' \in Seq(ScriptBook)
  <2>1. ASSUME NEW s, NEW x, scripts' = [scripts EXCEPT ![s] = x],
               s \in DOMAIN scripts => x \in ScriptBook
        PROVE  scripts' \in Seq(ScriptBook)
    BY <1>2, <2>1, SeqUpdate
  <2>2. ASSUME NEW q \in Requests, AddSegment(q)
        PROVE  scripts' \in Seq(ScriptBook)
    <3> DEFINE i == work[q].on
    <3>1. PICK v \in Speakers :
            scripts' = [scripts EXCEPT ![i] = [scripts[i] EXCEPT !.speakers = @ \cup {v}]]
      BY <2>2 DEF AddSegment
    <3>2. i \in DOMAIN scripts => scripts[i] \in ScriptBook
      BY <1>2
    <3>3. i \in DOMAIN scripts => [scripts[i] EXCEPT !.speakers = @ \cup {v}] \in ScriptBook
      BY <3>2 DEF ScriptBook
    <3> HIDE DEF i
    <3> QED
      BY <2>1, <3>1, <3>3
  <2>3. ASSUME NEW s \in 1..MaxScripts, MarkReady(s)
        PROVE  scripts' \in Seq(ScriptBook)
    <3>1. scripts' = [scripts EXCEPT ![s] = [scripts[s] EXCEPT !.status = "ready"]]
      BY <2>3 DEF MarkReady
    <3>2. s \in DOMAIN scripts => scripts[s] \in ScriptBook
      BY <1>2
    <3>3. s \in DOMAIN scripts => [scripts[s] EXCEPT !.status = "ready"] \in ScriptBook
      BY <3>2 DEF ScriptBook
    <3> QED
      BY <2>1, <3>1, <3>3
  <2>4. ASSUME NEW r \in 1..MaxSources, CreateScript(r)
        PROVE  scripts' \in Seq(ScriptBook)
    BY <1>2, <1>3, <2>4 DEF CreateScript
  <2>5. ASSUME NEW q \in Requests, ScriptComes(q)
        PROVE  scripts' \in Seq(ScriptBook)
    <3>1. work[q].on \in Nat
      BY DEF PodcastInv, StoryTypes, WorkRows
    <3> QED
      BY <1>3, <2>5, <3>1 DEF ScriptComes
  <2>6. CASE UNCHANGED scripts
    BY <1>2, <2>6
  <2> QED
    BY <2>2, <2>3, <2>4, <2>5, <2>6
       DEF Next, stories, Register, Finalize, ApplyScan, Transcribe, VoiceNote, Hear, AddSource,
           CreatePodcast, Delete, SourceUploaded, Trigger, CacheAudio, StartPlayback, ApplyIngestion,
           CompleteSession, Play, NoScript, IngestionFails, Interrupt, EndPlayback, Abort,
           LockSource, ReadScript, ReadInterrupt, ReadEnd
<1>7. playbacks' \in Seq(PlaybackBook)
  <2>1. ASSUME NEW p, NEW x \in PlaybackBook, playbacks' = [playbacks EXCEPT ![p] = x]
        PROVE  playbacks' \in Seq(PlaybackBook)
    BY <1>2, <2>1, SeqUpdate
  <2>2. CASE \E q \in Requests : Interrupt(q) \/ EndPlayback(q)
    BY <2>1, <2>2, HeldPlaybackMoves
  <2>3. CASE \E p \in 1..MaxPlaybacks : CompleteSession(p)
    BY <2>1, <2>3, SessionMoves
  <2>4. CASE \E s \in 1..MaxScripts : StartPlayback(s)
    BY <1>4, <2>4 DEF StartPlayback
  <2>5. CASE \E q \in Requests : ScriptComes(q)
    BY <1>2, <1>4, <2>5 DEF ScriptComes
  <2>6. CASE UNCHANGED playbacks
    BY <1>2, <2>6
  <2> QED
    BY <2>2, <2>3, <2>4, <2>5, <2>6
       DEF Next, stories, Register, Finalize, ApplyScan, Transcribe, VoiceNote, Hear, AddSource,
           CreatePodcast, Delete, SourceUploaded, Trigger, CreateScript, MarkReady, CacheAudio,
           ApplyIngestion, AddSegment, Play, NoScript, IngestionFails, Abort, LockSource, ReadScript,
           ReadInterrupt, ReadEnd
<1>8. podcast' \in PodcastBook
  <2>1. PICK state \in {"created", "source_processing", "source_ready", "script_generating",
                       "script_ready", "gone"}, source \in Nat, script \in Nat :
          \/ UNCHANGED podcast
          \/ podcast' = [podcast EXCEPT !.state = state]
          \/ podcast' = [podcast EXCEPT !.state = state, !.source = source]
          \/ podcast' = [podcast EXCEPT !.state = state, !.script = script]
          \/ podcast' = [state |-> state, source |-> source, script |-> script]
    <3>1. Len(sources) + 1 \in Nat /\ Len(scripts) + 1 \in Nat
      BY <1>2
    <3>2. \A s \in DOMAIN scripts : s \in Nat
      BY <1>2
    <3> QED
      BY <3>1, <3>2
         DEF Next, stories, Register, Finalize, ApplyScan, Transcribe, VoiceNote, Hear, AddSource,
             CreatePodcast, Delete, SourceUploaded, Trigger, CreateScript, MarkReady, CacheAudio,
             StartPlayback, CompleteSession, ApplyIngestion, AddSegment, Play, ScriptComes, NoScript,
             IngestionFails, Interrupt, EndPlayback, Abort, LockSource, ReadScript, ReadInterrupt,
             ReadEnd
  <2>2. /\ [podcast EXCEPT !.state = state] \in PodcastBook
        /\ [podcast EXCEPT !.state = state, !.source = source] \in PodcastBook
        /\ [podcast EXCEPT !.state = state, !.script = script] \in PodcastBook
        /\ [state |-> state, source |-> source, script |-> script] \in PodcastBook
    BY <1>2, <2>1 DEF PodcastBook
  <2> QED
    BY <1>2, <2>1, <2>2
<1> QED
  BY <1>1, <1>5, <1>6, <1>7, <1>8 DEF StoryTypes

\* A document is added or a podcast deleted only while no script is awaited
LEMMA CurrentSourceStep ==
  ASSUME PodcastInv, Next
  PROVE  CurrentSource'
<1>1. podcast \in PodcastBook /\ sources \in Seq(SourceRows) /\ work \in [Requests -> WorkRows]
  BY DEF PodcastInv, StoryTypes
<1>2. ASSUME NEW q \in Requests, At(q, "generating")'
      PROVE  /\ work'[q].on = podcast.source /\ podcast.source # 0
             /\ sources[podcast.source].parse = "parsed"
             /\ work' = work => At(q, "generating")
             /\ \A p \in Requests : Done(p) => p # q /\ At(q, "generating")
  <2>1. CASE work'[q] = work[q]
    <3>1. At(q, "generating")
      BY <1>2, <2>1 DEF At
    <3>2. \A p \in Requests : Done(p) => p # q
      BY <1>1, <1>2 DEF Done, At, Idle
    <3> QED
      BY <2>1, <3>1, <3>2 DEF PodcastInv, CurrentSource
  <2>2. CASE work'[q] # work[q]
    <3>1. work'[q].on = podcast.source /\ Play(q)
      BY <1>1, <1>2, <2>2, WorkStep DEF At, PodcastInv
    <3>2. \A p \in Requests : ~Done(p)
      BY <1>1, <2>2, <3>1 DEF Done, Play, Set, Idle
    <3> QED
      BY <2>2, <3>1, <3>2 DEF Play
  <2> QED
    BY <2>1, <2>2
<1>3. ASSUME podcast'.source = podcast.source, UNCHANGED sources
      PROVE  CurrentSource'
  BY <1>2, <1>3 DEF PodcastInv, CurrentSource
<1>4. ASSUME NEW m \in Media, AddSource(m)
      PROVE  CurrentSource'
  <2>1. /\ sources' = Append(sources, [media |-> m, parse |-> "pending"])
        /\ podcast'.source = Len(sources) + 1
        /\ UNCHANGED work /\ PodcastFree
    BY <1>1, <1>4 DEF AddSource, Owned, PodcastBook
  <2>2. podcast'.source \in DOMAIN sources'
    BY <1>1, <2>1
  <2> QED
    BY <1>2, <2>1, <2>2 DEF CurrentSource, PodcastFree
<1>5. CASE Delete
  BY <1>2, <1>5 DEF Delete, Owned, CurrentSource, PodcastFree
<1>6. ASSUME NEW q \in Requests, ApplyIngestion(q)
      PROVE  CurrentSource'
  <2>1. DOMAIN sources' = DOMAIN sources /\ podcast'.source = podcast.source
    BY <1>1, <1>6 DEF ApplyIngestion, PodcastBook
  <2>2. Done(q) /\ PodcastFree
    BY <1>6 DEF ApplyIngestion
  <2> QED
    BY <1>2, <2>1, <2>2 DEF PodcastInv, CurrentSource, PodcastFree
<1>7. CASE /\ UNCHANGED sources
           /\ \/ UNCHANGED podcast
              \/ \E state : podcast' = [podcast EXCEPT !.state = state]
              \/ \E state, script : podcast' = [podcast EXCEPT !.state = state, !.script = script]
  BY <1>1, <1>3, <1>7 DEF PodcastBook
<1> QED
  BY <1>4, <1>5, <1>6, <1>7
     DEF Next, stories, Register, Finalize, ApplyScan, Transcribe, VoiceNote, Hear, CreatePodcast,
         SourceUploaded, Trigger, CreateScript, MarkReady, CacheAudio, StartPlayback, CompleteSession,
         AddSegment, Play, ScriptComes, NoScript, IngestionFails, Interrupt, EndPlayback, Abort,
         LockSource, ReadScript, ReadInterrupt, ReadEnd

\* A request holds what it has found, or takes hold of a playback that is free
LEMMA HeldPlaybacksStep ==
  ASSUME PodcastInv, Next
  PROVE  HeldPlaybacks' /\ (\A p \in DOMAIN playbacks : Ended(playbacks[p]))'
<1>1. playbacks \in Seq(PlaybackBook) /\ work \in [Requests -> WorkRows]
  BY DEF PodcastInv, StoryTypes
<1>2. ASSUME \A p \in DOMAIN playbacks : p \in DOMAIN playbacks' /\ playbacks'[p] = playbacks[p]
      PROVE  HeldPlaybacks'
  <2>1. CASE UNCHANGED work
    BY <1>2, <2>1 DEF PodcastInv, HeldPlaybacks, Holding, At
  <2>2. ASSUME NEW q \in Requests, NEW b \in WorkRows, work' = [work EXCEPT ![q] = b],
               b.step \notin {"interrupting", "ending"}
        PROVE  HeldPlaybacks'
    <3>1. \A p \in Requests : Holding(p)' => Holding(p) /\ work'[p] = work[p]
      BY <1>1, <2>2 DEF Holding
    <3> QED
      BY <1>2, <3>1 DEF PodcastInv, HeldPlaybacks, Holding, At
  <2>3. ASSUME NEW q \in Requests, NEW b \in WorkRows, work' = [work EXCEPT ![q] = b],
               b.on \in DOMAIN playbacks,
               \/ b.step = "interrupting" /\ ReadInterrupt(q, b.on)
               \/ b.step = "ending" /\ ReadEnd(q, b.on) /\ b.saw = playbacks[b.on].session
        PROVE  HeldPlaybacks'
    <3>1. /\ \A p \in Requests : ~(Holding(p) /\ work[p].on = b.on)
          /\ b.step = "interrupting" => playbacks[b.on].state = "playing"
          /\ b.step = "ending" => playbacks[b.on].state # "ended"
      BY <2>3 DEF ReadInterrupt, ReadEnd, PlaybackFree, Holding
    <3>2. work'[q] = b /\ \A p \in Requests : p # q => work'[p] = work[p]
      BY <1>1, <2>3
    <3>3. playbacks[b.on].session \in {"active", "completed"}
      <4>1. playbacks[b.on] \in PlaybackBook
        BY <1>1, <2>3
      <4> QED
        BY <4>1 DEF PlaybackBook
    <3>4. ASSUME NEW p \in Requests, p # q, Holding(p)'
          PROVE  Holding(p) /\ work'[p] = work[p] /\ work[p].on # b.on
      BY <3>1, <3>2, <3>4 DEF Holding
    <3> QED
      BY <1>2, <2>3, <3>1, <3>2, <3>3, <3>4 DEF PodcastInv, HeldPlaybacks, Holding, At
  <2> QED
    BY <2>1, <2>2, <2>3, WorkStep DEF PodcastInv
<1>3. ASSUME NEW s, NewPlayback(s), s \in Nat
      PROVE  /\ \A p \in DOMAIN playbacks : p \in DOMAIN playbacks' /\ playbacks'[p] = playbacks[p]
             /\ \A p \in DOMAIN playbacks' : Ended(playbacks'[p])
  <2> DEFINE x == [script |-> s, state |-> "playing", epoch |-> 0, session |-> "active", announced |-> 0]
  <2>1. x \in PlaybackBook /\ Ended(x)
    BY <1>3 DEF PlaybackBook, Ended
  <2>2. playbacks' = Append(playbacks, x)
    BY <1>3 DEF NewPlayback
  <2> HIDE DEF x
  <2>3. /\ \A p \in DOMAIN playbacks : p \in DOMAIN playbacks' /\ playbacks'[p] = playbacks[p]
        /\ \A p \in DOMAIN playbacks' : p \in DOMAIN playbacks \/ playbacks'[p] = x
    BY <1>1, <2>1, <2>2
  <2> QED
    BY <2>1, <2>3 DEF PodcastInv
<1>4. CASE (\E s \in 1..MaxScripts : StartPlayback(s)) \/ (\E q \in Requests : ScriptComes(q))
  <2>1. PICK s \in Nat : NewPlayback(s)
    <3>1. Len(scripts) + 1 \in Nat
      BY DEF PodcastInv, StoryTypes
    <3> QED
      BY <1>4, <3>1 DEF StartPlayback, ScriptComes
  <2> QED
    BY <1>2, <1>3, <2>1
<1>5. CASE UNCHANGED playbacks
  BY <1>2, <1>5 DEF PodcastInv
<1>6. ASSUME NEW q \in Requests, Interrupt(q) \/ EndPlayback(q)
      PROVE  HeldPlaybacks' /\ (\A p \in DOMAIN playbacks : Ended(playbacks[p]))'
  <2> DEFINE i == work[q].on
  <2>1. PICK x \in PlaybackBook :
          /\ Holding(q) /\ i \in DOMAIN playbacks
          /\ playbacks' = [playbacks EXCEPT ![i] = x] /\ Ended(x)
    BY <1>6, HeldPlaybackMoves
  <2>2. work'[q] = Idle /\ \A p \in Requests : p # q => work'[p] = work[p]
    BY <1>1, <1>6 DEF Interrupt, EndPlayback, Done
  <2>3. /\ DOMAIN playbacks' = DOMAIN playbacks
        /\ playbacks'[i] = x
        /\ \A p \in DOMAIN playbacks : p # i => playbacks'[p] = playbacks[p]
    BY <1>1, <2>1
  <2>4. \A p \in Requests : Holding(p)' => p # q /\ Holding(p) /\ work[p].on # i
    BY <2>1, <2>2 DEF PodcastInv, HeldPlaybacks, Holding, Idle
  <2> HIDE DEF i
  <2>5. HeldPlaybacks'
    BY <2>2, <2>3, <2>4 DEF PodcastInv, HeldPlaybacks, Holding, At
  <2> QED
    BY <2>1, <2>3, <2>5 DEF PodcastInv
<1>7. ASSUME NEW i, CompleteSession(i)
      PROVE  HeldPlaybacks' /\ (\A p \in DOMAIN playbacks : Ended(playbacks[p]))'
  <2>1. PICK x \in PlaybackBook :
          /\ i \in DOMAIN playbacks
          /\ playbacks' = [playbacks EXCEPT ![i] = x]
          /\ x.state = playbacks[i].state /\ x.session = "completed" /\ x.announced > 0
    BY <1>7, SessionMoves
  <2>2. /\ DOMAIN playbacks' = DOMAIN playbacks
        /\ playbacks'[i] = x
        /\ \A p \in DOMAIN playbacks : p # i => playbacks'[p] = playbacks[p]
    BY <1>1, <2>1
  <2>3. \A p \in DOMAIN playbacks :
          /\ playbacks'[p].state = playbacks[p].state
          /\ playbacks[p].session = "completed" => playbacks'[p].session = "completed"
    BY <2>1, <2>2
  <2>4. UNCHANGED work
    BY <1>7 DEF CompleteSession
  <2>5. HeldPlaybacks'
    BY <2>2, <2>3, <2>4 DEF PodcastInv, HeldPlaybacks, Holding, At
  <2> QED
    BY <2>1, <2>2, <2>5 DEF PodcastInv, Ended
<1> QED
  BY <1>4, <1>5, <1>6, <1>7
     DEF Next, stories, Register, Finalize, ApplyScan, Transcribe, VoiceNote, Hear, AddSource,
         CreatePodcast, Delete, SourceUploaded, Trigger, CreateScript, MarkReady, CacheAudio,
         ApplyIngestion, AddSegment, Play, NoScript, IngestionFails, Abort, LockSource, ReadScript,
         ReadInterrupt, ReadEnd

LEMMA PodcastStep ==
  ASSUME PodcastInv, Next \/ UNCHANGED vars
  PROVE  PodcastInv'
<1>1. CASE UNCHANGED vars
  BY <1>1 DEF vars, stories, PodcastInv, StoryTypes, CurrentSource, HeldPlaybacks, Holding, At
<1>2. CASE Next
  BY <1>2, StoryTypesStep, CurrentSourceStep, HeldPlaybacksStep DEF PodcastInv
<1> QED
  BY <1>1, <1>2

LEMMA PodcastHolds == LearningSpec => []PodcastInv
<1>1. LearningInit => PodcastInv
  BY PodcastInit DEF LearningInit
<1>2. PodcastInv /\ [LearningNext]_<<vars, records, attempts>> => PodcastInv'
  BY PodcastStep DEF LearningNext, PodcastsNext, vars
<1> QED
  BY <1>1, <1>2, PTL DEF LearningSpec

\* What play stores is written from the document that is current when it is stored,
\* though requests and jobs run while the vendor is awaited.
THEOREM ScriptsOfCurrentSource == LearningSpec => PlaysCurrent
<1> DEFINE Current ==
      LET r == scripts'[Len(scripts')].source IN r = podcast.source /\ sources[r].parse = "parsed"
<1>1. ASSUME PodcastInv, Next, Len(scripts') > Len(scripts), Len(playbacks') > Len(playbacks)
      PROVE  Current
  <2>1. scripts \in Seq(ScriptBook) /\ playbacks \in Seq(PlaybackBook)
    BY <1>1 DEF PodcastInv, StoryTypes
  <2>2. ASSUME NEW f, NEW i, NEW x, f \in Seq(ScriptBook) \cup Seq(PlaybackBook)
        PROVE  Len([f EXCEPT ![i] = x]) = Len(f)
    <3>1. DOMAIN [f EXCEPT ![i] = x] = DOMAIN f
      OBVIOUS
    <3>2. DOMAIN f = 1..Len(f) /\ Len(f) \in Nat
      BY <2>2
    <3> QED
      BY <3>1, <3>2
  <2>3. CASE \E q \in Requests : ScriptComes(q)
    <3>1. PICK q \in Requests : ScriptComes(q)
      BY <2>3
    <3> DEFINE x == [source |-> work[q].on, status |-> "ready", speakers |-> Speakers]
    <3>2. At(q, "generating") /\ scripts' = Append(scripts, x)
      BY <3>1 DEF ScriptComes, NewScript
    <3>3. x \in ScriptBook /\ x.source = work[q].on
      BY <1>1 DEF PodcastInv, StoryTypes, WorkRows, ScriptBook
    <3> HIDE DEF x
    <3>4. scripts'[Len(scripts')] = x
      BY <2>1, <3>2, <3>3
    <3> QED
      BY <1>1, <3>2, <3>3, <3>4 DEF PodcastInv, CurrentSource
  <2>4. CASE Len(scripts') = Len(scripts) \/ Len(playbacks') = Len(playbacks)
    BY <1>1, <2>1, <2>4
  <2> QED
    BY <1>1, <2>3, <2>4
       DEF Next, stories, Register, Finalize, ApplyScan, Transcribe, VoiceNote, Hear, AddSource,
           CreatePodcast, Delete, SourceUploaded, Trigger, CreateScript, MarkReady, CacheAudio,
           StartPlayback, CompleteSession, ApplyIngestion, AddSegment, Play, NoScript,
           IngestionFails, Interrupt, EndPlayback, Abort, LockSource, ReadScript, ReadInterrupt,
           ReadEnd
<1>2. ASSUME PodcastInv, [LearningNext]_<<vars, records, attempts>>
      PROVE  [Len(scripts') > Len(scripts) /\ Len(playbacks') > Len(playbacks) => Current]_vars
  BY <1>1, <1>2 DEF LearningNext, PodcastsNext
<1> QED
  BY <1>2, PodcastHolds, PTL DEF LearningSpec, PlaysCurrent

\* A playback that has ended stays ended, whatever interruption of it was under
\* way, with its conversation completed and announced.
THEOREM EndedPlaybacksStay == LearningSpec => PlaybacksEnd
<1>1. ASSUME PodcastInv, Next, NEW p \in DOMAIN playbacks, playbacks[p].state = "ended"
      PROVE  /\ playbacks'[p].state = "ended" /\ playbacks'[p].epoch = playbacks[p].epoch
             /\ playbacks[p].session = "completed" /\ playbacks[p].announced > 0
  <2>1. playbacks \in Seq(PlaybackBook) /\ playbacks[p].session = "completed" /\ playbacks[p].announced > 0
    BY <1>1 DEF PodcastInv, StoryTypes, Ended
  <2>2. CASE \E q \in Requests : Interrupt(q) \/ EndPlayback(q)
    <3>1. PICK q \in Requests : Interrupt(q) \/ EndPlayback(q)
      BY <2>2
    <3>2. /\ work[q].on # p
          /\ \E x \in PlaybackBook : playbacks' = [playbacks EXCEPT ![work[q].on] = x]
      BY <1>1, <3>1, HeldPlaybackMoves
    <3> QED
      BY <1>1, <2>1, <3>2
  <2>3. CASE \E i \in 1..MaxPlaybacks : CompleteSession(i)
    <3>1. PICK i \in 1..MaxPlaybacks : CompleteSession(i)
      BY <2>3
    <3>2. PICK x \in PlaybackBook :
            /\ playbacks' = [playbacks EXCEPT ![i] = x]
            /\ x.state = playbacks[i].state /\ x.epoch = playbacks[i].epoch
      BY <1>1, <3>1, SessionMoves
    <3> QED
      BY <1>1, <2>1, <3>2
  <2>4. ASSUME NEW s, NewPlayback(s)
        PROVE  playbacks'[p] = playbacks[p]
    BY <1>1, <2>1, <2>4 DEF NewPlayback
  <2>5. CASE (\E s \in 1..MaxScripts : StartPlayback(s)) \/ (\E q \in Requests : ScriptComes(q))
    BY <1>1, <2>1, <2>4, <2>5 DEF StartPlayback, ScriptComes
  <2>6. CASE UNCHANGED playbacks
    BY <1>1, <2>1, <2>6
  <2> QED
    BY <1>1, <2>2, <2>3, <2>5, <2>6
       DEF Next, stories, Register, Finalize, ApplyScan, Transcribe, VoiceNote, Hear, AddSource,
           CreatePodcast, Delete, SourceUploaded, Trigger, CreateScript, MarkReady, CacheAudio,
           ApplyIngestion, AddSegment, Play, NoScript, IngestionFails, Abort, LockSource, ReadScript,
           ReadInterrupt, ReadEnd
<1>2. ASSUME PodcastInv, [LearningNext]_<<vars, records, attempts>>
      PROVE  [\A p \in DOMAIN playbacks : playbacks[p].state = "ended" =>
                /\ playbacks'[p].state = "ended" /\ playbacks'[p].epoch = playbacks[p].epoch
                /\ playbacks[p].session = "completed" /\ playbacks[p].announced > 0]_vars
  BY <1>1, <1>2 DEF LearningNext, PodcastsNext
<1> QED
  BY <1>2, PodcastHolds, PTL DEF LearningSpec, PlaybacksEnd
=============================================================================
