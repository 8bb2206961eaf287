---------------------------- MODULE ToeflAttempts ----------------------------
(***************************************************************************)
(* One TOEFL practice attempt (modules/assessments): answers are stored    *)
(* and replaced until the attempt is submitted, then scored, the objective *)
(* sections by their key and the written answer by an evaluator's          *)
(* dimensions.  Requests that write the attempt lock it, and wait for      *)
(* statements while they hold it; evaluate_objective does not lock.        *)
(***************************************************************************)
EXTENDS Integers, Sequences, FiniteSets

CONSTANTS
  Requests,
  Questions, Texts,
  Task,            \* the one question of a test of written practice
  Rubrics          \* rubric versions of the objective scoring

Sections  == {"reading", "writing"}     \* one that has a key, one that has not
Practice  == "toefl-practice.v1"        \* RUBRIC_VERSION
MaxTotalScore == 120

VARIABLES
  attempt,   \* toefl_attempts.state, "none": not started
  answers,   \* toefl_submissions by question, section and text; <<>> for none
  scores,    \* toefl_scores, each with the answers that it was made of
  busy       \* what each request is at

vars == <<attempt, answers, scores, busy>>

Idle == [step |-> "idle", on |-> "none", of |-> <<>>]

Init ==
  /\ attempt = "none" /\ answers = [t \in Questions |-> <<>>] /\ scores = {}
  /\ busy = [q \in Requests |-> Idle]

Goto(q, step, on, of) == busy' = [busy EXCEPT ![q] = [step |-> step, on |-> on, of |-> of]]
Leave(q)              == busy' = [busy EXCEPT ![q] = Idle]

\* Mutant: the attempt is read without FOR UPDATE
NeverLocked == TRUE
LockFree    == \A q \in Requests : busy[q].step \notin {"answering", "submitting", "grading"}

StartAttempt ==
  /\ attempt = "none" /\ attempt' = "in_progress"
  /\ UNCHANGED <<answers, scores, busy>>

\* _owned_attempt with for_update, as the first statement of each of these
Lock(q, step, state) ==
  /\ busy[q].step = "idle" /\ LockFree /\ attempt = state
  /\ Goto(q, step, "none", <<>>)
  /\ UNCHANGED <<attempt, answers, scores>>

LockToAnswer(q) == Lock(q, "answering", "in_progress")
LockToSubmit(q) == Lock(q, "submitting", "in_progress")
LockToGrade(q)  == Lock(q, "grading", "submitted") \/ Lock(q, "grading", "evaluated")

\* The section of an answer is the one it was first stored with
PutSubmission(q, t) ==
  /\ busy[q].step = "answering"
  /\ \E s \in Sections, x \in Texts :
       answers' = [answers EXCEPT ![t] = IF @ = <<>> THEN <<s, x>> ELSE <<@[1], x>>]
  /\ Leave(q)
  /\ UNCHANGED <<attempt, scores>>

Submit(q) ==
  /\ busy[q].step = "submitting" /\ attempt' = "submitted" /\ Leave(q)
  /\ UNCHANGED <<answers, scores>>

-----------------------------------------------------------------------------
(* Objective scoring *)

\* The key of every question is the text "key"; rounding is to even at a half
ObjectiveTotal(of) ==
  LET asked == {t \in Questions : of[t] # <<>> /\ of[t][1] = "reading"}
      right == {t \in asked : of[t][2] = "key"}
      n     == Cardinality(asked)
      twice == 2 * Cardinality(right) * MaxTotalScore
      down  == twice \div (2 * n)
  IN  IF n = 0 THEN 0
      ELSE IF twice % (2 * n) > n \/ (twice % (2 * n) = n /\ down % 2 = 1) THEN down + 1 ELSE down

ReadAttempt(q, r) ==
  /\ busy[q].step = "idle" /\ attempt \in {"submitted", "evaluated"}
  /\ ~ \E s \in scores : s.rubric = r
  /\ Goto(q, "scoring", r, <<>>)
  /\ UNCHANGED <<attempt, answers, scores>>

ReadAnswers(q) ==
  /\ busy[q].step = "scoring"
  /\ Goto(q, "storing", busy[q].on, answers)
  /\ UNCHANGED <<attempt, answers, scores>>

\* UNIQUE (attempt_id, rubric_version); the row refers to the attempt and waits
\* for its lock
StoreObjective(q) ==
  /\ busy[q].step = "storing" /\ LockFree
  /\ IF \E s \in scores : s.rubric = busy[q].on THEN UNCHANGED <<attempt, scores>>
     ELSE /\ scores' = scores \cup {[rubric |-> busy[q].on, of |-> busy[q].of,
                                     total |-> ObjectiveTotal(busy[q].of)]}
          /\ attempt' = "evaluated"
  /\ Leave(q)
  /\ UNCHANGED answers

-----------------------------------------------------------------------------
(* Written practice: the dimensions come from an evaluator *)

\* practice_score: 0..100, rounded half up once, of integer scores in 0..4
PracticeScore(d) ==
  (30 * d.task_fulfillment + 25 * d.organization + 25 * d.grammar + 20 * d.vocabulary + 2) \div 4

\* Two verdicts that differ
Dimensions ==
  {[task_fulfillment |-> 4, organization |-> 3, grammar |-> 3, vocabulary |-> g] : g \in {0, 4}}

Written == answers[Task] # <<>> /\ answers[Task][1] = "writing"

\* record_writing_evaluation: a verdict that is there is returned when it is the
\* same and refused when it differs
RecordWriting(q) ==
  /\ busy[q].step = "grading" /\ Written /\ attempt = "submitted"
  /\ ~ \E s \in scores : s.rubric = Practice
  /\ \E d \in Dimensions :
       scores' = scores \cup {[rubric |-> Practice, of |-> answers, total |-> PracticeScore(d)]}
  /\ attempt' = "evaluated"
  /\ Leave(q)
  /\ UNCHANGED answers

\* Nothing to do, refused, a client that leaves, a lost process
GiveUp(q) ==
  /\ busy[q].step # "idle" /\ Leave(q)
  /\ UNCHANGED <<attempt, answers, scores>>

Next ==
  \/ StartAttempt
  \/ \E q \in Requests :
       \/ LockToAnswer(q) \/ LockToSubmit(q) \/ LockToGrade(q) \/ Submit(q)
       \/ \E t \in Questions : PutSubmission(q, t)
       \/ \E r \in Rubrics : ReadAttempt(q, r)
       \/ ReadAnswers(q) \/ StoreObjective(q) \/ RecordWriting(q) \/ GiveUp(q)

Spec == Init /\ [][Next]_vars

-----------------------------------------------------------------------------

\* The rows: toefl_attempts, toefl_submissions, toefl_scores
AttemptStates == {"none", "in_progress", "submitted", "evaluated"}
Submissions   == {<<>>} \cup (Sections \X Texts)
ScoreRows     == [rubric : Rubrics \cup {Practice}, of : [Questions -> Submissions],
                  total : 0..MaxTotalScore]

\* The state keeps its types; total_score in particular is in 0..120
\* (ck_toefl_scores_total), however few questions are answered
TypeOK ==
  /\ attempt \in AttemptStates
  /\ answers \in [Questions -> Submissions]
  /\ scores \subseteq ScoreRows
  /\ \A q \in Requests : busy[q].step \in
       {"idle", "answering", "submitting", "grading", "scoring", "storing"}

\* A score is of the answers that the attempt has for good: none changes after it,
\* though an answer may be on its way when the attempt is submitted and scored; an
\* attempt is evaluated exactly when it has a score, and has one for each rubric
\* ("Submissions locked setelah submit", assessments/services.py:6).
ScoredAsSubmitted ==
  /\ \A s \in scores : s.of = answers
  /\ (attempt = "evaluated") <=> (scores # {})
  /\ \A s, u \in scores : s.rubric = u.rubric => s = u
=============================================================================
