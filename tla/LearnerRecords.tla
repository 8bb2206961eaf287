--------------------------- MODULE LearnerRecords ---------------------------
(***************************************************************************)
(* What a learner has on record outside of conversations: a vocabulary     *)
(* entry, preferences and the progress of a lesson.  Two kinds of request  *)
(* write it, without locks: the learner's own (api/routers/vocabulary,     *)
(* learning) and the tools of an agent (modules/ai_runtime/tools), which   *)
(* need a grant and carry an idempotency key.                              *)
(*                                                                         *)
(* A request reads and then writes in one commit.  Only columns whose      *)
(* value differs from what was read are written; a row that was read as    *)
(* missing is inserted under UNIQUE.  Texts, the mastery score, the log of *)
(* reviews and the tools that only read are left out.                      *)
(***************************************************************************)
EXTENDS Integers, Sequences

CONSTANTS
  Requests, Keys, Grants,
  Purposes,      \* purposes that a trusted service asks grants for
  Targets,       \* target_state of update_status
  Results,       \* results of reviews: again, hard, good, easy
  Marks          \* completion that a learner reports: begun, halfway, done

Percents == [begun |-> 0, halfway |-> 50, done |-> 100]
Absent   == -1

Tools == {"vocabulary.save", "vocabulary.update_status", "profile.update_preferences"}

VARIABLES
  learner,     \* the columns: state of the entry ("none": no entry), preferences,
               \* completion_percent
  grants,      \* execution_grants: purpose ("none": not issued), not expired, consumed
  executions,  \* tool_executions
  applied,     \* by tool and key, the arguments of the changes that were committed
  asked        \* what each request is at

vars == <<learner, grants, executions, applied, asked>>

Nothing == [word |-> "none", prefs |-> {}, percent |-> Absent]
Idle    == [step |-> "idle", tool |-> "none", arg |-> "none", key |-> "none", saw |-> Nothing]

Init ==
  /\ learner = Nothing
  /\ grants = [g \in Grants |-> [purpose |-> "none", live |-> FALSE, used |-> FALSE]]
  /\ executions = {} /\ applied = [c \in Tools \X Keys |-> <<>>]
  /\ asked = [q \in Requests |-> Idle]

Finish(q) == asked' = [asked EXCEPT ![q] = Idle]

-----------------------------------------------------------------------------
(* Services: what each operation makes of the row it read *)

Transitions == [none     |-> {},
                new      |-> {"learning", "archived"},
                learning |-> {"review", "mastered", "archived"},
                review   |-> {"learning", "mastered", "archived"},
                mastered |-> {"review", "archived"},
                archived |-> {"new"}]

SaveEntry(saw) == IF saw.word = "none" THEN [saw EXCEPT !.word = "new"] ELSE saw

Reviewed(state, result) ==
  CASE result = "again" -> "learning"
    [] result = "hard"  -> IF state = "new" THEN "learning" ELSE state
    [] result = "good"  -> IF state \in {"new", "learning"} THEN "review" ELSE state
    [] result = "easy"  -> "mastered"

\* The handler of each operation
Handled(tool, arg, saw) ==
  CASE tool = "vocabulary.save"            -> SaveEntry(saw)
    [] tool = "vocabulary.update_status"   -> [saw EXCEPT !.word = arg]
    [] tool = "profile.update_preferences" -> [saw EXCEPT !.prefs = @ \cup {arg}]
    [] tool = "review"                     -> [saw EXCEPT !.word = Reviewed(saw.word, arg)]
    [] tool = "progress"                   -> [saw EXCEPT !.percent = Percents[arg]]

Refused(tool, arg, saw) ==
  CASE tool = "vocabulary.update_status"   -> arg \notin Transitions[saw.word]
    [] tool = "review"                     -> saw.word = "none"
    [] tool = "progress"                   -> Percents[arg] < saw.percent
    [] OTHER                               -> FALSE

\* The row that an operation is about
View(tool) ==
  CASE tool = "progress"                   -> [Nothing EXCEPT !.percent = learner.percent]
    [] tool = "profile.update_preferences" -> [Nothing EXCEPT !.prefs = learner.prefs]
    [] OTHER                               -> [Nothing EXCEPT !.word = learner.word]

Written(saw, new) ==
  [c \in DOMAIN learner |-> IF new[c] # saw[c] THEN new[c] ELSE learner[c]]

RowExists(tool, saw) ==
  \/ tool = "vocabulary.save" /\ saw.word = "none" /\ learner.word # "none"
  \/ tool = "progress" /\ saw.percent = Absent /\ learner.percent # Absent

Args(tool) ==
  CASE tool = "vocabulary.update_status"   -> Targets
    [] tool = "profile.update_preferences" -> {"tutoring_preferences"}
    [] tool = "review"                     -> Results
    [] tool = "progress"                   -> Marks
    [] OTHER                               -> {"entry"}

-----------------------------------------------------------------------------
(* The learner's own requests *)

ByLearner == {"vocabulary.save", "vocabulary.update_status", "review", "progress"}

Ask(q, tool) ==
  /\ asked[q].step = "idle" /\ tool \in ByLearner
  /\ \E arg \in Args(tool) :
       /\ ~Refused(tool, arg, learner)
       /\ asked' = [asked EXCEPT ![q] = [step |-> "asked", tool |-> tool, arg |-> arg,
                                         key |-> "none", saw |-> View(tool)]]
  /\ UNCHANGED <<learner, grants, executions, applied>>

CommitAsked(q) ==
  LET r == asked[q]
  IN  /\ r.step = "asked"
      /\ learner' = IF RowExists(r.tool, r.saw) THEN learner
                    ELSE Written(r.saw, Handled(r.tool, r.arg, r.saw))
      /\ Finish(q)
      /\ UNCHANGED <<grants, executions, applied>>

-----------------------------------------------------------------------------
(* Grants *)

IssueGrant(g, p) ==
  /\ grants[g].purpose = "none"
  /\ grants' = [grants EXCEPT ![g] = [purpose |-> p, live |-> TRUE, used |-> FALSE]]
  /\ UNCHANGED <<learner, executions, applied, asked>>

\* The ttl of at most ten minutes
Expire(g) ==
  /\ grants[g].live /\ grants' = [grants EXCEPT ![g].live = FALSE]
  /\ UNCHANGED <<learner, executions, applied, asked>>

\* grants:validate consumes the grant; tools do not and do not look at it
ValidateGrant(g) ==
  /\ grants[g].live /\ ~grants[g].used
  /\ grants' = [grants EXCEPT ![g].used = TRUE]
  /\ UNCHANGED <<learner, executions, applied, asked>>

\* PURPOSE_TOOL_ALLOWLIST
Allowed(purpose) ==
  CASE purpose = "practice_interaction" -> Tools
    [] purpose = "direct_realtime_call" -> {"vocabulary.save", "vocabulary.update_status"}
    [] purpose = "podcast_runtime"      -> {"vocabulary.save"}
    [] OTHER                            -> {}

-----------------------------------------------------------------------------
(* Tools *)

OfKey(tool, key) == {e \in executions : e.tool = tool /\ e.key = key}

\* execute, up to the handler: what is recorded under the key is replayed, or
\* refused when it was for other arguments
CallTool(q, g, tool, key) ==
  /\ asked[q].step = "idle"
  /\ grants[g].live /\ tool \in Allowed(grants[g].purpose)
  /\ OfKey(tool, key) = {}
  /\ \E arg \in Args(tool) :
       asked' = [asked EXCEPT ![q] = [step |-> "called", tool |-> tool, arg |-> arg,
                                      key |-> key, saw |-> Nothing]]
  /\ UNCHANGED <<learner, grants, executions, applied>>

ReadRows(q) ==
  /\ asked[q].step = "called"
  /\ asked' = [asked EXCEPT ![q].step = "handled", ![q].saw = View(asked[q].tool)]
  /\ UNCHANGED <<learner, grants, executions, applied>>

\* Mutant: no UNIQUE (user_id, tool_name, idempotency_key)
KeyIsFree(tool, key) == FALSE
KeyTaken(tool, key)  == OfKey(tool, key) # {}

\* _record_execution and commit; a violated UNIQUE rolls all of it back
CommitTool(q) ==
  LET r == asked[q]
      refused == Refused(r.tool, r.arg, r.saw)
  IN  /\ r.step = "handled"
      /\ IF KeyTaken(r.tool, r.key) \/ (~refused /\ RowExists(r.tool, r.saw))
         THEN UNCHANGED <<learner, executions, applied>>
         ELSE /\ executions' = executions \cup
                   {[tool |-> r.tool, key |-> r.key, arg |-> r.arg,
                     status |-> IF refused THEN "failed" ELSE "succeeded"]}
              /\ IF refused THEN UNCHANGED <<learner, applied>>
                 ELSE /\ learner' = Written(r.saw, Handled(r.tool, r.arg, r.saw))
                      /\ applied' = [applied EXCEPT ![<<r.tool, r.key>>] = Append(@, r.arg)]
      /\ Finish(q)
      /\ UNCHANGED <<grants>>

\* A client that leaves or a process that is lost
Lose(q) ==
  /\ asked[q].step # "idle" /\ Finish(q)
  /\ UNCHANGED <<learner, grants, executions, applied>>

Next ==
  \/ \E q \in Requests :
       \/ \E tool \in ByLearner : Ask(q, tool)
       \/ \E g \in Grants, tool \in Tools, key \in Keys : CallTool(q, g, tool, key)
       \/ CommitAsked(q) \/ ReadRows(q) \/ CommitTool(q) \/ Lose(q)
  \/ \E g \in Grants : (\E p \in Purposes : IssueGrant(g, p)) \/ Expire(g) \/ ValidateGrant(g)

Spec == Init /\ [][Next]_vars

-----------------------------------------------------------------------------

\* The rows: vocabulary_entries, learning_progress, execution_grants,
\* tool_executions
EntryStates  == DOMAIN Transitions
Completion   == {Absent} \cup 0..100
GrantRows    == [purpose : Purposes \cup {"none"}, live : BOOLEAN, used : BOOLEAN]
ExecutionRows ==
  {e \in [tool : Tools, key : Keys, arg : UNION {Args(t) : t \in Tools},
          status : {"failed", "succeeded"}] : e.arg \in Args(e.tool)}

\* The state keeps its types
TypeOK ==
  /\ learner.word \in EntryStates /\ learner.percent \in Completion
  /\ learner.prefs \subseteq {"tutoring_preferences"}
  /\ grants \in [Grants -> GrantRows]
  /\ executions \subseteq ExecutionRows
  /\ \A q \in Requests : asked[q].step \in {"idle", "asked", "called", "handled"}

\* A tool changes the learner's records at most once under one key, and the
\* execution that a later call with the key is answered from is that of the change,
\* whichever calls with the key run at once (ToolExecutionService.execute).
ExecutedOnce ==
  \A c \in DOMAIN applied :
    applied[c] # <<>> =>
      /\ Len(applied[c]) = 1
      /\ \A e \in OfKey(c[1], c[2]) : e.status = "succeeded" /\ e.arg = applied[c][1]

=============================================================================
