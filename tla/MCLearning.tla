----------------------------- MODULE MCLearning -----------------------------
(* Uploads and podcasts, a learner's records, and TOEFL attempts have no row *)
(* in common: an execution is about one of them, while the others stay as    *)
(* they began.  The same holds of recordings and podcasts.                   *)
EXTENDS Podcasts

CONSTANTS Keys, Grants, Purposes, Targets, Results, Marks   \* of LearnerRecords
VARIABLES learner, grants, executions, applied, asked
CONSTANTS Questions, Texts, Task, Rubrics                   \* of ToeflAttempts
VARIABLES attempt, answers, scores, busy

Records == INSTANCE LearnerRecords
Toefl   == INSTANCE ToeflAttempts

Alike == Permutations(Requests) \cup Permutations(Pdfs)

records  == <<learner, grants, executions, applied, asked>>
attempts == <<attempt, answers, scores, busy>>

PodcastsUnused == content = [m \in Media |-> "clean"] /\ Init

PodcastsNext == Next /\ (podcast'.state = "none" \/ \A m \in Recordings : media'[m] = "none")

LearningInit == Init /\ Records!Init /\ Toefl!Init
LearningNext ==
  \/ Records!Init /\ Toefl!Init /\ PodcastsNext /\ UNCHANGED <<records, attempts>>
  \/ PodcastsUnused /\ Toefl!Init /\ Records!Next /\ UNCHANGED <<vars, attempts>>
  \/ PodcastsUnused /\ Records!Init /\ Toefl!Next /\ UNCHANGED <<vars, records>>
LearningSpec == LearningInit /\ [][LearningNext]_<<vars, records, attempts>>

ExecutedOnce           == Records!ExecutedOnce
ScoredAsSubmitted      == Toefl!ScoredAsSubmitted
=============================================================================
