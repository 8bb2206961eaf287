---------------------------- MODULE MCUserRecords ----------------------------
(* What is kept of one user: the wallet and the plan (MCWallet), the account *)
(* and its mails (MCAccounts), the uploads, podcasts, learning records and   *)
(* attempts (MCLearning).  No statement of one of them touches a row of      *)
(* another: an execution is about one, while the others stay as they began.  *)
EXTENDS MCWallet, AuthParameters

CONSTANTS MaxTokens, MaxLost                                           \* of AuthMail
CONSTANTS Pdfs, Recordings, MaxSources, MaxScripts, MaxPlaybacks       \* of Podcasts
CONSTANTS GrantIds, Purposes, Targets, Results, Marks                  \* of LearnerRecords
CONSTANTS Questions, Texts, Task, Rubrics                              \* of ToeflAttempts

VARIABLES account, families, token, request                            \* of AuthSessions
VARIABLES issued, consumed, recorded, sent, lost, dead, delivery       \* of AuthMail
VARIABLES content, media, scan, heard, podcast, sources, jobs, scripts,
          playbacks, cached, work                                      \* of Podcasts
VARIABLES learner, grants, executions, applied, asked                  \* of LearnerRecords
VARIABLES attempt, answers, scores, busy                               \* of ToeflAttempts

Accounts == INSTANCE MCAccounts WITH session <- families
Learning == INSTANCE MCLearning WITH Grants <- GrantIds

billing    == <<vars, plans>>
identities == <<account, families, token, request,
                issued, consumed, recorded, sent, lost, dead, delivery>>
lessons    == <<content, media, scan, heard, podcast, sources, jobs, scripts,
                playbacks, cached, work, learner, grants, executions, applied, asked,
                attempt, answers, scores, busy>>

LearningUnused == Learning!PodcastsUnused /\ Learning!LearningInit

UserInit == BillingInit /\ Accounts!AccountsInit /\ Learning!LearningInit
UserNext ==
  \/ Accounts!AccountsInit /\ LearningUnused /\ BillingNext /\ UNCHANGED <<identities, lessons>>
  \/ BillingInit /\ LearningUnused /\ Accounts!AccountsNext /\ UNCHANGED <<billing, lessons>>
  \/ BillingInit /\ Accounts!AccountsInit /\ Learning!LearningNext /\ UNCHANGED <<billing, identities>>
UserSpec == UserInit /\ [][UserNext]_<<billing, identities, lessons>>

GoodSinceReset         == Accounts!GoodSinceReset
EndedFamiliesStayEnded == Accounts!EndedFamiliesStayEnded
MailedOnce             == Accounts!MailedOnce
OnlyCleanUsed          == Learning!OnlyCleanUsed
ExecutedOnce           == Learning!ExecutedOnce
ScoredAsSubmitted      == Learning!ScoredAsSubmitted
PlaysCurrent           == Learning!PlaysCurrent
PlaybacksEnd           == Learning!PlaybacksEnd

\* The sessions of the wallet are the requests of the accounts
UserSymmetry == Accounts!MCSymmetry
=============================================================================
