------------------------ MODULE MCCallsAndKnowledge ------------------------
(* A call, what is learnt of a completed conversation, and the projections  *)
(* of a document.  They meet only in events and in background_jobs, where   *)
(* each kind of job has its own rows: an execution is of one of them, and   *)
(* the others stay as they begin.                                           *)
EXTENDS CallLifecycle, TLC

CONSTANTS Workers, Calls, RangeSize, MaxAttempts, FactKeys, Values, Last, MaxFaults
VARIABLES ended, last, jobs, accepted, extractions, facts, assessments, work, faults
CONSTANTS Embedders, Chunks, Profiles, MaxFailures
VARIABLES document, active, bound, projections, branches, vectors, refused, embedding, failures

\* A tool call is made by no worker and is no job's key, and flows name their own
\* vectors otherwise than the backend names a branch of a chunk
ASSUME KnowledgeConstants ==
  /\ Workers \cap Calls = {}
  /\ Calls \cap [purpose : {"facts"}, of : Calls] = {}
  /\ RangeSize \in Nat \ {0}
  /\ Last \in Nat
  /\ "flow" \notin Chunks

Chain     == INSTANCE AnalysisChain
Embedding == INSTANCE EmbeddingProjections WITH Workers <- Embedders

chainVars == <<ended, last, jobs, accepted, extractions, facts, assessments, work, faults>>
embedVars == <<document, active, bound, projections, branches, vectors, refused, embedding, failures>>

Alike == Permutations(Runners) \cup Permutations(Calls) \cup Permutations(Values)

ChainUnused     == jobs = <<>> /\ last = 1 /\ Chain!Init
EmbeddingUnused == active = Profiles /\ Embedding!EmbedInit

MCInit == Init /\ Chain!Init /\ Embedding!EmbedInit
MCNext ==
  \/ ChainUnused /\ EmbeddingUnused /\ Next /\ UNCHANGED <<chainVars, embedVars>>
  \/ Init /\ EmbeddingUnused /\ Chain!Next /\ UNCHANGED <<vars, embedVars>>
  \/ Init /\ ChainUnused /\ Embedding!EmbedNext /\ UNCHANGED <<vars, chainVars>>
MCSpec == MCInit /\ [][MCNext]_<<vars, chainVars, embedVars>>

RangesTile      == Chain!RangesTile
AnalysedOnce    == Chain!AnalysedOnce
SucceededStored == Chain!SucceededStored
ConfirmedStands == Chain!ConfirmedStands
ProjectedUnlessRefused == Embedding!ProjectedUnlessRefused
=============================================================================
