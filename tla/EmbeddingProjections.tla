------------------------ MODULE EmbeddingProjections ------------------------
(***************************************************************************)
(* The projections of one canonical document (modules/knowledge): each of  *)
(* its chunks is embedded once per active profile, a branch, by a job of   *)
(* its own, and the vector goes to the profile's collection in Astra under *)
(* an _id made of the branch.                                              *)
(*                                                                         *)
(* PostgreSQL and Astra share no transaction: a branch is marked projected *)
(* after its vector is accepted, so a crash leaves a vector without a      *)
(* mark.  The administrator deletes vectors by an owner or a document, and *)
(* only those that flows store beside the backend name one.  Astra is      *)
(* modelled as the code uses it: insertOne with an _id that is there       *)
(* leaves what is there; an error in the body of an answer 200, of that or *)
(* of another refusal, the code takes for a success.                       *)
(***************************************************************************)
EXTENDS Integers, FiniteSets, RowUpdates

CONSTANTS
  Workers,
  Chunks,      \* chunks of the document
  Profiles,    \* embedding profiles, each of one provider, generation and collection
  MaxAttempts, \* attempts of a job (5)
  MaxFailures  \* bound on failures of vendors and processes, and on changes of profiles

VARIABLES
  document,    \* its indexing_state
  active,      \* profiles with status active
  bound,       \* profiles with an active row in vector_collection_registry
  projections, \* embedding_projections: state by branch
  branches,    \* background_jobs of embedding by branch: state and attempts
  vectors,     \* Astra: _id, whether it fits its profile, whether it names an owner
  refused,     \* branches whose vector Astra refused in an answer 200
  embedding,   \* what each worker is at
  failures

rows      == <<document, active, bound>>
embedVars == <<rows, projections, branches, vectors, refused, embedding, failures>>

NoBranch == <<>>

EmbedInit ==
  /\ document = "none"
  /\ active \in (SUBSET Profiles) \ {{}} /\ bound = Profiles
  /\ projections = <<>> /\ branches = <<>>
  /\ vectors = {} /\ refused = {}
  /\ embedding = [w \in Workers |-> [step |-> "idle", branch |-> NoBranch]]
  /\ failures = 0

Fails == failures < MaxFailures /\ failures' = failures + 1
Goes(w, step, b) == embedding' = [embedding EXCEPT ![w] = [step |-> step, branch |-> b]]

-----------------------------------------------------------------------------
(* The document and its branches *)

\* commit_canonical_document: again for the same source, it is there
CommitDocument ==
  /\ document = "none" /\ document' = "pending"
  /\ UNCHANGED <<active, bound, projections, branches, vectors, refused, embedding, failures>>

\* A profile is staged, made active or retired, and so is its collection
ChangeProfile ==
  /\ \E p \in Profiles :
       \/ /\ active' = IF p \in active THEN active \ {p} ELSE active \cup {p}
          /\ UNCHANGED bound
       \/ /\ bound' = IF p \in bound THEN bound \ {p} ELSE bound \cup {p}
          /\ UNCHANGED active
  /\ Fails
  /\ UNCHANGED <<document, projections, branches, vectors, refused, embedding>>

\* dispatch_dual_embedding: a branch that has a job is left alone
DispatchBranches ==
  LET new == (Chunks \X active) \ DOMAIN branches
  IN  /\ document # "none" /\ active # {}
      /\ projections' = With([b \in new |-> "pending"], projections)
      /\ branches' = With([b \in new |-> [state |-> "pending", attempts |-> 0]], branches)
      /\ document' = "partial"
      /\ UNCHANGED <<active, bound, vectors, refused, embedding, failures>>

-----------------------------------------------------------------------------
(* A job: resolve_embedding_profile, embed, mark, finalize *)

\* _validate_vector: the profile's dimension, and finite numbers
RightLength(w) == embedding[w].step = "embedded"

Resolve(w) ==
  /\ embedding[w].step = "idle"
  /\ \E b \in DOMAIN branches :
       /\ branches[b].state = "pending"
       /\ branches' = [branches EXCEPT ![b] = [state |-> "running", attempts |-> @.attempts + 1]]
       /\ IF b[2] \notin bound THEN Goes(w, "permanent", b)
          ELSE IF projections[b] = "projected" THEN Goes(w, "succeeded", b)
          ELSE Goes(w, "resolved", b)
  /\ UNCHANGED <<rows, projections, vectors, refused, failures>>

\* The provider answers, with the profile's dimension or without
Embed(w) ==
  /\ embedding[w].step = "resolved"
  /\ \/ Goes(w, "embedded", embedding[w].branch) /\ UNCHANGED failures
     \/ Goes(w, "distorted", embedding[w].branch) /\ Fails
  /\ UNCHANGED <<rows, projections, branches, vectors, refused>>

\* A timeout, 429, 5xx or a refusal, of the provider or of Astra, after the
\* adapter's own retries; or a vector that does not fit
Unavailable(w) ==
  /\ \/ embedding[w].step \in {"resolved", "embedded"} /\ Fails
     \/ embedding[w].step = "distorted" /\ ~RightLength(w) /\ UNCHANGED failures
  /\ Goes(w, "transient", embedding[w].branch)
  /\ UNCHANGED <<rows, projections, branches, vectors, refused>>

\* The document's metadata name its chunk and its profile, and no owner
Document(w) == [id |-> embedding[w].branch, fits |-> embedding[w].step = "embedded",
                named |-> FALSE]

\* insertOne: stored, and the answer comes or is lost
Stores(w) ==
  /\ vectors' = IF \E v \in vectors : v.id = embedding[w].branch THEN vectors
                ELSE vectors \cup {Document(w)}
  /\ \/ Goes(w, "stored", embedding[w].branch) /\ UNCHANGED failures
     \/ Goes(w, "transient", embedding[w].branch) /\ Fails
  /\ UNCHANGED refused

\* Or refused, in a body that _upsert_astra does not look into
Refuses(w) ==
  /\ refused' = refused \cup {embedding[w].branch}
  /\ Goes(w, "stored", embedding[w].branch) /\ Fails
  /\ UNCHANGED vectors

Store(w) ==
  /\ RightLength(w)
  /\ Stores(w) \/ Refuses(w)
  /\ UNCHANGED <<rows, projections, branches>>

\* Mutant: the mark does not wait for the vendor
MarkEarly(w) == embedding[w].step \in {"embedded", "stored"}
MayMark(w)   == embedding[w].step = "stored"

Mark(w) ==
  /\ MayMark(w)
  /\ projections' = [projections EXCEPT ![embedding[w].branch] = "projected"]
  /\ Goes(w, "succeeded", embedding[w].branch)
  /\ UNCHANGED <<rows, branches, vectors, refused, failures>>

Close(w) ==
  LET b == embedding[w].branch
      after == CASE embedding[w].step = "succeeded" -> "succeeded"
                 [] embedding[w].step = "permanent" -> "failed"
                 [] embedding[w].step = "transient" ->
                      IF branches[b].attempts >= MaxAttempts THEN "failed" ELSE "pending"
  IN  /\ embedding[w].step \in {"succeeded", "permanent", "transient"}
      /\ branches' = [branches EXCEPT ![b].state = after]
      /\ Goes(w, "idle", NoBranch)
      /\ UNCHANGED <<rows, projections, vectors, refused, failures>>

\* The process dies: the job stays running, the mark is rolled back
Die(w) ==
  /\ embedding[w].step # "idle"
  /\ Fails
  /\ Goes(w, "idle", NoBranch)
  /\ UNCHANGED <<rows, projections, branches, vectors, refused>>

-----------------------------------------------------------------------------
(* internal_knowledge: deletes in Astra, one collection after another *)

\* A flow stores its own vectors, with the owner in their metadata
FlowStores ==
  /\ \E p \in bound : vectors' = vectors \cup {[id |-> <<"flow", p>>, fits |-> TRUE, named |-> TRUE]}
  /\ UNCHANGED <<rows, projections, branches, refused, embedding, failures>>

\* A filter must name an owner, an agent, a podcast or a document
Matches(v, p)    == v.id[2] = p /\ v.named

Deleted(p) == {v \in vectors : Matches(v, p)}

\* The collections done before one fails stay done; the tables know nothing
DeleteVectors ==
  /\ \E done \in SUBSET bound :
       vectors' = vectors \ UNION {Deleted(p) : p \in done}
  /\ UNCHANGED <<rows, projections, branches, refused, embedding, failures>>

EmbedNext ==
  \/ CommitDocument \/ ChangeProfile \/ DispatchBranches \/ FlowStores \/ DeleteVectors
  \/ \E w \in Workers : \/ Resolve(w) \/ Embed(w) \/ Unavailable(w) \/ Store(w)
                        \/ Mark(w) \/ Close(w) \/ Die(w)

EmbedSpec == EmbedInit /\ [][EmbedNext]_embedVars

-----------------------------------------------------------------------------

\* The rows: knowledge_documents with knowledge_chunks, embedding_profiles,
\* vector_collection_registry, embedding_projections
DocumentStates   == {"none", "pending", "partial"}
ActiveProfiles   == SUBSET Profiles
Collections      == SUBSET Profiles
ProjectionStates == {"pending", "projected"}

\* The state keeps its types; a document is never ready, failed or deleted
TypeOK ==
  /\ document \in DocumentStates
  /\ active \in ActiveProfiles /\ bound \in Collections
  /\ DOMAIN projections = DOMAIN branches
  /\ \A b \in DOMAIN branches :
       /\ b \in Chunks \X Profiles /\ projections[b] \in ProjectionStates
       /\ branches[b].state \in {"pending", "running", "succeeded", "failed"}
       /\ branches[b].attempts \in 0..MaxAttempts

\* A branch is marked projected only when its vector is in Astra or Astra refused
\* it in an answer 200, though the vendor and the table share no transaction:
\* neither a crash, a lost answer nor a second worker parts them.  And every vector
\* has its profile's dimension.  A delete by the administrator is no exception only
\* because it must name an owner or a document, which these vectors do not.
ProjectedUnlessRefused ==
  /\ \A b \in DOMAIN projections : projections[b] = "projected" /\ b \notin refused =>
       \E v \in vectors : v.id = b
  /\ \A v \in vectors : v.fits
=============================================================================
