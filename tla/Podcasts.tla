------------------------------ MODULE Podcasts ------------------------------
(***************************************************************************)
(* Uploads (modules/media) and one podcast made of them (modules/          *)
(* podcasts): an object is scanned before it is used; a podcast gets its   *)
(* documents one after another, each is parsed by a job of its own, and    *)
(* every click on play writes a script from the current document and opens *)
(* a playback with a conversation of its own.                              *)
(*                                                                         *)
(* A request is a transaction.  Those that lock a row and then wait, for   *)
(* another row or for a vendor, take several steps here; the rest are one. *)
(* The vendor's script is awaited under the lock of the podcast.           *)
(* Script versions, segments, interruptions, the audio cache and results   *)
(* of a late scan are operations of the services that no route calls yet.  *)
(***************************************************************************)
EXTENDS Integers, Sequences, FiniteSets, TLC

CONSTANTS
  Requests,
  Pdfs, Recordings,     \* uploads by media_type
  MaxSources, MaxScripts, MaxPlaybacks

Media    == Pdfs \cup Recordings
Speakers == {"elean", "willy"}

VARIABLES
  content,   \* what a scanner would find in an object
  media,     \* media_objects: status, and scan_state in scan
  scan,
  heard,     \* recordings that a transcription was asked of
  podcast,   \* podcasts: state, current source and script by revision, 0 for none
  sources,   \* podcast_source_versions by revision
  jobs,      \* ingestion jobs by revision: pending, or queued by the vendor
  scripts,   \* podcast_script_versions by revision, with the speakers of the segments
  playbacks, \* podcast_playbacks, with the state of the conversation and how
             \* often its completion was announced
  cached,    \* podcast_audio_cache: scripts with audio
  work       \* what each request is at

uploads == <<content, media, scan, heard>>
stories == <<podcast, sources, jobs, scripts, playbacks, cached>>
vars    == <<uploads, stories, work>>

Idle == [step |-> "idle", on |-> 0, saw |-> "none"]

Init ==
  /\ content \in [Media -> {"clean", "malicious"}]
  /\ media = [m \in Media |-> "none"] /\ scan = [m \in Media |-> "pending"]
  /\ heard = {}
  /\ podcast = [state |-> "none", source |-> 0, script |-> 0]
  /\ sources = <<>> /\ jobs = <<>> /\ scripts = <<>> /\ playbacks = <<>> /\ cached = {}
  /\ work = [q \in Requests |-> Idle]

At(q, step)        == work[q].step = step
Set(q, step, i, x) == work' = [work EXCEPT ![q] = [step |-> step, on |-> i, saw |-> x]]
Done(q)            == work' = [work EXCEPT ![q] = Idle]

-----------------------------------------------------------------------------
(* Uploads *)

Register(m) ==
  /\ media[m] = "none" /\ media' = [media EXCEPT ![m] = "pending_upload"]
  /\ UNCHANGED <<content, scan, heard, stories, work>>

\* Mutant: a scanner that cannot be reached is taken for a good one
FailsOpen(m) == {content[m], "clean"}
\* HttpMalwareScanner: anything but a verdict is an error
Verdicts(m)  == {content[m], "error"}

\* finalize_upload, under the lock of the object: the scan is awaited, and after
\* an error the object stays uploaded, which cannot be finalized again
Finalize(m) ==
  /\ media[m] = "pending_upload"
  /\ \E v \in Verdicts(m) :
       /\ media' = [media EXCEPT ![m] = CASE v = "clean"     -> "finalized"
                                          [] v = "malicious" -> "rejected"
                                          [] v = "error"     -> "uploaded"]
       /\ scan' = [scan EXCEPT ![m] = IF v = "error" THEN @ ELSE v]
  /\ UNCHANGED <<content, heard, stories, work>>

\* apply_scan_result: in whatever state the object is
ApplyScan(m) ==
  /\ media[m] # "none"
  /\ \E v \in Verdicts(m) :
       /\ media' = [media EXCEPT ![m] = IF v = "clean" THEN "finalized" ELSE "rejected"]
       /\ scan' = [scan EXCEPT ![m] = v]
  /\ UNCHANGED <<content, heard, stories, work>>

Usable(m) == media[m] = "finalized" /\ scan[m] = "clean"

\* The flow of purpose stt is run over an object
Hear(m) == heard' = heard \cup {m} /\ UNCHANGED <<content, media, scan, stories, work>>

\* transcribe_audio: the text goes back to the client
Transcribe(m) == m \in Recordings /\ Usable(m) /\ Hear(m)

\* transcribe_voice_note_to_chat: the text becomes a message, as in ChatTurns with
\* a client key
VoiceNote(m) == m \in Recordings /\ Usable(m) /\ Hear(m)

-----------------------------------------------------------------------------
(* Row locks *)

\* Mutant: the podcast is read without FOR UPDATE
NeverWaits    == TRUE
PodcastFree   == \A q \in Requests : ~At(q, "generating")
SourceFree(r) == \A q \in Requests : ~(At(q, "marking") /\ work[q].on = r)
\* Mutant: the playback is read without FOR UPDATE
AnyTime(p)      == TRUE
PlaybackFree(p) == \A q \in Requests : ~(work[q].step \in {"interrupting", "ending"} /\ work[q].on = p)

Owned == PodcastFree /\ podcast.state \notin {"none", "gone"}

-----------------------------------------------------------------------------
(* Documents *)

CreatePodcast ==
  /\ podcast.state = "none" /\ podcast' = [podcast EXCEPT !.state = "created"]
  /\ UNCHANGED <<uploads, sources, jobs, scripts, playbacks, cached, work>>

AddSource(m) ==
  /\ Owned /\ Len(sources) < MaxSources
  /\ m \in Pdfs /\ Usable(m)
  /\ sources' = Append(sources, [media |-> m, parse |-> "pending"])
  /\ podcast' = [podcast EXCEPT !.state = "source_processing", !.source = Len(sources) + 1]
  /\ UNCHANGED <<uploads, jobs, scripts, playbacks, cached, work>>

\* handle_podcast_source_uploaded: one job, however often the event comes
SourceUploaded(r) ==
  /\ r \in DOMAIN sources /\ sources[r].parse \notin {"parsed", "failed"}
  /\ jobs' = jobs @@ r :> "pending"
  /\ UNCHANGED <<uploads, podcast, sources, scripts, playbacks, cached, work>>

\* The job's first step: the vendor accepts the document
Trigger(r) ==
  /\ r \in DOMAIN jobs /\ jobs' = [jobs EXCEPT ![r] = "queued"]
  /\ UNCHANGED <<uploads, podcast, sources, scripts, playbacks, cached, work>>

\* mark_source_parsed, the first statement of apply_ingestion_result
LockSource(q, r) ==
  /\ At(q, "idle") /\ r \in DOMAIN jobs \cap DOMAIN sources
  /\ jobs[r] = "queued" /\ SourceFree(r)
  /\ Set(q, "marking", r, sources[r].parse)
  /\ UNCHANGED <<uploads, stories>>

\* The podcast's state follows, whichever of its documents this is
ApplyIngestion(q) ==
  /\ At(q, "marking") /\ PodcastFree
  /\ IF work[q].saw = "parsed" THEN UNCHANGED <<sources, podcast>>
     ELSE /\ sources' = [sources EXCEPT ![work[q].on].parse = "parsed"]
          /\ podcast' = [podcast EXCEPT !.state = "source_ready"]
  /\ Done(q)
  /\ UNCHANGED <<uploads, jobs, scripts, playbacks, cached>>

\* The vendor has failed: mark_source_failed, and the runner raises, which rolls
\* its changes back
IngestionFails(q) ==
  /\ At(q, "marking") /\ PodcastFree /\ Done(q)
  /\ UNCHANGED <<uploads, stories>>

\* A client that leaves, a lost process, a deadlock that the database breaks
Abort(q) ==
  /\ work[q].step \in {"marking", "adding", "interrupting", "ending"} /\ Done(q)
  /\ UNCHANGED <<uploads, stories>>

\* A script refers to its document, and so no podcast with one can be deleted
Delete ==
  /\ Owned /\ scripts = <<>> /\ \A r \in DOMAIN sources : SourceFree(r)
  /\ podcast' = [state |-> "gone", source |-> 0, script |-> 0]
  /\ sources' = <<>>
  /\ UNCHANGED <<uploads, jobs, scripts, playbacks, cached, work>>

-----------------------------------------------------------------------------
(* Scripts *)

NewScript(r, status, speakers) ==
  /\ Len(scripts) < MaxScripts
  /\ scripts' = Append(scripts, [source |-> r, status |-> status, speakers |-> speakers])

NewPlayback(s) ==
  /\ Len(playbacks) < MaxPlaybacks
  /\ playbacks' = Append(playbacks, [script |-> s, state |-> "playing", epoch |-> 0,
                                     session |-> "active", announced |-> 0])

CreateScript(r) ==
  /\ Owned /\ r \in DOMAIN sources /\ sources[r].parse = "parsed" /\ SourceFree(r)
  /\ NewScript(r, "draft", {})
  /\ podcast' = [podcast EXCEPT !.state = "script_generating"]
  /\ UNCHANGED <<uploads, sources, jobs, playbacks, cached, work>>

\* add_segment looks at the script without a lock
ReadScript(q, s) ==
  /\ At(q, "idle") /\ s \in DOMAIN scripts /\ scripts[s].status # "ready"
  /\ Set(q, "adding", s, "none")
  /\ UNCHANGED <<uploads, stories>>

AddSegment(q) ==
  /\ At(q, "adding")
  /\ \E v \in Speakers : scripts' = [scripts EXCEPT ![work[q].on].speakers = @ \cup {v}]
  /\ Done(q)
  /\ UNCHANGED <<uploads, podcast, sources, jobs, playbacks, cached>>

MarkReady(s) ==
  /\ Owned /\ s \in DOMAIN scripts
  /\ scripts[s].status = "draft" /\ Speakers \subseteq scripts[s].speakers
  /\ scripts' = [scripts EXCEPT ![s].status = "ready"]
  /\ podcast' = [podcast EXCEPT !.state = "script_ready", !.script = s]
  /\ UNCHANGED <<uploads, sources, jobs, playbacks, cached, work>>

\* generate_script_and_start_playback, up to the vendor
Play(q) ==
  /\ At(q, "idle") /\ Owned
  /\ podcast.source # 0 /\ sources[podcast.source].parse = "parsed"
  /\ Set(q, "generating", podcast.source, "none")
  /\ UNCHANGED <<uploads, stories>>

\* run_script_generation lets only scripts of both speakers pass; the script, its
\* playback and the conversation are one commit.  The row of the document is
\* referred to, and so it is not locked
ScriptComes(q) ==
  LET s == Len(scripts) + 1
  IN  /\ At(q, "generating") /\ SourceFree(work[q].on)
      /\ NewScript(work[q].on, "ready", Speakers)
      /\ NewPlayback(s)
      /\ podcast' = [podcast EXCEPT !.state = "script_ready", !.script = s]
      /\ Done(q)
      /\ UNCHANGED <<uploads, sources, jobs, cached>>

\* The vendor refuses, is late or sends no script; or the client leaves
NoScript(q) ==
  /\ At(q, "generating") /\ Done(q)
  /\ UNCHANGED <<uploads, stories>>

\* cache_audio: what is there is returned
CacheAudio(s) ==
  /\ s \in DOMAIN scripts /\ scripts[s].speakers # {}
  /\ cached' = cached \cup {s}
  /\ UNCHANGED <<uploads, podcast, sources, jobs, scripts, playbacks, work>>

-----------------------------------------------------------------------------
(* Playbacks *)

StartPlayback(s) ==
  /\ Owned /\ s \in DOMAIN scripts /\ scripts[s].status = "ready"
  /\ NewPlayback(s)
  /\ UNCHANGED <<uploads, podcast, sources, jobs, scripts, cached, work>>

\* The lease is held by the caller until the end.  An interrupted playback never
\* plays again, and so the count of its branches stays below the limit
ReadInterrupt(q, p) ==
  /\ At(q, "idle") /\ p \in DOMAIN playbacks /\ PlaybackFree(p)
  /\ playbacks[p].state = "playing"
  /\ Set(q, "interrupting", p, "none")
  /\ UNCHANGED <<uploads, stories>>

Interrupt(q) ==
  /\ At(q, "interrupting")
  /\ playbacks' = [playbacks EXCEPT ![work[q].on].state = "interrupted",
                                    ![work[q].on].epoch = @ + 1]
  /\ Done(q)
  /\ UNCHANGED <<uploads, podcast, sources, jobs, scripts, cached>>

\* end_playback locks the playback; the conversation it only reads
ReadEnd(q, p) ==
  /\ At(q, "idle") /\ p \in DOMAIN playbacks /\ PlaybackFree(p)
  /\ playbacks[p].state # "ended"
  /\ Set(q, "ending", p, playbacks[p].session)
  /\ UNCHANGED <<uploads, stories>>

Completed(p) == [playbacks[p] EXCEPT !.session = "completed", !.announced = @ + 1]

EndPlayback(q) ==
  LET p == work[q].on
  IN  /\ At(q, "ending")
      /\ playbacks' = [playbacks EXCEPT ![p] =
           [(IF work[q].saw = "active" THEN Completed(p) ELSE @) EXCEPT !.state = "ended"]]
      /\ Done(q)
      /\ UNCHANGED <<uploads, podcast, sources, jobs, scripts, cached>>

\* complete_session takes every session of the user
CompleteSession(p) ==
  /\ p \in DOMAIN playbacks /\ playbacks[p].session = "active"
  /\ playbacks' = [playbacks EXCEPT ![p] = Completed(p)]
  /\ UNCHANGED <<uploads, podcast, sources, jobs, scripts, cached, work>>

Next ==
  \/ \E m \in Media : Register(m) \/ Finalize(m) \/ ApplyScan(m) \/ Transcribe(m) \/ VoiceNote(m)
                      \/ AddSource(m)
  \/ CreatePodcast \/ Delete
  \/ \E r \in 1..MaxSources : SourceUploaded(r) \/ Trigger(r) \/ CreateScript(r)
  \/ \E s \in 1..MaxScripts : MarkReady(s) \/ CacheAudio(s) \/ StartPlayback(s)
  \/ \E p \in 1..MaxPlaybacks : CompleteSession(p)
  \/ \E q \in Requests :
       \/ \E r \in 1..MaxSources : LockSource(q, r)
       \/ \E s \in 1..MaxScripts : ReadScript(q, s)
       \/ \E p \in 1..MaxPlaybacks : ReadInterrupt(q, p) \/ ReadEnd(q, p)
       \/ ApplyIngestion(q) \/ AddSegment(q) \/ Play(q) \/ ScriptComes(q)
       \/ NoScript(q) \/ IngestionFails(q) \/ Interrupt(q) \/ EndPlayback(q) \/ Abort(q)

Spec == Init /\ [][Next]_vars

-----------------------------------------------------------------------------

\* The rows: media_objects, podcasts, podcast_source_versions,
\* podcast_script_versions with their segments, podcast_playbacks,
\* podcast_audio_cache
MediaStates   == {"none", "pending_upload", "uploaded", "finalized", "rejected"}
PodcastRows   == [state : {"none", "created", "source_processing", "source_ready",
                           "script_generating", "script_ready", "gone"},
                  source : 0..MaxSources, script : 0..MaxScripts]
SourceRows    == [media : Pdfs, parse : {"pending", "parsed"}]
ScriptRows    == [source : 1..MaxSources, status : {"draft", "ready"},
                  speakers : SUBSET Speakers]
PlaybackRows  == [script : 1..MaxScripts, state : {"playing", "interrupted", "ended"},
                  epoch : Nat, session : {"active", "completed"}, announced : Nat]
CachedScripts == SUBSET (1..MaxScripts)

\* The state keeps its types
TypeOK ==
  /\ media \in [Media -> MediaStates]
  /\ scan \in [Media -> {"pending", "clean", "malicious", "error"}]
  /\ heard \subseteq Recordings
  /\ podcast \in PodcastRows
  /\ sources \in Seq(SourceRows) /\ scripts \in Seq(ScriptRows)
  /\ playbacks \in Seq(PlaybackRows)
  /\ cached \in CachedScripts
  /\ DOMAIN jobs \subseteq 1..MaxSources

\* Nothing that a scanner would reject becomes the document of a podcast or is
\* sent to a transcription, whenever and however often an object is scanned and
\* whether or not the scanner answers (finalize_upload, apply_scan_result).
OnlyCleanUsed ==
  /\ \A r \in DOMAIN sources : content[sources[r].media] = "clean"
  /\ \A m \in heard : content[m] = "clean"

\* What play stores was written from the document that is current when it is
\* stored, though the vendor was awaited in between: no document is added
\* meanwhile (generate_script_and_start_playback).
PlaysCurrent ==
  [][Len(scripts') > Len(scripts) /\ Len(playbacks') > Len(playbacks) =>
       LET r == scripts'[Len(scripts')].source
       IN  r = podcast.source /\ sources[r].parse = "parsed"]_vars

\* A playback that has ended stays so: no interruption that began before brings
\* it back; and its conversation is completed and announced for ingestion
\* (end_playback, interrupt_playback).
PlaybacksEnd ==
  [][\A p \in DOMAIN playbacks : playbacks[p].state = "ended" =>
       /\ playbacks'[p].state = "ended" /\ playbacks'[p].epoch = playbacks[p].epoch
       /\ playbacks[p].session = "completed" /\ playbacks[p].announced > 0]_vars
=============================================================================
