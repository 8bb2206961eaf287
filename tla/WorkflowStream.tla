--------------------------- MODULE WorkflowStream ---------------------------
(***************************************************************************)
(* What the Langflow adapters make of the frames of one streamed workflow  *)
(* (modules/conversations/langflow.py; session_create.py for a greeting).  *)
(*                                                                         *)
(* The canvas ends in two components.  ChatOutput has the result; in a     *)
(* deployed flow TextOutput echoes the envelope it was given.  Each may    *)
(* speak in an `end_vertex` frame, in an `output` frame or in both, in any *)
(* order, and the `end` frame may carry an output of its own.  A text is   *)
(*   ok       a result of this request                                     *)
(*   foreign  a result of another request                                  *)
(*   broken   anything that does not parse, or whose answer is blank       *)
(*   echo     the envelope                                                 *)
(* Frames that only show progress (the transcript, the model's text, its   *)
(* token usage) leave what is told here alone and are left out.            *)
(***************************************************************************)
EXTENDS Integers, Sequences, SequencesExt

Unset == "unset"
Components == {"ChatOutput", "TextOutput"}
Texts == {"ok", "foreign", "broken", "echo"}

Frames ==
       [kind : {"end_vertex", "output"}, from : Components, text : Texts]
  \cup [kind : {"end"}, from : {"flow"}, text : Texts \cup {Unset}]

\* Nothing has arrived: no final output, no component's output
StreamState == [final |-> Unset, outputs |-> [c \in Components |-> Unset]]

\* An echo is no answer: who sends one might as well have said nothing
WithoutEcho(text) == IF text = "echo" THEN Unset ELSE text

\* Mutant: TextOutput's text before ChatOutput's
SelectTextFirst(s) ==
  IF s.final # Unset THEN s
  ELSE LET text == WithoutEcho(s.outputs["TextOutput"])
       IN  [s EXCEPT !.final = IF text # Unset THEN text
                               ELSE WithoutEcho(s.outputs["ChatOutput"])]

\* The first text that is no echo, ChatOutput's before TextOutput's
SelectFinalOutput(s) ==
  IF s.final # Unset THEN s
  ELSE LET chat == WithoutEcho(s.outputs["ChatOutput"])
       IN  [s EXCEPT !.final = IF chat # Unset THEN chat
                               ELSE WithoutEcho(s.outputs["TextOutput"])]

\* ChatOutput overwrites, TextOutput only fills what is missing
MapEndVertex(s, f) ==
  IF WithoutEcho(f.text) = Unset \/ (f.from = "TextOutput" /\ s.final # Unset)
  THEN s
  ELSE [s EXCEPT !.final = f.text]

CaptureOutputFrame(s, f) == [s EXCEPT !.outputs[f.from] = f.text]

\* The frame's own output counts when no component has answered
CaptureEndFrame(s, f) ==
  LET selected == SelectFinalOutput(s)
  IN  IF selected.final # Unset THEN selected
      ELSE [selected EXCEPT !.final = WithoutEcho(f.text)]

Capture(s, f) ==
  CASE f.kind = "end_vertex" -> MapEndVertex(s, f)
    [] f.kind = "output"     -> CaptureOutputFrame(s, f)
    [] f.kind = "end"        -> CaptureEndFrame(s, f)

\* What is left when the provider closes the stream after these frames
FinalOutput(frames) == SelectFinalOutput(FoldLeft(Capture, StreamState, frames)).final

\* A turn's result must carry the id of its request, a greeting's need not
TurnResult(text)     == text = "ok"
GreetingResult(text) == text \in {"ok", "foreign"}

-----------------------------------------------------------------------------
(* The reference: what the frames of a flow mean, whatever their order *)

Said(frames, from)    == {frames[i].text : i \in {j \in DOMAIN frames : frames[j].from = from}}
Answers(frames, from) == Said(frames, from) \ {"echo", Unset}

\* Each component speaks once in each kind of frame, the end comes last, and
\* ChatOutput speaks with one voice.  TextOutput's end_vertex only echoes: one
\* that answered would come before ChatOutput's output frame.
AsDeployed(frames) ==
  /\ \A i \in DOMAIN frames :
       /\ frames[i].kind = "end" => i = Len(frames)
       /\ frames[i].kind = "end_vertex" /\ frames[i].from = "TextOutput" => frames[i].text = "echo"
  /\ \A i, j \in DOMAIN frames :
       frames[i].kind = frames[j].kind /\ frames[i].from = frames[j].from => i = j
  /\ \A a, b \in Answers(frames, "ChatOutput") : a = b

\* ChatOutput's answer, or TextOutput's if it has none, or else the end's own
Meant(frames) ==
  LET AnswerOf(from) == CHOOSE t \in Answers(frames, from) : TRUE
  IN  IF Answers(frames, "ChatOutput") # {} THEN AnswerOf("ChatOutput")
      ELSE IF Answers(frames, "TextOutput") # {} THEN AnswerOf("TextOutput")
      ELSE IF Answers(frames, "flow") # {} THEN AnswerOf("flow")
      ELSE Unset
=============================================================================
