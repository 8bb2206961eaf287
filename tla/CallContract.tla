---------------------------- MODULE CallContract ----------------------------
(***************************************************************************)
(* What the call service promises to whoever reads a call: it is opened,   *)
(* admitted, activated and ended in this order; every admission hands out  *)
(* the next token, until the call is active; the log of an active call     *)
(* only grows, by entries of the last token handed out; an ended call      *)
(* never changes again.                                                    *)
(***************************************************************************)
EXTENDS Naturals, Sequences

VARIABLES phase, token, log

vars == <<phase, token, log>>

Init ==
  /\ phase = "none"
  /\ token = 0
  /\ log = <<>>

Open ==
  /\ phase = "none"
  /\ phase' = "created"
  /\ UNCHANGED <<token, log>>

Admit ==
  /\ phase \in {"created", "admitted"}
  /\ phase' = "admitted"
  /\ token' = token + 1
  /\ UNCHANGED log

Activate ==
  /\ phase = "admitted"
  /\ phase' = "active"
  /\ UNCHANGED <<token, log>>

Record ==
  /\ phase = "active"
  /\ log' = Append(log, token)
  /\ UNCHANGED <<phase, token>>

End ==
  /\ phase \in {"created", "admitted", "active"}
  /\ phase' = "ended"
  /\ UNCHANGED <<token, log>>

Next == Open \/ Admit \/ Activate \/ Record \/ End

Spec == Init /\ [][Next]_vars

=============================================================================
