--------------------------- MODULE MCJobsAndChat ----------------------------
(* The jobs of the worker and the turns of a room have no row in common: an  *)
(* execution is about one of them, while the other stays as it began, and    *)
(* each is as fair as it is alone.                                           *)
EXTENDS JobQueue

CONSTANTS Requests, Keys, MaxFrames   \* of ChatTurns
VARIABLES room, messages, request

Chat == INSTANCE ChatTurns

chat       == <<room, messages, request>>
ChatUnused == room.state = "active" /\ Chat!Init

MCInit == Init /\ Chat!Init
MCNext ==
  \/ ChatUnused /\ Next /\ UNCHANGED chat
  \/ Init /\ Chat!Next /\ UNCHANGED vars
MCSpec == MCInit /\ [][MCNext]_<<vars, chat>> /\ Fairness /\ Chat!Fairness

TurnsWhole     == Chat!TurnsWhole
StreamMeant    == Chat!StreamMeant
LateTurnsBegan == Chat!LateTurnsBegan
RequestsEnd    == Chat!RequestsEnd
=============================================================================
