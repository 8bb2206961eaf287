---------------------------- MODULE MCChatTurns ----------------------------
(* A room alone, for what its comments say and its code does not do *)
EXTENDS ChatTurns
=============================================================================
