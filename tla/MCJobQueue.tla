----------------------------- MODULE MCJobQueue -----------------------------
(* The queue alone, for what its documents say and its code does not do *)
EXTENDS JobQueue
=============================================================================
