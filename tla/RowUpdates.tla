----------------------------- MODULE RowUpdates -----------------------------
(***************************************************************************)
(* An UPDATE ... SET of some columns, and an INSERT of rows whose key may  *)
(* be there: functions laid over one another, as TLC's @@ does, in a form  *)
(* that the provers can expand.                                            *)
(***************************************************************************)

\* The row, with these of its fields set
With(row, fields) ==
  [x \in DOMAIN row \cup DOMAIN fields |-> IF x \in DOMAIN fields THEN fields[x] ELSE row[x]]
=============================================================================
