----------------------------- MODULE MCTaskDispatch -----------------------------
(***************************************************************************)
(* Small instances of TaskDispatch: four steps, of which the third runs a  *)
(* maintenance action, and one failure that the workflow survives.         *)
(***************************************************************************)
EXTENDS TaskDispatch
=============================================================================
