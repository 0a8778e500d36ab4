--------------------------- MODULE MCTaskCompletion ---------------------------
(***************************************************************************)
(* Small instances of TaskCompletion: the ids are ordered, so there is no  *)
(* symmetry.                                                               *)
(***************************************************************************)
EXTENDS TaskCompletion

SomeRuns == 1 .. 3
=============================================================================
