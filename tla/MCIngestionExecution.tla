------------------------- MODULE MCIngestionExecution -------------------------
(***************************************************************************)
(* Small instances of IngestionExecution: enough units for a fetch to be   *)
(* submitted after a stop request, and up to three fetches at a time.      *)
(***************************************************************************)
EXTENDS IngestionExecution
=============================================================================
