------------------------------ MODULE DatasetStep ------------------------------
(***************************************************************************)
(* What a task run of several steps relies on when it lets a dataset be    *)
(* maintained: the work becomes durable commit by commit, between a begin  *)
(* that found no stop request and an end that is for good, and the step is *)
(* called a success only when all of its work is durable.                  *)
(*                                                                         *)
(* IngestionExecution implements it with its loops, threads, reports and   *)
(* final writes; the dataset steps of a workflow in TaskDispatch, which    *)
(* leave all that out, implement it as well.                               *)
(***************************************************************************)
EXTENDS Integers

CONSTANT NumUnits   \* commits that the work takes

VARIABLES
    phase,    \* waiting, working or over
    left,     \* commits that are not yet durable
    cancel,   \* a stop request was made
    evidence  \* the step is a success for whoever reads its node

vars == <<phase, left, cancel, evidence>>

-----------------------------------------------------------------------------
Init == /\ phase = "waiting"
        /\ left = NumUnits
        /\ cancel = FALSE
        /\ evidence = FALSE

Begin == /\ phase = "waiting"
         /\ ~ cancel
         /\ phase' = "working"
         /\ UNCHANGED <<left, cancel, evidence>>

\* A closed trading day: there is nothing to do.
Skip == /\ phase = "waiting"
        /\ phase' = "over"
        /\ left' = 0
        /\ UNCHANGED <<cancel, evidence>>

\* One commit; an exception may still end the work with it.
Commit == /\ phase = "working"
          /\ left > 0
          /\ left' = left - 1
          /\ phase' \in {"working", "over"}
          /\ UNCHANGED <<cancel, evidence>>

\* The end: all is done, or a stop request, an exception or a death.
Leave == /\ phase # "over"
         /\ phase' = "over"
         /\ UNCHANGED <<left, cancel, evidence>>

Attest == /\ phase = "over"
          /\ left = 0
          /\ evidence' = TRUE
          /\ UNCHANGED <<phase, left, cancel>>

\* The commit that attested it raised, and an issue is recorded.
Retract == /\ evidence' = FALSE
           /\ UNCHANGED <<phase, left, cancel>>

RequestCancel == /\ cancel' = TRUE
                 /\ UNCHANGED <<phase, left, evidence>>

Next == \/ Begin \/ Skip \/ Commit \/ Leave
        \/ Attest \/ Retract \/ RequestCancel

Spec == Init /\ [][Next]_vars
=============================================================================
