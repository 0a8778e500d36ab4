------------------------ MODULE IngestionExecutionProofs ------------------------
(***************************************************************************)
(* Proofs about IngestionExecution, for any number of units and any        *)
(* fetch_concurrency: its safety properties, that it is over after a       *)
(* bounded number of steps and waits for nothing in vain, what becomes of  *)
(* the rows that were shown as saved, and that it implements DatasetStep.  *)
(***************************************************************************)
EXTENDS IngestionExecution, FiniteSetTheorems, TLAPS

USE ExecutionAssumption

\* The exception on its way out and the outcome are known where they are used.
ResultKnown == /\ pc \in {"draining", "failing"} => result # "none"
               /\ pc \in {"finalizing", "refinalizing"} => outcome.status # "none"

TypeInv == TypeOK /\ ResultKnown

\* The invariant holds of a run that was just claimed.
LEMMA TypeInvInit == Init => TypeInv
<1> SUFFICES ASSUME Init PROVE TypeInv
    OBVIOUS
<1>1. /\ fetch \in [Units -> {"none", "queued", "running", "fetched", "raised", "canceled"}]
      /\ commits \in [Units -> Nat]
    BY DEF Init
<1>2. /\ outcome \in [status : Statuses, saved : SUBSET Units]
      /\ row \in [status : {"running", "canceling", "success", "failed", "canceled"},
                  cancel : BOOLEAN, saved : SUBSET Units, done : SUBSET Units]
      /\ node \in [status : {"running"} \cup Statuses, saved : SUBSET Units]
    BY DEF Init, Statuses
<1>3. closed \in BOOLEAN
    BY DEF Init
<1>4. /\ pc \in Places /\ next \in 1 .. NumUnits + 1 /\ unit \in 0 .. NumUnits
      /\ concurrency \in 1 .. MaxConcurrency /\ result = "none" /\ pc = "created"
      /\ in_flight = {} /\ batch = {} /\ counted = {} /\ late = {}
    BY DEF Init, Places
<1> QED BY <1>1, <1>2, <1>3, <1>4 DEF TypeInv, TypeOK, ResultKnown

\* A durable commit of the unit keeps the types of the history.
LEMMA DurableTypes ==
    ASSUME TypeInv, pc = "writing", IsDurable
    PROVE  commits' \in [Units -> Nat] /\ late' \subseteq Units /\ closed' = closed
<1>1. unit \in Units /\ commits \in [Units -> Nat] /\ late \subseteq Units
    BY DEF TypeInv, TypeOK
<1>2. commits[unit] + 1 \in Nat
    BY <1>1
<1>3. commits' = [commits EXCEPT ![unit] = commits[unit] + 1]
    BY DEF IsDurable
<1>4. late' \subseteq Units
    BY <1>1 DEF IsDurable
<1> QED BY <1>1, <1>2, <1>3, <1>4 DEF IsDurable

\* A report, written or lost, keeps the types of the rows.
LEMMA ProgressTypes ==
    ASSUME TypeInv, Progress
    PROVE  /\ row' \in [status : {"running", "canceling", "success", "failed", "canceled"},
                         cancel : BOOLEAN, saved : SUBSET Units, done : SUBSET Units]
           /\ node' \in [status : {"running"} \cup Statuses, saved : SUBSET Units]
<1>1. CASE UNCHANGED rows
    BY <1>1 DEF TypeInv, TypeOK, rows
<1>2. CASE ~ UNCHANGED rows
    <2>1. row' = [row EXCEPT !.saved = counted, !.done = counted]
        BY <1>2 DEF Progress
    <2>2. node' = [node EXCEPT !.saved = counted] \/ node' = node
        BY <1>2 DEF Progress
    <2>3. counted \in SUBSET Units
        BY DEF TypeInv, TypeOK
    <2>4. /\ row \in [status : {"running", "canceling", "success", "failed", "canceled"},
                      cancel : BOOLEAN, saved : SUBSET Units, done : SUBSET Units]
          /\ node \in [status : {"running"} \cup Statuses, saved : SUBSET Units]
        BY DEF TypeInv, TypeOK
    <2> QED BY <2>1, <2>2, <2>3, <2>4
<1> QED BY <1>1, <1>2

\* The types of what the loops and the threads change.
LoopTypes ==
    /\ pc \in Places
    /\ concurrency \in 1 .. MaxConcurrency
    /\ next \in 1 .. NumUnits + 1
    /\ fetch \in [Units -> {"none", "queued", "running", "fetched", "raised", "canceled"}]
    /\ in_flight \subseteq Units /\ batch \subseteq Units
    /\ unit \in 0 .. NumUnits
    /\ pc \in {"fetching", "writing"} => unit \in Units
    /\ counted \subseteq Units
    /\ result \in {"none", "failed", "canceled"}
    /\ ResultKnown

\* The steps of the loops that leave rows, outcome and history alone.
LEMMA LoopStepTypes ==
    ASSUME TypeInv,
           \/ Begin \/ StartUnit \/ Fetched \/ SubmitFirst \/ Take \/ Resubmit
           \/ \E u \in Units : Thread(u)
    PROVE  TypeInv'
<1>1. LoopTypes
    BY DEF TypeInv, TypeOK, LoopTypes
<1>2. ASSUME UNCHANGED <<outcome, row, node, commits, late, closed>>, LoopTypes' PROVE TypeInv'
    <2>1. UNCHANGED <<outcome, row, node, commits, late, closed>>
        BY <1>2
    <2>2. /\ outcome' \in [status : Statuses, saved : SUBSET Units]
          /\ row' \in [status : {"running", "canceling", "success", "failed", "canceled"},
                       cancel : BOOLEAN, saved : SUBSET Units, done : SUBSET Units]
          /\ node' \in [status : {"running"} \cup Statuses, saved : SUBSET Units]
        BY <2>1 DEF TypeInv, TypeOK
    <2>3. commits' \in [Units -> Nat] /\ late' \subseteq Units /\ closed' \in BOOLEAN
        BY <2>1 DEF TypeInv, TypeOK
    <2> QED BY <1>2, <2>2, <2>3 DEF TypeInv, TypeOK, LoopTypes
<1> USE DEF LoopTypes, ResultKnown, Places, Units, fetching, rows, history, Goto, Submit
<1>3. CASE Begin
    <2>1. UNCHANGED <<outcome, row, node, commits, late, closed>>
        BY <1>3 DEF Begin
    <2>2. LoopTypes'
        BY <1>1, <1>3 DEF Begin
    <2> QED BY <1>2, <2>1, <2>2
<1>4. CASE StartUnit
    <2>1. UNCHANGED <<outcome, row, node, commits, late, closed>>
        BY <1>4 DEF StartUnit
    <2>2. LoopTypes'
        BY <1>1, <1>4 DEF StartUnit
    <2> QED BY <1>2, <2>1, <2>2
<1>5. CASE Fetched
    <2>1. UNCHANGED <<outcome, row, node, commits, late, closed>>
        BY <1>5 DEF Fetched
    <2>2. LoopTypes'
        BY <1>1, <1>5 DEF Fetched
    <2> QED BY <1>2, <2>1, <2>2
<1>6. CASE SubmitFirst
    <2>1. UNCHANGED <<outcome, row, node, commits, late, closed>>
        BY <1>6 DEF SubmitFirst
    <2>2. LoopTypes'
        BY <1>1, <1>6 DEF SubmitFirst
    <2> QED BY <1>2, <2>1, <2>2
<1>7. CASE Take
    <2>1. UNCHANGED <<outcome, row, node, commits, late, closed>>
        BY <1>7 DEF Take
    <2>2. LoopTypes'
        BY <1>1, <1>7 DEF Take
    <2> QED BY <1>2, <2>1, <2>2
<1>8. CASE Resubmit
    <2>1. UNCHANGED <<outcome, row, node, commits, late, closed>>
        BY <1>8 DEF Resubmit
    <2>2. LoopTypes'
        BY <1>1, <1>8 DEF Resubmit
    <2> QED BY <1>2, <2>1, <2>2
<1>9. ASSUME NEW u \in Units, Thread(u) PROVE TypeInv'
    <2>1. UNCHANGED <<outcome, row, node, commits, late, closed>>
        BY <1>9 DEF Thread, FetchBegins, FetchEnds
    <2>2. PICK r \in {"running", "fetched", "raised"} : fetch' = [fetch EXCEPT ![u] = r]
        BY <1>9 DEF Thread, FetchBegins, FetchEnds
    <2>3. UNCHANGED <<pc, concurrency, next, in_flight, batch, unit, counted, result>>
        BY <1>9 DEF Thread, FetchBegins, FetchEnds
    <2>4. LoopTypes'
        BY <1>1, <2>1, <2>2, <2>3
    <2> QED BY <1>2, <2>1, <2>4
<1> QED BY <1>3, <1>4, <1>5, <1>6, <1>7, <1>8, <1>9

\* The final write keeps the types of the row.
LEMMA FinalWriteTypes ==
    ASSUME TypeInv, pc \in {"finalizing", "refinalizing"}, FinalWrite
    PROVE  row' \in [status : {"running", "canceling", "success", "failed", "canceled"},
                     cancel : BOOLEAN, saved : SUBSET Units, done : SUBSET Units]
<1>1. /\ outcome.status \in {"success", "failed", "canceled"} /\ outcome.saved \in SUBSET Units
      /\ row \in [status : {"running", "canceling", "success", "failed", "canceled"},
                  cancel : BOOLEAN, saved : SUBSET Units, done : SUBSET Units]
    BY DEF TypeInv, TypeOK, ResultKnown, Statuses
<1>2. FinalStatus \in {"success", "failed", "canceled"}
    BY <1>1 DEF FinalStatus
<1>3. PICK done \in SUBSET Units :
         row' = [row EXCEPT !.status = FinalStatus, !.saved = outcome.saved, !.done = done]
    BY <1>1 DEF FinalWrite
<1> QED BY <1>1, <1>2, <1>3

\* Every step of the threads, of a request and of a restart keeps the types.
LEMMA TypeInvNext == TypeInv /\ [Next]_vars => TypeInv'
<1> SUFFICES ASSUME TypeInv, [Next]_vars PROVE TypeInv'
    OBVIOUS
<1> USE DEF TypeInv, TypeOK, ResultKnown, Places, Units, Statuses, fetching, rows, history
<1> USE DEF Goto, Raise, Ends
<1>1. CASE Prepare
    BY <1>1 DEF Prepare
<1>2. CASE PrepareFails
    BY <1>2 DEF PrepareFails
<1>3. CASE SkipClosedDay
    BY <1>3 DEF SkipClosedDay
<1>4. CASE Begin \/ StartUnit \/ Fetched \/ SubmitFirst \/ Take \/ Resubmit
    BY <1>4, LoopStepTypes
<1>5. CASE BeginCanceled \/ BeginFails
    BY <1>5 DEF BeginCanceled, BeginFails
<1>7. CASE StartUnitCanceled
    BY <1>7 DEF StartUnitCanceled
<1>8. CASE UnitsDone
    BY <1>8 DEF UnitsDone
<1>10. CASE FetchRaised
    BY <1>10 DEF FetchRaised
<1>12. CASE SubmitFirstCanceled
    BY <1>12 DEF SubmitFirstCanceled
<1>13. CASE FirstSubmitted
    BY <1>13 DEF FirstSubmitted
<1>14. CASE WaitReturns
    <2>1. pc' = "batch" /\ batch' \subseteq in_flight
        BY <1>14 DEF WaitReturns, Completed
    <2>2. /\ UNCHANGED <<concurrency, next, fetch, in_flight, unit>>
          /\ UNCHANGED <<counted, result, outcome, rows, history>>
        BY <1>14 DEF WaitReturns
    <2> QED BY <2>1, <2>2
<1>15. CASE WaitReturnsFailed
    BY <1>15 DEF WaitReturnsFailed, Completed, CancelPending
<1>16. CASE AllFetched
    BY <1>16 DEF AllFetched
<1>18. CASE BatchDone
    BY <1>18 DEF BatchDone
<1>20. CASE NothingToSubmit
    BY <1>20 DEF NothingToSubmit
<1>21. CASE ResubmitCanceled
    BY <1>21 DEF ResubmitCanceled, CancelPending
<1>22. CASE Drained
    BY <1>22 DEF Drained
<1>23. CASE CommitUnit
    <2>1. commits' \in [Units -> Nat] /\ late' \subseteq Units /\ closed' = closed
        BY <1>23, DurableTypes DEF CommitUnit
    <2>2. unit \in Units /\ counted' \subseteq Units
        BY <1>23 DEF CommitUnit
    <2> QED BY <1>23, <2>1, <2>2 DEF CommitUnit
<1>24. CASE CommitFails
    <2>1. commits' \in [Units -> Nat] /\ late' \subseteq Units /\ closed' = closed
        BY <1>24, DurableTypes DEF CommitFails
    <2> QED BY <1>24, <2>1 DEF CommitFails
<1>25. CASE Report
    BY <1>25, ProgressTypes DEF Report
<1>26. CASE ReportFailure
    BY <1>26, ProgressTypes DEF ReportFailure, CancelPending
<1>27. CASE DispatchSuccess
    BY <1>27 DEF DispatchSuccess, NodeSucceeds
<1>28. CASE DispatchSuccessFails
    <2>3. row' = row \/ row' = [row EXCEPT !.done = Units]
        BY <1>28 DEF DispatchSuccessFails, NodeSucceeds
    <2>4. node' = node \/ node' = [status |-> "success", saved |-> counted]
        BY <1>28 DEF DispatchSuccessFails, NodeSucceeds
    <2>1. /\ row' \in [status : {"running", "canceling", "success", "failed", "canceled"},
                       cancel : BOOLEAN, saved : SUBSET Units, done : SUBSET Units]
          /\ node' \in [status : {"running"} \cup Statuses, saved : SUBSET Units]
        BY <2>3, <2>4
    <2>2. /\ pc' = "failing" /\ result' = "failed"
          /\ UNCHANGED <<concurrency, fetching, counted, outcome, history>>
        BY <1>28 DEF DispatchSuccessFails
    <2> QED BY <2>1, <2>2
<1>29. CASE DispatchFailure
    BY <1>29 DEF DispatchFailure
<1>30. CASE DispatchFailureFails
    BY <1>30 DEF DispatchFailureFails
<1>31. CASE Finalize
    BY <1>31, FinalWriteTypes DEF Finalize
<1>32. CASE FinalizeRaises
    <2>1. row' \in [status : {"running", "canceling", "success", "failed", "canceled"},
                    cancel : BOOLEAN, saved : SUBSET Units, done : SUBSET Units]
        BY <1>32, FinalWriteTypes DEF FinalizeRaises
    <2>2. outcome' = [status |-> "failed", saved |-> {}] /\ pc' = "refinalizing"
        BY <1>32 DEF FinalizeRaises
    <2>3. UNCHANGED <<concurrency, fetching, counted, result, node, history>>
        BY <1>32 DEF FinalizeRaises
    <2> QED BY <2>1, <2>2, <2>3
<1>33. CASE RequestCancel
    <2>1. row' = [row EXCEPT !.status = "canceling", !.cancel = TRUE] /\ TRUE \in BOOLEAN
        BY <1>33 DEF RequestCancel
    <2>2. row' \in [status : {"running", "canceling", "success", "failed", "canceled"},
                    cancel : BOOLEAN, saved : SUBSET Units, done : SUBSET Units]
        BY <2>1
    <2> QED BY <1>33, <2>2 DEF RequestCancel
<1>34. CASE Crash
    BY <1>34 DEF Crash
<1>35. CASE Reconcile
    BY <1>35 DEF Reconcile
<1>36. CASE \E u \in Units : Thread(u)
    BY <1>36, LoopStepTypes
<1>37. CASE UNCHANGED vars
    BY <1>37 DEF vars
<1> QED BY <1>1, <1>2, <1>3, <1>4, <1>5, <1>7, <1>8, <1>10, <1>12, <1>13, <1>14, <1>15, <1>16,
           <1>18, <1>20, <1>21, <1>22, <1>23, <1>24, <1>25, <1>26, <1>27, <1>28, <1>29, <1>30,
           <1>31, <1>32, <1>33, <1>34, <1>35, <1>36, <1>37
        DEF Next, Main

\* Every state has the types of TypeOK.
THEOREM TypeCorrect == Spec => []TypeOK
<1>1. TypeInv => TypeOK
    BY DEF TypeInv
<1> QED BY <1>1, TypeInvInit, TypeInvNext, PTL DEF Spec

-----------------------------------------------------------------------------
\* Where a unit is being processed, and where no batch is open.
Processing == {"fetching", "writing"}
NoBatch == {"created", "planned", "submitting", "waiting"}

\* The iterator is ahead of every unit that was touched, and a unit that is in
\* flight or processed was not committed before.
UnitInv ==
    /\ \A u \in Units : commits[u] <= 1
    /\ \A u \in Units : u >= next \/ u \in in_flight => commits[u] = 0
    /\ \A u \in in_flight : u < next
    /\ batch \subseteq in_flight
    /\ pc \in NoBatch => batch = {}
    /\ pc \in Processing => commits[unit] = 0 /\ unit < next /\ unit \notin in_flight

\* Steps that neither submit, take nor commit a unit.
Idle == /\ UNCHANGED <<next, in_flight, batch, commits>>
        /\ pc' \in Processing => pc \in Processing /\ unit' = unit
        /\ pc' \in NoBatch => pc \in NoBatch

\* The invariant holds before any unit was submitted.
LEMMA UnitInvInit == Init => UnitInv
BY DEF Init, UnitInv, Units, NoBatch, Processing

\* A step is one of those that touch a unit, or idle.
LEMMA TouchOrIdle ==
    ASSUME [Next]_vars
    PROVE  \/ Idle
           \/ StartUnit \/ SubmitFirst \/ WaitReturns \/ WaitReturnsFailed
           \/ Take \/ BatchDone \/ Resubmit \/ CommitUnit \/ CommitFails
<1> USE DEF Idle, NoBatch, Processing, Goto, Raise, fetching, rows, history
<1>1. CASE Prepare \/ PrepareFails \/ SkipClosedDay \/ Begin \/ BeginCanceled \/ BeginFails
    BY <1>1 DEF Prepare, PrepareFails, SkipClosedDay, Begin, BeginCanceled, BeginFails
<1>2. CASE StartUnitCanceled \/ UnitsDone \/ Fetched \/ FetchRaised
    BY <1>2 DEF StartUnitCanceled, UnitsDone, Fetched, FetchRaised
<1>3. CASE SubmitFirstCanceled \/ FirstSubmitted \/ AllFetched \/ NothingToSubmit
    BY <1>3 DEF SubmitFirstCanceled, FirstSubmitted, AllFetched, NothingToSubmit
<1>4. CASE ResubmitCanceled \/ Drained \/ Report \/ ReportFailure
    BY <1>4 DEF ResubmitCanceled, Drained, Report, ReportFailure
<1>5. CASE DispatchSuccess \/ DispatchSuccessFails \/ DispatchFailure \/ DispatchFailureFails
    BY <1>5 DEF DispatchSuccess, DispatchSuccessFails, DispatchFailure, DispatchFailureFails
<1>6. CASE Finalize \/ FinalizeRaises \/ RequestCancel \/ Crash \/ Reconcile
    BY <1>6 DEF Finalize, FinalizeRaises, RequestCancel, Crash, Reconcile
<1>7. CASE \E u \in Units : Thread(u)
    BY <1>7 DEF Thread, FetchBegins, FetchEnds
<1>8. CASE UNCHANGED vars
    BY <1>8 DEF vars
<1> QED BY <1>1, <1>2, <1>3, <1>4, <1>5, <1>6, <1>7, <1>8 DEF Next, Main

\* Only a unit that was never committed is committed.
LEMMA UnitInvNext == TypeInv /\ UnitInv /\ [Next]_vars => UnitInv'
<1> SUFFICES ASSUME TypeInv, UnitInv, [Next]_vars PROVE UnitInv'
    OBVIOUS
<1>0. /\ next \in 1 .. NumUnits + 1 /\ in_flight \subseteq Units /\ batch \subseteq Units
      /\ commits \in [Units -> Nat]
      /\ pc \in Processing => unit \in Units
    BY DEF TypeInv, TypeOK, Processing
<1> USE DEF UnitInv, Units, NoBatch, Processing, Goto
<1>1. CASE Idle
    BY <1>0, <1>1 DEF Idle
<1>2. CASE StartUnit
    BY <1>0, <1>2 DEF StartUnit, history
<1>3. CASE SubmitFirst
    BY <1>0, <1>3 DEF SubmitFirst, Submit, history
<1>4. CASE WaitReturns
    BY <1>0, <1>4 DEF WaitReturns, Completed, history
<1>5. CASE WaitReturnsFailed
    BY <1>0, <1>5 DEF WaitReturnsFailed, history
<1>6. CASE Take
    BY <1>0, <1>6 DEF Take, history
<1>7. CASE BatchDone
    BY <1>0, <1>7 DEF BatchDone, history, fetching
<1>8. CASE Resubmit
    BY <1>0, <1>8 DEF Resubmit, Submit, history
<1>9. ASSUME pc = "writing", pc' = "reporting", UNCHANGED fetching, IsDurable
      PROVE  UnitInv'
    <2>1. unit \in Units /\ commits[unit] = 0 /\ unit < next /\ unit \notin in_flight
        BY <1>0, <1>9
    <2>2. commits' = [commits EXCEPT ![unit] = 1]
        BY <1>0, <1>9, <2>1 DEF IsDurable
    <2> QED BY <1>0, <1>9, <2>1, <2>2 DEF fetching
<1>10. CASE CommitUnit
    BY <1>9, <1>10 DEF CommitUnit
<1>11. CASE CommitFails
    <2>1. CASE IsDurable
        BY <1>9, <1>11, <2>1 DEF CommitFails
    <2>2. CASE UNCHANGED history
        BY <1>0, <1>11, <2>2 DEF CommitFails, fetching, history
    <2> QED BY <1>11, <2>1, <2>2 DEF CommitFails
<1> QED BY <1>1, <1>2, <1>3, <1>4, <1>5, <1>6, <1>7, <1>8, <1>10, <1>11, TouchOrIdle

\* No unit is committed twice, for any number of units and any fetch_concurrency.
THEOREM OneCommitPerUnit == Spec => []UnitsAtMostOnce
<1>1. UnitInv => UnitsAtMostOnce
    BY DEF UnitInv, UnitsAtMostOnce
<1> QED BY <1>1, TypeInvInit, TypeInvNext, UnitInvInit, UnitInvNext, PTL DEF Spec

-----------------------------------------------------------------------------
\* Every row counter speaks of durable units.
DurableInv == row.saved \cup node.saved \cup counted \cup outcome.saved \subseteq Durable

\* What is durable stays so, and a step other than a commit adds nothing to it.
LEMMA DurableGrows ==
    ASSUME TypeInv, [Next]_vars
    PROVE  /\ Durable \subseteq Durable'
           /\ pc # "writing" => Durable' = Durable /\ UNCHANGED commits
<1>1. CASE CommitUnit \/ CommitFails
    <2>1. /\ pc = "writing"
          /\ commits' = commits \/ commits' = [commits EXCEPT ![unit] = @ + 1]
        BY <1>1 DEF CommitUnit, CommitFails, IsDurable, Goto, history
    <2>2. commits \in [Units -> Nat] /\ unit \in Units
        BY <2>1 DEF TypeInv, TypeOK
    <2> QED BY <2>1, <2>2 DEF Durable, Units
<1>2. CASE UNCHANGED commits
    BY <1>2 DEF Durable
<1>3. CASE StartUnit \/ SubmitFirst \/ WaitReturns \/ WaitReturnsFailed \/ Take \/ BatchDone \/ Resubmit
    BY <1>2, <1>3 DEF StartUnit, SubmitFirst, WaitReturns, WaitReturnsFailed, Take, BatchDone, Resubmit, history
<1> QED BY <1>1, <1>2, <1>3, TouchOrIdle DEF Idle

\* Nothing is counted at first.
LEMMA DurableInvInit == Init => DurableInv
BY DEF Init, DurableInv

\* Counting follows the commit, and reports follow the counting.
LEMMA DurableInvNext == TypeInv /\ DurableInv /\ [Next]_vars => DurableInv'
<1> SUFFICES ASSUME TypeInv, DurableInv, [Next]_vars PROVE DurableInv'
    OBVIOUS
<1>0. Durable \subseteq Durable' /\ counted \subseteq Durable /\ counted \subseteq Durable'
    BY DurableGrows DEF DurableInv
<1> USE DEF DurableInv
<1>1. CASE UNCHANGED <<row, node, counted, outcome>>
    BY <1>0, <1>1
<1>2. CASE CommitUnit
    <2>1. unit \in Units /\ commits \in [Units -> Nat]
          /\ commits' = [commits EXCEPT ![unit] = @ + 1]
        BY <1>2 DEF CommitUnit, IsDurable, Goto, TypeInv, TypeOK
    <2>2. unit \in Durable'
        BY <2>1 DEF Durable, Units
    <2> QED BY <1>0, <1>2, <2>2 DEF CommitUnit, rows
<1>3. ASSUME Progress, UNCHANGED <<counted, outcome>> PROVE DurableInv'
    <2>1. row'.saved \in {row.saved, counted} /\ node'.saved \in {node.saved, counted}
        BY <1>3 DEF Progress, rows, TypeInv, TypeOK
    <2> QED BY <1>0, <1>3, <2>1
<1>4. CASE Report \/ ReportFailure
    BY <1>3, <1>4 DEF Report, ReportFailure
<1>5. ASSUME NodeSucceeds PROVE row'.saved = row.saved /\ node'.saved = counted
    BY <1>5 DEF NodeSucceeds, TypeInv, TypeOK
<1>6. CASE DispatchSuccess
    <2>1. outcome'.saved = counted /\ UNCHANGED counted
        BY <1>6 DEF DispatchSuccess, Ends
    <2> QED BY <1>0, <1>5, <1>6, <2>1 DEF DispatchSuccess
<1>7. CASE DispatchSuccessFails
    BY <1>0, <1>5, <1>7 DEF DispatchSuccessFails, rows
<1>8. ASSUME UNCHANGED <<counted, row>>, Ends("failed", {}) \/ Ends(result, {}), node'.saved = node.saved
      PROVE  DurableInv'
    <2>1. outcome'.saved = {}
        BY <1>8 DEF Ends
    <2> QED BY <1>0, <1>8, <2>1
<1>9. CASE PrepareFails \/ DispatchFailure \/ DispatchFailureFails
    <2>1. UNCHANGED <<counted, row>> /\ (Ends("failed", {}) \/ Ends(result, {}))
        BY <1>9 DEF PrepareFails, DispatchFailure, DispatchFailureFails, rows
    <2>2. node'.saved = node.saved
        BY <1>9 DEF PrepareFails, DispatchFailure, DispatchFailureFails, rows, TypeInv, TypeOK
    <2> QED BY <1>8, <2>1, <2>2
<1>10. ASSUME FinalWrite PROVE row'.saved = outcome.saved
    BY <1>10 DEF FinalWrite, TypeInv, TypeOK
<1>11. CASE Finalize
    BY <1>0, <1>10, <1>11 DEF Finalize
<1>12. CASE FinalizeRaises
    <2>1. outcome'.saved = {} /\ UNCHANGED <<counted, node>>
        BY <1>12 DEF FinalizeRaises, Ends
    <2> QED BY <1>0, <1>10, <1>12, <2>1 DEF FinalizeRaises
<1>13. CASE Prepare
    <2>1. node'.saved = node.saved
        BY <1>13 DEF Prepare, TypeInv, TypeOK
    <2> QED BY <1>0, <1>13, <2>1 DEF Prepare
<1>14. CASE RequestCancel \/ Reconcile
    <2>1. row'.saved = row.saved
        BY <1>14 DEF RequestCancel, Reconcile, TypeInv, TypeOK
    <2> QED BY <1>0, <1>14, <2>1 DEF RequestCancel, Reconcile
<1>15. CASE SkipClosedDay \/ Begin \/ BeginCanceled \/ BeginFails \/ Crash
    BY <1>1, <1>15 DEF SkipClosedDay, Begin, BeginCanceled, BeginFails, Crash, rows
<1>16. CASE StartUnit \/ StartUnitCanceled \/ UnitsDone \/ Fetched \/ FetchRaised
    BY <1>1, <1>16 DEF StartUnit, StartUnitCanceled, UnitsDone, Fetched, FetchRaised, rows
<1>17. CASE SubmitFirst \/ SubmitFirstCanceled \/ FirstSubmitted \/ WaitReturns \/ WaitReturnsFailed
    BY <1>1, <1>17 DEF SubmitFirst, SubmitFirstCanceled, FirstSubmitted, WaitReturns,
                       WaitReturnsFailed, rows
<1>18. CASE AllFetched \/ Take \/ BatchDone \/ Resubmit \/ NothingToSubmit
    BY <1>1, <1>18 DEF AllFetched, Take, BatchDone, Resubmit, NothingToSubmit, rows
<1>19. CASE ResubmitCanceled \/ Drained \/ CommitFails
    BY <1>1, <1>19 DEF ResubmitCanceled, Drained, CommitFails, rows
<1>20. CASE \E u \in Units : Thread(u)
    BY <1>1, <1>20 DEF Thread, FetchBegins, FetchEnds, rows
<1>21. CASE UNCHANGED vars
    BY <1>1, <1>21 DEF vars, rows
<1> QED BY <1>2, <1>4, <1>6, <1>7, <1>9, <1>11, <1>12, <1>13, <1>14, <1>15, <1>16, <1>17,
           <1>18, <1>19, <1>20, <1>21 DEF Next, Main

\* Reported rows are durable rows, in every state.
THEOREM ReportsAreDurable == Spec => []ReportedIsDurable
<1>1. DurableInv => ReportedIsDurable
    BY DEF DurableInv, ReportedIsDurable
<1> QED BY <1>1, TypeInvInit, TypeInvNext, DurableInvInit, DurableInvNext, PTL DEF Spec

-----------------------------------------------------------------------------
\* The loops of the executor, serial and with threads.
SerialLoop == {"between", "fetching"}
ThreadLoop == {"submitting", "waiting", "batch", "resubmitting"}
Executing == {"created", "planned", "writing", "returned"} \cup SerialLoop \cup ThreadLoop

\* No exception is on its way out.
Healthy == pc \in Executing \/ (pc = "reporting" /\ result = "none")

\* Every unit of the plan is durable, or none was begun (a closed trading day).
Complete == Durable = Units \/ (Durable = {} /\ closed)

\* Only the dispatcher's look at the calendar makes it a closed day.
LEMMA ClosedStays == [Next]_vars => closed' = closed \/ SkipClosedDay
BY DEF Next, Main, Thread, vars, history, Prepare, PrepareFails, Begin, BeginCanceled, BeginFails,
       StartUnit, StartUnitCanceled, UnitsDone, Fetched, FetchRaised, SubmitFirst,
       SubmitFirstCanceled, FirstSubmitted, WaitReturns, WaitReturnsFailed, AllFetched, Take,
       BatchDone, Resubmit, NothingToSubmit, ResubmitCanceled, Drained, CommitUnit, CommitFails,
       IsDurable, Report, ReportFailure, DispatchSuccess, DispatchSuccessFails, DispatchFailure,
       DispatchFailureFails, Finalize, FinalizeRaises, RequestCancel, Crash, Reconcile,
       FetchBegins, FetchEnds

\* A healthy execution has counted what it committed, and accounts for every
\* unit it took from the plan; its loops do not end early.
LoopInv ==
    /\ Healthy => /\ result = "none"
                  /\ counted = Durable
    /\ Healthy /\ pc # "returned" =>
          \A u \in Units : \/ u >= next \/ u \in counted \/ u \in in_flight
                           \/ pc \in Processing /\ u = unit
    /\ Serial => in_flight = {}
    /\ pc \in SerialLoop => Serial
    /\ pc \in ThreadLoop => ~ Serial
    /\ pc \in {"created", "planned"} => next = 1 /\ counted = {}
    /\ pc = "submitting" /\ next > 1 => in_flight # {}
    /\ pc \in {"waiting", "batch"} => next > NumUnits \/ in_flight # {}
    /\ pc = "returned" => Complete

\* The invariant holds of a run that was just claimed.
LEMMA LoopInvInit == Init => LoopInv
<1> SUFFICES ASSUME Init PROVE LoopInv
    OBVIOUS
<1>1. Durable = {}
    BY DEF Init, Durable
<1> QED BY <1>1 DEF Init, LoopInv, Healthy, Executing, SerialLoop, ThreadLoop, Processing, Units

\* Steps that end with an exception, or after the executor.
Outside == {"draining", "failing", "finalizing", "refinalizing", "finished", "dead"}

\* The loops account for every unit until the last one is committed.
LEMMA LoopInvNext == TypeInv /\ UnitInv /\ LoopInv /\ [Next]_vars => LoopInv'
<1> SUFFICES ASSUME TypeInv, UnitInv, LoopInv, [Next]_vars PROVE LoopInv'
    OBVIOUS
<1>0. /\ next \in 1 .. NumUnits + 1 /\ in_flight \subseteq Units /\ counted \subseteq Units
      /\ concurrency \in 1 .. MaxConcurrency /\ MaxConcurrency \in Nat /\ NumUnits \in Nat \ {0}
      /\ Durable \subseteq Units
    BY DEF TypeInv, TypeOK, Durable
<1>1. concurrency' = concurrency
    BY DEF Next, Main, Thread, vars, Prepare, PrepareFails, SkipClosedDay, Begin, BeginCanceled, BeginFails,
           StartUnit, StartUnitCanceled, UnitsDone, Fetched, FetchRaised, SubmitFirst,
           SubmitFirstCanceled, FirstSubmitted, WaitReturns, WaitReturnsFailed, AllFetched, Take,
           BatchDone, Resubmit, NothingToSubmit, ResubmitCanceled, Drained, CommitUnit, CommitFails,
           Report, ReportFailure, DispatchSuccess, DispatchSuccessFails, DispatchFailure,
           DispatchFailureFails, Finalize, FinalizeRaises, RequestCancel, Crash, Reconcile,
           FetchBegins, FetchEnds
<1>2. Serial' = Serial
    BY <1>1 DEF Serial
<1>3. pc # "writing" => Durable' = Durable
    BY DurableGrows
<1> USE DEF LoopInv, Healthy, Executing, SerialLoop, ThreadLoop, Processing, Goto
<1>4. ASSUME pc' \in Outside, UNCHANGED in_flight PROVE LoopInv'
    BY <1>2, <1>4 DEF Outside
<1>5. CASE PrepareFails \/ BeginCanceled \/ BeginFails \/ StartUnitCanceled \/ SubmitFirstCanceled
    BY <1>4, <1>5 DEF PrepareFails, BeginCanceled, BeginFails, StartUnitCanceled, SubmitFirstCanceled,
                      Raise, Outside, fetching
<1>6. CASE ResubmitCanceled \/ Drained \/ ReportFailure
    BY <1>4, <1>6 DEF ResubmitCanceled, Drained, ReportFailure, Raise, Outside, fetching
<1>7. CASE DispatchSuccess \/ DispatchSuccessFails \/ DispatchFailure \/ DispatchFailureFails
    BY <1>4, <1>7 DEF DispatchSuccess, DispatchSuccessFails, DispatchFailure, DispatchFailureFails,
                      Outside, fetching
<1>8. CASE Finalize \/ FinalizeRaises \/ Crash
    BY <1>4, <1>8 DEF Finalize, FinalizeRaises, Crash, Outside, fetching
<1>9. ASSUME UNCHANGED <<pc, next, in_flight, unit, counted, result, commits>> PROVE LoopInv'
    <2>1. Durable' = Durable
        BY <1>9 DEF Durable
    <2>2. pc = "returned" => closed' = closed
        BY ClosedStays DEF SkipClosedDay
    <2> QED BY <1>2, <1>9, <2>1, <2>2 DEF Complete
<1>10. CASE RequestCancel \/ Reconcile \/ UNCHANGED vars
    BY <1>9, <1>10 DEF RequestCancel, Reconcile, vars, fetching, history
<1>11. CASE \E u \in Units : Thread(u)
    BY <1>9, <1>11 DEF Thread, FetchBegins, FetchEnds, history
<1>12. CASE Prepare \/ Begin
    BY <1>0, <1>2, <1>3, <1>12 DEF Prepare, Begin, fetching
<1>13. CASE SkipClosedDay
    BY <1>0, <1>2, <1>3, <1>13 DEF SkipClosedDay, fetching, Complete
<1>14. CASE StartUnit
    <2>1. Serial /\ in_flight = {} /\ counted = Durable /\ result = "none"
        BY <1>14 DEF StartUnit
    <2>2. /\ \A u \in Units : u >= next \/ u \in counted
          /\ next' = next + 1 /\ unit' = next
        BY <1>14, <2>1 DEF StartUnit
    <2>3. \A u \in Units : u >= next' \/ u \in counted \/ u = unit'
        BY <1>0, <2>2 DEF Units
    <2> QED BY <1>2, <1>3, <1>14, <2>1, <2>3 DEF StartUnit
<1>15. CASE UnitsDone
    <2>1. counted = Units
        <3>1. in_flight = {} /\ next > NumUnits /\ \A u \in Units : u >= next \/ u \in counted
            BY <1>15 DEF UnitsDone
        <3>2. \A u \in Units : u \in counted
            BY <1>0, <3>1 DEF Units
        <3> QED BY <1>0, <3>2
    <2> QED BY <1>2, <1>3, <1>15, <2>1 DEF UnitsDone, fetching, Complete, Units
<1>16. CASE Fetched \/ FetchRaised
    BY <1>0, <1>2, <1>3, <1>16 DEF Fetched, FetchRaised, fetching
<1>17. CASE SubmitFirst
    BY <1>0, <1>2, <1>3, <1>17 DEF SubmitFirst, Submit, Units
<1>18. CASE FirstSubmitted
    BY <1>0, <1>2, <1>3, <1>18 DEF FirstSubmitted, fetching
<1>19. CASE WaitReturns
    BY <1>0, <1>2, <1>3, <1>19 DEF WaitReturns, Completed
<1>20. CASE WaitReturnsFailed
    BY <1>0, <1>2, <1>3, <1>20 DEF WaitReturnsFailed
<1>21. CASE AllFetched
    <2>1. counted = Units
        <3>1. in_flight = {} /\ next > NumUnits /\ \A u \in Units : u >= next \/ u \in counted
            BY <1>21 DEF AllFetched
        <3>2. \A u \in Units : u \in counted
            BY <1>0, <3>1 DEF Units
        <3> QED BY <1>0, <3>2
    <2> QED BY <1>2, <1>3, <1>21, <2>1 DEF AllFetched, fetching, Complete, Units
<1>22. CASE Take
    BY <1>0, <1>2, <1>3, <1>22 DEF Take
<1>23. CASE BatchDone
    BY <1>0, <1>2, <1>3, <1>23 DEF BatchDone, fetching
<1>24. CASE Resubmit
    BY <1>0, <1>2, <1>3, <1>24 DEF Resubmit, Submit, Units
<1>25. CASE NothingToSubmit
    BY <1>0, <1>2, <1>3, <1>25 DEF NothingToSubmit, fetching
<1>26. CASE CommitUnit
    <2>1. unit \in Units /\ commits \in [Units -> Nat] /\ commits' = [commits EXCEPT ![unit] = @ + 1]
        BY <1>26 DEF CommitUnit, IsDurable, TypeInv, TypeOK
    <2>2. Durable' = Durable \cup {unit}
        BY <2>1 DEF Durable, Units
    <2> QED BY <1>0, <1>2, <1>26, <2>2 DEF CommitUnit, fetching
<1>27. CASE CommitFails
    BY <1>0, <1>2, <1>27 DEF CommitFails, fetching
<1>28. CASE Report
    BY <1>0, <1>2, <1>3, <1>28 DEF Report, fetching
<1> QED BY <1>5, <1>6, <1>7, <1>8, <1>10, <1>11, <1>12, <1>13, <1>14, <1>15, <1>16, <1>17, <1>18,
           <1>19, <1>20, <1>21, <1>22, <1>23, <1>24, <1>25, <1>26, <1>27, <1>28 DEF Next, Main

-----------------------------------------------------------------------------
\* A success is written from a complete execution, and stays one.
EndInv ==
    /\ outcome.status = "success" => /\ pc \in {"finalizing", "finished", "dead"}
                                     /\ outcome.saved = Durable /\ Complete
    /\ row.status = "success" => /\ pc \in {"refinalizing", "finished", "dead"}
                                 /\ row.saved = Durable /\ Complete

\* The invariant holds of a run that was just claimed.
LEMMA EndInvInit == Init => EndInv
BY DEF Init, EndInv

\* Only the final write makes a success, of an outcome that is complete.
LEMMA EndInvNext == TypeInv /\ LoopInv /\ EndInv /\ [Next]_vars => EndInv'
<1> SUFFICES ASSUME TypeInv, LoopInv, EndInv, [Next]_vars PROVE EndInv'
    OBVIOUS
<1>0. /\ row \in [status : {"running", "canceling", "success", "failed", "canceled"},
                  cancel : BOOLEAN, saved : SUBSET Units, done : SUBSET Units]
      /\ result \in {"none", "failed", "canceled"}
    BY DEF TypeInv, TypeOK
<1>1. pc # "writing" => Durable' = Durable
    BY DurableGrows
<1> USE DEF EndInv, Goto
<1>2. ASSUME pc \notin {"finalizing", "refinalizing", "finished", "dead"},
             row'.status = row.status, outcome' = outcome
      PROVE  EndInv'
    BY <1>2
<1>3. ASSUME pc \notin {"writing", "refinalizing", "finished", "dead"},
             row'.status = row.status, Ends("failed", {})
      PROVE  EndInv'
    BY <1>3 DEF Ends
<1>4. CASE Prepare \/ SkipClosedDay \/ Begin \/ BeginCanceled \/ BeginFails \/ StartUnit
    BY <1>2, <1>4 DEF Prepare, SkipClosedDay, Begin, BeginCanceled, BeginFails, StartUnit, rows
<1>5. CASE StartUnitCanceled \/ UnitsDone \/ Fetched \/ FetchRaised \/ SubmitFirst
    BY <1>2, <1>5 DEF StartUnitCanceled, UnitsDone, Fetched, FetchRaised, SubmitFirst, Raise, rows
<1>6. CASE SubmitFirstCanceled \/ FirstSubmitted \/ WaitReturns \/ WaitReturnsFailed \/ AllFetched
    BY <1>2, <1>6 DEF SubmitFirstCanceled, FirstSubmitted, WaitReturns, WaitReturnsFailed,
                      AllFetched, Raise, rows
<1>7. CASE Take \/ BatchDone \/ Resubmit \/ NothingToSubmit \/ ResubmitCanceled \/ Drained
    BY <1>2, <1>7 DEF Take, BatchDone, Resubmit, NothingToSubmit, ResubmitCanceled, Drained,
                      Raise, rows
<1>8. CASE CommitUnit \/ CommitFails
    BY <1>2, <1>8 DEF CommitUnit, CommitFails, rows
<1>9. CASE Report \/ ReportFailure
    <2>1. row'.status = row.status
        BY <1>0, <1>9 DEF Report, ReportFailure, Progress, rows
    <2> QED BY <1>2, <1>9, <2>1 DEF Report, ReportFailure, Raise
<1>10. CASE DispatchSuccess
    <2>1. pc = "returned" /\ counted = Durable /\ Complete
        BY <1>10 DEF DispatchSuccess, LoopInv, Healthy, Executing
    <2>2. row'.status = row.status /\ outcome' = [status |-> "success", saved |-> counted]
        BY <1>0, <1>10 DEF DispatchSuccess, NodeSucceeds, Ends
    <2>3. Complete' /\ pc' = "finalizing"
        BY <1>1, <1>10, <2>1 DEF DispatchSuccess, Complete, fetching, Units, history
    <2> QED BY <1>1, <2>1, <2>2, <2>3
<1>11. CASE DispatchSuccessFails
    <2>1. row'.status = row.status
        BY <1>0, <1>11 DEF DispatchSuccessFails, NodeSucceeds, rows
    <2> QED BY <1>2, <1>11, <2>1 DEF DispatchSuccessFails
<1>12. CASE PrepareFails \/ DispatchFailureFails
    BY <1>3, <1>12 DEF PrepareFails, DispatchFailureFails, rows
<1>13. CASE DispatchFailure
    <2>1. result # "success" /\ row' = row /\ pc = "failing" /\ outcome' = [status |-> result, saved |-> {}]
        BY <1>0, <1>13 DEF DispatchFailure, Ends
    <2> QED BY <2>1
<1>14. ASSUME pc \notin {"writing", "planned"}, UNCHANGED fetching PROVE Complete' <=> Complete
    BY <1>1, <1>14, ClosedStays DEF Complete, fetching, Units, SkipClosedDay
<1>15. ASSUME FinalWrite, pc \in {"finalizing", "refinalizing"}, UNCHANGED fetching
       PROVE  row'.status = "success" => row'.saved = Durable' /\ Complete'
    <2>1. row'.status = FinalStatus /\ row'.saved = outcome.saved
        BY <1>0, <1>15 DEF FinalWrite
    <2>2. FinalStatus = "success" => outcome.status = "success"
        BY DEF FinalStatus
    <2> QED BY <1>1, <1>14, <1>15, <2>1, <2>2
<1>16. CASE Finalize
    <2>1. pc' = "finished" /\ pc \notin {"writing", "planned"} /\ outcome' = outcome
        BY <1>16 DEF Finalize
    <2> QED BY <1>1, <1>14, <1>15, <1>16, <2>1 DEF Finalize
<1>17. CASE FinalizeRaises
    <2>1. outcome'.status = "failed" /\ pc = "finalizing" /\ pc' = "refinalizing" /\ row.status # "success"
        BY <1>17 DEF FinalizeRaises, Ends
    <2> QED BY <1>15, <1>17, <2>1 DEF FinalizeRaises
<1>18. CASE Crash \/ UNCHANGED vars
    <2>1. UNCHANGED <<fetching, outcome, commits, closed, row>> /\ (pc' = pc \/ pc' = "dead")
        BY <1>18 DEF Crash, vars, rows, history
    <2>2. Durable' = Durable /\ (Complete' <=> Complete)
        BY <2>1 DEF Durable, Complete, fetching, Units
    <2> QED BY <2>1, <2>2
<1>19. CASE RequestCancel \/ Reconcile
    <2>1. /\ UNCHANGED <<fetching, outcome, commits, closed, pc>>
          /\ row'.status # "success"
        BY <1>0, <1>19 DEF RequestCancel, Reconcile, history
    <2>2. Durable' = Durable /\ (Complete' <=> Complete)
        BY <2>1 DEF Durable, Complete, fetching, Units
    <2> QED BY <2>1, <2>2
<1>20. CASE \E u \in Units : Thread(u)
    <2>1. UNCHANGED <<next, outcome, commits, closed, pc, row>>
        BY <1>20 DEF Thread, FetchBegins, FetchEnds, rows, history
    <2>2. Durable' = Durable /\ (Complete' <=> Complete)
        BY <2>1 DEF Durable, Complete, Units
    <2> QED BY <2>1, <2>2
<1> QED BY <1>4, <1>5, <1>6, <1>7, <1>8, <1>9, <1>10, <1>11, <1>12, <1>13, <1>16, <1>17, <1>18,
           <1>19, <1>20 DEF Next, Main

\* A success speaks of a complete execution, whichever way it was reached.
THEOREM SuccessesAreComplete == Spec => []SuccessIsComplete
<1>1. EndInv => SuccessIsComplete
    BY DEF EndInv, SuccessIsComplete, Complete
<1> QED BY <1>1, TypeInvInit, TypeInvNext, UnitInvInit, UnitInvNext, LoopInvInit, LoopInvNext,
           EndInvInit, EndInvNext, PTL DEF Spec

-----------------------------------------------------------------------------
\* Units that may still be committed although no other unit is submitted.
Pending == in_flight \cup (IF pc \in Processing THEN {unit} ELSE {})

\* Where the thread loop has a free place in the pool.
FreePlace == pc = "resubmitting" \/ (pc = "reporting" /\ result = "none" /\ ~ Serial)

\* No more units are pending than the pool has places; a stop request freezes
\* what may be committed after it.
PendInv ==
    /\ pc \in {"created", "planned", "submitting"} => in_flight \subseteq 1 .. concurrency
    /\ Cardinality(Pending) <= concurrency
    /\ FreePlace => Cardinality(Pending) < concurrency
    /\ ~ row.cancel => late = {}
    /\ row.cancel => Cardinality(late \cup Pending) <= concurrency

\* A set of units that shrinks stays within the bound.
LEMMA SmallerSet ==
    ASSUME NEW S \in SUBSET Units, NEW T \in SUBSET S
    PROVE  /\ IsFiniteSet(S) /\ IsFiniteSet(T)
           /\ Cardinality(S) \in Nat /\ Cardinality(T) \in Nat
           /\ Cardinality(T) <= Cardinality(S)
<1>1. IsFiniteSet(Units)
    BY FS_Interval DEF Units
<1>2. IsFiniteSet(S)
    BY <1>1, FS_Subset
<1> QED BY <1>2, FS_Subset, FS_CardinalityType

\* The invariant holds of a run that was just claimed.
LEMMA PendInvInit == Init => PendInv
<1> SUFFICES ASSUME Init PROVE PendInv
    OBVIOUS
<1>1. Pending = {} /\ Cardinality({}) = 0 /\ row.cancel = FALSE /\ late = {} /\ ~ FreePlace
    BY FS_EmptySet DEF Init, Pending, Processing, FreePlace
<1> QED BY <1>1 DEF Init, PendInv

\* Submissions respect the places of the pool and stop with a stop request.
LEMMA PendInvNext == TypeInv /\ UnitInv /\ LoopInv /\ PendInv /\ [Next]_vars => PendInv'
<1> SUFFICES ASSUME TypeInv, UnitInv, LoopInv, PendInv, [Next]_vars PROVE PendInv'
    OBVIOUS
<1>0. /\ next \in 1 .. NumUnits + 1 /\ in_flight \subseteq Units
      /\ concurrency \in 1 .. MaxConcurrency /\ MaxConcurrency \in Nat /\ NumUnits \in Nat \ {0}
      /\ Pending \subseteq Units /\ late \subseteq Units
      /\ row.cancel \in BOOLEAN
    BY DEF TypeInv, TypeOK, Pending, Processing
<1>1. concurrency' = concurrency /\ (Serial' <=> Serial)
    BY DEF Serial, Next, Main, Thread, vars, Prepare, PrepareFails, SkipClosedDay, Begin, BeginCanceled, BeginFails,
           StartUnit, StartUnitCanceled, UnitsDone, Fetched, FetchRaised, SubmitFirst,
           SubmitFirstCanceled, FirstSubmitted, WaitReturns, WaitReturnsFailed, AllFetched, Take,
           BatchDone, Resubmit, NothingToSubmit, ResubmitCanceled, Drained, CommitUnit, CommitFails,
           Report, ReportFailure, DispatchSuccess, DispatchSuccessFails, DispatchFailure,
           DispatchFailureFails, Finalize, FinalizeRaises, RequestCancel, Crash, Reconcile,
           FetchBegins, FetchEnds
<1>2. ASSUME Pending' \subseteq Pending, UNCHANGED late, row'.cancel = row.cancel,
             FreePlace' => FreePlace,
             pc' \in {"created", "planned", "submitting"} =>
                 pc \in {"created", "planned", "submitting"} /\ in_flight' = in_flight
      PROVE  PendInv'
    <2>1. /\ Cardinality(Pending') <= Cardinality(Pending)
          /\ Cardinality(Pending) \in Nat /\ Cardinality(Pending') \in Nat
        BY <1>0, <1>2, SmallerSet
    <2>2. late \cup Pending \subseteq Units /\ late' \cup Pending' \subseteq late \cup Pending
        BY <1>0, <1>2
    <2>3. /\ Cardinality(late' \cup Pending') <= Cardinality(late \cup Pending)
          /\ Cardinality(late \cup Pending) \in Nat /\ Cardinality(late' \cup Pending') \in Nat
        BY <2>2, SmallerSet
    <2> HIDE DEF Pending, FreePlace, Serial
    <2> QED BY <1>0, <1>1, <1>2, <2>1, <2>3 DEF PendInv
<1> USE DEF Goto, Pending, Processing, FreePlace
<1>3. CASE Prepare \/ PrepareFails \/ SkipClosedDay \/ Begin \/ BeginCanceled \/ BeginFails
    BY <1>1, <1>2, <1>3 DEF Prepare, PrepareFails, SkipClosedDay, Begin, BeginCanceled, BeginFails, rows,
                            fetching, history
<1>4. CASE StartUnitCanceled \/ UnitsDone \/ Fetched \/ FetchRaised \/ SubmitFirstCanceled
    BY <1>1, <1>2, <1>4 DEF StartUnitCanceled, UnitsDone, Fetched, FetchRaised, SubmitFirstCanceled,
                            Raise, rows, fetching, history
<1>5. CASE FirstSubmitted \/ WaitReturns \/ WaitReturnsFailed \/ AllFetched
    BY <1>1, <1>2, <1>5 DEF FirstSubmitted, WaitReturns, WaitReturnsFailed, AllFetched, rows,
                            fetching, history
<1>6. CASE Take
    BY <1>1, <1>2, <1>6 DEF Take, UnitInv, rows, history
<1>7. CASE BatchDone \/ NothingToSubmit \/ ResubmitCanceled \/ Drained
    BY <1>1, <1>2, <1>7 DEF BatchDone, NothingToSubmit, ResubmitCanceled, Drained, Raise, rows,
                            fetching, history
<1>8. ASSUME ~ row.cancel, UNCHANGED <<row, late>>,
             Cardinality(Pending') <= concurrency, ~ FreePlace',
             pc' \in {"created", "planned", "submitting"} => in_flight' \subseteq 1 .. concurrency
      PROVE  PendInv'
    <2> HIDE DEF Pending, FreePlace
    <2> QED BY <1>1, <1>8 DEF PendInv
<1>9. CASE StartUnit
    <2>1. in_flight = {} /\ Pending' = {next}
        BY <1>9 DEF StartUnit, LoopInv, SerialLoop
    <2>2. Cardinality(Pending') <= concurrency
        <3>1. Cardinality({next}) = 1
            BY FS_Singleton
        <3> HIDE DEF Pending
        <3> QED BY <1>0, <2>1, <3>1
    <2> QED BY <1>8, <1>9, <2>2 DEF StartUnit, rows, history
<1>10. CASE SubmitFirst
    <2>1. in_flight' = in_flight \cup {next} /\ in_flight \subseteq 1 .. concurrency /\ next \in 1 .. concurrency
        BY <1>0, <1>10 DEF SubmitFirst, Submit, PendInv
    <2>2. Pending' \subseteq 1 .. concurrency
        BY <1>10, <2>1 DEF SubmitFirst
    <2>3. Cardinality(Pending') <= concurrency
        <3>1. IsFiniteSet(1 .. concurrency) /\ Cardinality(1 .. concurrency) = concurrency
            BY <1>0, FS_Interval
        <3> HIDE DEF Pending
        <3> QED BY <2>2, <3>1, FS_Subset
    <2> QED BY <1>8, <1>10, <2>1, <2>3 DEF SubmitFirst, rows, history
<1>11. CASE Resubmit
    <2>1. Pending' = Pending \cup {next} /\ Cardinality(Pending) < concurrency
        BY <1>11 DEF Resubmit, Submit, PendInv
    <2>2. IsFiniteSet(Pending) /\ Cardinality(Pending) \in Nat
        BY <1>0, SmallerSet
    <2>3. Cardinality(Pending') <= Cardinality(Pending) + 1 /\ Cardinality(Pending') \in Nat
        <3> HIDE DEF Pending
        <3>1. /\ Cardinality(Pending \cup {next}) \in {Cardinality(Pending), Cardinality(Pending) + 1}
              /\ IsFiniteSet(Pending \cup {next})
            BY <2>2, FS_AddElement
        <3> QED BY <2>1, <2>2, <3>1
    <2>4. Cardinality(Pending') <= concurrency
        BY <1>0, <2>1, <2>2, <2>3
    <2> QED BY <1>8, <1>11, <2>4 DEF Resubmit, rows, history
<1>12. ASSUME pc = "writing", pc' = "reporting", UNCHANGED <<in_flight, row>>,
              late' \subseteq late \cup {unit}, ~ row.cancel => late' = late
       PROVE  PendInv'
    <2>1. /\ unit \in Units /\ unit \notin in_flight
          /\ Pending = in_flight \cup {unit} /\ Pending' = in_flight
        BY <1>12 DEF UnitInv, TypeInv, TypeOK
    <2>6. IsFiniteSet(in_flight) /\ Cardinality(in_flight) \in Nat
        BY <1>0, <2>1, SmallerSet
    <2>7. Cardinality(in_flight \cup {unit}) = Cardinality(in_flight) + 1
        BY <2>1, <2>6, FS_AddElement
    <2>8. Cardinality(Pending) = Cardinality(in_flight) + 1 /\ Cardinality(Pending') = Cardinality(in_flight)
        BY <2>1, <2>7
    <2>2. Cardinality(Pending') = Cardinality(Pending) - 1 /\ Cardinality(Pending) \in Nat
        BY <2>6, <2>8
    <2>3. late' \cup Pending' \subseteq late \cup Pending /\ late \cup Pending \subseteq Units
        BY <1>0, <1>12, <2>1
    <2>4. /\ Cardinality(late' \cup Pending') <= Cardinality(late \cup Pending)
          /\ Cardinality(late \cup Pending) \in Nat /\ Cardinality(late' \cup Pending') \in Nat
        BY <2>3, SmallerSet
    <2>5. pc' \notin {"created", "planned", "submitting"}
        BY <1>12
    <2> HIDE DEF Pending, FreePlace
    <2> QED BY <1>0, <1>1, <1>12, <2>2, <2>4, <2>5 DEF PendInv
<1>13. CASE CommitUnit \/ CommitFails
    BY <1>12, <1>13 DEF CommitUnit, CommitFails, IsDurable, fetching, rows, history
<1>14. row \in [status : {"running", "canceling", "success", "failed", "canceled"},
                cancel : BOOLEAN, saved : SUBSET Units, done : SUBSET Units]
    BY DEF TypeInv, TypeOK
<1>15. CASE Report \/ ReportFailure
    <2>1. row'.cancel = row.cancel
        BY <1>14, <1>15 DEF Report, ReportFailure, Progress, rows
    <2>2. UNCHANGED <<in_flight, unit, late, result>> /\ pc = "reporting"
        BY <1>15 DEF Report, ReportFailure, Raise, fetching, history
    <2>3. /\ pc' \in {"between", "resubmitting", "failing", "draining"}
          /\ pc' = "resubmitting" => result = "none" /\ ~ Serial
        BY <1>15 DEF Report, ReportFailure, Raise
    <2> QED BY <1>1, <1>2, <2>1, <2>2, <2>3
<1>16. CASE DispatchSuccess \/ DispatchSuccessFails \/ Finalize \/ FinalizeRaises
    <2>1. row'.cancel = row.cancel
        BY <1>14, <1>16 DEF DispatchSuccess, DispatchSuccessFails, NodeSucceeds, Finalize,
                            FinalizeRaises, FinalWrite, rows
    <2> QED BY <1>2, <1>16, <2>1 DEF DispatchSuccess, DispatchSuccessFails, Finalize, FinalizeRaises,
                                     fetching, history
<1>17. CASE DispatchFailure \/ DispatchFailureFails \/ Crash
    BY <1>2, <1>17 DEF DispatchFailure, DispatchFailureFails, Crash, fetching, rows, history
<1>18. CASE RequestCancel
    <2>1. row'.cancel = TRUE /\ UNCHANGED <<Pending, late, FreePlace, pc, in_flight>>
        BY <1>1, <1>14, <1>18 DEF RequestCancel, fetching, history
    <2>2. row.cancel \/ late \cup Pending = Pending
        BY <1>0 DEF PendInv
    <2> HIDE DEF Pending, FreePlace
    <2> QED BY <1>0, <1>1, <2>1, <2>2 DEF PendInv
<1>19. CASE Reconcile
    <2>1. row'.cancel = row.cancel
        BY <1>14, <1>19 DEF Reconcile
    <2> QED BY <1>1, <1>2, <1>19, <2>1 DEF Reconcile, fetching, history
<1>20. CASE \E u \in Units : Thread(u)
    BY <1>1, <1>2, <1>20 DEF Thread, FetchBegins, FetchEnds, rows, history
<1>21. CASE UNCHANGED vars
    BY <1>1, <1>2, <1>21 DEF vars, rows, fetching, history
<1> QED BY <1>3, <1>4, <1>5, <1>6, <1>7, <1>9, <1>10, <1>11, <1>13, <1>15, <1>16, <1>17, <1>18,
           <1>19, <1>20, <1>21 DEF Next, Main

\* A stop request is answered within the units in flight, for any plan.
THEOREM StopsSoon == Spec => []CancelStopsSoon
<1>1. TypeInv /\ PendInv => CancelStopsSoon
    <2> SUFFICES ASSUME TypeInv, PendInv PROVE CancelStopsSoon
        OBVIOUS
    <2>1. /\ late \subseteq Units /\ Pending \subseteq Units /\ late \cup Pending \subseteq Units
          /\ concurrency \in 1 .. MaxConcurrency /\ MaxConcurrency \in Nat
        BY DEF TypeInv, TypeOK, Pending, Processing
    <2>2. /\ Cardinality(late) <= Cardinality(late \cup Pending)
          /\ Cardinality(late) \in Nat /\ Cardinality(late \cup Pending) \in Nat
        BY <2>1, SmallerSet
    <2>3. Cardinality(late) <= concurrency
        BY <2>1, <2>2, FS_EmptySet DEF PendInv
    <2> QED BY <2>3 DEF CancelStopsSoon
<1> QED BY <1>1, TypeInvInit, TypeInvNext, UnitInvInit, UnitInvNext, LoopInvInit, LoopInvNext,
           PendInvInit, PendInvNext, PTL DEF Spec
-----------------------------------------------------------------------------
\* What is left to do, as a number: units to take from the plan, futures to wait
\* for, results to handle, fetches to begin and to end, the way to the end from
\* where the main thread is, and the writes of the status that may still come.
PlaceRank ==
    CASE pc = "created" -> 20
      [] pc = "planned" -> 19
      [] pc = "fetching" -> 11
      [] pc = "writing" -> 10
      [] pc = "reporting" -> 9
      [] pc \in {"between", "resubmitting"} -> 8
      [] pc \in {"submitting", "batch"} -> 7
      [] pc = "waiting" -> 6
      [] pc \in {"draining", "returned"} -> 5
      [] pc = "failing" -> 4
      [] pc = "finalizing" -> 3
      [] pc = "refinalizing" -> 2
      [] pc = "finished" -> 1
      [] OTHER -> 0

StatusRank == IF row.status = "running" THEN 2 ELSE IF row.status = "canceling" THEN 1 ELSE 0

Open == in_flight \ batch
Queued == {u \in Units : fetch[u] = "queued"}
Running == {u \in Units : fetch[u] = "running"}

Rank == 10 * (NumUnits + 1 - next) + 7 * Cardinality(Open) + 5 * Cardinality(batch)
        + 2 * Cardinality(Queued) + Cardinality(Running) + PlaceRank + StatusRank

\* The parts of the number are natural numbers.
LEMMA RankParts ==
    ASSUME TypeInv
    PROVE  /\ PlaceRank \in 0 .. 20 /\ StatusRank \in 0 .. 2
           /\ NumUnits + 1 - next \in Nat
           /\ {Open, batch, Queued, Running} \subseteq SUBSET Units
           /\ Cardinality(Open) \in Nat /\ Cardinality(batch) \in Nat
           /\ Cardinality(Queued) \in Nat /\ Cardinality(Running) \in Nat
<1>1. {Open, batch, Queued, Running} \subseteq SUBSET Units
    BY DEF TypeInv, TypeOK, Open, Queued, Running
<1>2. \A S \in SUBSET Units : Cardinality(S) \in Nat
    BY SmallerSet
<1>3. PlaceRank \in 0 .. 20 /\ StatusRank \in 0 .. 2
    BY DEF TypeInv, TypeOK, Places, PlaceRank, StatusRank
<1>4. NumUnits + 1 - next \in Nat
    BY DEF TypeInv, TypeOK
<1> QED BY <1>1, <1>2, <1>3, <1>4

\* A set of units that gets at most one more has at most one more.
LEMMA AtMostOneMore ==
    ASSUME NEW S \in SUBSET Units, NEW u, NEW T \in SUBSET (S \cup {u})
    PROVE  Cardinality(T) <= Cardinality(S) + 1
<1>1. IsFiniteSet(S) /\ Cardinality(S) \in Nat
    BY SmallerSet
<1>2. /\ IsFiniteSet(S \cup {u})
      /\ Cardinality(S \cup {u}) \in {Cardinality(S), Cardinality(S) + 1}
    BY <1>1, FS_AddElement
<1>3. IsFiniteSet(T) /\ Cardinality(T) <= Cardinality(S \cup {u})
    BY <1>2, FS_Subset
<1> QED BY <1>1, <1>2, <1>3, FS_CardinalityType

\* A set of units that loses one has one less.
LEMMA OneLess ==
    ASSUME NEW S \in SUBSET Units, NEW u \in S, NEW T \in SUBSET (S \ {u})
    PROVE  Cardinality(T) <= Cardinality(S) - 1
<1>1. IsFiniteSet(S) /\ Cardinality(S) \in Nat
    BY SmallerSet
<1>2. /\ IsFiniteSet(S \ {u})
      /\ Cardinality(S \ {u}) = Cardinality(S) - 1
    BY <1>1, FS_RemoveElement
<1>3. IsFiniteSet(T) /\ Cardinality(T) <= Cardinality(S \ {u})
    BY <1>2, FS_Subset
<1> QED BY <1>3, <1>2
\* A step that neither takes a unit nor fetches one must come nearer to the end.
LEMMA MovesCount ==
    ASSUME TypeInv, TypeInv', UNCHANGED <<next, in_flight, batch>>,
           Queued' \subseteq Queued, Running' \subseteq Running,
           \/ PlaceRank' < PlaceRank /\ StatusRank' = StatusRank
           \/ PlaceRank' < PlaceRank /\ StatusRank' < StatusRank
           \/ PlaceRank' = PlaceRank /\ StatusRank' < StatusRank
    PROVE  Rank' < Rank
<1>1. /\ Cardinality(Queued') <= Cardinality(Queued)
      /\ Cardinality(Running') <= Cardinality(Running)
    BY RankParts, SmallerSet
<1>2. /\ Open' = Open /\ batch' = batch /\ next' = next
    BY DEF Open
<1>3. /\ PlaceRank' \in 0 .. 20 /\ StatusRank' \in 0 .. 2
      /\ Cardinality(Queued') \in Nat /\ Cardinality(Running') \in Nat
    <2>1. {Queued', Running'} \subseteq SUBSET Units
        BY DEF Queued, Running, Units
    <2>2. Cardinality(Queued') \in Nat /\ Cardinality(Running') \in Nat
        BY <2>1, SmallerSet
    <2>3. PlaceRank' \in 0 .. 20 /\ StatusRank' \in 0 .. 2
        BY DEF TypeInv, TypeOK, Places, PlaceRank, StatusRank
    <2> QED BY <2>2, <2>3
<1> QED BY <1>1, <1>2, <1>3, RankParts DEF Rank

\* Fetches that are canceled are neither queued nor running.
LEMMA CanceledFetches ==
    ASSUME TypeInv, CancelPending \/ UNCHANGED fetch
    PROVE  Queued' \subseteq Queued /\ Running' \subseteq Running
BY DEF TypeInv, TypeOK, CancelPending, Queued, Running, Units

\* Every step leaves less to do.
LEMMA RankFalls ==
    ASSUME TypeInv, UnitInv, LoopInv, [Next]_vars
    PROVE  Rank' < Rank \/ UNCHANGED vars
<1>0. TypeInv'
    BY TypeInvNext
<1>1. /\ NumUnits \in Nat /\ next \in 1 .. NumUnits + 1 /\ next' \in 1 .. NumUnits + 1
      /\ fetch \in [Units -> {"none", "queued", "running", "fetched", "raised", "canceled"}]
      /\ in_flight \subseteq Units /\ batch \subseteq in_flight
      /\ row \in [status : {"running", "canceling", "success", "failed", "canceled"},
                  cancel : BOOLEAN, saved : SUBSET Units, done : SUBSET Units]
    BY <1>0 DEF TypeInv, TypeOK, UnitInv
<1>2. /\ PlaceRank \in 0 .. 20 /\ PlaceRank' \in 0 .. 20
      /\ StatusRank \in 0 .. 2 /\ StatusRank' \in 0 .. 2
    BY <1>0 DEF TypeInv, TypeOK, Places, PlaceRank, StatusRank
<1>3. /\ {Open, batch, Queued, Running} \subseteq SUBSET Units
      /\ {Open', batch', Queued', Running'} \subseteq SUBSET Units
    BY <1>0 DEF TypeInv, TypeOK, Open, Queued, Running, Units
<1>4. /\ Cardinality(Open) \in Nat /\ Cardinality(Open') \in Nat
      /\ Cardinality(batch) \in Nat /\ Cardinality(batch') \in Nat
      /\ Cardinality(Queued) \in Nat /\ Cardinality(Queued') \in Nat
      /\ Cardinality(Running) \in Nat /\ Cardinality(Running') \in Nat
    BY <1>3, SmallerSet
<1>5. ASSUME UNCHANGED <<next, in_flight, batch, fetch, row>>, PlaceRank' < PlaceRank
      PROVE  Rank' < Rank
    <2>1. StatusRank' = StatusRank
        BY <1>5 DEF StatusRank
    <2> QED BY <1>0, <1>5, <2>1, MovesCount, CanceledFetches
<1> USE DEF Goto, Raise, fetching, rows, history
<1>6. CASE Prepare \/ Report
    <2>1. PlaceRank' < PlaceRank /\ UNCHANGED <<next, in_flight, batch, fetch>>
        BY <1>6 DEF Prepare, Report, PlaceRank
    <2>2. row'.status = row.status
        BY <1>1, <1>6 DEF Prepare, Report, Progress
    <2>3. StatusRank' = StatusRank
        BY <2>2 DEF StatusRank
    <2> QED BY <1>0, <2>1, <2>3, MovesCount, CanceledFetches
<1>7. CASE PrepareFails \/ SkipClosedDay \/ Begin \/ BeginCanceled \/ BeginFails
    BY <1>5, <1>7 DEF PrepareFails, SkipClosedDay, Begin, BeginCanceled, BeginFails, PlaceRank
<1>8. CASE StartUnitCanceled \/ UnitsDone \/ Fetched \/ FetchRaised
    BY <1>5, <1>8 DEF StartUnitCanceled, UnitsDone, Fetched, FetchRaised, PlaceRank
<1>9. CASE SubmitFirstCanceled \/ FirstSubmitted \/ AllFetched \/ BatchDone
    BY <1>5, <1>9 DEF SubmitFirstCanceled, FirstSubmitted, AllFetched, BatchDone, PlaceRank
<1>10. CASE NothingToSubmit \/ Drained \/ CommitUnit \/ CommitFails \/ Crash
    <2>1. PlaceRank' < PlaceRank
        BY <1>0, <1>10 DEF NothingToSubmit, Drained, CommitUnit, CommitFails, Crash, PlaceRank,
                           TypeInv, TypeOK, Places
    <2>2. UNCHANGED <<next, in_flight, batch, fetch, row>>
        BY <1>10 DEF NothingToSubmit, Drained, CommitUnit, CommitFails, Crash
    <2> QED BY <1>5, <2>1, <2>2
<1>11. CASE DispatchFailure \/ DispatchFailureFails
    BY <1>5, <1>11 DEF DispatchFailure, DispatchFailureFails, PlaceRank
<1>12. CASE ResubmitCanceled
    <2>1. PlaceRank' < PlaceRank /\ StatusRank' = StatusRank
        BY <1>12 DEF ResubmitCanceled, PlaceRank, StatusRank
    <2>2. UNCHANGED <<next, in_flight, batch>> /\ CancelPending
        BY <1>12 DEF ResubmitCanceled
    <2> QED BY <1>0, <2>1, <2>2, MovesCount, CanceledFetches
<1>13. CASE ReportFailure
    <2>1. PlaceRank' < PlaceRank /\ UNCHANGED <<next, in_flight, batch>> /\ CancelPending
        BY <1>13 DEF ReportFailure, PlaceRank
    <2>2. row'.status = row.status
        BY <1>1, <1>13 DEF ReportFailure, Progress
    <2>3. StatusRank' = StatusRank
        BY <2>2 DEF StatusRank
    <2> QED BY <1>0, <2>1, <2>3, MovesCount, CanceledFetches
<1>14. CASE DispatchSuccess \/ DispatchSuccessFails
    <2>1. PlaceRank' < PlaceRank /\ UNCHANGED <<next, in_flight, batch, fetch>>
        BY <1>14 DEF DispatchSuccess, DispatchSuccessFails, PlaceRank
    <2>2. row'.status = row.status
        BY <1>1, <1>14 DEF DispatchSuccess, DispatchSuccessFails, NodeSucceeds
    <2>3. StatusRank' = StatusRank
        BY <2>2 DEF StatusRank
    <2> QED BY <1>0, <2>1, <2>3, MovesCount, CanceledFetches
<1>15. CASE Finalize \/ FinalizeRaises
    <2>1. FinalStatus \notin {"running", "canceling"}
        BY <1>15 DEF Finalize, FinalizeRaises, FinalStatus, TypeInv, TypeOK, Statuses
    <2>2. row'.status \in {row.status, FinalStatus}
        BY <1>1, <1>15 DEF Finalize, FinalizeRaises, FinalWrite
    <2>3. StatusRank' = StatusRank \/ StatusRank' < StatusRank
        BY <2>1, <2>2 DEF StatusRank
    <2>4. PlaceRank' < PlaceRank /\ UNCHANGED <<next, in_flight, batch, fetch>>
        BY <1>15 DEF Finalize, FinalizeRaises, PlaceRank
    <2> QED BY <1>0, <2>3, <2>4, MovesCount, CanceledFetches
<1>16. CASE RequestCancel \/ Reconcile
    <2>1. \/ row.status = "running" /\ row'.status = "canceling"
          \/ row.status \in {"running", "canceling"} /\ row'.status \in {"canceled", "failed"}
        BY <1>1, <1>16 DEF RequestCancel, Reconcile
    <2>2. StatusRank' < StatusRank
        BY <2>1 DEF StatusRank
    <2>3. PlaceRank' = PlaceRank /\ UNCHANGED <<next, in_flight, batch, fetch>>
        BY <1>16 DEF RequestCancel, Reconcile, PlaceRank
    <2> QED BY <1>0, <2>2, <2>3, MovesCount, CanceledFetches
<1>17. CASE StartUnit
    <2>1. /\ next' = next + 1 /\ Open' = Open /\ batch' = batch
          /\ Queued' \subseteq Queued /\ Running' \subseteq Running \cup {next}
        BY <1>1, <1>17 DEF StartUnit, Open, Queued, Running, Units
    <2>2. PlaceRank' = 11 /\ PlaceRank = 8 /\ StatusRank' = StatusRank
        BY <1>17 DEF StartUnit, PlaceRank, StatusRank
    <2>3. /\ Cardinality(Queued') <= Cardinality(Queued)
          /\ Cardinality(Running') <= Cardinality(Running) + 1
        BY <1>3, <2>1, SmallerSet, AtMostOneMore
    <2> QED BY <1>1, <1>2, <1>4, <2>1, <2>2, <2>3 DEF Rank
<1>18. CASE SubmitFirst \/ Resubmit
    <2>1. /\ next' = next + 1 /\ batch' = batch /\ Open' \subseteq Open \cup {next}
          /\ Queued' \subseteq Queued \cup {next} /\ Running' \subseteq Running
        BY <1>1, <1>18 DEF SubmitFirst, Resubmit, Submit, Open, Queued, Running, Units
    <2>2. PlaceRank' <= PlaceRank /\ StatusRank' = StatusRank
        BY <1>18 DEF SubmitFirst, Resubmit, PlaceRank, StatusRank
    <2>3. /\ Cardinality(Open') <= Cardinality(Open) + 1
          /\ Cardinality(Queued') <= Cardinality(Queued) + 1
          /\ Cardinality(Running') <= Cardinality(Running)
        BY <1>3, <2>1, SmallerSet, AtMostOneMore
    <2> QED BY <1>1, <1>2, <1>4, <2>1, <2>2, <2>3 DEF Rank
<1>19. CASE WaitReturns
    <2>1. /\ pc = "waiting" /\ batch = {} /\ batch' = Completed /\ Completed # {}
          /\ Completed \subseteq in_flight /\ Open = in_flight /\ Open' = in_flight \ Completed
          /\ UNCHANGED <<next, Queued, Running>>
        BY <1>19 DEF WaitReturns, Completed, UnitInv, NoBatch, Open, Queued, Running
    <2>2. PlaceRank' = 7 /\ PlaceRank = 6 /\ StatusRank' = StatusRank
        BY <1>19 DEF WaitReturns, PlaceRank, StatusRank
    <2>3. Cardinality(in_flight) = Cardinality(Open') + Cardinality(batch')
        <3>1. IsFiniteSet(in_flight)
            BY <1>1, SmallerSet
        <3>2. Completed = in_flight \cap Completed /\ IsFiniteSet(Completed)
            BY <1>1, <2>1, SmallerSet
        <3>3. Cardinality(in_flight \ Completed) = Cardinality(in_flight) - Cardinality(in_flight \cap Completed)
            BY <3>1, <3>2, FS_Difference
        <3>4. Cardinality(in_flight) \in Nat /\ Cardinality(Completed) \in Nat
            BY <3>1, <3>2, FS_CardinalityType
        <3> QED BY <2>1, <3>2, <3>3, <3>4
    <2>4. Cardinality(batch') >= 1 /\ Cardinality(batch) = 0
        <3>1. IsFiniteSet(Completed) /\ Cardinality(Completed) \in Nat
            BY <1>1, <2>1, SmallerSet
        <3>2. Cardinality(Completed) # 0
            BY <2>1, <3>1, FS_EmptySet
        <3> QED BY <2>1, <3>1, <3>2, FS_EmptySet
    <2>5. Cardinality(Open) = Cardinality(in_flight) /\ Cardinality(Queued') = Cardinality(Queued)
          /\ Cardinality(Running') = Cardinality(Running) /\ next' = next
        BY <2>1
    <2> QED BY <1>1, <1>2, <1>4, <2>2, <2>3, <2>4, <2>5 DEF Rank
<1>20. CASE WaitReturnsFailed
    <2>1. PICK u \in Completed : in_flight' = in_flight \ {u}
        BY <1>20 DEF WaitReturnsFailed
    <2>2. /\ batch = {} /\ batch' = {} /\ next' = next /\ u \in Open /\ Open' \subseteq Open \ {u}
        BY <1>20, <2>1 DEF WaitReturnsFailed, Completed, UnitInv, NoBatch, Open
    <2>3. Queued' \subseteq Queued /\ Running' \subseteq Running
        BY <1>20, CanceledFetches DEF WaitReturnsFailed
    <2>4. PlaceRank' = 9 /\ PlaceRank = 6 /\ StatusRank' = StatusRank
        BY <1>20 DEF WaitReturnsFailed, PlaceRank, StatusRank
    <2>5. /\ Cardinality(Queued') <= Cardinality(Queued)
          /\ Cardinality(Running') <= Cardinality(Running)
        BY <1>3, <2>3, SmallerSet
    <2>6. Cardinality(Open') <= Cardinality(Open) - 1
        BY <1>3, <2>2, OneLess
    <2>7. Cardinality(batch') = Cardinality(batch)
        BY <2>2
    <2> QED BY <1>1, <1>2, <1>4, <2>2, <2>4, <2>5, <2>6, <2>7 DEF Rank
<1>21. CASE Take
    <2>1. PICK u \in batch : batch' = batch \ {u} /\ in_flight' = in_flight \ {u}
        BY <1>21 DEF Take
    <2>2. UNCHANGED <<next, Open, Queued, Running>>
        BY <1>21, <2>1 DEF Take, Open, Queued, Running
    <2>3. PlaceRank' = 10 /\ PlaceRank = 7 /\ StatusRank' = StatusRank
        BY <1>21 DEF Take, PlaceRank, StatusRank
    <2>4. Cardinality(batch') <= Cardinality(batch) - 1
        BY <1>3, <2>1, OneLess
    <2>5. Cardinality(Open') = Cardinality(Open) /\ Cardinality(Queued') = Cardinality(Queued)
          /\ Cardinality(Running') = Cardinality(Running) /\ next' = next
        BY <2>2
    <2> QED BY <1>1, <1>2, <1>4, <2>3, <2>4, <2>5 DEF Rank
<1>22. ASSUME NEW u \in Units, Thread(u) PROVE Rank' < Rank
    <2>1. UNCHANGED <<next, Open, batch, PlaceRank, StatusRank>>
        BY <1>22 DEF Thread, FetchBegins, FetchEnds, Open, PlaceRank, StatusRank
    <2>2. /\ Cardinality(Open') = Cardinality(Open) /\ Cardinality(batch') = Cardinality(batch)
          /\ next' = next /\ PlaceRank' = PlaceRank /\ StatusRank' = StatusRank
        BY <2>1
    <2>3. CASE FetchBegins(u)
        <3>1. u \in Queued /\ Queued' \subseteq Queued \ {u} /\ Running' \subseteq Running \cup {u}
            BY <1>1, <1>22, <2>3 DEF FetchBegins, Queued, Running
        <3>2. /\ Cardinality(Queued') <= Cardinality(Queued) - 1
              /\ Cardinality(Running') <= Cardinality(Running) + 1
            BY <1>3, <3>1, OneLess, AtMostOneMore
        <3> QED BY <1>1, <1>2, <1>4, <2>2, <3>2 DEF Rank
    <2>4. CASE FetchEnds(u)
        <3>1. u \in Running /\ Queued' \subseteq Queued /\ Running' \subseteq Running \ {u}
            BY <1>1, <1>22, <2>4 DEF FetchEnds, Queued, Running
        <3>2. /\ Cardinality(Queued') <= Cardinality(Queued)
              /\ Cardinality(Running') <= Cardinality(Running) - 1
            BY <1>3, <3>1, OneLess, SmallerSet
        <3> QED BY <1>1, <1>2, <1>4, <2>2, <3>2 DEF Rank
    <2> QED BY <1>22, <2>3, <2>4 DEF Thread
<1> QED BY <1>6, <1>7, <1>8, <1>9, <1>10, <1>11, <1>12, <1>13, <1>14, <1>15, <1>16, <1>17,
           <1>18, <1>19, <1>20, <1>21, <1>22 DEF Next, Main

\* What there is to do at the beginning.
LEMMA RankInit == Init => Rank <= 10 * NumUnits + 22
<1> SUFFICES ASSUME Init PROVE Rank <= 10 * NumUnits + 22
    OBVIOUS
<1>1. Open = {} /\ batch = {} /\ Queued = {} /\ Running = {} /\ next = 1
    BY DEF Init, Open, Queued, Running
<1>2. PlaceRank = 20 /\ StatusRank = 2
    BY DEF Init, PlaceRank, StatusRank
<1>3. Cardinality({}) = 0
    BY FS_EmptySet
<1> QED BY <1>1, <1>2, <1>3 DEF Rank

\* An execution is over after a bounded number of steps, whatever it meets: each
\* step, of the main thread, of the pool, of a request or of the reconciliation,
\* leaves less of a natural number that is at most 10 * NumUnits + 22 at first.
\* No loop of the executor turns without handling a unit.
THEOREM ExecutionsAreFinite == Spec => /\ Rank <= 10 * NumUnits + 22
                                       /\ [](Rank \in Nat)
                                       /\ [][Rank' < Rank]_vars
<1>1. TypeInv => Rank \in Nat
    BY RankParts DEF Rank
<1>2. TypeInv /\ UnitInv /\ LoopInv /\ [Next]_vars => [Rank' < Rank]_vars
    BY RankFalls
<1> QED BY <1>1, <1>2, RankInit, TypeInvInit, TypeInvNext, UnitInvInit, UnitInvNext, LoopInvInit,
           LoopInvNext, PTL DEF Spec
-----------------------------------------------------------------------------
\* Where the thread loop has not left with an exception.
Looping == pc \in {"submitting", "waiting", "batch", "resubmitting", "writing"}
           \/ (pc = "reporting" /\ result = "none")

\* The fetches behind the futures: as long as no exception was raised each one
\* is on its way or over, those of a batch are over, and no thread fetches
\* anything else.
FetchInv ==
    /\ pc = "fetching" => fetch[unit] \in {"running", "fetched", "raised"}
    /\ Looping => \A u \in in_flight : fetch[u] \in {"queued", "running", "fetched", "raised"}
    /\ \A u \in batch : fetch[u] \in {"fetched", "raised"}
    /\ pc # "dead" => \A u \in Queued \cup Running : u \in in_flight \/ (pc = "fetching" /\ u = unit)

\* The invariant holds before any fetch was begun.
LEMMA FetchInvInit == Init => FetchInv
BY DEF Init, FetchInv, Looping, Queued, Running

\* A future is waited for only while its fetch is on its way or over.
LEMMA FetchInvNext == TypeInv /\ UnitInv /\ LoopInv /\ FetchInv /\ [Next]_vars => FetchInv'
<1> SUFFICES ASSUME TypeInv, UnitInv, LoopInv, FetchInv, [Next]_vars PROVE FetchInv'
    OBVIOUS
<1>1. /\ next \in 1 .. NumUnits + 1 /\ in_flight \subseteq Units /\ batch \subseteq in_flight
      /\ fetch \in [Units -> {"none", "queued", "running", "fetched", "raised", "canceled"}]
      /\ pc = "fetching" => unit \in Units
      /\ result \in {"none", "failed", "canceled"} /\ NumUnits \in Nat
      /\ pc = "draining" => result # "none"
    BY DEF TypeInv, TypeOK, ResultKnown, UnitInv
<1> USE DEF FetchInv, Looping, Queued, Running, Goto, Raise, fetching
<1>2. ASSUME UNCHANGED <<fetch, in_flight, batch, unit>>, Looping' => Looping,
             pc' # "fetching", pc = "fetching" => fetch[unit] \in {"fetched", "raised"} \/ pc' = "dead",
             pc = "dead" => pc' = "dead"
      PROVE  FetchInv'
    BY <1>1, <1>2
<1>3. CASE Prepare \/ PrepareFails \/ SkipClosedDay \/ BeginCanceled \/ BeginFails
    BY <1>2, <1>3 DEF Prepare, PrepareFails, SkipClosedDay, BeginCanceled, BeginFails
<1>4. CASE Begin
    <2>1. in_flight = {}
        BY <1>1, <1>4 DEF Begin, LoopInv, UnitInv, Units
    <2> QED BY <1>1, <1>4, <2>1 DEF Begin
<1>5. CASE StartUnitCanceled \/ UnitsDone \/ FetchRaised \/ SubmitFirstCanceled
    BY <1>2, <1>5 DEF StartUnitCanceled, UnitsDone, FetchRaised, SubmitFirstCanceled
<1>6. CASE Fetched
    <2>1. in_flight = {}
        BY <1>6 DEF Fetched, LoopInv, SerialLoop
    <2> QED BY <1>1, <1>6, <2>1 DEF Fetched
<1>7. CASE FirstSubmitted \/ AllFetched \/ BatchDone \/ NothingToSubmit \/ Drained
    BY <1>2, <1>7 DEF FirstSubmitted, AllFetched, BatchDone, NothingToSubmit, Drained
<1>8. CASE CommitUnit \/ CommitFails \/ Report
    BY <1>2, <1>8 DEF CommitUnit, CommitFails, Report
<1>9. CASE DispatchSuccess \/ DispatchSuccessFails \/ DispatchFailure \/ DispatchFailureFails
    BY <1>2, <1>9 DEF DispatchSuccess, DispatchSuccessFails, DispatchFailure, DispatchFailureFails
<1>10. CASE Finalize \/ FinalizeRaises \/ Crash
    BY <1>2, <1>10 DEF Finalize, FinalizeRaises, Crash
<1>11. CASE RequestCancel \/ Reconcile \/ UNCHANGED vars
    BY <1>11 DEF RequestCancel, Reconcile, vars
<1>12. CASE StartUnit
    <2>1. in_flight = {} /\ batch = {}
        BY <1>1, <1>12 DEF StartUnit, LoopInv, SerialLoop
    <2>2. next \in Units /\ next' = next + 1 /\ unit' = next /\ pc' = "fetching"
          /\ fetch' = [fetch EXCEPT ![next] = "running"] /\ UNCHANGED <<in_flight, batch>>
        BY <1>1, <1>12 DEF StartUnit, Units
    <2>3. \A u \in Units : fetch[u] \notin {"queued", "running"}
        BY <1>12, <2>1 DEF StartUnit
    <2> QED BY <1>1, <2>1, <2>2, <2>3
<1>13. CASE SubmitFirst \/ Resubmit
    <2>1. next \in Units /\ next \notin in_flight
        BY <1>1, <1>13 DEF SubmitFirst, Resubmit, Submit, Units, UnitInv
    <2>2. /\ in_flight' = in_flight \cup {next} /\ fetch' = [fetch EXCEPT ![next] = "queued"]
          /\ batch' = batch /\ Looping /\ pc' \in {"submitting", "batch"} /\ pc # "dead" /\ pc # "fetching"
        BY <1>13 DEF SubmitFirst, Resubmit, Submit
    <2> QED BY <1>1, <2>1, <2>2
<1>14. CASE WaitReturns
    BY <1>1, <1>14 DEF WaitReturns, Completed
<1>15. CASE WaitReturnsFailed
    <2>1. PICK u \in Completed : fetch[u] = "raised" /\ in_flight' = in_flight \ {u}
        BY <1>15 DEF WaitReturnsFailed
    <2>2. batch' = {} /\ ~ Looping' /\ pc' = "reporting" /\ pc = "waiting"
        BY <1>15 DEF WaitReturnsFailed, UnitInv, NoBatch
    <2>3. Queued' \subseteq Queued /\ Running' \subseteq Running /\ u \notin Queued \cup Running
        BY <1>15, <2>1, CanceledFetches DEF WaitReturnsFailed
    <2> QED BY <2>1, <2>2, <2>3
<1>16. CASE Take
    <2>1. PICK u \in batch : batch' = batch \ {u} /\ in_flight' = in_flight \ {u}
        BY <1>16 DEF Take
    <2> QED BY <1>1, <1>16, <2>1 DEF Take
<1>17. CASE ResubmitCanceled \/ ReportFailure
    <2>1. Queued' \subseteq Queued /\ Running' \subseteq Running
        BY <1>17, CanceledFetches DEF ResubmitCanceled, ReportFailure
    <2>2. /\ UNCHANGED <<in_flight, batch, unit>> /\ pc' \in {"draining", "failing"}
          /\ pc \in {"resubmitting", "reporting"} /\ CancelPending
        BY <1>17 DEF ResubmitCanceled, ReportFailure
    <2>3. \A u \in batch : fetch'[u] = fetch[u]
        BY <1>1, <2>2 DEF CancelPending, Units
    <2> QED BY <2>1, <2>2, <2>3
<1>18. ASSUME NEW u \in Units, Thread(u) PROVE FetchInv'
    <2>1. UNCHANGED <<pc, in_flight, batch, unit, result>> /\ pc # "dead"
        BY <1>18 DEF Thread, FetchBegins, FetchEnds
    <2>2. PICK r \in {"running", "fetched", "raised"} : fetch' = [fetch EXCEPT ![u] = r]
        BY <1>18 DEF Thread, FetchBegins, FetchEnds
    <2>3. fetch[u] \in {"queued", "running"} /\ u \notin batch
        BY <1>18 DEF Thread, FetchBegins, FetchEnds
    <2> QED BY <1>1, <2>1, <2>2, <2>3
<1> QED BY <1>3, <1>4, <1>5, <1>6, <1>7, <1>8, <1>9, <1>10, <1>11, <1>12, <1>13, <1>14, <1>15,
           <1>16, <1>17, <1>18 DEF Next, Main

\* The main thread never waits for a fetch that will not end: what it waits for,
\* alone or in wait(..., FIRST_COMPLETED), is queued, running or over.  A future
\* that future.cancel() has canceled is not waited for.
WaitsForFetches ==
    /\ pc = "fetching" => fetch[unit] \in {"running", "fetched", "raised"}
    /\ pc = "waiting" => \A u \in in_flight : fetch[u] \in {"queued", "running", "fetched", "raised"}

\* future.result() and wait() of the executor return once the source has answered.
THEOREM NothingIsWaitedForInVain == Spec => []WaitsForFetches
<1>1. FetchInv => WaitsForFetches
    BY DEF FetchInv, WaitsForFetches, Looping
<1> QED BY <1>1, TypeInvInit, TypeInvNext, UnitInvInit, UnitInvNext, LoopInvInit, LoopInvNext,
           FetchInvInit, FetchInvNext, PTL DEF Spec

\* Not more fetches are queued or running than the pool has threads: with
\* fetch_concurrency threads none ever waits for a free one.
PoolIsLargeEnough == pc # "dead" => Cardinality(Queued \cup Running) <= concurrency

\* max_workers of the pool is no restriction beyond the length of in_flight.
THEOREM FetchesHaveThreads == Spec => []PoolIsLargeEnough
<1>1. TypeInv /\ FetchInv /\ PendInv => PoolIsLargeEnough
    <2> SUFFICES ASSUME TypeInv, FetchInv, PendInv, pc # "dead"
                 PROVE  Cardinality(Queued \cup Running) <= concurrency
        BY DEF PoolIsLargeEnough
    <2>1. Queued \cup Running \subseteq Pending /\ Pending \subseteq Units
        BY DEF TypeInv, TypeOK, FetchInv, Pending, Processing
    <2>2. /\ Cardinality(Queued \cup Running) <= Cardinality(Pending)
          /\ Cardinality(Queued \cup Running) \in Nat /\ Cardinality(Pending) \in Nat
        BY <2>1, SmallerSet
    <2>3. Cardinality(Pending) <= concurrency /\ concurrency \in Nat
        BY DEF PendInv, TypeInv, TypeOK
    <2> QED BY <2>2, <2>3
<1> QED BY <1>1, TypeInvInit, TypeInvNext, UnitInvInit, UnitInvNext, LoopInvInit, LoopInvNext,
           FetchInvInit, FetchInvNext, PendInvInit, PendInvNext, PTL DEF Spec
-----------------------------------------------------------------------------
\* The counters of the row and of the node lag behind that of the executor, and
\* only a successful outcome carries it.
SavedInv == /\ row.saved \cup node.saved \subseteq counted
            /\ outcome.saved = IF outcome.status = "success" THEN counted ELSE {}

\* Nothing is counted at first.
LEMMA SavedInvInit == Init => SavedInv
BY DEF Init, SavedInv

\* The steps that write the row, the node or the outcome, and the others.
LEMMA WritesOrNot ==
    ASSUME [Next]_vars
    PROVE  \/ UNCHANGED <<row, node, outcome, counted>>
           \/ Prepare \/ PrepareFails \/ CommitUnit \/ Report \/ ReportFailure
           \/ DispatchSuccess \/ DispatchSuccessFails \/ DispatchFailure \/ DispatchFailureFails
           \/ Finalize \/ FinalizeRaises \/ RequestCancel \/ Reconcile
<1> USE DEF rows
<1>1. CASE SkipClosedDay \/ Begin \/ BeginCanceled \/ BeginFails \/ StartUnit \/ StartUnitCanceled \/ UnitsDone
    BY <1>1 DEF SkipClosedDay, Begin, BeginCanceled, BeginFails, StartUnit, StartUnitCanceled, UnitsDone
<1>2. CASE Fetched \/ FetchRaised \/ SubmitFirst \/ SubmitFirstCanceled \/ FirstSubmitted
    BY <1>2 DEF Fetched, FetchRaised, SubmitFirst, SubmitFirstCanceled, FirstSubmitted
<1>3. CASE WaitReturns \/ WaitReturnsFailed \/ AllFetched \/ Take \/ BatchDone \/ Resubmit
    BY <1>3 DEF WaitReturns, WaitReturnsFailed, AllFetched, Take, BatchDone, Resubmit
<1>4. CASE NothingToSubmit \/ ResubmitCanceled \/ Drained \/ CommitFails \/ Crash
    BY <1>4 DEF NothingToSubmit, ResubmitCanceled, Drained, CommitFails, Crash
<1>5. CASE \E u \in Units : Thread(u)
    BY <1>5 DEF Thread, FetchBegins, FetchEnds
<1>6. CASE UNCHANGED vars
    BY <1>6 DEF vars
<1> QED BY <1>1, <1>2, <1>3, <1>4, <1>5, <1>6 DEF Next, Main

\* What each step does to the counters of the row, the node and the outcome.
LEMMA CounterSteps ==
    ASSUME TypeInv, EndInv, [Next]_vars
    PROVE  \/ UNCHANGED <<row, node, outcome, counted>>
           \/ /\ row'.saved \in {row.saved, counted} /\ node'.saved \in {node.saved, counted}
              /\ counted \subseteq counted'
              /\ \/ outcome' = outcome /\ (counted' = counted \/ outcome.status # "success")
                 \/ counted' = counted /\ outcome'.status # "success" /\ outcome'.saved = {}
                 \/ counted' = counted /\ outcome'.status = "success" /\ outcome'.saved = counted
           \/ /\ pc \in {"finalizing", "refinalizing"}
              /\ row'.saved \in {row.saved, outcome.saved} /\ UNCHANGED <<node, counted>>
              /\ row'.saved # row.saved =>
                     row'.status \in {"failed", "canceled"} \/ outcome.status = "success"
              /\ outcome' = outcome \/ (outcome'.status = "failed" /\ outcome'.saved = {})
<1>0. /\ row \in [status : {"running", "canceling", "success", "failed", "canceled"},
                  cancel : BOOLEAN, saved : SUBSET Units, done : SUBSET Units]
      /\ node \in [status : {"running"} \cup Statuses, saved : SUBSET Units]
      /\ outcome \in [status : Statuses, saved : SUBSET Units]
      /\ result \in {"none", "failed", "canceled"}
    BY DEF TypeInv, TypeOK
<1> USE DEF rows, Goto, Raise, Ends
<1>1. CASE Prepare
    BY <1>0, <1>1 DEF Prepare
<1>2. CASE PrepareFails
    BY <1>0, <1>2 DEF PrepareFails
<1>3. CASE CommitUnit
    BY <1>0, <1>3 DEF CommitUnit, EndInv
<1>4. ASSUME Progress
      PROVE  row'.saved \in {row.saved, counted} /\ node'.saved \in {node.saved, counted}
    <2>1. \/ row' = row
          \/ row' = [row EXCEPT !.saved = counted, !.done = counted]
        BY <1>4 DEF Progress
    <2>2. node' = node \/ node' = [node EXCEPT !.saved = counted]
        BY <1>4 DEF Progress
    <2> QED BY <1>0, <2>1, <2>2
<1>5. CASE Report \/ ReportFailure
    BY <1>4, <1>5 DEF Report, ReportFailure
<1>6. ASSUME NodeSucceeds PROVE row'.saved = row.saved /\ node'.saved = counted
    BY <1>0, <1>6 DEF NodeSucceeds
<1>7. CASE DispatchSuccess
    BY <1>6, <1>7 DEF DispatchSuccess
<1>8. CASE DispatchSuccessFails
    BY <1>6, <1>8 DEF DispatchSuccessFails
<1>9. CASE DispatchFailure \/ DispatchFailureFails
    <2>1. node'.saved = node.saved /\ row' = row /\ counted' = counted
        BY <1>0, <1>9 DEF DispatchFailure, DispatchFailureFails
    <2>2. outcome'.saved = {} /\ outcome'.status \in {"failed", result}
        BY <1>9 DEF DispatchFailure, DispatchFailureFails
    <2> QED BY <1>0, <2>1, <2>2
<1>10. ASSUME FinalWrite, pc \in {"finalizing", "refinalizing"}
       PROVE  /\ row'.saved = outcome.saved
              /\ row'.status \in {"failed", "canceled"} \/ outcome.status = "success"
    BY <1>0, <1>10 DEF FinalWrite, FinalStatus, TypeInv, ResultKnown, Statuses
<1>11. CASE Finalize
    BY <1>10, <1>11 DEF Finalize
<1>12. CASE FinalizeRaises
    <2>1. /\ pc = "finalizing" /\ UNCHANGED <<node, counted>>
          /\ outcome'.status = "failed" /\ outcome'.saved = {}
        BY <1>12 DEF FinalizeRaises
    <2>2. FinalWrite \/ UNCHANGED row
        BY <1>12 DEF FinalizeRaises
    <2> QED BY <1>10, <2>1, <2>2
<1>13. CASE RequestCancel \/ Reconcile
    <2>1. row'.saved = row.saved
        BY <1>0, <1>13 DEF RequestCancel, Reconcile
    <2> QED BY <1>13, <2>1 DEF RequestCancel, Reconcile
<1> QED BY <1>1, <1>2, <1>3, <1>5, <1>7, <1>8, <1>9, <1>11, <1>12, <1>13, WritesOrNot

\* Counters are only set to the executor's, or to those of the outcome.
LEMMA SavedInvNext == TypeInv /\ EndInv /\ SavedInv /\ [Next]_vars => SavedInv'
<1> SUFFICES ASSUME TypeInv, EndInv, SavedInv, [Next]_vars PROVE SavedInv'
    OBVIOUS
<1> QED BY CounterSteps DEF SavedInv

\* The rows saved of a task run are taken back by its final write only, only to
\* nothing at all, and only when it ends as failed or canceled (_finalize_task_run
\* with an outcome that has no counters): a page that polls a run sees them grow
\* until then, and a success never loses any.
RowsAreForgottenAtTheEnd ==
    [][\/ row.saved \subseteq row'.saved
       \/ /\ pc \in {"finalizing", "refinalizing"}
          /\ row'.saved = {} /\ row'.status \in {"failed", "canceled"}]_vars

\* The node of a run never forgets what was saved.
NodeKeepsSaved == [][node.saved \subseteq node'.saved]_vars

\* Only the final write of a failed or canceled run takes back what was shown as
\* saved, and all of it: nothing else is behind the loss of saved rows.
THEOREM SavedRowsAreKept == Spec => NodeKeepsSaved /\ RowsAreForgottenAtTheEnd
<1>1. /\ TypeInv /\ EndInv /\ SavedInv /\ [Next]_vars => [node.saved \subseteq node'.saved]_vars
      /\ TypeInv /\ EndInv /\ SavedInv /\ [Next]_vars =>
             [\/ row.saved \subseteq row'.saved
              \/ /\ pc \in {"finalizing", "refinalizing"}
                 /\ row'.saved = {} /\ row'.status \in {"failed", "canceled"}]_vars
    BY CounterSteps DEF SavedInv
<1> QED BY <1>1, TypeInvInit, TypeInvNext, UnitInvInit, UnitInvNext, LoopInvInit, LoopInvNext,
           EndInvInit, EndInvNext, SavedInvInit, SavedInvNext, PTL
        DEF Spec, NodeKeepsSaved, RowsAreForgottenAtTheEnd
-----------------------------------------------------------------------------
(***************************************************************************)
(* An execution is a DatasetStep.                                          *)
(***************************************************************************)

\* A closed day is over at once.
ClosedInv == closed => Phase = "over"

\* Where an execution waits and where it is over; elsewhere it works.
Waits == {"created", "planned"}
Over  == {"returned", "failing", "finalizing", "refinalizing", "finished", "dead"}

\* The phase by the place.
LEMMA Phases == Phase = IF pc \in Waits THEN "waiting" ELSE IF pc \in Over THEN "over" ELSE "working"
BY DEF Phase, Waits, Over

\* What most steps do to the mapped state: nothing, or they end the work.
Passes == /\ Phase' = Phase \/ Phase' = "over"
          /\ row'.cancel = row.cancel /\ node'.status = node.status
          /\ Durable' = Durable /\ closed' = closed

\* Nothing or the end of the work is a step of the contract.
LEMMA PassesAreSteps == Passes => Step!Next \/ UNCHANGED Step!vars
BY DEF Passes, Left, Step!Next, Step!Leave, Step!vars

\* The steps that do more.
Tells == \/ Prepare \/ PrepareFails \/ Begin \/ SkipClosedDay \/ CommitUnit \/ CommitFails \/ DispatchSuccess
         \/ DispatchSuccessFails \/ DispatchFailure \/ DispatchFailureFails \/ RequestCancel

\* All the others end the work or leave it alone.
LEMMA PassesOrTells == TypeInv /\ [Next]_vars => Passes \/ Tells
<1> SUFFICES ASSUME TypeInv, [Next]_vars, ~ Tells PROVE Passes
    OBVIOUS
<1>0. /\ row \in [status : {"running", "canceling", "success", "failed", "canceled"},
                  cancel : BOOLEAN, saved : SUBSET Units, done : SUBSET Units]
      /\ node \in [status : {"running"} \cup Statuses, saved : SUBSET Units]
    BY DEF TypeInv, TypeOK
<1>1. ASSUME pc # "writing", ~ SkipClosedDay,
             row'.cancel = row.cancel, node'.status = node.status,
             Phase' = Phase \/ Phase' = "over"
      PROVE  Passes
    BY <1>1, DurableGrows, ClosedStays DEF Passes
<1>2. ASSUME pc' \in Over PROVE Phase' = "over"
    BY <1>2 DEF Over, Phase
<1>3. ASSUME pc \notin Waits \cup Over, pc' \notin Waits \cup Over PROVE Phase' = Phase
    BY <1>3 DEF Over, Waits, Phase
<1>4. CASE BeginCanceled \/ BeginFails
    BY <1>1, <1>2, <1>4 DEF BeginCanceled, BeginFails, Goto, Over, rows, SkipClosedDay
<1>5. CASE StartUnit \/ UnitsDone \/ Fetched \/ FetchRaised \/ SubmitFirst \/ FirstSubmitted
    BY <1>1, <1>2, <1>3, <1>5
       DEF StartUnit, UnitsDone, Fetched, FetchRaised, SubmitFirst, FirstSubmitted, Goto, Over,
           Waits, rows, SkipClosedDay
<1>6. CASE StartUnitCanceled \/ SubmitFirstCanceled \/ ResubmitCanceled
    BY <1>1, <1>2, <1>3, <1>6
       DEF StartUnitCanceled, SubmitFirstCanceled, ResubmitCanceled, Raise, Goto, Over, Waits,
           rows, SkipClosedDay
<1>7. CASE WaitReturns \/ WaitReturnsFailed \/ AllFetched \/ Take \/ BatchDone \/ Resubmit
    BY <1>1, <1>2, <1>3, <1>7
       DEF WaitReturns, WaitReturnsFailed, AllFetched, Take, BatchDone, Resubmit, Goto, Over,
           Waits, rows, SkipClosedDay
<1>8. CASE NothingToSubmit \/ Drained
    BY <1>1, <1>2, <1>3, <1>8 DEF NothingToSubmit, Drained, Goto, Over, Waits, rows, SkipClosedDay
<1>9. CASE Report \/ ReportFailure
    <2>1. row'.cancel = row.cancel /\ node'.status = node.status
        BY <1>0, <1>9 DEF Report, ReportFailure, Progress, rows
    <2>2. pc = "reporting" /\ pc' \in {"between", "resubmitting", "failing", "draining"}
        BY <1>9 DEF Report, ReportFailure, Raise, Goto
    <2> QED BY <1>1, <1>2, <1>3, <2>1, <2>2 DEF Over, Waits, SkipClosedDay, Goto
<1>10. CASE Finalize \/ FinalizeRaises
    <2>1. row'.cancel = row.cancel /\ node' = node
        BY <1>0, <1>10 DEF Finalize, FinalizeRaises, FinalWrite
    <2> QED BY <1>1, <1>2, <1>10, <2>1 DEF Finalize, FinalizeRaises, Goto, Over, SkipClosedDay
<1>11. CASE Crash
    BY <1>1, <1>2, <1>11, DurableGrows, ClosedStays DEF Crash, Goto, Over, rows, history, Passes, Durable
<1>12. CASE Reconcile
    <2>1. row'.cancel = row.cancel
        BY <1>0, <1>12 DEF Reconcile
    <2> QED BY <1>1, <1>2, <1>12, <2>1 DEF Reconcile, Over, SkipClosedDay, Goto
<1>13. CASE UNCHANGED vars \/ \E u \in Units : Thread(u)
    <2>1. UNCHANGED <<pc, rows, history>>
        BY <1>13 DEF vars, Thread, FetchBegins, FetchEnds
    <2> QED BY <2>1 DEF rows, history, Passes, Durable, Phase
<1> QED BY <1>4, <1>5, <1>6, <1>7, <1>8, <1>9, <1>10, <1>11, <1>12, <1>13 DEF Next, Main, Tells

\* Nobody looked at the calendar yet.
LEMMA ClosedInvInit == Init => ClosedInv
BY DEF Init, ClosedInv

\* What is over stays over.
LEMMA ClosedInvNext == TypeInv /\ ClosedInv /\ [Next]_vars => ClosedInv'
<1> SUFFICES ASSUME TypeInv, ClosedInv, [Next]_vars PROVE ClosedInv'
    OBVIOUS
<1>1. CASE SkipClosedDay
    BY <1>1 DEF SkipClosedDay, Goto, ClosedInv, Phase
<1>2. CASE closed' = closed /\ Passes
    BY <1>2 DEF ClosedInv, Passes
<1>3. CASE closed' = closed /\ Tells
    BY <1>3 DEF ClosedInv, Tells, Prepare, PrepareFails, Begin, SkipClosedDay, CommitUnit, CommitFails, DispatchSuccess,
                DispatchSuccessFails, DispatchFailure, DispatchFailureFails, RequestCancel, Goto, Phase
<1> QED BY <1>1, <1>2, <1>3, ClosedStays, PassesOrTells

\* Nobody attests a run without a plan.
NodeInv == pc = "created" => node.status = "none"

\* A run that was just claimed has no node.
LEMMA NodeInvInit == Init => NodeInv
BY DEF Init, NodeInv

\* A run that is still without a plan was so before, and has no node.
LEMMA NodeInvNext == NodeInv /\ [Next]_vars => NodeInv'
<1> SUFFICES ASSUME NodeInv, [Next]_vars, pc' = "created" PROVE pc = "created" /\ node' = node
    BY DEF NodeInv
<1>1. CASE Main
    BY <1>1 DEF Main, Goto, Raise, Prepare, PrepareFails, SkipClosedDay, Begin, BeginCanceled, BeginFails,
                StartUnit, StartUnitCanceled, UnitsDone, Fetched, FetchRaised, SubmitFirst,
                SubmitFirstCanceled, FirstSubmitted, WaitReturns, WaitReturnsFailed, AllFetched, Take,
                BatchDone, Resubmit, NothingToSubmit, ResubmitCanceled, Drained, CommitUnit, CommitFails,
                Report, ReportFailure, DispatchSuccess, DispatchSuccessFails, DispatchFailure,
                DispatchFailureFails, Finalize, FinalizeRaises
<1>2. CASE ~ Main
    BY <1>2 DEF Next, Thread, FetchBegins, FetchEnds, RequestCancel, Crash, Reconcile, vars, rows
<1> QED BY <1>1, <1>2

\* At first all the work is left.
LEMMA StepInit == Init => Step!Init
<1> SUFFICES ASSUME Init PROVE Step!Init
    OBVIOUS
<1>1. Durable = {}
    BY DEF Init, Durable
<1>2. Left = NumUnits
    BY <1>1, FS_EmptySet, ExecutionAssumption DEF Init, Left
<1> QED BY <1>2 DEF Init, Step!Init, Phase

\* One commit more, one unit less.
LEMMA CommitCounts ==
    ASSUME TypeInv, UnitInv, ClosedInv, pc = "writing", IsDurable
    PROVE  Left > 0 /\ Left' = Left - 1
<1>1. /\ unit \in Units /\ commits \in [Units -> Nat] /\ commits[unit] = 0
      /\ commits' = [commits EXCEPT ![unit] = @ + 1]
    BY DEF TypeInv, TypeOK, UnitInv, Processing, IsDurable
<1>2. /\ ~ closed /\ closed' = closed
    BY DEF ClosedInv, Phase, IsDurable
<1>3. unit \notin Durable /\ Durable' = Durable \cup {unit} /\ Durable' \subseteq Units
    BY <1>1 DEF Durable
<1>4. IsFiniteSet(Units) /\ Cardinality(Units) = NumUnits
    BY FS_Interval, ExecutionAssumption DEF Units
<1>5. /\ IsFiniteSet(Durable) /\ IsFiniteSet(Durable')
      /\ Cardinality(Durable') <= NumUnits
    BY <1>3, <1>4, FS_Subset
<1>6. Cardinality(Durable') = Cardinality(Durable) + 1
    BY <1>3, <1>5, FS_AddElement
<1>7. Cardinality(Durable) \in Nat /\ NumUnits \in Nat
    BY <1>5, FS_CardinalityType, ExecutionAssumption
<1> QED BY <1>2, <1>5, <1>6, <1>7 DEF Left

\* Every step of an execution is one of the contract or none.
LEMMA StepNext ==
    TypeInv /\ UnitInv /\ LoopInv /\ ClosedInv /\ NodeInv /\ [Next]_vars => [Step!Next]_(Step!vars)
<1> SUFFICES ASSUME TypeInv, UnitInv, LoopInv, ClosedInv, NodeInv, [Next]_vars
             PROVE  Step!Next \/ UNCHANGED Step!vars
    OBVIOUS
<1>0. /\ row \in [status : {"running", "canceling", "success", "failed", "canceled"},
                  cancel : BOOLEAN, saved : SUBSET Units, done : SUBSET Units]
      /\ node \in [status : {"running"} \cup Statuses, saved : SUBSET Units]
      /\ result \in {"none", "failed", "canceled"}
    BY DEF TypeInv, TypeOK
<1>1. ASSUME pc # "writing", ~ SkipClosedDay PROVE Durable' = Durable /\ Left' = Left
    BY <1>1, DurableGrows, ClosedStays DEF Left
<1> USE DEF Goto, rows
<1>2. ASSUME pc # "writing", ~ SkipClosedDay, Phase' = Phase, row'.cancel = row.cancel,
             node'.status = node.status \/ node'.status # "success"
      PROVE  Step!Next \/ UNCHANGED Step!vars
    BY <1>1, <1>2 DEF Step!Next, Step!Retract, Step!vars
<1>3. ASSUME pc = "returned", NodeSucceeds, Phase' = "over"
      PROVE  Step!Next
    <2>1. row'.cancel = row.cancel /\ node'.status = "success"
        BY <1>0, <1>3 DEF NodeSucceeds
    <2>2. Complete
        BY <1>3 DEF LoopInv
    <2>3. Left = 0
        <3>1. NumUnits \in Nat /\ Cardinality(Units) = NumUnits
            BY FS_Interval, ExecutionAssumption DEF Units
        <3> QED BY <2>2, <3>1 DEF Complete, Left
    <2>4. Left' = Left /\ Phase = "over"
        BY <1>1, <1>3 DEF Phase, SkipClosedDay
    <2>5. Step!Attest
        BY <1>3, <2>1, <2>3, <2>4 DEF Step!Attest
    <2> QED BY <2>5 DEF Step!Next
<1>4. CASE Prepare
    <2>1. node'.status # "success" /\ row' = row /\ Phase' = Phase
        BY <1>0, <1>4 DEF Prepare, Phase
    <2> QED BY <1>2, <1>4, <2>1 DEF Prepare, SkipClosedDay
<1>5. CASE Begin
    <2>1. Left' = Left /\ Phase = "waiting" /\ Phase' = "working" /\ UNCHANGED rows /\ ~ row.cancel
        BY <1>1, <1>5 DEF Begin, Phase, SkipClosedDay
    <2>2. Step!Begin
        BY <2>1 DEF Step!Begin
    <2> QED BY <2>2 DEF Step!Next
<1>6. CASE SkipClosedDay
    <2>1. Left' = 0 /\ Phase = "waiting" /\ Phase' = "over" /\ UNCHANGED rows
        BY <1>6 DEF SkipClosedDay, Phase, Left
    <2>2. Step!Skip
        BY <2>1 DEF Step!Skip
    <2> QED BY <2>2 DEF Step!Next
<1>7. ASSUME pc = "writing", pc' = "reporting", IsDurable, UNCHANGED rows PROVE Step!Next
    <2>1. Phase = "working" /\ Phase' = "working"
        BY <1>7 DEF Phase
    <2>2. Step!Commit
        BY <1>7, <2>1, CommitCounts DEF Step!Commit
    <2> QED BY <2>2 DEF Step!Next
<1>8. CASE CommitUnit
    BY <1>7, <1>8 DEF CommitUnit
<1>9. CASE CommitFails
    <2>1. CASE IsDurable
        BY <1>7, <1>9, <2>1 DEF CommitFails
    <2>2. CASE UNCHANGED history
        <3>1. UNCHANGED <<Phase, Left, row, node>>
            BY <1>9, <2>2 DEF CommitFails, Phase, Left, Durable, history
        <3> QED BY <3>1 DEF Step!vars
    <2> QED BY <1>9, <2>1, <2>2 DEF CommitFails
<1>10. CASE DispatchSuccess
    BY <1>3, <1>10 DEF DispatchSuccess, Phase
<1>11. CASE DispatchSuccessFails
    <2>1. CASE NodeSucceeds
        BY <1>3, <1>11, <2>1 DEF DispatchSuccessFails, Phase
    <2>2. CASE UNCHANGED rows
        BY <1>2, <1>11, <2>2 DEF DispatchSuccessFails, Phase, SkipClosedDay
    <2> QED BY <1>11, <2>1, <2>2 DEF DispatchSuccessFails
<1>12. CASE DispatchFailure \/ DispatchFailureFails
    <2>1. /\ pc = "failing" /\ pc' = "finalizing" /\ row' = row
          /\ node' \in {node, [node EXCEPT !.status = result]}
        BY <1>12 DEF DispatchFailure, DispatchFailureFails
    <2>2. node'.status = node.status \/ node'.status # "success"
        BY <1>0, <2>1
    <2> QED BY <1>2, <2>1, <2>2 DEF Phase, SkipClosedDay
<1>13. CASE RequestCancel
    <2>1. row'.cancel = TRUE /\ node' = node /\ Phase' = Phase /\ Left' = Left
        BY <1>0, <1>13 DEF RequestCancel, Phase, Left, Durable, history
    <2>2. Step!RequestCancel
        BY <2>1 DEF Step!RequestCancel
    <2> QED BY <2>2 DEF Step!Next
<1>14. CASE PrepareFails
    <2>1. /\ Left' = Left /\ Phase = "waiting" /\ Phase' = "over" /\ row' = row
        BY <1>1, <1>14 DEF PrepareFails, Phase, SkipClosedDay
    <2>2. node.status # "success" /\ node'.status # "success"
        BY <1>0, <1>14 DEF PrepareFails, NodeInv
    <2>3. Step!Leave
        BY <2>1, <2>2 DEF Step!Leave
    <2> QED BY <2>3 DEF Step!Next
<1> QED BY <1>4, <1>5, <1>6, <1>8, <1>9, <1>10, <1>11, <1>12, <1>13, <1>14, PassesOrTells, PassesAreSteps
        DEF Tells

\* The execution of a dataset, with its threads, reports and final writes, keeps
\* the contract on which a workflow builds.
THEOREM ImplementsDatasetStep == Spec => DatasetStepSpec
<1> QED BY TypeInvInit, TypeInvNext, UnitInvInit, UnitInvNext, LoopInvInit, LoopInvNext,
           ClosedInvInit, ClosedInvNext, NodeInvInit, NodeInvNext, StepInit, StepNext, PTL
        DEF Spec, DatasetStepSpec, Step!Spec
=============================================================================
