-------------------------- MODULE IngestionExecution --------------------------
(***************************************************************************)
(* A dataset action from its dispatch to its final status: the units of    *)
(* the plan are fetched, one after the other or by a pool of threads,      *)
(* written and committed one by one by the main thread, and reported to    *)
(* the task run and its node by transactions of their own.  A stop request *)
(* may arrive, and a fetch, a commit or a report fail, at any time.        *)
(*                                                                         *)
(* A row counter is the set of the units whose rows it includes.  Races    *)
(* for the task run's status are the subject of TaskRunLifecycle, and      *)
(* staged streams that of StagedPublication.                               *)
(***************************************************************************)
EXTENDS Integers, FiniteSets

CONSTANTS NumUnits,         \* units of the plan, in order
          MaxConcurrency    \* largest fetch_concurrency of a dataset

ASSUME ExecutionAssumption == {NumUnits, MaxConcurrency} \subseteq Nat \ {0}

VARIABLES
    pc,           \* the main thread: dispatcher, executor, worker
    concurrency,  \* fetch_concurrency of the dataset
    next,         \* the unit that next(unit_iter) returns
    fetch,        \* how far the fetch of a unit is
    in_flight,    \* units whose futures are in in_flight
    batch,        \* done: completed futures, still to be handled
    unit,         \* the unit being processed, 0 at first
    counted,      \* _RunState.rows_committed
    result,       \* the exception on its way out, as a status
    outcome,      \* TaskRunDispatchOutcome: status and rows_saved
    row,          \* the task run: status, cancel request, rows_saved, unit_done
    node,         \* its node: status and rows_saved
    commits,      \* history: durable commits of a unit
    late,         \* history: units committed after the cancel request
    closed        \* history: a closed trading day, without anything to do

fetching == <<next, fetch, in_flight, batch, unit>>
rows     == <<row, node>>
history  == <<commits, late, closed>>
vars == <<pc, concurrency, fetching, counted, result, outcome, rows, history>>

-----------------------------------------------------------------------------
Units == 1 .. NumUnits

\* Before the executor, in its loops, and after it.
Places == {"created", "planned"}
          \cup {"between", "fetching", "submitting", "waiting", "batch", "resubmitting"}
          \cup {"writing", "reporting", "draining"}
          \cup {"returned", "failing", "finalizing", "refinalizing", "finished", "dead"}

Serial == concurrency = 1 \/ NumUnits = 1

Durable == {u \in Units : commits[u] > 0}

Init ==
    /\ pc = "created"
    /\ concurrency \in 1 .. MaxConcurrency
    /\ next = 1
    /\ fetch = [u \in Units |-> "none"]
    /\ in_flight = {} /\ batch = {} /\ unit = 0
    /\ counted = {}
    /\ result = "none"
    /\ outcome = [status |-> "none", saved |-> {}]
    /\ row = [status |-> "running", cancel |-> FALSE, saved |-> {}, done |-> {}]
    /\ node = [status |-> "none", saved |-> {}]
    /\ commits = [u \in Units |-> 0]
    /\ late = {}
    /\ closed = FALSE

Goto(from, to) == pc = from /\ pc' = to

\* An exception leaves the executor; with threads, once they have ended.
Raise(from, kind) == /\ Goto(from, IF Serial THEN "failing" ELSE "draining")
                     /\ result' = kind

\* future.cancel() stops a fetch that has not begun.
CancelPending == fetch' = [u \in Units |->
                     IF u \in in_flight /\ fetch[u] = "queued" THEN "canceled" ELSE fetch[u]]

Ends(status, saved) == outcome' = [status |-> status, saved |-> saved]

-----------------------------------------------------------------------------
\* The dispatcher resolves the plan and commits the node.
Prepare == /\ Goto("created", "planned")
           /\ node' = [node EXCEPT !.status = "running"]
           /\ UNCHANGED <<concurrency, fetching, counted, result, outcome, row, history>>

\* The plan is refused, or the commit of the node raises; it may be durable.
PrepareFails == /\ Goto("created", "finalizing")
                /\ node' \in {node, [node EXCEPT !.status = "running"]}
                /\ Ends("failed", {})
                /\ UNCHANGED <<concurrency, fetching, counted, result, row, history>>

\* A closed trading day is a success without any unit.
SkipClosedDay == /\ Goto("planned", "returned")
                 /\ closed' = TRUE
                 /\ UNCHANGED <<concurrency, fetching, counted, result, outcome, rows>>
                 /\ UNCHANGED <<commits, late>>

\* DatasetMaintainService._run looks for a stop request and calls the executor.
Begin == /\ ~ row.cancel
         /\ Goto("planned", IF Serial THEN "between" ELSE "submitting")
         /\ UNCHANGED <<concurrency, fetching, counted, result, outcome, rows, history>>

BeginCanceled == /\ row.cancel
                 /\ Goto("planned", "failing")
                 /\ result' = "canceled"
                 /\ UNCHANGED <<concurrency, fetching, counted, outcome, rows, history>>

\* The trading day, or the look for a stop request, cannot be read.
BeginFails == /\ Goto("planned", "failing")
              /\ result' = "failed"
              /\ UNCHANGED <<concurrency, fetching, counted, outcome, rows, history>>

-----------------------------------------------------------------------------
\* One unit after the other.
StartUnit == /\ next <= NumUnits
             /\ ~ row.cancel
             /\ Goto("between", "fetching")
             /\ unit' = next
             /\ fetch' = [fetch EXCEPT ![next] = "running"]
             /\ next' = next + 1
             /\ UNCHANGED <<concurrency, in_flight, batch, counted, result, outcome, rows, history>>

StartUnitCanceled == /\ next <= NumUnits
                     /\ row.cancel
                     /\ Raise("between", "canceled")
                     /\ UNCHANGED <<concurrency, fetching, counted, outcome, rows, history>>

UnitsDone == /\ next > NumUnits
             /\ Goto("between", "returned")
             /\ UNCHANGED <<concurrency, fetching, counted, result, outcome, rows, history>>

Fetched == /\ Goto("fetching", "writing")
           /\ fetch[unit] = "fetched"
           /\ UNCHANGED <<concurrency, fetching, counted, result, outcome, rows, history>>

FetchRaised == /\ Goto("fetching", "reporting")
               /\ fetch[unit] = "raised"
               /\ result' = "failed"
               /\ UNCHANGED <<concurrency, fetching, counted, outcome, rows, history>>

-----------------------------------------------------------------------------
\* A pool of threads fetches; submit_next keeps at most fetch_concurrency busy.

\* Mutant: the end of the iterator is not noticed.
SubmitPastEnd == /\ in_flight' = in_flight \cup {next}
                 /\ fetch' = [fetch EXCEPT ![next] = "queued"]
                 /\ next' = next + 1
                 /\ UNCHANGED <<batch, unit>>

Submit == /\ next <= NumUnits
          /\ in_flight' = in_flight \cup {next}
          /\ fetch' = [fetch EXCEPT ![next] = "queued"]
          /\ next' = next + 1
          /\ UNCHANGED <<batch, unit>>

SubmitFirst == /\ pc = "submitting" /\ pc' = pc
               /\ next <= concurrency
               /\ ~ row.cancel
               /\ Submit
               /\ UNCHANGED <<concurrency, counted, result, outcome, rows, history>>

\* The first submissions stand before the try: nothing pending is canceled.
SubmitFirstCanceled == /\ next <= concurrency /\ next <= NumUnits
                       /\ row.cancel
                       /\ Raise("submitting", "canceled")
                       /\ UNCHANGED <<concurrency, fetching, counted, outcome, rows, history>>

FirstSubmitted == /\ next > concurrency \/ next > NumUnits
                  /\ Goto("submitting", "waiting")
                  /\ UNCHANGED <<concurrency, fetching, counted, result, outcome, rows, history>>

Completed == {u \in in_flight : fetch[u] \in {"fetched", "raised"}}

\* wait(..., FIRST_COMPLETED): whatever is completed by now.
WaitReturns == /\ Completed # {}
               /\ \A u \in Completed : fetch[u] = "fetched"
               /\ Goto("waiting", "batch")
               /\ batch' = Completed
               /\ UNCHANGED <<concurrency, next, fetch, in_flight, unit>>
               /\ UNCHANGED <<counted, result, outcome, rows, history>>

\* One failed fetch: what else is completed is not written any more.
WaitReturnsFailed == /\ \E u \in Completed : /\ fetch[u] = "raised"
                                             /\ in_flight' = in_flight \ {u}
                     /\ Goto("waiting", "reporting")
                     /\ CancelPending
                     /\ result' = "failed"
                     /\ UNCHANGED <<concurrency, next, batch, unit>>
                     /\ UNCHANGED <<counted, outcome, rows, history>>

AllFetched == /\ in_flight = {}
              /\ Goto("waiting", "returned")
              /\ UNCHANGED <<concurrency, fetching, counted, result, outcome, rows, history>>

\* Mutant: the future stays in in_flight.
TakeAndKeep == /\ Goto("batch", "writing")
               /\ \E u \in batch : /\ unit' = u
                                   /\ batch' = batch \ {u}
               /\ UNCHANGED <<concurrency, next, fetch, in_flight>>
               /\ UNCHANGED <<counted, result, outcome, rows, history>>

Take == /\ Goto("batch", "writing")
        /\ \E u \in batch : /\ unit' = u
                            /\ batch' = batch \ {u}
                            /\ in_flight' = in_flight \ {u}
        /\ UNCHANGED <<concurrency, next, fetch>>
        /\ UNCHANGED <<counted, result, outcome, rows, history>>

BatchDone == /\ batch = {}
             /\ Goto("batch", "waiting")
             /\ UNCHANGED <<concurrency, fetching, counted, result, outcome, rows, history>>

\* Mutant: a stop request is not looked for again.
ResubmitAlways == /\ Goto("resubmitting", "batch")
                  /\ Submit
                  /\ UNCHANGED <<concurrency, counted, result, outcome, rows, history>>

Resubmit == /\ Goto("resubmitting", "batch")
            /\ ~ row.cancel
            /\ Submit
            /\ UNCHANGED <<concurrency, counted, result, outcome, rows, history>>

\* After the last unit was submitted, a stop request is not looked for.
NothingToSubmit == /\ next > NumUnits
                   /\ Goto("resubmitting", "batch")
                   /\ UNCHANGED <<concurrency, fetching, counted, result, outcome, rows, history>>

ResubmitCanceled == /\ next <= NumUnits
                    /\ row.cancel
                    /\ Raise("resubmitting", "canceled")
                    /\ CancelPending
                    /\ UNCHANGED <<concurrency, next, in_flight, batch, unit>>
                    /\ UNCHANGED <<counted, outcome, rows, history>>

\* Mutant: the results of canceled futures are waited for.
DrainedByResult == /\ \A u \in in_flight : fetch[u] \in {"fetched", "raised"}
                   /\ Goto("draining", "failing")
                   /\ UNCHANGED <<concurrency, fetching, counted, result, outcome, rows, history>>

\* Leaving the with statement waits for the threads.
Drained == /\ \A u \in Units : fetch[u] \notin {"queued", "running"}
           /\ Goto("draining", "failing")
           /\ UNCHANGED <<concurrency, fetching, counted, result, outcome, rows, history>>

\* A thread of the pool (or the main thread, when serial) fetches a unit.
FetchBegins(u) == /\ pc # "dead"
                  /\ fetch[u] = "queued"
                  /\ fetch' = [fetch EXCEPT ![u] = "running"]
                  /\ UNCHANGED <<pc, concurrency, next, in_flight, batch, unit>>
                  /\ UNCHANGED <<counted, result, outcome, rows, history>>

FetchEnds(u) == /\ pc # "dead"
                /\ fetch[u] = "running"
                /\ \E r \in {"fetched", "raised"} : fetch' = [fetch EXCEPT ![u] = r]
                /\ UNCHANGED <<pc, concurrency, next, in_flight, batch, unit>>
                /\ UNCHANGED <<counted, result, outcome, rows, history>>

-----------------------------------------------------------------------------
\* _process_fetched_unit: the commit of a unit and its report.
IsDurable == /\ commits' = [commits EXCEPT ![unit] = @ + 1]
             /\ late' = IF row.cancel THEN late \cup {unit} ELSE late
             /\ UNCHANGED closed

CommitUnit == /\ Goto("writing", "reporting")
              /\ IsDurable
              /\ counted' = counted \cup {unit}
              /\ UNCHANGED <<concurrency, fetching, result, outcome, rows>>

\* Mutant: the rows are counted before the commit.
CountThenFail == /\ Goto("writing", "reporting")
                 /\ result' = "failed"
                 /\ counted' = counted \cup {unit}
                 /\ UNCHANGED <<concurrency, fetching, outcome, rows, history>>

\* Mutant: a unit that cannot be committed is left out.
CommitSwallowed == /\ Goto("writing", "reporting")
                   /\ UNCHANGED <<concurrency, fetching, counted, result, outcome, rows, history>>

\* Normalizing, writing or committing raises; the commit may be durable.
CommitFails == /\ Goto("writing", "reporting")
               /\ result' = "failed"
               /\ IsDurable \/ UNCHANGED history
               /\ UNCHANGED <<concurrency, fetching, counted, outcome, rows>>

\* update_progress in a session of its own; its errors are swallowed.
Progress == \/ /\ row' = [row EXCEPT !.saved = counted, !.done = counted]
               /\ node' = IF node.status = "running"
                          THEN [node EXCEPT !.saved = counted] ELSE node
            \/ UNCHANGED rows

Report == /\ result = "none"
          /\ Progress
          /\ Goto("reporting", IF Serial THEN "between" ELSE "resubmitting")
          /\ UNCHANGED <<concurrency, fetching, counted, result, outcome, history>>

ReportFailure == /\ result # "none"
                 /\ Progress
                 /\ Raise("reporting", result)
                 /\ CancelPending
                 /\ UNCHANGED <<concurrency, next, in_flight, batch, unit>>
                 /\ UNCHANGED <<counted, outcome, history>>

-----------------------------------------------------------------------------
\* The dispatcher commits the node and the worker the final status.
NodeSucceeds == /\ node' = [status |-> "success", saved |-> counted]
                /\ row' = [row EXCEPT !.done = Units]

DispatchSuccess == /\ Goto("returned", "finalizing")
                   /\ NodeSucceeds
                   /\ Ends("success", counted)
                   /\ UNCHANGED <<concurrency, fetching, counted, result, history>>

\* The light refresh or the commit raises; the commit may be durable.
DispatchSuccessFails == /\ Goto("returned", "failing")
                        /\ result' = "failed"
                        /\ NodeSucceeds \/ UNCHANGED rows
                        /\ UNCHANGED <<concurrency, fetching, counted, outcome, history>>

DispatchFailure == /\ Goto("failing", "finalizing")
                   /\ node' = [node EXCEPT !.status = result]
                   /\ Ends(result, {})
                   /\ UNCHANGED <<concurrency, fetching, counted, result, row, history>>

\* Recording the issue raises: dispatcher_error, with the node as it is.
DispatchFailureFails == /\ Goto("failing", "finalizing")
                        /\ node' \in {node, [node EXCEPT !.status = result]}
                        /\ Ends("failed", {})
                        /\ UNCHANGED <<concurrency, fetching, counted, result, row, history>>

FinalStatus == IF row.cancel /\ outcome.status = "success" THEN "canceled" ELSE outcome.status

FinalWrite == row' = [row EXCEPT !.status = FinalStatus,
                                 !.saved = outcome.saved,
                                 !.done = IF FinalStatus = "success" THEN Units ELSE @]

Finalize == /\ pc \in {"finalizing", "refinalizing"} /\ pc' = "finished"
            /\ FinalWrite
            /\ UNCHANGED <<concurrency, fetching, counted, result, outcome, node, history>>

\* The commit or the refresh raises: finalized once more, as failed.
FinalizeRaises == /\ Goto("finalizing", "refinalizing")
                  /\ FinalWrite \/ UNCHANGED row
                  /\ Ends("failed", {})
                  /\ UNCHANGED <<concurrency, fetching, counted, result, node, history>>

-----------------------------------------------------------------------------
RequestCancel == /\ row.status = "running"
                 /\ row' = [row EXCEPT !.status = "canceling", !.cancel = TRUE]
                 /\ UNCHANGED <<pc, concurrency, fetching, counted, result, outcome, node, history>>

\* The process dies; nothing of the execution is taken up again.
Crash == /\ pc \notin {"finished", "dead"}
         /\ pc' = "dead"
         /\ UNCHANGED <<concurrency, fetching, counted, result, outcome, rows, history>>

Reconcile == /\ pc = "dead"
             /\ row.status \in {"running", "canceling"}
             /\ row' = [row EXCEPT !.status = IF @ = "canceling" THEN "canceled" ELSE "failed"]
             /\ UNCHANGED <<pc, concurrency, fetching, counted, result, outcome, node, history>>

\* The main thread.
Main == \/ Prepare \/ PrepareFails \/ SkipClosedDay \/ Begin \/ BeginCanceled \/ BeginFails
        \/ StartUnit \/ StartUnitCanceled \/ UnitsDone \/ Fetched \/ FetchRaised
        \/ SubmitFirst \/ SubmitFirstCanceled \/ FirstSubmitted
        \/ WaitReturns \/ WaitReturnsFailed \/ AllFetched \/ Take \/ BatchDone
        \/ Resubmit \/ NothingToSubmit \/ ResubmitCanceled \/ Drained
        \/ CommitUnit \/ CommitFails \/ Report \/ ReportFailure
        \/ DispatchSuccess \/ DispatchSuccessFails
        \/ DispatchFailure \/ DispatchFailureFails
        \/ Finalize \/ FinalizeRaises

Thread(u) == FetchBegins(u) \/ FetchEnds(u)

Next == \/ Main
        \/ \E u \in Units : Thread(u)
        \/ RequestCancel \/ Crash \/ Reconcile

Spec == Init /\ [][Next]_vars

\* The process goes on with an execution, the pool runs what is submitted, and
\* a source answers or times out.
FairSpec == Spec /\ WF_vars(Main) /\ \A u \in Units : WF_vars(Thread(u))

-----------------------------------------------------------------------------
\* Types.
Statuses == {"none", "success", "failed", "canceled"}
TypeOK ==
    /\ pc \in Places
    /\ concurrency \in 1 .. MaxConcurrency
    /\ next \in 1 .. NumUnits + 1
    /\ fetch \in [Units -> {"none", "queued", "running", "fetched", "raised", "canceled"}]
    /\ in_flight \subseteq Units /\ batch \subseteq Units
    /\ unit \in 0 .. NumUnits
    /\ pc \in {"fetching", "writing"} => unit \in Units
    /\ counted \subseteq Units
    /\ result \in {"none", "failed", "canceled"}
    /\ outcome \in [status : Statuses, saved : SUBSET Units]
    /\ row \in [status : {"running", "canceling", "success", "failed", "canceled"}, cancel : BOOLEAN,
                saved : SUBSET Units, done : SUBSET Units]
    /\ node \in [status : {"running"} \cup Statuses, saved : SUBSET Units]
    /\ commits \in [Units -> Nat]
    /\ late \subseteq Units
    /\ closed \in BOOLEAN

\* No unit is committed twice, however its fetch ends and whatever completes
\* beside it (_run_units_with_concurrent_fetch: in_flight.pop and the iterator).
UnitsAtMostOnce == \A u \in Units : commits[u] <= 1

\* rows_saved of the task run and of its node never speaks of a unit that is
\* not durable, in any state a page, a restart or a reader may meet
\* (rows_committed is added to after the commit).
ReportedIsDurable == row.saved \cup node.saved \cup counted \subseteq Durable

\* A success has committed every unit of the plan, or none on a closed trading
\* day, and says so.
SuccessIsComplete ==
    row.status = "success" => /\ row.saved = Durable
                              /\ Durable = Units \/ (Durable = {} /\ closed)

\* A stop request is answered at a unit boundary: not more units are committed
\* after it than the dataset may have in flight (submit_next looks for it).
CancelStopsSoon == Cardinality(late) <= concurrency

\* An execution is a DatasetStep: whatever the threads, reports, faults and
\* requests do, its work is done commit by commit while its loops run, and its
\* node is a success only when all of it is durable (what a workflow relies on
\* when it calls DatasetMaintainService).
Phase == CASE pc \in {"created", "planned"} -> "waiting"
           [] pc \in {"returned", "failing", "finalizing", "refinalizing", "finished", "dead"} -> "over"
           [] OTHER -> "working"

Left == IF closed THEN 0 ELSE NumUnits - Cardinality(Durable)

Step == INSTANCE DatasetStep WITH
    phase    <- Phase,
    left     <- Left,
    cancel   <- row.cancel,
    evidence <- node.status = "success"

DatasetStepSpec == Step!Spec

\* Every dispatched run gets its final status, unless its process dies.
RunEnds == pc = "created" ~> pc \in {"finished", "dead"}

\* "rows_saved contains only units whose business commit is done", and for
\* failed and canceled runs "the last page and the cumulative rows are kept"
\* (docs/ops/ops-task-run-observability-redesign-plan-v1.md:1144, 1147).
SavedIsKept == [][row.saved \subseteq row'.saved]_vars
=============================================================================
