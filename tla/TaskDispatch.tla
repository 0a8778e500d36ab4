------------------------------ MODULE TaskDispatch ------------------------------
(***************************************************************************)
(* The task runs of several steps: a workflow, a maintenance action, and a *)
(* maintenance action of a registered executor, whose plan has units.  The *)
(* dispatcher creates a node per step, does its work and finishes the      *)
(* node; the worker writes the final status.  Every commit of the          *)
(* dispatcher may fail, before or after it is durable.                     *)
(*                                                                         *)
(* The work of a dataset step is what IngestionExecution models: here its  *)
(* units become durable in some order, and a stop request is looked for    *)
(* before the first and between any two.  Row counters are left to that    *)
(* module, races for the status of the task run to TaskRunLifecycle.       *)
(***************************************************************************)
EXTENDS Integers

CONSTANTS NumSteps,         \* steps of the workflow, units of the longest plan
          DatasetSteps,     \* steps that maintain a dataset, the others run an action
          ContinueOnError,  \* steps with the failure policy continue_on_error
          NumUnits          \* commits that the work of a step takes

ASSUME DispatchAssumption == /\ {NumSteps, NumUnits} \subseteq Nat \ {0}
                             /\ DatasetSteps \cup ContinueOnError \subseteq 1 .. NumSteps

VARIABLES
    kind,             \* workflow, action or registered (a maintenance action with an executor)
    last,             \* number of its steps
    pc,               \* the worker's thread: dispatcher, then worker
    step,             \* sequence_no, 0 before the first step
    current_node_id,  \* the node an exception is recorded at, 0 for None
    failed,           \* steps that raised
    completed,        \* steps that did not
    outcome,          \* status of the TaskRunDispatchOutcome
    row,              \* the task run: status and cancel request
    node,             \* status of a step's node
    left,             \* what is not yet durable of a step's work
    late              \* history: dataset steps with a commit after the stop request

run    == <<kind, last>>
counts == <<failed, completed>>
data   == <<node, left, late>>
vars == <<run, pc, step, current_node_id, counts, outcome, row, data>>

-----------------------------------------------------------------------------
Steps == 1 .. NumSteps

Places == {"created", "between", "beginning", "working", "finishing", "failing", "ended",
           "finalizing", "refinalizing", "finished", "dead"}

IsDataset(s) == kind = "workflow" /\ s \in DatasetSteps

Init ==
    /\ kind \in {"workflow", "action", "registered"}
    /\ last \in Steps
    /\ kind = "workflow" => last = NumSteps
    /\ kind = "action" => last = 1
    /\ pc = "created"
    /\ step = 0 /\ current_node_id = 0
    /\ failed = 0 /\ completed = 0
    /\ outcome = "none"
    /\ row = [status |-> "running", cancel |-> FALSE]
    /\ node = [s \in Steps |-> "absent"]
    /\ left = [s \in Steps |-> NumUnits]
    /\ late = {}

Goto(from, to) == pc = from /\ pc' = to

\* A commit that raises may be durable all the same.
MaybeNode(s, status) == node' \in {node, [node EXCEPT ![s] = status]}

-----------------------------------------------------------------------------
\* The target is looked up, and an executor asked for its plan.
Start == /\ Goto("created", "between")
         /\ UNCHANGED <<run, step, current_node_id, counts, outcome, row, data>>

\* Only a registered action has a handler around that: others leave dispatch().
StartFails == /\ Goto("created", IF kind = "registered" THEN "failing" ELSE "finalizing")
              /\ outcome' = IF kind = "registered" THEN outcome ELSE "failed"
              /\ UNCHANGED <<run, step, current_node_id, counts, row, data>>

\* Mutant: the loop goes one step too far.
CreateNodePastEnd == /\ Goto("between", "beginning")
                     /\ step' = step + 1
                     /\ current_node_id' = step + 1
                     /\ node' = [node EXCEPT ![step + 1] = "running"]
                     /\ UNCHANGED <<run, counts, outcome, row, left, late>>

CreateNode == /\ step < last
              /\ Goto("between", "beginning")
              /\ step' = step + 1
              /\ current_node_id' = step + 1
              /\ node' = [node EXCEPT ![step + 1] = "running"]
              /\ UNCHANGED <<run, counts, outcome, row, left, late>>

\* A workflow and a plain action create the node outside their handler.
CreateNodeFails == /\ step < last
                   /\ kind # "registered"
                   /\ Goto("between", "finalizing")
                   /\ MaybeNode(step + 1, "running")
                   /\ outcome' = "failed"
                   /\ step' = step + 1
                   /\ UNCHANGED <<run, current_node_id, counts, row, left, late>>

\* A registered action blames the node before when the flush raises, and the
\* new one, durable or not, when the commit does.
CreateUnitNodeFails == /\ step < last
                       /\ kind = "registered"
                       /\ Goto("between", "failing")
                       /\ step' = step + 1
                       /\ \/ UNCHANGED <<current_node_id, node>>
                          \/ current_node_id' = step + 1 /\ MaybeNode(step + 1, "running")
                       /\ UNCHANGED <<run, counts, outcome, row, left, late>>

-----------------------------------------------------------------------------
\* A dataset step.  On a closed trading day there is nothing to do.
SkipClosedDay == /\ IsDataset(step)
                 /\ Goto("beginning", "finishing")
                 /\ left' = [left EXCEPT ![step] = 0]
                 /\ UNCHANGED <<run, step, current_node_id, counts, outcome, row, node, late>>

\* Mutant: a step does not look for a stop request before it begins.
BeginAnyStep == /\ IsDataset(step)
                /\ Goto("beginning", "working")
                /\ UNCHANGED <<run, step, current_node_id, counts, outcome, row, data>>

BeginStep == /\ IsDataset(step)
             /\ ~ row.cancel
             /\ Goto("beginning", "working")
             /\ UNCHANGED <<run, step, current_node_id, counts, outcome, row, data>>

\* What is durable of the step's work, n units less than before.
Commit(n) == /\ left' = [left EXCEPT ![step] = @ - n]
             /\ late' = IF row.cancel /\ IsDataset(step) THEN late \cup {step} ELSE late

CommitUnit == /\ pc = "working" /\ pc' = pc
              /\ left[step] > 0
              /\ Commit(1)
              /\ UNCHANGED <<run, step, current_node_id, counts, outcome, row, node>>

\* Mutant: the node is finished although the last unit is not durable.
StepDoneEarly == /\ Goto("working", "finishing")
                 /\ left[step] <= 1
                 /\ UNCHANGED <<run, step, current_node_id, counts, outcome, row, data>>

StepDone == /\ Goto("working", "finishing")
            /\ left[step] = 0
            /\ UNCHANGED <<run, step, current_node_id, counts, outcome, row, data>>

\* A maintenance action does all its work without looking for a stop request.
RunAction == /\ ~ IsDataset(step)
             /\ Goto("beginning", "finishing")
             /\ Commit(left[step])
             /\ UNCHANGED <<run, step, current_node_id, counts, outcome, row, node>>

\* Anything else raises: no plan, a stop request, a fetch, a statement, a commit.
StepRaises == /\ pc \in {"beginning", "working"} /\ pc' = "failing"
              /\ \/ UNCHANGED <<left, late>>
                 \/ \E n \in 1 .. NumUnits :
                       /\ n <= left[step]
                       /\ IsDataset(step) => (pc = "working" /\ n = 1)
                       /\ Commit(n)
              /\ UNCHANGED <<run, step, current_node_id, counts, outcome, row, node>>

-----------------------------------------------------------------------------
\* The step's work is done: the node is a success, in a commit of its own.
FinishStep == /\ Goto("finishing", "between")
              /\ node' = [node EXCEPT ![step] = "success"]
              /\ completed' = completed + 1
              /\ UNCHANGED <<run, step, current_node_id, failed, outcome, row, left, late>>

\* The commit raises, after the step was counted as completed.
FinishStepFails == /\ Goto("finishing", "failing")
                   /\ MaybeNode(step, "success")
                   /\ completed' = completed + 1
                   /\ UNCHANGED <<run, step, current_node_id, failed, outcome, row, left, late>>

\* The node at which the exception is recorded fails, if it is there.
BlamedNodes == IF current_node_id = 0 THEN {}
               ELSE {s \in {current_node_id} : node[s] # "absent"}

NodeFails == node' = [s \in Steps |-> IF s \in BlamedNodes THEN "failed" ELSE node[s]]

\* Mutant: a workflow goes on after any failure.
StepFailsAndGoesOn == /\ kind = "workflow"
                      /\ Goto("failing", "between")
                      /\ NodeFails
                      /\ failed' = failed + 1
                      /\ UNCHANGED <<run, step, current_node_id, completed, outcome, row, left, late>>

\* Mutant: only the node is told of the failure.
StepFailsUncounted == /\ kind = "workflow"
                      /\ Goto("failing", IF step \in ContinueOnError THEN "between" ELSE "ended")
                      /\ NodeFails
                      /\ UNCHANGED <<run, step, current_node_id, counts, outcome, row, left, late>>

\* Mutant: a failed step is begun again, whatever its failure.
StepRetried == /\ kind = "workflow"
               /\ Goto("failing", "beginning")
               /\ UNCHANGED <<run, step, current_node_id, counts, outcome, row, data>>

StepFails == /\ kind = "workflow"
             /\ Goto("failing", IF step \in ContinueOnError THEN "between" ELSE "ended")
             /\ NodeFails
             /\ failed' = failed + 1
             /\ UNCHANGED <<run, step, current_node_id, completed, outcome, row, left, late>>

ActionFails == /\ kind # "workflow"
               /\ Goto("failing", "finalizing")
               /\ NodeFails
               /\ outcome' = "failed"
               /\ UNCHANGED <<run, step, current_node_id, counts, row, left, late>>

\* Recording the issue raises out of dispatch(), with the node as it is or failed.
HandlerFails == /\ Goto("failing", "finalizing")
                /\ NodeFails \/ UNCHANGED node
                /\ outcome' = "failed"
                /\ UNCHANGED <<run, step, current_node_id, counts, row, left, late>>

LoopEnds == /\ step = last
            /\ Goto("between", "ended")
            /\ UNCHANGED <<run, step, current_node_id, counts, outcome, row, data>>

WorkflowStatus == IF failed = 0 THEN "success"
                  ELSE IF completed = 0 THEN "failed" ELSE "partial_success"

DispatchEnds == /\ Goto("ended", "finalizing")
                /\ outcome' = WorkflowStatus
                /\ UNCHANGED <<run, step, current_node_id, counts, row, data>>

-----------------------------------------------------------------------------
\* The worker writes the final status, a second time when the first raises.
FinalStatus == IF row.cancel /\ outcome \in {"success", "partial_success"}
               THEN "canceled" ELSE outcome

Finalize == /\ pc \in {"finalizing", "refinalizing"} /\ pc' = "finished"
            /\ row' = [row EXCEPT !.status = FinalStatus]
            /\ UNCHANGED <<run, step, current_node_id, counts, outcome, data>>

FinalizeRaises == /\ Goto("finalizing", "refinalizing")
                  /\ row' \in {row, [row EXCEPT !.status = FinalStatus]}
                  /\ outcome' = "failed"
                  /\ UNCHANGED <<run, step, current_node_id, counts, data>>

\* A user's stop request.
RequestCancel == /\ row.status = "running"
                 /\ row' = [status |-> "canceling", cancel |-> TRUE]
                 /\ UNCHANGED <<run, pc, step, current_node_id, counts, outcome, data>>

\* The process dies; the reconciliation ends the task run, and only that.
Crash == /\ pc \notin {"finished", "dead"}
         /\ pc' = "dead"
         /\ UNCHANGED <<run, step, current_node_id, counts, outcome, row, data>>

Reconcile == /\ pc = "dead"
             /\ row.status \in {"running", "canceling"}
             /\ row' = [row EXCEPT !.status = IF @ = "canceling" THEN "canceled" ELSE "failed"]
             /\ UNCHANGED <<run, pc, step, current_node_id, counts, outcome, data>>

Dispatch == \/ Start \/ StartFails
            \/ CreateNode \/ CreateNodeFails \/ CreateUnitNodeFails
            \/ SkipClosedDay \/ BeginStep \/ CommitUnit \/ StepDone
            \/ RunAction \/ StepRaises
            \/ FinishStep \/ FinishStepFails
            \/ StepFails \/ ActionFails \/ HandlerFails
            \/ LoopEnds \/ DispatchEnds

Next == \/ Dispatch \/ Finalize \/ FinalizeRaises
        \/ RequestCancel \/ Crash \/ Reconcile

Spec == Init /\ [][Next]_vars

\* A process that lives goes on with its task run.
FairSpec == Spec /\ WF_vars(Dispatch \/ Finalize \/ FinalizeRaises)

-----------------------------------------------------------------------------
\* Types.
TypeOK ==
    /\ kind \in {"workflow", "action", "registered"}
    /\ last \in Steps
    /\ pc \in Places
    /\ step \in 0 .. last
    /\ pc \in {"beginning", "working", "finishing"} => step \in Steps
    /\ current_node_id \in 0 .. last
    /\ failed \in Nat /\ completed \in Nat
    /\ outcome \in {"none", "success", "partial_success", "failed"}
    /\ row \in [status : {"running", "canceling", "success", "partial_success", "failed", "canceled"},
                cancel : BOOLEAN]
    /\ node \in [Steps -> {"absent", "running", "success", "failed"}]
    /\ left \in [Steps -> 0 .. NumUnits]
    /\ late \subseteq Steps

\* A node in success is evidence that its dataset is complete (the heat
\* executor reads limit_list_d and suspend_d nodes so): whatever fails or dies,
\* such a node's work is durable.
EvidenceIsDurable == \A s \in Steps : node[s] = "success" => left[s] = 0

\* fail_fast: a step is begun only when every step before it has succeeded, or
\* failed with the policy continue_on_error.
StepsInOrder ==
    \A t \in Steps : node[t] # "absent" =>
        \A s \in 1 .. t - 1 : \/ node[s] = "success"
                              \/ node[s] = "failed" /\ s \in ContinueOnError /\ kind = "workflow"

\* A success has a node in success for every step; a partial success has one
\* that failed, and no node that still runs.
OutcomeAgreesWithNodes ==
    /\ row.status = "success" => \A s \in 1 .. last : node[s] = "success"
    /\ row.status = "partial_success" => /\ \E s \in 1 .. last : node[s] = "failed"
                                         /\ \A s \in Steps : node[s] # "running"

\* After a stop request only the dataset step that was at work still commits:
\* the steps after it look for the request before they begin, even those that
\* continue_on_error reaches.
LateWorkInOneStep == \A s, t \in late : s = t

\* Every dataset step of a workflow is a DatasetStep, as the execution it stands
\* for is, whatever becomes of the steps around it (_execute_workflow).
Phase(s) == IF step < s \/ (step = s /\ pc = "beginning") THEN "waiting"
            ELSE IF step = s /\ pc = "working" THEN "working"
            ELSE "over"

Work(s) == INSTANCE DatasetStep WITH
    phase    <- Phase(s),
    left     <- left[s],
    cancel   <- row.cancel,
    evidence <- node[s] = "success"

WorkflowStepsSpec == kind = "workflow" => \A s \in DatasetSteps : Work(s)!Spec

\* A dispatched task run comes to its end, unless its process dies.
DispatchSettles == pc = "created" ~> pc \in {"finished", "dead"}
=============================================================================
