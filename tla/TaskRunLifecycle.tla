-------------------------- MODULE TaskRunLifecycle --------------------------
(***************************************************************************)
(* The life of a TaskRun row (table ops.task_run) under the processes that *)
(* write it: the worker processes of every lane, the stale-run             *)
(* reconciliation that opens each cycle of a general worker, and the web   *)
(* requests that submit, retry and cancel runs.                            *)
(*                                                                         *)
(* Every process works on its own SQLAlchemy session over PostgreSQL in    *)
(* READ COMMITTED: a statement that is conditional in SQL (the claim, the  *)
(* cancellation of a queued row) is one atomic step, while "load the row,  *)
(* decide in Python, commit" is two steps with the other processes free to *)
(* commit in between.  A process therefore carries what it read.           *)
(***************************************************************************)
EXTENDS Naturals, WorkerLane

CONSTANTS Runs,             \* ids of the task runs, in the order of requested_at
          KindOf,           \* task_type and resource_key of every run
          Workers,          \* worker processes
          LaneOf,           \* the lane each worker process serves
          Users,            \* concurrent cancel requests
          LegacyCancels,    \* rows that may be found queued with a cancel request
          MaxCrashes        \* bound: worker processes that die

NoRun == 0

ASSUME LifecycleAssumption ==
    /\ Runs \subseteq Nat \ {NoRun}
    /\ KindOf \in [Runs -> Kinds]
    /\ LaneOf \in [Workers -> Lanes]
    /\ LegacyCancels \subseteq Runs
    /\ MaxCrashes \in Nat

VARIABLES
    \* the rows of ops.task_run
    status,           \* TaskRun.status, "absent" before the row is inserted
    cancelRequested,  \* TaskRun.cancel_requested_at is not NULL
    quiet,            \* no write for longer than the limit of its status
    \* the worker processes
    pc,               \* where the process is in its serve loop
    job,              \* the run it selected, claimed or executes
    outcome,          \* what the dispatcher returned
    rowStatus,        \* status of the row as its session loaded it
    rowCancel,        \* cancel_requested_at as its session loaded it
    retrying,         \* it finalizes once more, as failed, after an exception
    plan,             \* the stale rows it read, with the status to give them
    \* the web requests that cancel a run
    target,           \* the run a request is about
    seenStatus,       \* the status that request read
    crashes,          \* bound: how many worker processes died so far
    \* history: what the properties speak of
    claims,           \* how often the run was claimed for execution
    cancelInTime      \* a cancel was committed while the run executed

rows    == <<status, cancelRequested, quiet>>
loaded  == <<rowStatus, rowCancel>>
ending  == <<outcome, loaded, retrying>>
users   == <<target, seenStatus>>
history == <<claims, cancelInTime>>
vars == <<rows, pc, job, ending, plan, users, crashes, history>>

-----------------------------------------------------------------------------
Terminal == {"success", "partial_success", "failed", "canceled"}
Open     == {"running", "canceling"}
Status   == {"absent", "queued"} \cup Open \cup Terminal

PCs == {"idle", "reconcile", "poll", "cancel", "select", "claim",
        "explicit_cancel", "explicit_claim", "load", "executing",
        "finalize", "write", "refresh"}

\* The worker has claimed its job and has not written its final status yet.
Busy(w) == pc[w] \in {"load", "executing", "finalize", "write", "refresh"}

\* Rows executed by an external executor: dispatch() does not touch the
\* worker's own session, so the worker keeps the row it loaded at the start.
External(r) == KindOf[r].type = "qtf_experiment"

\* The statuses a dispatch of run r may return.
Outcomes(r) ==
    {"success", "failed"}
      \cup (IF KindOf[r].type = "workflow" THEN {"partial_success"} ELSE {})
      \cup (IF /\ KindOf[r].type \in {"dataset_action", "qtf_experiment"}
                /\ cancelRequested[r]
            THEN {"canceled"} ELSE {})

\* The first of a set of rows in the order requested_at, id.
Oldest(S, r) == r \in S /\ \A s \in S : r <= s

QueuedIn(lane, withCancel) ==
    {r \in Runs : /\ status[r] = "queued"
                  /\ cancelRequested[r] = withCancel
                  /\ SqlSelects(lane, KindOf[r])}

Goto(w, label) == pc' = [pc EXCEPT ![w] = label]

\* A commit that writes row r also moves updated_at (onupdate).
Touch(r) == quiet' = [quiet EXCEPT ![r] = FALSE]

Init ==
    /\ \E legacy \in SUBSET LegacyCancels :
          /\ status = [r \in Runs |-> IF r \in legacy THEN "queued" ELSE "absent"]
          /\ cancelRequested = [r \in Runs |-> r \in legacy]
    /\ quiet = [r \in Runs |-> FALSE]
    /\ pc = [w \in Workers |-> "idle"]
    /\ job = [w \in Workers |-> NoRun]
    /\ outcome = [w \in Workers |-> "none"]
    /\ rowStatus = [w \in Workers |-> "absent"]
    /\ rowCancel = [w \in Workers |-> FALSE]
    /\ retrying = [w \in Workers |-> FALSE]
    /\ plan = [w \in Workers |-> {}]
    /\ target = [u \in Users |-> NoRun]
    /\ seenStatus = [u \in Users |-> "absent"]
    /\ crashes = 0
    /\ claims = [r \in Runs |-> 0]
    /\ cancelInTime = [r \in Runs |-> FALSE]

-----------------------------------------------------------------------------
(***************************************************************************)
(* Web requests.                                                           *)
(***************************************************************************)

\* create_task_run: the row is inserted as queued (by the console, by the
\* scheduler or by the probe; stage_task_run commits with its caller).
Submit(r) ==
    /\ status[r] = "absent"
    /\ status' = [status EXCEPT ![r] = "queued"]
    /\ UNCHANGED <<cancelRequested, quiet, pc, job, ending, plan,
                   users, crashes, history>>

\* Mutant: a retry puts the ended row back into the queue.
RetryInPlace(existing, r) ==
    /\ r = existing
    /\ status[r] \in Terminal
    /\ status' = [status EXCEPT ![r] = "queued"]
    /\ cancelRequested' = [cancelRequested EXCEPT ![r] = FALSE]
    /\ UNCHANGED <<quiet, pc, job, ending, plan, users, crashes, history>>

\* retry_task_run: a new run of the same kind; the status of the run that is
\* retried is not looked at.
Retry(existing, r) ==
    /\ status[existing] # "absent"
    /\ KindOf[r] = KindOf[existing]
    /\ Submit(r)

\* request_cancel, first half: load the row.  A terminal row is answered with
\* 409 and a row that already carries a request is returned as it is: both
\* leave everything unchanged and need no step.
CancelRead(u, r) ==
    /\ target[u] = NoRun
    /\ status[r] \notin Terminal \cup {"absent"}
    /\ ~ cancelRequested[r]
    /\ target' = [target EXCEPT ![u] = r]
    /\ seenStatus' = [seenStatus EXCEPT ![u] = status[r]]
    /\ UNCHANGED <<rows, pc, job, ending, plan, crashes, history>>

\* request_cancel, second half: decide on the status that was read and commit
\* by primary key, whatever the row holds by now.
CancelWrite(u) ==
    /\ target[u] # NoRun
    /\ LET r == target[u]
           new == IF seenStatus[u] = "queued" THEN "canceled" ELSE "canceling"
       IN  /\ status' = [status EXCEPT ![r] = new]
           /\ cancelRequested' = [cancelRequested EXCEPT ![r] = TRUE]
           /\ Touch(r)
           /\ cancelInTime' = [cancelInTime EXCEPT ![r] =
                 @ \/ \E w \in Workers : job[w] = r
                                        /\ pc[w] \in {"load", "executing", "finalize"}]
    /\ target' = [target EXCEPT ![u] = NoRun]
    /\ seenStatus' = [seenStatus EXCEPT ![u] = "absent"]
    /\ UNCHANGED <<pc, job, ending, plan, crashes, claims>>

\* The web process dies, or the commit fails, between the two halves.
CancelLost(u) ==
    /\ target[u] # NoRun
    /\ target' = [target EXCEPT ![u] = NoRun]
    /\ seenStatus' = [seenStatus EXCEPT ![u] = "absent"]
    /\ UNCHANGED <<rows, pc, job, ending, plan, crashes, history>>

-----------------------------------------------------------------------------
(***************************************************************************)
(* Time, and the reconciliation of rows that nobody writes any more.       *)
(***************************************************************************)

\* Ten minutes without a write to a running row, three to a canceling one.
GoQuiet(r) ==
    /\ status[r] \in Open
    /\ ~ quiet[r]
    /\ quiet' = [quiet EXCEPT ![r] = TRUE]
    /\ UNCHANGED <<status, cancelRequested, pc, job, ending, plan,
                   users, crashes, history>>

\* _target_status_and_reason
ReconciledStatus(s) == IF s = "canceling" THEN "canceled" ELSE "failed"

\* Mutant: only running rows are considered stale.
ReconcileReadRunningOnly(w) ==
    /\ pc[w] = "idle"
    /\ LaneOf[w] = "general"
    /\ plan' = [plan EXCEPT ![w] =
          {<<r, "failed">> : r \in {x \in Runs : status[x] = "running" /\ quiet[x]}}]
    /\ Goto(w, "reconcile")
    /\ UNCHANGED <<rows, job, ending, users, crashes, history>>

\* A cycle of a general worker opens with the reconciliation: load the open
\* rows and keep the stale ones.
ReconcileRead(w) ==
    /\ pc[w] = "idle"
    /\ LaneOf[w] = "general"
    /\ plan' = [plan EXCEPT ![w] =
          {<<r, ReconciledStatus(status[r])>> :
              r \in {x \in Runs : status[x] \in Open /\ quiet[x]}}]
    /\ Goto(w, "reconcile")
    /\ UNCHANGED <<rows, job, ending, users, crashes, history>>

\* All of them are written in one commit, by primary key.
ReconcileCommit(w) ==
    /\ pc[w] = "reconcile"
    /\ status' = [r \in Runs |->
          IF <<r, "canceled">> \in plan[w] THEN "canceled"
          ELSE IF <<r, "failed">> \in plan[w] THEN "failed"
          ELSE status[r]]
    /\ quiet' = [r \in Runs |-> quiet[r] /\ \A p \in plan[w] : p[1] # r]
    /\ plan' = [plan EXCEPT ![w] = {}]
    /\ Goto(w, "poll")
    /\ UNCHANGED <<cancelRequested, job, ending, users, crashes, history>>

\* The other lanes do not reconcile.
BeginLaneCycle(w) ==
    /\ pc[w] = "idle"
    /\ LaneOf[w] # "general"
    /\ Goto(w, "poll")
    /\ UNCHANGED <<rows, job, ending, plan, users, crashes, history>>

-----------------------------------------------------------------------------
(***************************************************************************)
(* run_next: settle a queued row that carries a cancel request, otherwise  *)
(* claim the oldest queued row of the lane and run it.                     *)
(***************************************************************************)

\* Keep the row that was selected; go on with it at label.
Take(w, r, label) == job' = [job EXCEPT ![w] = r] /\ Goto(w, label)

\* run_next returned: the cycle goes on with the next run_next, or ends (the
\* --limit of the command).
EndRunNext(w) ==
    /\ job' = [job EXCEPT ![w] = NoRun]
    /\ \E label \in {"poll", "idle"} : Goto(w, label)

\* _cancel_next_queued_task_run: its select.
PickCanceled(w) ==
    /\ pc[w] = "poll"
    /\ LET S == QueuedIn(LaneOf[w], TRUE)
       IN  \/ \E r \in S : Oldest(S, r) /\ Take(w, r, "cancel")
           \/ S = {} /\ Goto(w, "select") /\ UNCHANGED job
    /\ UNCHANGED <<rows, ending, plan, users, crashes, history>>

\* The condition of the UPDATE in _cancel_queued_task_run.
Cancelable(w, r) ==
    status[r] = "queued" /\ cancelRequested[r] /\ SqlSelects(LaneOf[w], KindOf[r])

\* _cancel_queued_task_run: one conditional UPDATE.
CancelQueued(w) ==
    /\ pc[w] \in {"cancel", "explicit_cancel"}
    /\ LET r == job[w]
       IN  \/ /\ Cancelable(w, r)
              /\ status' = [status EXCEPT ![r] = "canceled"]
              /\ Touch(r)
              /\ EndRunNext(w)
           \/ /\ ~ Cancelable(w, r)
              /\ job' = [job EXCEPT ![w] = NoRun]
              /\ Goto(w, IF pc[w] = "cancel" THEN "select" ELSE "idle")
              /\ UNCHANGED <<status, quiet>>
    /\ UNCHANGED <<cancelRequested, ending, plan, users, crashes, history>>

\* The select of the claim loop; an empty queue ends the cycle.
PickQueued(w) ==
    /\ pc[w] = "select"
    /\ LET S == QueuedIn(LaneOf[w], FALSE)
       IN  \/ \E r \in S : Oldest(S, r) /\ Take(w, r, "claim")
           \/ S = {} /\ Goto(w, "idle") /\ UNCHANGED job
    /\ UNCHANGED <<rows, ending, plan, users, crashes, history>>

\* Mutant: the update does not look at the status again.
ClaimableInAnyStatus(w, r) ==
    ~ cancelRequested[r] /\ SqlSelects(LaneOf[w], KindOf[r])

\* The condition of the UPDATE in _claim_task_run.
Claimable(w, r) ==
    status[r] = "queued" /\ ~ cancelRequested[r] /\ SqlSelects(LaneOf[w], KindOf[r])

\* _claim_task_run: one conditional UPDATE; a lost race selects again.
Claim(w) ==
    /\ pc[w] \in {"claim", "explicit_claim"}
    /\ LET r == job[w]
       IN  \/ /\ Claimable(w, r)
              /\ status' = [status EXCEPT ![r] = "running"]
              /\ Touch(r)
              /\ claims' = [claims EXCEPT ![r] = @ + 1]
              /\ Goto(w, "load")
              /\ UNCHANGED job
           \/ /\ ~ Claimable(w, r)
              /\ job' = [job EXCEPT ![w] = NoRun]
              /\ Goto(w, IF pc[w] = "claim" THEN "select" ELSE "idle")
              /\ UNCHANGED <<status, quiet, claims>>
    /\ UNCHANGED <<cancelRequested, ending, plan, users, crashes,
                   cancelInTime>>

\* run_task_run: a run named by its id.  It checks the loaded row in Python
\* and goes on with the same conditional updates, without the loop.
RunExplicitly(w, r) ==
    /\ pc[w] = "idle"
    /\ status[r] = "queued"
    /\ lane_matches_values(LaneOf[w], KindOf[r])
    /\ Take(w, r, IF cancelRequested[r] THEN "explicit_cancel" ELSE "explicit_claim")
    /\ UNCHANGED <<rows, ending, plan, users, crashes, history>>

-----------------------------------------------------------------------------
(***************************************************************************)
(* _run_started_task_run: load the row, dispatch, write the final status.  *)
(***************************************************************************)

\* The session loads the row (session.get after a commit).
LoadRow(w) ==
    /\ rowStatus' = [rowStatus EXCEPT ![w] = status[job[w]]]
    /\ rowCancel' = [rowCancel EXCEPT ![w] = cancelRequested[job[w]]]

ForgetRow(w) ==
    /\ rowStatus' = [rowStatus EXCEPT ![w] = "absent"]
    /\ rowCancel' = [rowCancel EXCEPT ![w] = FALSE]

\* What is loaded here outlives the dispatch only for an external executor:
\* a commit in between expires it.
StartRun(w) ==
    /\ pc[w] = "load"
    /\ IF External(job[w]) THEN LoadRow(w) ELSE UNCHANGED loaded
    /\ Goto(w, "executing")
    /\ UNCHANGED <<rows, job, outcome, retrying, plan, users, crashes, history>>

\* The executor reports progress, or the dispatcher commits a node: the row
\* is written, its status is not.
Progress(w) ==
    /\ pc[w] = "executing"
    /\ quiet[job[w]]
    /\ Touch(job[w])
    /\ UNCHANGED <<status, cancelRequested, pc, job, ending, plan,
                   users, crashes, history>>

\* Mutant: the outcome of the dispatch gets lost.
DispatchEndWithoutOutcome(w, result) ==
    /\ pc[w] = "executing"
    /\ result \in Outcomes(job[w])
    /\ Goto(w, IF External(job[w]) THEN "write" ELSE "finalize")
    /\ UNCHANGED <<rows, job, ending, plan, users, crashes, history>>

\* dispatch() returns.  Every path but the external one has committed the
\* worker's session before, so that the next session.get loads the row again.
DispatchEnd(w, result) ==
    /\ pc[w] = "executing"
    /\ result \in Outcomes(job[w])
    /\ outcome' = [outcome EXCEPT ![w] = result]
    /\ Goto(w, IF External(job[w]) THEN "write" ELSE "finalize")
    /\ UNCHANGED <<rows, job, loaded, retrying, plan, users, crashes, history>>

\* An issue is recorded for the run after an exception; what the session had
\* loaded is expired, and the run is going to be finalized as failed.
RecordIssue(w) ==
    /\ outcome' = [outcome EXCEPT ![w] = "failed"]
    /\ Goto(w, "finalize")
    /\ Touch(job[w])
    /\ ForgetRow(w)

\* dispatch() raises.
DispatchRaises(w) ==
    /\ pc[w] = "executing"
    /\ RecordIssue(w)
    /\ UNCHANGED <<status, cancelRequested, job, retrying, plan, users, crashes,
                   history>>

\* _finalize_task_run, first half.
FinalizeRead(w) ==
    /\ pc[w] = "finalize"
    /\ LoadRow(w)
    /\ Goto(w, "write")
    /\ UNCHANGED <<rows, job, outcome, retrying, plan, users, crashes, history>>

\* Mutant: the outcome is written as it is.
FinalStatusIsOutcome(w) == outcome[w]

\* A success reached after a cancel request is reported as canceled.
FinalStatus(w) ==
    IF rowCancel[w] /\ outcome[w] \in {"success", "partial_success"}
    THEN "canceled" ELSE outcome[w]

\* _finalize_task_run, second half: the session writes the columns that
\* differ from what it loaded, by primary key and without a status guard; the
\* commit expires what it loaded.
FinalizeWrite(w) ==
    /\ pc[w] = "write"
    /\ LET r == job[w]
       IN  /\ status' = [status EXCEPT ![r] =
                            IF FinalStatus(w) = rowStatus[w] THEN @ ELSE FinalStatus(w)]
           /\ Touch(r)
    /\ outcome' = [outcome EXCEPT ![w] = "none"]
    /\ ForgetRow(w)
    /\ Goto(w, "refresh")
    /\ UNCHANGED <<cancelRequested, job, retrying, plan, users, crashes, history>>

\* An exception before the commit, or in the refresh after it: the run is
\* finalized once more, as failed.  A second exception ends the process.
FinalizeFault(w) ==
    /\ pc[w] \in {"finalize", "write", "refresh"}
    /\ ~ retrying[w]
    /\ retrying' = [retrying EXCEPT ![w] = TRUE]
    /\ RecordIssue(w)
    /\ UNCHANGED <<status, cancelRequested, job, plan, users, crashes, history>>

\* The refresh succeeded and run_next returns.
FinishRun(w) ==
    /\ pc[w] = "refresh"
    /\ EndRunNext(w)
    /\ retrying' = [retrying EXCEPT ![w] = FALSE]
    /\ UNCHANGED <<rows, outcome, loaded, plan, users, crashes, history>>

\* The process dies anywhere; systemd starts it again at the top of its loop.
\* The row it was executing keeps the status it has.
Crash(w) ==
    /\ pc[w] # "idle"
    /\ crashes < MaxCrashes
    /\ crashes' = crashes + 1
    /\ Goto(w, "idle")
    /\ job' = [job EXCEPT ![w] = NoRun]
    /\ outcome' = [outcome EXCEPT ![w] = "none"]
    /\ plan' = [plan EXCEPT ![w] = {}]
    /\ retrying' = [retrying EXCEPT ![w] = FALSE]
    /\ ForgetRow(w)
    /\ UNCHANGED <<rows, users, history>>

-----------------------------------------------------------------------------
\* What a worker process does by itself, one step after the other.
WorkerStep(w) ==
    \/ ReconcileRead(w)
    \/ ReconcileCommit(w)
    \/ BeginLaneCycle(w)
    \/ PickCanceled(w)
    \/ CancelQueued(w)
    \/ PickQueued(w)
    \/ Claim(w)
    \/ StartRun(w)
    \/ \E result \in Terminal : DispatchEnd(w, result)
    \/ DispatchRaises(w)
    \/ FinalizeRead(w)
    \/ FinalizeWrite(w)
    \/ FinishRun(w)

Next ==
    \/ \E r \in Runs : Submit(r) \/ GoQuiet(r)
    \/ \E existing, r \in Runs : Retry(existing, r)
    \/ \E u \in Users, r \in Runs : CancelRead(u, r)
    \/ \E u \in Users : CancelWrite(u) \/ CancelLost(u)
    \/ \E w \in Workers : WorkerStep(w)
    \/ \E w \in Workers : Progress(w) \/ FinalizeFault(w) \/ Crash(w)
    \/ \E w \in Workers, r \in Runs : RunExplicitly(w, r)

Spec == Init /\ [][Next]_vars

\* systemd keeps every worker process in its serve loop, a dispatch returns
\* sooner or later, and time passes.
Fairness ==
    /\ \A w \in Workers : WF_vars(WorkerStep(w))
    /\ \A r \in Runs : WF_vars(GoQuiet(r))

FairSpec == Spec /\ Fairness

-----------------------------------------------------------------------------
(***************************************************************************)
(* Properties.                                                             *)
(***************************************************************************)

\* The types of the variables.
TypeOK ==
    /\ status \in [Runs -> Status]
    /\ cancelRequested \in [Runs -> BOOLEAN]
    /\ quiet \in [Runs -> BOOLEAN]
    /\ pc \in [Workers -> PCs]
    /\ job \in [Workers -> Runs \cup {NoRun}]
    /\ outcome \in [Workers -> Terminal \cup {"none"}]
    /\ rowStatus \in [Workers -> Status]
    /\ rowCancel \in [Workers -> BOOLEAN]
    /\ retrying \in [Workers -> BOOLEAN]
    /\ plan \in [Workers -> SUBSET (Runs \X {"failed", "canceled"})]
    /\ target \in [Users -> Runs \cup {NoRun}]
    /\ seenStatus \in [Users -> Status]
    /\ crashes \in 0 .. MaxCrashes
    /\ claims \in [Runs -> Nat]
    /\ cancelInTime \in [Runs -> BOOLEAN]

\* A run is executed at most once and by one process: neither the race of two
\* workers for the same row, nor a retry of the final write, nor the crash of
\* its worker, nor a reconciliation makes a second execution possible
\* (_claim_task_run is the only way to execute, and no writer puts a claimed
\* row back into the queue).
ExecutedAtMostOnce ==
    /\ \A r \in Runs : claims[r] <= 1
    /\ \A v, w \in Workers : Busy(v) /\ Busy(w) /\ job[v] = job[w] => v = w

\* A worker executes only runs that the Python predicate gives to its lane,
\* although rows are chosen and claimed by the SQL predicate, in which a NULL
\* resource_key makes comparisons unknown.
LaneIsolation ==
    \A w \in Workers : Busy(w) => lane_matches_values(LaneOf[w], KindOf[job[w]])

\* A cancel that is committed while the run executes is never answered with a
\* success: the final write loads the row after the dispatch and reports
\* canceled, whatever faults and reconciliations come in between.  Runs of an
\* external executor are exempt: their worker does not load the row again.
CancelInTimeIsNotSuccess ==
    \A r \in Runs : cancelInTime[r] /\ ~ External(r) =>
        status[r] \notin {"success", "partial_success"}

\* Every run that is submitted ends and stays ended: late cancel writes, lost
\* workers and reconciled rows included, the row finally has a terminal status
\* that nobody changes any more.
EveryRunSettles ==
    \A r \in Runs : status[r] # "absent" ~> [](status[r] \in Terminal)

\* The lifecycle of the rows implements the abstract queue.  What a row is to
\* its submitter depends on the claims and on the workers, not on its status:
\* a late cancel or a reconciliation may write any status over a run that
\* still executes.
Phase(r) == IF \E w \in Workers : Busy(w) /\ job[w] = r THEN "executing"
            ELSE IF claims[r] # 0 THEN "over"
            ELSE IF status[r] = "absent" THEN "new"
            ELSE IF status[r] = "queued" THEN "waiting"
            ELSE "over"

Queue == INSTANCE TaskQueue WITH
    phase  <- [r \in Runs |-> Phase(r)],
    holder <- [w \in Workers |-> IF Busy(w) THEN job[w] ELSE NoRun]

\* A run leaves the queue once, to one idle worker or by withdrawal, and what
\* left it never comes back (OperationsWorker, request_cancel and the
\* reconciliation together keep the promise of the queue).
QueueSpec == Queue!Spec

\* A request that answers "canceled before it started" (status_reason_code
\* canceled_before_start) speaks the truth: no worker executes the run.
CanceledBeforeStartIsNotExecuted ==
    [][\A u \in Users :
          CancelWrite(u) /\ status'[target[u]] = "canceled" =>
             \A w \in Workers : ~ (Busy(w) /\ job[w] = target[u])]_vars

\* A terminal status is final: no process writes another status over it.
TerminalIsFinal ==
    [][\A r \in Runs : status[r] \in Terminal => status'[r] = status[r]]_status
=============================================================================
