--------------------------- MODULE IndexDailyRepair ---------------------------
(***************************************************************************)
(* Audits of one trade date of index_daily and the repairs they lead to.   *)
(*                                                                         *)
(* A run of the dataset that succeeds on the day lets the completion       *)
(* worker ask for an audit; an operator may ask for one at any time; on    *)
(* the next open day the scheduler asks again, in the morning and in the   *)
(* afternoon, as long as the source is late                                *)
(* (IndexDailyCompletenessReconciliationService).  The audit worker        *)
(* (DateCompletenessAuditWorker) compares the active codes with the ones   *)
(* that are served and creates repair runs for those that are missing      *)
(* (IndexDailyCompletenessRepairService), in batches of its own commits.   *)
(* Task workers execute them.                                              *)
(*                                                                         *)
(* Nothing is locked and nothing stores which repairs were made: a slot    *)
(* (same_day, morning or afternoon) is used up for a code while a repair   *)
(* run that names both was started and has ended.  Its row may be written  *)
(* again after that (TaskRunLifecycle).  Every read below is a statement   *)
(* that sees what is committed at that moment.                             *)
(***************************************************************************)
EXTENDS SchedulerProcesses, Naturals, Sequences, FiniteSets

CONSTANTS
    Codes,       \* codes that are requested from the source
    Recent,      \* those with raw rows of the three open days before the trade date
    Workers,     \* audit workers
    Completers,  \* completion workers
    BatchSize,   \* codes of a repair run
    MaxBatches,  \* repair runs of an audit
    Instances    \* the active codes at first and how often the environment may act

ASSUME CodesAssumption == IsFiniteSet(Codes) /\ Recent \subseteq Codes
ASSUME WorkersAssumption == IsFiniteSet(Workers)
\* What is bounded: see the actions that Spend.
Spendings == {"maintains", "manual", "pool", "cancels", "rewrites", "retries", "errors", "deaths", "hours"}
ASSUME InstancesAssumption == Instances \subseteq [active : SUBSET Codes, limits : [Spendings -> Nat]]
ASSUME BatchAssumption == BatchSize \in Nat \ {0} /\ MaxBatches \in Nat \ {0}

\* The hours of the trade date, of days without trading, of the next open day
\* and of what comes after it.
PhaseOrder == <<"same_day", "closed", "morning", "noon", "afternoon", "later">>
Phases == {PhaseOrder[i] : i \in DOMAIN PhaseOrder}
Slots == {"same_day", "morning", "afternoon"}
ReauditSlots == Slots \ {"same_day"}

VARIABLES
    phase,
    active,    \* ops.index_series_active
    raw,       \* codes with a raw row of the trade date
    serving,   \* codes that are served for the trade date
    audits,    \* dataset_date_completeness_run, in the order of ids
    repairs,   \* the repair runs among ops.task_run
    worker,    \* what an audit worker is doing
    look,      \* what a scheduler knows of the trade date
    completer, \* what a completion worker is doing
    left       \* what is left of the limits of the behaviour

repairVars == <<phase, active, raw, serving, audits, repairs, worker, look, completer, left>>

Spend(what) == /\ left[what] > 0
               /\ left' = [left EXCEPT ![what] = @ - 1]

-----------------------------------------------------------------------------
(* Audits and repairs *)

IsOpenAudit(a) == audits[a].status \in {"queued", "running"}
\* Mutant: an audit is open until one passes.
HasUnsettledAudit == \E a \in DOMAIN audits : audits[a].result # "passed"

HasOpenAudit == \E a \in DOMAIN audits : IsOpenAudit(a)
LatestAudit(result) == audits # <<>> /\ audits[Len(audits)].result = result
Ask(origin, at) == audits' = Append(audits, [origin |-> origin, asked |-> at,
                                             status |-> "queued", result |-> None])

IsOpenRepair(r) == repairs[r].status \in {"queued", "running"}
RepairsOf(c) == {r \in DOMAIN repairs : c \in repairs[r].codes}

\* completed_repair_slots: a run that was canceled before it started uses up
\* nothing, nor does one that an operator retries.
CompletedSlots(c) ==
    {repairs[r].slot : r \in {i \in RepairsOf(c) : /\ repairs[i].source = "system"
                                                  /\ repairs[i].status = "ended"
                                                  /\ repairs[i].started}}
        \ {None}

\* classify_active_gaps: served too late from a raw row that is there, or late at the source.
Missing == active \ serving
IsProjectionGap(c) == c \in Missing /\ c \in raw
IsDelayed(c) == /\ c \in Missing \ raw
                /\ c \in Recent
                /\ CompletedSlots(c) # Slots

SlotAvailable(c, slot) == IsDelayed(c) /\ slot \notin CompletedSlots(c)
IsEligible(c, slot) == \/ IsProjectionGap(c)
                       \/ IsDelayed(c) /\ slot = None
                       \/ slot # None /\ SlotAvailable(c, slot)

\* _resolve_repair_slot: by the time at which the audit was asked for.
SlotOf(a) == IF audits[a].origin = "system" /\ audits[a].asked \in Slots
             THEN audits[a].asked ELSE None

\* Mutant: a queued repair is not pending.
RunningCodes == UNION {repairs[r].codes : r \in {i \in DOMAIN repairs : repairs[i].status = "running"}}
PendingCodes == UNION {repairs[r].codes : r \in {i \in DOMAIN repairs : IsOpenRepair(i)}}

(* What the source delivered is in raw; of it, the active codes are served. *)
Write(delivered) == /\ raw' = raw \cup delivered
                    /\ serving' = serving \cup (delivered \cap active)

-----------------------------------------------------------------------------
(* Who asks for an audit *)

\* A task run of the dataset for the day succeeds; the source delivers some codes.
MaintainSucceeds(k) ==
    /\ phase = "same_day"
    /\ completer[k] = "idle"
    /\ Spend("maintains")
    /\ \E delivered \in SUBSET Codes : Write(delivered)
    /\ completer' = [completer EXCEPT ![k] = "completing"]
    /\ UNCHANGED <<phase, active, audits, repairs, worker, look>>

\* create_index_daily_completion_audit_run, only on the day itself: a look for
\* an open audit and, in a later statement, a new one.
FindNoAudit(k) ==
    /\ completer[k] = "completing"
    /\ completer' = [completer EXCEPT ![k] = IF phase = "same_day" /\ ~HasOpenAudit
                                             THEN "asking" ELSE "idle"]
    /\ UNCHANGED <<phase, active, raw, serving, audits, repairs, worker, look, left>>

AskOnCompletion(k) ==
    /\ completer[k] = "asking"
    /\ Ask("system", phase)
    /\ completer' = [completer EXCEPT ![k] = "idle"]
    /\ UNCHANGED <<phase, active, raw, serving, repairs, worker, look, left>>

AskManually ==
    /\ Spend("manual")
    /\ Ask("manual", phase)
    /\ UNCHANGED <<phase, active, raw, serving, repairs, worker, look, completer>>

\* enqueue_due_audits, the last step of a tick: the slot is the one at the time
\* of the call, the latest audit must have succeeded and found a gap, and no
\* other may be open.
IdleLook == [pc |-> "idle", slot |-> None]
Looked == [pc |-> "done", slot |-> None]

LookAtAudits(s) ==
    /\ look[s].pc = "idle"
    /\ look' = [look EXCEPT ![s] =
                   IF phase \in ReauditSlots /\ LatestAudit("failed") /\ ~HasOpenAudit
                   THEN [pc |-> "audits", slot |-> phase] ELSE Looked]
    /\ UNCHANGED <<phase, active, raw, serving, audits, repairs, worker, completer, left>>

LookAtRepairs(s) ==
    /\ look[s].pc = "audits"
    /\ look' = [look EXCEPT ![s] =
                   IF PendingCodes = {} /\ \E c \in active : SlotAvailable(c, look[s].slot)
                   THEN [@ EXCEPT !.pc = "due"] ELSE Looked]
    /\ UNCHANGED <<phase, active, raw, serving, audits, repairs, worker, completer, left>>

AskAgain(s) ==
    /\ look[s].pc = "due"
    /\ Ask("system", look[s].slot)
    /\ look' = [look EXCEPT ![s] = Looked]
    /\ UNCHANGED <<phase, active, raw, serving, repairs, worker, completer, left>>

\* The next tick looks again; one that ended early, at any point, as well.
EndLook(s) ==
    /\ look' = [look EXCEPT ![s] = IdleLook]
    /\ UNCHANGED <<phase, active, raw, serving, audits, repairs, worker, completer, left>>

(* The pool of active codes (ReviewCenterCommandService).  A code can be    *)
(* added when it has raw rows of the last three days that are over.         *)
AddActive(c) ==
    /\ c \in Recent \ active
    /\ phase = "same_day" \/ c \in raw
    /\ Spend("pool")
    /\ active' = active \cup {c}
    /\ UNCHANGED <<phase, raw, serving, audits, repairs, worker, look, completer>>

RemoveActive(c) ==
    /\ c \in active
    /\ Spend("pool")
    /\ active' = active \ {c}
    /\ UNCHANGED <<phase, raw, serving, audits, repairs, worker, look, completer>>

-----------------------------------------------------------------------------
(* The audit worker *)

IdleWorker == [pc |-> "idle", audit |-> 0, codes |-> {}, batches |-> 0]

\* run_next reads the oldest queued audit ...
PickAudit(w) ==
    /\ worker[w].pc = "idle"
    /\ \E a \in DOMAIN audits :
          /\ audits[a].status = "queued"
          /\ \A b \in 1 .. a - 1 : audits[b].status # "queued"
          /\ worker' = [worker EXCEPT ![w] = [IdleWorker EXCEPT !.pc = "picked", !.audit = a]]
    /\ UNCHANGED <<phase, active, raw, serving, audits, repairs, look, completer, left>>

\* ... and _mark_running commits over whatever the row is by then.
MarkRunning(w) ==
    /\ worker[w].pc = "picked"
    /\ audits' = [audits EXCEPT ![worker[w].audit].status = "running",
                                ![worker[w].audit].result = None]
    /\ worker' = [worker EXCEPT ![w].pc = "running"]
    /\ UNCHANGED <<phase, active, raw, serving, repairs, look, completer, left>>

\* The subject matrix: what is missing at this moment.
Compare(w) ==
    /\ worker[w].pc = "running"
    /\ worker' = [worker EXCEPT ![w].pc = "compared", ![w].codes = Missing]
    /\ UNCHANGED <<phase, active, raw, serving, audits, repairs, look, completer, left>>

\* _mark_subject_matrix_succeeded
MarkSucceeded(w) ==
    LET gaps == worker[w].codes IN
    /\ worker[w].pc = "compared"
    /\ audits' = [audits EXCEPT ![worker[w].audit].status = "succeeded",
                                ![worker[w].audit].result = IF gaps = {} THEN "passed" ELSE "failed"]
    /\ worker' = [worker EXCEPT ![w] = IF gaps = {} THEN IdleWorker ELSE [@ EXCEPT !.pc = "audited"]]
    /\ UNCHANGED <<phase, active, raw, serving, repairs, look, completer, left>>

\* _mark_error: such an audit asks for no repair.
MarkError(w) ==
    /\ worker[w].pc \in {"running", "compared"}
    /\ Spend("errors")
    /\ audits' = [audits EXCEPT ![worker[w].audit].status = "failed",
                                ![worker[w].audit].result = "error"]
    /\ worker' = [worker EXCEPT ![w] = IdleWorker]
    /\ UNCHANGED <<phase, active, raw, serving, repairs, look, completer>>

\* _eligible_trade_date: the date is today or the previous open day, today is open.
SkipRepair(w) ==
    /\ worker[w].pc = "audited"
    /\ phase \in {"closed", "later"}
    /\ worker' = [worker EXCEPT ![w] = IdleWorker]
    /\ UNCHANGED <<phase, active, raw, serving, audits, repairs, look, completer, left>>

Classify(w) ==
    /\ worker[w].pc = "audited"
    /\ phase \notin {"closed", "later"}
    /\ worker' = [worker EXCEPT ![w].pc = "classified",
                                ![w].codes = {c \in active : IsEligible(c, SlotOf(worker[w].audit))}]
    /\ UNCHANGED <<phase, active, raw, serving, audits, repairs, look, completer, left>>

\* _pending_repair_codes is read after the classification.
LeaveOutPending(w) ==
    /\ worker[w].pc = "classified"
    /\ LET codes == worker[w].codes \ PendingCodes IN
       worker' = [worker EXCEPT ![w] = IF codes = {} THEN IdleWorker
                                       ELSE [@ EXCEPT !.pc = "creating", !.codes = codes]]
    /\ UNCHANGED <<phase, active, raw, serving, audits, repairs, look, completer, left>>

\* A batch is a task run of its own commit; codes beyond the last batch are dropped.
IsBatch(batch, codes) == \/ Cardinality(batch) = BatchSize
                         \/ batch = codes /\ Cardinality(codes) < BatchSize

CreateRepair(w) ==
    /\ worker[w].pc = "creating"
    /\ \E batch \in SUBSET worker[w].codes :
          /\ IsBatch(batch, worker[w].codes)
          /\ repairs' = Append(repairs, [codes |-> batch, audit |-> worker[w].audit,
                                         slot |-> SlotOf(worker[w].audit), source |-> "system",
                                         status |-> "queued", started |-> FALSE, ended |-> FALSE])
          /\ worker' = [worker EXCEPT ![w] =
                           IF batch = @.codes \/ @.batches + 1 = MaxBatches THEN IdleWorker
                           ELSE [worker[w] EXCEPT !.codes = @ \ batch, !.batches = @ + 1]]
    /\ UNCHANGED <<phase, active, raw, serving, audits, look, completer, left>>

\* An exception while the repairs are created is logged, and the worker goes on.
AbandonRepair(w) ==
    /\ worker[w].pc \in {"audited", "classified", "creating"}
    /\ Spend("errors")
    /\ worker' = [worker EXCEPT ![w] = IdleWorker]
    /\ UNCHANGED <<phase, active, raw, serving, audits, repairs, look, completer>>

\* A process dies between two commits; the service manager starts it again.
DieAuditing(w) ==
    /\ worker[w].pc # "idle"
    /\ Spend("deaths")
    /\ worker' = [worker EXCEPT ![w] = IdleWorker]
    /\ UNCHANGED <<phase, active, raw, serving, audits, repairs, look, completer>>

-----------------------------------------------------------------------------
(* Task workers, the source and the clock *)

StartRepair(r) ==
    /\ repairs[r].status = "queued"
    /\ repairs' = [repairs EXCEPT ![r].status = "running", ![r].started = TRUE]
    /\ UNCHANGED <<phase, active, raw, serving, audits, worker, look, completer, left>>

\* The row is ended; ended remembers it.
Ended(r) == repairs' = [repairs EXCEPT ![r].status = "ended", ![r].ended = TRUE]

\* canceled_before_start; a worker may have claimed the run since the request
\* read the row, and goes on.
CancelRepair(r) ==
    /\ IsOpenRepair(r)
    /\ Spend("cancels")
    /\ Ended(r)
    /\ UNCHANGED <<phase, active, raw, serving, audits, worker, look, completer>>

\* In success or not, with what the source delivered: its worker ends it, or
\* reconciliation does, whether the worker is dead or only slow.
EndRepair(r) ==
    /\ repairs[r].status = "running"
    /\ \E delivered \in SUBSET repairs[r].codes : Write(delivered)
    /\ Ended(r)
    /\ UNCHANGED <<phase, active, audits, worker, look, completer, left>>

\* What was ended is not over: its worker goes on, writes what it gets and ends
\* the run once more.
WorkOn(r) ==
    /\ repairs[r].ended /\ repairs[r].started
    /\ Spend("rewrites")
    /\ \E delivered \in SUBSET repairs[r].codes : Write(delivered)
    /\ Ended(r)
    /\ UNCHANGED <<phase, active, audits, worker, look, completer>>

\* A cancel that read the row while it was running opens it again, as canceling.
CancelLate(r) ==
    /\ repairs[r].ended /\ repairs[r].started
    /\ Spend("rewrites")
    /\ repairs' = [repairs EXCEPT ![r].status = "running"]
    /\ UNCHANGED <<phase, active, raw, serving, audits, worker, look, completer>>

\* retry_task_run: the codes and the slot of the repair, for a run that is not
\* the system's.
RetryRepair(r) ==
    /\ Spend("retries")
    /\ repairs' = Append(repairs, [repairs[r] EXCEPT !.source = "retry", !.status = "queued",
                                                     !.started = FALSE, !.ended = FALSE])
    /\ UNCHANGED <<phase, active, raw, serving, audits, worker, look, completer>>

NextHour ==
    /\ \E i \in 1 .. Len(PhaseOrder) - 1 : /\ phase = PhaseOrder[i]
                                           /\ phase' = PhaseOrder[i + 1]
    /\ Spend("hours")
    /\ UNCHANGED <<active, raw, serving, audits, repairs, worker, look, completer>>

-----------------------------------------------------------------------------
RepairInit ==
    /\ phase = "same_day"
    /\ raw = {}
    /\ serving = {}
    /\ audits = <<>>
    /\ repairs = <<>>
    /\ worker = [w \in Workers |-> IdleWorker]
    /\ look = [s \in Schedulers |-> IdleLook]
    /\ completer = [k \in Completers |-> "idle"]
    /\ \E i \in Instances : active = i.active /\ left = i.limits

AuditStep(w) == \/ PickAudit(w) \/ MarkRunning(w) \/ Compare(w) \/ MarkSucceeded(w) \/ SkipRepair(w)
                \/ Classify(w) \/ LeaveOutPending(w) \/ CreateRepair(w)
LookStep(s) == LookAtAudits(s) \/ LookAtRepairs(s) \/ AskAgain(s)
CompletionStep(k) == FindNoAudit(k) \/ AskOnCompletion(k)
ExecuteStep == \E r \in DOMAIN repairs : StartRepair(r) \/ EndRepair(r)
OtherStep == \/ \E w \in Workers : MarkError(w) \/ AbandonRepair(w) \/ DieAuditing(w)
             \/ \E k \in Completers : MaintainSucceeds(k)
             \/ \E c \in Codes : AddActive(c) \/ RemoveActive(c)
             \/ \E r \in DOMAIN repairs : \/ CancelRepair(r) \/ WorkOn(r) \/ CancelLate(r)
                                          \/ RetryRepair(r)
             \/ AskManually
             \/ NextHour
WorkStep == \/ \E w \in Workers : AuditStep(w)
            \/ \E k \in Completers : CompletionStep(k)
            \/ ExecuteStep

RepairNext == \/ \E s \in Schedulers : LookStep(s) \/ EndLook(s)
              \/ WorkStep
              \/ OtherStep

RepairSpec == RepairInit /\ [][RepairNext]_repairVars

-----------------------------------------------------------------------------
(* Type correctness. *)
Audits == [origin : {"system", "manual"}, asked : Phases,
           status : {"queued", "running", "succeeded", "failed"},
           result : {None, "passed", "failed", "error"}]
Repairs == [codes : SUBSET Codes, audit : Nat, slot : Slots \cup {None}, source : {"system", "retry"},
            status : {"queued", "running", "ended"}, started : BOOLEAN, ended : BOOLEAN]
RepairTypeOK ==
    /\ phase \in Phases
    /\ active \subseteq Codes /\ raw \subseteq Codes /\ serving \subseteq raw
    /\ audits \in Seq(Audits)
    /\ repairs \in Seq(Repairs)
    /\ worker \in [Workers -> [pc : {"idle", "picked", "running", "compared", "audited",
                                     "classified", "creating"},
                               audit : Nat, codes : SUBSET Codes, batches : Nat]]
    /\ look \in [Schedulers -> [pc : {"idle", "audits", "due", "done"}, slot : ReauditSlots \cup {None}]]
    /\ completer \in [Completers -> {"idle", "completing", "asking"}]
    /\ left \in [Spendings -> Nat]

(* Two audits of the trade date may be open at once, an audit may be asked *)
(* for while another creates its repairs, and repairs may end and be       *)
(* opened again between its two looks at them: with one audit worker, no   *)
(* code is ever in two open repairs of the system that have not ended      *)
(* before.  Only the row of a repair that was ended, in error or too       *)
(* early, or a retry that an operator asks for, can stand beside another.  *)
IsFirstOpenRepair(r) == /\ repairs[r].source = "system"
                        /\ IsOpenRepair(r) /\ ~repairs[r].ended
NoConcurrentRepair ==
    Cardinality(Workers) = 1 =>
        \A i, j \in DOMAIN repairs :
            i # j /\ IsFirstOpenRepair(i) /\ IsFirstOpenRepair(j)
            => repairs[i].codes \cap repairs[j].codes = {}

(* An audit that was marked running by a worker that died. *)
IsFrozen(a) == audits[a].status = "running" /\ \A w \in Workers : worker[w].audit # a

(* What keeps a code from being retried, once it could be: an audit that an *)
(* error ended, or one that its worker left running when it died.           *)
GivenUp == LatestAudit("error") \/ \E a \in DOMAIN audits : IsFrozen(a)
=============================================================================
