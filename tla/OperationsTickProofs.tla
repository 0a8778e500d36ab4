------------------------- MODULE OperationsTickProofs -------------------------
(***************************************************************************)
(* Proofs about IndexDailyRepair, ProbeTick and their composition with     *)
(* ScheduleTick in OperationsTick, for any schedules, codes and processes. *)
(***************************************************************************)
EXTENDS OperationsTick, DueSchedulesRefinement, FiniteSetTheorems

-----------------------------------------------------------------------------
(* Audits and repairs of index_daily: types *)

\* A scheduler that goes on looking has a slot.
LooksHaveSlots == \A s \in Schedulers : look[s].pc \in {"audits", "due"} => look[s].slot \in ReauditSlots

RepairTypeInv == RepairTypeOK /\ LooksHaveSlots

AuditWorkers == [pc : {"idle", "picked", "running", "compared", "audited", "classified", "creating"},
                 audit : Nat, codes : SUBSET Codes, batches : Nat]
Looks == [pc : {"idle", "audits", "due", "done"}, slot : ReauditSlots \cup {None}]

\* The hours.
LEMMA PhasesAre ==
    /\ Phases = {"same_day", "closed", "morning", "noon", "afternoon", "later"}
    /\ DOMAIN PhaseOrder = 1 .. 6 /\ Len(PhaseOrder) = 6
    /\ \A i \in 1 .. 6 : PhaseOrder[i] \in Phases
<1>1. DOMAIN PhaseOrder = 1 .. 6 /\ Len(PhaseOrder) = 6
    BY DEF PhaseOrder
<1>2. /\ PhaseOrder[1] = "same_day" /\ PhaseOrder[2] = "closed" /\ PhaseOrder[3] = "morning"
      /\ PhaseOrder[4] = "noon" /\ PhaseOrder[5] = "afternoon" /\ PhaseOrder[6] = "later"
    BY DEF PhaseOrder
<1>3. \A i : i \in 1 .. 6 <=> i \in {1, 2, 3, 4, 5, 6}
    OBVIOUS
<1> QED BY <1>1, <1>2, <1>3 DEF Phases

\* What an action spends leaves natural numbers.
LEMMA SpendTypes ==
    ASSUME RepairTypeInv, NEW what \in Spendings, Spend(what)
    PROVE  left' \in [Spendings -> Nat]
BY DEF RepairTypeInv, RepairTypeOK, Spend

\* An audit that is asked for.
LEMMA AskTypes ==
    ASSUME RepairTypeInv, NEW origin \in {"system", "manual"}, NEW at \in Phases, Ask(origin, at)
    PROVE  audits' \in Seq(Audits)
<1> DEFINE new == [origin |-> origin, asked |-> at, status |-> "queued", result |-> None]
<1>1. new \in Audits
    BY DEF Audits
<1>2. audits \in Seq(Audits) /\ audits' = Append(audits, new)
    BY DEF RepairTypeInv, RepairTypeOK, Ask
<1> HIDE DEF new
<1> QED BY <1>1, <1>2

\* What the source delivers is raw, and of it the active codes are served.
LEMMA WriteTypes ==
    ASSUME RepairTypeInv, NEW delivered \in SUBSET Codes, Write(delivered)
    PROVE  raw' \subseteq Codes /\ serving' \subseteq raw'
BY DEF RepairTypeInv, RepairTypeOK, Write

\* An audit that changes.
LEMMA AuditChanges ==
    ASSUME RepairTypeInv, NEW a, NEW status \in {"running", "succeeded", "failed"},
           NEW result \in {None, "passed", "failed", "error"},
           audits' = [audits EXCEPT ![a].status = status, ![a].result = result]
    PROVE  audits' \in Seq(Audits)
<1>1. audits \in Seq(Audits)
    BY DEF RepairTypeInv, RepairTypeOK
<1>2. CASE a \in DOMAIN audits
    <2> DEFINE new == [audits[a] EXCEPT !.status = status, !.result = result]
    <2>1. audits[a] \in Audits
        BY <1>1, <1>2
    <2>2. new \in Audits
        BY <2>1 DEF Audits
    <2>3. audits' = [audits EXCEPT ![a] = new]
        BY <1>1, <1>2, <2>1 DEF Audits
    <2> HIDE DEF new
    <2>4. a \in 1 .. Len(audits)
        BY <1>1, <1>2
    <2> QED BY <1>1, <2>2, <2>3, <2>4, ExceptSeq
<1>3. CASE a \notin DOMAIN audits
    <2>1. audits' = audits
        BY <1>1, <1>3
    <2> QED BY <1>1, <2>1
<1> QED BY <1>2, <1>3

\* A repair that changes.
LEMMA RepairChanges ==
    ASSUME RepairTypeInv, NEW r \in DOMAIN repairs, NEW new \in Repairs,
           repairs' = [repairs EXCEPT ![r] = new]
    PROVE  repairs' \in Seq(Repairs)
BY ExceptSeq DEF RepairTypeInv, RepairTypeOK

\* A step that writes the row of a repair keeps its codes, and the row is not
\* one of a repair that has not ended unless it was before.
RowStep(r) == StartRepair(r) \/ CancelRepair(r) \/ EndRepair(r) \/ WorkOn(r) \/ CancelLate(r)
LEMMA RowChanges ==
    ASSUME NEW r \in DOMAIN repairs, repairs[r] \in Repairs, RowStep(r)
    PROVE  \E new \in Repairs : /\ repairs' = [repairs EXCEPT ![r] = new]
                                /\ new.codes = repairs[r].codes
                                /\ new.source = repairs[r].source
                                /\ new.ended \/ (~repairs[r].ended /\ IsOpenRepair(r))
<1>1. CASE StartRepair(r)
    <2> DEFINE new == [repairs[r] EXCEPT !.status = "running", !.started = TRUE]
    <2>1. new \in Repairs /\ new.codes = repairs[r].codes /\ new.source = repairs[r].source
          /\ new.ended = repairs[r].ended /\ repairs[r].ended \in BOOLEAN
        BY DEF Repairs
    <2>2. repairs' = [repairs EXCEPT ![r] = new] /\ IsOpenRepair(r)
        BY <1>1 DEF StartRepair, IsOpenRepair
    <2> HIDE DEF new
    <2> QED BY <2>1, <2>2
<1>2. CASE CancelRepair(r) \/ EndRepair(r) \/ WorkOn(r)
    <2> DEFINE new == [repairs[r] EXCEPT !.status = "ended", !.ended = TRUE]
    <2>1. new \in Repairs /\ new.codes = repairs[r].codes /\ new.source = repairs[r].source /\ new.ended
        BY DEF Repairs
    <2>2. repairs' = [repairs EXCEPT ![r] = new]
        BY <1>2 DEF CancelRepair, EndRepair, WorkOn, Ended
    <2> HIDE DEF new
    <2> QED BY <2>1, <2>2
<1>3. CASE CancelLate(r)
    <2> DEFINE new == [repairs[r] EXCEPT !.status = "running"]
    <2>1. new \in Repairs /\ new.codes = repairs[r].codes /\ new.source = repairs[r].source
          /\ new.ended = repairs[r].ended
        BY DEF Repairs
    <2>2. repairs' = [repairs EXCEPT ![r] = new] /\ repairs[r].ended
        BY <1>3 DEF CancelLate
    <2> HIDE DEF new
    <2> QED BY <2>1, <2>2
<1> QED BY <1>1, <1>2, <1>3 DEF RowStep

\* A retry appends a run that is not the system's.
LEMMA RetryAppends ==
    ASSUME repairs \in Seq(Repairs), NEW r \in DOMAIN repairs, RetryRepair(r)
    PROVE  /\ repairs' \in Seq(Repairs)
           /\ DOMAIN repairs' = DOMAIN repairs \cup {Len(repairs) + 1}
           /\ repairs'[Len(repairs) + 1].source = "retry"
           /\ \A i \in DOMAIN repairs : repairs'[i] = repairs[i]
<1> DEFINE new == [repairs[r] EXCEPT !.source = "retry", !.status = "queued",
                                     !.started = FALSE, !.ended = FALSE]
<1>1. new \in Repairs /\ new.source = "retry"
    <2>1. repairs[r] \in Repairs
        OBVIOUS
    <2> QED BY <2>1 DEF Repairs
<1>2. repairs' = Append(repairs, new)
    BY DEF RetryRepair
<1> HIDE DEF new
<1> QED BY <1>1, <1>2, AppendProperties

\* The slot of an audit.
LEMMA SlotTypes == \A a : SlotOf(a) \in Slots \cup {None}
BY DEF SlotOf

\* Every variable has its type at first.
LEMMA RepairTypesInit == RepairInit => RepairTypeInv
<1> SUFFICES ASSUME RepairInit PROVE RepairTypeInv
    OBVIOUS
<1>1. active \subseteq Codes /\ left \in [Spendings -> Nat]
    BY InstancesAssumption DEF RepairInit
<1>2. phase \in Phases
    BY PhasesAre DEF RepairInit
<1>3. audits \in Seq(Audits) /\ repairs \in Seq(Repairs)
    BY DEF RepairInit
<1> QED BY <1>1, <1>2, <1>3 DEF RepairInit, RepairTypeInv, RepairTypeOK, LooksHaveSlots, IdleWorker, IdleLook

\* Every step of audits and repairs keeps the types.
LEMMA RepairTypesNext == RepairTypeInv /\ [RepairNext]_repairVars => RepairTypeInv'
<1> SUFFICES ASSUME RepairTypeInv, [RepairNext]_repairVars PROVE RepairTypeInv'
    OBVIOUS
<1>0. /\ worker \in [Workers -> AuditWorkers] /\ look \in [Schedulers -> Looks]
      /\ \A r \in DOMAIN repairs : repairs[r] \in Repairs
      /\ \A s \in Schedulers : look[s].pc \in {"audits", "due"} => look[s].slot \in ReauditSlots
    BY DEF RepairTypeInv, RepairTypeOK, AuditWorkers, Looks, LooksHaveSlots
<1>1. ASSUME NEW s \in Schedulers, NEW l \in Looks, look' = [look EXCEPT ![s] = l],
             l.pc \in {"audits", "due"} => l.slot \in ReauditSlots,
             audits' \in Seq(Audits),
             UNCHANGED <<phase, active, raw, serving, repairs, worker, completer, left>>
      PROVE  RepairTypeInv'
    BY <1>0, <1>1 DEF RepairTypeInv, RepairTypeOK, LooksHaveSlots, Looks
<1>2. ASSUME NEW w \in Workers, NEW x \in AuditWorkers, worker' = [worker EXCEPT ![w] = x],
             audits' \in Seq(Audits), repairs' \in Seq(Repairs), left' \in [Spendings -> Nat],
             UNCHANGED <<phase, active, raw, serving, look, completer>>
      PROVE  RepairTypeInv'
    BY <1>0, <1>2 DEF RepairTypeInv, RepairTypeOK, LooksHaveSlots, AuditWorkers
<1>3. ASSUME NEW s \in Schedulers, LookStep(s) \/ EndLook(s) PROVE RepairTypeInv'
    <2>1. CASE LookAtAudits(s)
        <3> DEFINE l == IF phase \in ReauditSlots /\ LatestAudit("failed") /\ ~HasOpenAudit
                        THEN [pc |-> "audits", slot |-> phase] ELSE Looked
        <3>1. l \in Looks /\ (l.pc \in {"audits", "due"} => l.slot \in ReauditSlots)
            BY DEF Looks, Looked
        <3> HIDE DEF l
        <3> QED BY <1>1, <2>1, <3>1 DEF LookAtAudits, l, RepairTypeInv, RepairTypeOK
    <2>2. CASE LookAtRepairs(s)
        <3> DEFINE l == IF PendingCodes = {} /\ \E c \in active : SlotAvailable(c, look[s].slot)
                        THEN [look[s] EXCEPT !.pc = "due"] ELSE Looked
        <3>1. l \in Looks /\ (l.pc \in {"audits", "due"} => l.slot \in ReauditSlots)
            BY <1>0, <2>2 DEF Looks, Looked, LookAtRepairs
        <3> HIDE DEF l
        <3> QED BY <1>1, <2>2, <3>1 DEF LookAtRepairs, l, RepairTypeInv, RepairTypeOK
    <2>3. CASE AskAgain(s)
        <3>1. look[s].slot \in Phases
            BY <1>0, <2>3, PhasesAre DEF AskAgain, ReauditSlots, Slots
        <3>2. audits' \in Seq(Audits)
            BY <2>3, <3>1, AskTypes DEF AskAgain
        <3>3. Looked \in Looks /\ Looked.pc = "done"
            BY DEF Looks, Looked
        <3> QED BY <1>1, <2>3, <3>2, <3>3 DEF AskAgain
    <2>4. CASE EndLook(s)
        <3>1. IdleLook \in Looks /\ IdleLook.pc = "idle"
            BY DEF Looks, IdleLook
        <3> QED BY <1>1, <2>4, <3>1 DEF EndLook, RepairTypeInv, RepairTypeOK
    <2> QED BY <1>3, <2>1, <2>2, <2>3, <2>4 DEF LookStep
<1>4. /\ IdleWorker \in AuditWorkers
      /\ \A w \in Workers, pc \in {"picked", "running", "compared", "audited", "classified", "creating"},
            codes \in SUBSET Codes :
            /\ [worker[w] EXCEPT !.pc = pc] \in AuditWorkers
            /\ [worker[w] EXCEPT !.pc = pc, !.codes = codes] \in AuditWorkers
    BY <1>0 DEF AuditWorkers, IdleWorker
<1>5. ASSUME NEW w \in Workers, AuditStep(w) PROVE RepairTypeInv'
    <2>0. /\ audits \in Seq(Audits) /\ repairs \in Seq(Repairs) /\ left \in [Spendings -> Nat]
          /\ active \subseteq Codes
        BY DEF RepairTypeInv, RepairTypeOK
    <2>1. CASE PickAudit(w)
        <3>1. PICK a \in DOMAIN audits :
                 worker' = [worker EXCEPT ![w] = [IdleWorker EXCEPT !.pc = "picked", !.audit = a]]
            BY <2>1 DEF PickAudit
        <3>2. a \in Nat
            BY <2>0
        <3>3. [IdleWorker EXCEPT !.pc = "picked", !.audit = a] \in AuditWorkers
            BY <3>2 DEF IdleWorker, AuditWorkers
        <3> QED BY <1>2, <2>0, <2>1, <3>1, <3>3 DEF PickAudit
    <2>2. CASE MarkRunning(w)
        <3>1. audits' \in Seq(Audits)
            BY <2>2, AuditChanges DEF MarkRunning
        <3>2. worker' = [worker EXCEPT ![w] = [worker[w] EXCEPT !.pc = "running"]]
            BY <1>0, <2>2 DEF MarkRunning, AuditWorkers
        <3> QED BY <1>2, <1>4, <2>0, <2>2, <3>1, <3>2 DEF MarkRunning
    <2>3. CASE Compare(w)
        <3>1. Missing \in SUBSET Codes
            BY <2>0 DEF Missing
        <3>2. worker' = [worker EXCEPT ![w] = [worker[w] EXCEPT !.pc = "compared", !.codes = Missing]]
            BY <1>0, <2>3 DEF Compare, AuditWorkers
        <3> QED BY <1>2, <1>4, <2>0, <2>3, <3>1, <3>2 DEF Compare
    <2>4. CASE MarkSucceeded(w)
        <3>1. audits' \in Seq(Audits)
            BY <2>4, AuditChanges DEF MarkSucceeded
        <3>2. worker' = [worker EXCEPT ![w] = IF worker[w].codes = {} THEN IdleWorker
                                              ELSE [worker[w] EXCEPT !.pc = "audited"]]
            BY <2>4 DEF MarkSucceeded
        <3> QED BY <1>2, <1>4, <2>0, <2>4, <3>1, <3>2 DEF MarkSucceeded
    <2>5. CASE SkipRepair(w)
        BY <1>2, <1>4, <2>0, <2>5 DEF SkipRepair
    <2>6. CASE Classify(w)
        <3> DEFINE codes == {c \in active : IsEligible(c, SlotOf(worker[w].audit))}
        <3>1. codes \in SUBSET Codes
            BY <2>0
        <3>2. worker' = [worker EXCEPT ![w] = [worker[w] EXCEPT !.pc = "classified", !.codes = codes]]
            BY <1>0, <2>6 DEF Classify, AuditWorkers
        <3> HIDE DEF codes
        <3> QED BY <1>2, <1>4, <2>0, <2>6, <3>1, <3>2 DEF Classify
    <2>7. CASE LeaveOutPending(w)
        <3> DEFINE codes == worker[w].codes \ PendingCodes
        <3>1. codes \in SUBSET Codes
            BY <1>0 DEF AuditWorkers
        <3>2. worker' = [worker EXCEPT ![w] = IF codes = {} THEN IdleWorker
                                              ELSE [worker[w] EXCEPT !.pc = "creating", !.codes = codes]]
            BY <2>7 DEF LeaveOutPending
        <3> HIDE DEF codes
        <3> QED BY <1>2, <1>4, <2>0, <2>7, <3>1, <3>2 DEF LeaveOutPending
    <2>8. CASE CreateRepair(w)
        <3>1. PICK batch \in SUBSET worker[w].codes :
                 /\ IsBatch(batch, worker[w].codes)
                 /\ repairs' = Append(repairs, [codes |-> batch, audit |-> worker[w].audit,
                                                slot |-> SlotOf(worker[w].audit), source |-> "system",
                                                status |-> "queued", started |-> FALSE,
                                                ended |-> FALSE])
                 /\ worker' = [worker EXCEPT ![w] =
                           IF batch = @.codes \/ @.batches + 1 = MaxBatches THEN IdleWorker
                           ELSE [worker[w] EXCEPT !.codes = @ \ batch, !.batches = @ + 1]]
            BY <2>8 DEF CreateRepair
        <3> DEFINE new == [codes |-> batch, audit |-> worker[w].audit, slot |-> SlotOf(worker[w].audit),
                           source |-> "system", status |-> "queued", started |-> FALSE, ended |-> FALSE]
        <3>2. new \in Repairs
            BY <1>0, SlotTypes DEF AuditWorkers, Repairs
        <3> HIDE DEF new
        <3>3. repairs' \in Seq(Repairs)
            BY <2>0, <3>1, <3>2 DEF new
        <3>4. [worker[w] EXCEPT !.codes = worker[w].codes \ batch, !.batches = worker[w].batches + 1]
                 \in AuditWorkers
            <4>1. worker[w] \in AuditWorkers /\ worker[w].batches + 1 \in Nat
                BY <1>0 DEF AuditWorkers
            <4>2. worker[w].codes \ batch \in SUBSET Codes
                BY <1>0 DEF AuditWorkers
            <4> QED BY <4>1, <4>2 DEF AuditWorkers
        <3>5. PICK x \in AuditWorkers : worker' = [worker EXCEPT ![w] = x]
            <4> DEFINE rest == [worker[w] EXCEPT !.codes = worker[w].codes \ batch,
                                                 !.batches = worker[w].batches + 1]
            <4>1. CASE batch = worker[w].codes \/ worker[w].batches + 1 = MaxBatches
                <5>1. worker' = [worker EXCEPT ![w] = IdleWorker]
                    BY <1>0, <3>1, <4>1
                <5> QED BY <1>4, <5>1
            <4>2. CASE ~(batch = worker[w].codes \/ worker[w].batches + 1 = MaxBatches)
                <5>1. worker' = [worker EXCEPT ![w] = rest]
                    BY <1>0, <3>1, <4>2
                <5>2. rest \in AuditWorkers
                    BY <3>4
                <5> HIDE DEF rest
                <5> QED BY <5>1, <5>2
            <4> QED BY <4>1, <4>2
        <3> QED BY <1>2, <2>0, <2>8, <3>3, <3>5 DEF CreateRepair
    <2> QED BY <1>5, <2>1, <2>2, <2>3, <2>4, <2>5, <2>6, <2>7, <2>8 DEF AuditStep
<1>6. ASSUME NEW k \in Completers, CompletionStep(k) PROVE RepairTypeInv'
    <2>1. CASE FindNoAudit(k)
        BY <2>1 DEF FindNoAudit, RepairTypeInv, RepairTypeOK, LooksHaveSlots
    <2>2. CASE AskOnCompletion(k)
        <3>1. audits' \in Seq(Audits)
            BY <2>2, AskTypes DEF AskOnCompletion, RepairTypeInv, RepairTypeOK
        <3> QED BY <2>2, <3>1 DEF AskOnCompletion, RepairTypeInv, RepairTypeOK, LooksHaveSlots
    <2> QED BY <1>6, <2>1, <2>2 DEF CompletionStep
<1>7. ASSUME NEW r \in DOMAIN repairs, RowStep(r) PROVE RepairTypeInv'
    <2>1. repairs' \in Seq(Repairs)
        <3>1. PICK new \in Repairs : repairs' = [repairs EXCEPT ![r] = new]
            BY <1>0, <1>7, RowChanges
        <3> QED BY <3>1, RepairChanges
    <2>2. raw' \subseteq Codes /\ serving' \subseteq raw'
        <3>1. CASE EndRepair(r) \/ WorkOn(r)
            <4>1. PICK delivered \in SUBSET repairs[r].codes : Write(delivered)
                BY <3>1 DEF EndRepair, WorkOn
            <4>2. delivered \in SUBSET Codes
                BY <1>0 DEF Repairs
            <4> QED BY <4>1, <4>2, WriteTypes
        <3>2. CASE StartRepair(r) \/ CancelRepair(r) \/ CancelLate(r)
            BY <3>2 DEF StartRepair, CancelRepair, CancelLate, RepairTypeInv, RepairTypeOK
        <3> QED BY <1>7, <3>1, <3>2 DEF RowStep
    <2>3. left' \in [Spendings -> Nat]
        <3>1. CASE CancelRepair(r) \/ WorkOn(r) \/ CancelLate(r)
            BY <3>1, SpendTypes DEF CancelRepair, WorkOn, CancelLate, Spendings
        <3>2. CASE StartRepair(r) \/ EndRepair(r)
            BY <3>2 DEF StartRepair, EndRepair, RepairTypeInv, RepairTypeOK
        <3> QED BY <1>7, <3>1, <3>2 DEF RowStep
    <2>4. UNCHANGED <<phase, active, audits, worker, look, completer>>
        BY <1>7 DEF RowStep, StartRepair, CancelRepair, EndRepair, WorkOn, CancelLate
    <2> QED BY <2>1, <2>2, <2>3, <2>4 DEF RepairTypeInv, RepairTypeOK, LooksHaveSlots
<1>8. ASSUME NEW w \in Workers, MarkError(w) \/ AbandonRepair(w) \/ DieAuditing(w) PROVE RepairTypeInv'
    <2>1. left' \in [Spendings -> Nat]
        BY <1>8, SpendTypes DEF MarkError, AbandonRepair, DieAuditing, Spendings
    <2>2. audits' \in Seq(Audits)
        <3>1. CASE MarkError(w)
            BY <3>1, AuditChanges DEF MarkError
        <3>2. CASE AbandonRepair(w) \/ DieAuditing(w)
            BY <3>2 DEF AbandonRepair, DieAuditing, RepairTypeInv, RepairTypeOK
        <3> QED BY <1>8, <3>1, <3>2
    <2>3. worker' = [worker EXCEPT ![w] = IdleWorker]
        BY <1>8 DEF MarkError, AbandonRepair, DieAuditing
    <2>4. UNCHANGED <<phase, active, raw, serving, look, completer, repairs>>
        BY <1>8 DEF MarkError, AbandonRepair, DieAuditing
    <2>5. repairs' \in Seq(Repairs)
        BY <2>4 DEF RepairTypeInv, RepairTypeOK
    <2> QED BY <1>2, <1>4, <2>1, <2>2, <2>3, <2>4, <2>5
<1>9. ASSUME NEW k \in Completers, MaintainSucceeds(k) PROVE RepairTypeInv'
    <2>1. left' \in [Spendings -> Nat]
        BY <1>9, SpendTypes DEF MaintainSucceeds, Spendings
    <2>2. raw' \subseteq Codes /\ serving' \subseteq raw'
        BY <1>9, WriteTypes DEF MaintainSucceeds
    <2> QED BY <1>9, <2>1, <2>2 DEF MaintainSucceeds, RepairTypeInv, RepairTypeOK, LooksHaveSlots
<1>10. ASSUME NEW c \in Codes, AddActive(c) \/ RemoveActive(c) PROVE RepairTypeInv'
    <2>1. left' \in [Spendings -> Nat]
        BY <1>10, SpendTypes DEF AddActive, RemoveActive, Spendings
    <2>2. active' \subseteq Codes /\ UNCHANGED <<phase, raw, serving, audits, repairs, worker, look, completer>>
        BY <1>10 DEF AddActive, RemoveActive, RepairTypeInv, RepairTypeOK
    <2> QED BY <2>1, <2>2 DEF RepairTypeInv, RepairTypeOK, LooksHaveSlots
<1>11. CASE AskManually
    <2>1. left' \in [Spendings -> Nat]
        BY <1>11, SpendTypes DEF AskManually, Spendings
    <2>2. audits' \in Seq(Audits)
        BY <1>11, AskTypes DEF AskManually, RepairTypeInv, RepairTypeOK
    <2> QED BY <1>11, <2>1, <2>2 DEF AskManually, RepairTypeInv, RepairTypeOK, LooksHaveSlots
<1>12. CASE NextHour
    <2>1. left' \in [Spendings -> Nat]
        BY <1>12, SpendTypes DEF NextHour, Spendings
    <2>2. PICK i \in 1 .. Len(PhaseOrder) - 1 : phase' = PhaseOrder[i + 1]
        BY <1>12 DEF NextHour
    <2>3. phase' \in Phases
        <3>1. i + 1 \in 1 .. 6
            BY PhasesAre
        <3> QED BY <2>2, <3>1, PhasesAre
    <2> QED BY <1>12, <2>1, <2>3 DEF NextHour, RepairTypeInv, RepairTypeOK, LooksHaveSlots
<1>13. ASSUME NEW r \in DOMAIN repairs, RetryRepair(r) PROVE RepairTypeInv'
    <2>1. left' \in [Spendings -> Nat]
        BY <1>13, SpendTypes DEF RetryRepair, Spendings
    <2>2. repairs' \in Seq(Repairs)
        BY <1>0, <1>13, RetryAppends DEF RepairTypeInv, RepairTypeOK
    <2>3. UNCHANGED <<phase, active, raw, serving, audits, worker, look, completer>>
        BY <1>13 DEF RetryRepair
    <2> QED BY <2>1, <2>2, <2>3 DEF RepairTypeInv, RepairTypeOK, LooksHaveSlots
<1>14. CASE UNCHANGED repairVars
    BY <1>14 DEF repairVars, RepairTypeInv, RepairTypeOK, LooksHaveSlots
<1> QED BY <1>3, <1>5, <1>6, <1>7, <1>8, <1>9, <1>10, <1>11, <1>12, <1>13, <1>14
        DEF RepairNext, WorkStep, OtherStep, ExecuteStep, RowStep

\* The variables of audits and repairs keep their types.
THEOREM RepairTypesCorrect == RepairSpec => []RepairTypeOK
<1>1. RepairTypeInv => RepairTypeOK
    BY DEF RepairTypeInv
<1> QED BY RepairTypesInit, RepairTypesNext, <1>1, PTL DEF RepairSpec

-----------------------------------------------------------------------------
(* Audits and repairs of index_daily: no code in two open repairs *)

\* What the worker is about to repair is not being repaired.
CreatesApart ==
    /\ \A i, j \in DOMAIN repairs :
          i # j /\ IsFirstOpenRepair(i) /\ IsFirstOpenRepair(j) => repairs[i].codes \cap repairs[j].codes = {}
    /\ \A w \in Workers : worker[w].pc = "creating" =>
          \A i \in DOMAIN repairs : IsFirstOpenRepair(i) => repairs[i].codes \cap worker[w].codes = {}

\* There are no repairs at first.
LEMMA ApartInit == RepairInit => CreatesApart
BY DEF RepairInit, CreatesApart, IdleWorker

\* With one audit worker, every step keeps the repairs apart.
LEMMA ApartNext ==
    ASSUME Cardinality(Workers) = 1, RepairTypeInv, CreatesApart, [RepairNext]_repairVars
    PROVE  CreatesApart'
<1>0. /\ worker \in [Workers -> AuditWorkers]
      /\ \A v, w \in Workers : v = w
      /\ repairs \in Seq(Repairs) /\ \A i \in DOMAIN repairs : repairs[i] \in Repairs
    BY WorkersAssumption, FS_Singleton DEF RepairTypeInv, RepairTypeOK, AuditWorkers
<1>1. ASSUME \A i \in DOMAIN repairs' : /\ i \in DOMAIN repairs
                                        /\ repairs'[i].codes = repairs[i].codes
                                        /\ IsFirstOpenRepair(i)' => IsFirstOpenRepair(i),
             \A w \in Workers : worker'[w].pc = "creating" => worker'[w] = worker[w]
      PROVE  CreatesApart'
    <2>1. ASSUME NEW i \in DOMAIN repairs', NEW j \in DOMAIN repairs', i # j,
                 IsFirstOpenRepair(i)', IsFirstOpenRepair(j)'
          PROVE  repairs'[i].codes \cap repairs'[j].codes = {}
        BY <1>1, <2>1 DEF CreatesApart
    <2>2. ASSUME NEW w \in Workers, worker'[w].pc = "creating", NEW i \in DOMAIN repairs', IsFirstOpenRepair(i)'
          PROVE  repairs'[i].codes \cap worker'[w].codes = {}
        BY <1>1, <2>2 DEF CreatesApart
    <2> QED BY <2>1, <2>2 DEF CreatesApart
<1>2. ASSUME NEW w \in Workers, LeaveOutPending(w) PROVE CreatesApart'
    <2> DEFINE codes == worker[w].codes \ PendingCodes
    <2>1. /\ repairs' = repairs
          /\ worker' = [worker EXCEPT ![w] = IF codes = {} THEN IdleWorker
                                             ELSE [worker[w] EXCEPT !.pc = "creating", !.codes = codes]]
        BY <1>2 DEF LeaveOutPending
    <2>2. \A i \in DOMAIN repairs : IsFirstOpenRepair(i) => repairs[i].codes \cap codes = {}
        BY DEF PendingCodes, IsFirstOpenRepair
    <2> HIDE DEF codes
    <2>3. worker'[w].pc = "creating" => worker'[w].codes = codes
        BY <1>0, <2>1 DEF AuditWorkers, IdleWorker
    <2>4. \A i : IsFirstOpenRepair(i)' <=> IsFirstOpenRepair(i)
        BY <2>1 DEF IsFirstOpenRepair, IsOpenRepair
    <2> QED BY <1>0, <2>1, <2>2, <2>3, <2>4 DEF CreatesApart
<1>3. ASSUME NEW w \in Workers, CreateRepair(w) PROVE CreatesApart'
    <2>1. PICK batch \in SUBSET worker[w].codes :
             /\ repairs' = Append(repairs, [codes |-> batch, audit |-> worker[w].audit,
                                            slot |-> SlotOf(worker[w].audit), source |-> "system",
                                            status |-> "queued", started |-> FALSE, ended |-> FALSE])
             /\ worker' = [worker EXCEPT ![w] =
                       IF batch = @.codes \/ @.batches + 1 = MaxBatches THEN IdleWorker
                       ELSE [worker[w] EXCEPT !.codes = @ \ batch, !.batches = @ + 1]]
        BY <1>3 DEF CreateRepair
    <2> DEFINE new == [codes |-> batch, audit |-> worker[w].audit, slot |-> SlotOf(worker[w].audit),
                       source |-> "system", status |-> "queued", started |-> FALSE, ended |-> FALSE]
               n == Len(repairs) + 1
    <2>2. new \in Repairs /\ new.codes = batch
        BY <1>0, SlotTypes DEF AuditWorkers, Repairs
    <2> HIDE DEF new
    <2>3. /\ DOMAIN repairs' = DOMAIN repairs \cup {n} /\ repairs'[n].codes = batch
          /\ \A i \in DOMAIN repairs : repairs'[i] = repairs[i]
        BY <1>0, <2>1, <2>2, AppendProperties DEF new
    <2>4. worker'[w].pc = "creating" => worker'[w].codes = worker[w].codes \ batch
        BY <1>0, <2>1 DEF AuditWorkers, IdleWorker
    <2>5. \A i \in DOMAIN repairs : IsFirstOpenRepair(i) => repairs[i].codes \cap worker[w].codes = {}
        BY <1>3 DEF CreatesApart, CreateRepair
    <2>6. \A i \in DOMAIN repairs : IsFirstOpenRepair(i)' <=> IsFirstOpenRepair(i)
        BY <2>3 DEF IsFirstOpenRepair, IsOpenRepair
    <2>7. ASSUME NEW i \in DOMAIN repairs', NEW j \in DOMAIN repairs', i # j,
                 IsFirstOpenRepair(i)', IsFirstOpenRepair(j)'
          PROVE  repairs'[i].codes \cap repairs'[j].codes = {}
        <3>1. CASE i \in DOMAIN repairs /\ j \in DOMAIN repairs
            BY <2>3, <2>6, <2>7, <3>1 DEF CreatesApart
        <3>2. CASE i = n /\ j \in DOMAIN repairs
            BY <2>1, <2>3, <2>5, <2>6, <2>7, <3>2
        <3>3. CASE j = n /\ i \in DOMAIN repairs
            BY <2>1, <2>3, <2>5, <2>6, <2>7, <3>3
        <3> QED BY <2>3, <2>7, <3>1, <3>2, <3>3
    <2>8. ASSUME NEW v \in Workers, worker'[v].pc = "creating", NEW i \in DOMAIN repairs', IsFirstOpenRepair(i)'
          PROVE  repairs'[i].codes \cap worker'[v].codes = {}
        <3>1. v = w /\ worker'[v].codes = worker[w].codes \ batch
            BY <1>0, <2>4, <2>8
        <3>2. CASE i \in DOMAIN repairs
            BY <2>3, <2>5, <2>6, <2>8, <3>1, <3>2
        <3>3. CASE i = n
            BY <2>3, <3>1, <3>3
        <3> QED BY <2>3, <3>2, <3>3
    <2> QED BY <2>7, <2>8 DEF CreatesApart
<1>4. ASSUME NEW w \in Workers, \/ PickAudit(w) \/ MarkRunning(w) \/ Compare(w) \/ MarkSucceeded(w)
                                \/ SkipRepair(w) \/ Classify(w) \/ MarkError(w) \/ AbandonRepair(w)
                                \/ DieAuditing(w)
      PROVE  CreatesApart'
    <2>1. repairs' = repairs
        BY <1>4 DEF PickAudit, MarkRunning, Compare, MarkSucceeded, SkipRepair, Classify, MarkError,
                    AbandonRepair, DieAuditing
    <2>2. worker'[w].pc # "creating"
        <3>1. CASE PickAudit(w)
            BY <1>0, <3>1 DEF PickAudit, IdleWorker
        <3>2. CASE MarkRunning(w)
            BY <1>0, <3>2 DEF MarkRunning, AuditWorkers
        <3>3. CASE Compare(w)
            BY <1>0, <3>3 DEF Compare, AuditWorkers
        <3>4. CASE MarkSucceeded(w)
            BY <1>0, <3>4 DEF MarkSucceeded, AuditWorkers, IdleWorker
        <3>5. CASE SkipRepair(w)
            BY <1>0, <3>5 DEF SkipRepair, IdleWorker
        <3>6. CASE Classify(w)
            BY <1>0, <3>6 DEF Classify, AuditWorkers
        <3>7. CASE MarkError(w) \/ AbandonRepair(w) \/ DieAuditing(w)
            BY <1>0, <3>7 DEF MarkError, AbandonRepair, DieAuditing, IdleWorker
        <3> QED BY <1>4, <3>1, <3>2, <3>3, <3>4, <3>5, <3>6, <3>7
    <2>3. \A i : IsFirstOpenRepair(i)' <=> IsFirstOpenRepair(i)
        BY <2>1 DEF IsFirstOpenRepair, IsOpenRepair
    <2> QED BY <1>0, <1>1, <2>1, <2>2, <2>3
<1>5. ASSUME NEW r \in DOMAIN repairs, RowStep(r) PROVE CreatesApart'
    <2>1. PICK new \in Repairs : /\ repairs' = [repairs EXCEPT ![r] = new]
                                 /\ new.codes = repairs[r].codes
                                 /\ new.source = repairs[r].source
                                 /\ new.ended \/ (~repairs[r].ended /\ IsOpenRepair(r))
        BY <1>0, <1>5, RowChanges
    <2>2. /\ DOMAIN repairs' = DOMAIN repairs /\ repairs'[r] = new
          /\ \A i \in DOMAIN repairs : i # r => repairs'[i] = repairs[i]
        BY <1>0, <2>1
    <2>3. worker' = worker
        BY <1>5 DEF RowStep, StartRepair, CancelRepair, EndRepair, WorkOn, CancelLate
    <2>4. ASSUME NEW i \in DOMAIN repairs, IsFirstOpenRepair(i)' PROVE IsFirstOpenRepair(i)
        <3>1. CASE i = r
            BY <2>1, <2>2, <2>4, <3>1 DEF IsFirstOpenRepair
        <3>2. CASE i # r
            BY <2>2, <2>4, <3>2 DEF IsFirstOpenRepair, IsOpenRepair
        <3> QED BY <3>1, <3>2
    <2>5. \A i \in DOMAIN repairs : repairs'[i].codes = repairs[i].codes
        BY <2>1, <2>2
    <2> QED BY <1>1, <2>2, <2>3, <2>4, <2>5
<1>6. ASSUME repairs' = repairs, worker' = worker PROVE CreatesApart'
    <2>1. \A i : IsFirstOpenRepair(i)' <=> IsFirstOpenRepair(i)
        BY <1>6 DEF IsFirstOpenRepair, IsOpenRepair
    <2> QED BY <1>1, <1>6, <2>1
<1>7. ASSUME NEW s \in Schedulers, LookStep(s) \/ EndLook(s) PROVE CreatesApart'
    BY <1>6, <1>7 DEF LookStep, LookAtAudits, LookAtRepairs, AskAgain, EndLook
<1>8. ASSUME NEW k \in Completers, CompletionStep(k) \/ MaintainSucceeds(k) PROVE CreatesApart'
    BY <1>6, <1>8 DEF CompletionStep, FindNoAudit, AskOnCompletion, MaintainSucceeds
<1>9. ASSUME NEW c \in Codes, AddActive(c) \/ RemoveActive(c) PROVE CreatesApart'
    BY <1>6, <1>9 DEF AddActive, RemoveActive
<1>10. CASE AskManually \/ NextHour \/ UNCHANGED repairVars
    BY <1>6, <1>10 DEF AskManually, NextHour, repairVars
<1>11. ASSUME NEW r \in DOMAIN repairs, RetryRepair(r) PROVE CreatesApart'
    <2> DEFINE n == Len(repairs) + 1
    <2>1. /\ DOMAIN repairs' = DOMAIN repairs \cup {n} /\ repairs'[n].source = "retry"
          /\ \A i \in DOMAIN repairs : repairs'[i] = repairs[i]
        BY <1>0, <1>11, RetryAppends
    <2>2. worker' = worker
        BY <1>11 DEF RetryRepair
    <2>3. ASSUME NEW i \in DOMAIN repairs', IsFirstOpenRepair(i)'
          PROVE  i \in DOMAIN repairs /\ IsFirstOpenRepair(i) /\ repairs'[i].codes = repairs[i].codes
        <3>1. i # n
            BY <2>1, <2>3 DEF IsFirstOpenRepair
        <3> QED BY <2>1, <2>3, <3>1 DEF IsFirstOpenRepair, IsOpenRepair
    <2>4. ASSUME NEW i \in DOMAIN repairs', NEW j \in DOMAIN repairs', i # j,
                 IsFirstOpenRepair(i)', IsFirstOpenRepair(j)'
          PROVE  repairs'[i].codes \cap repairs'[j].codes = {}
        BY <2>3, <2>4 DEF CreatesApart
    <2>5. ASSUME NEW w \in Workers, worker'[w].pc = "creating", NEW i \in DOMAIN repairs', IsFirstOpenRepair(i)'
          PROVE  repairs'[i].codes \cap worker'[w].codes = {}
        BY <2>2, <2>3, <2>5 DEF CreatesApart
    <2> QED BY <2>4, <2>5 DEF CreatesApart
<1> QED BY <1>2, <1>3, <1>4, <1>5, <1>7, <1>8, <1>9, <1>10, <1>11
        DEF RepairNext, WorkStep, OtherStep, ExecuteStep, AuditStep, RowStep

\* With one audit worker no code is in two open repairs of the system that have
\* not ended before, although two audits of the day may be open, nothing is
\* locked, and rows of ended repairs are opened again.
THEOREM RepairsAreApart == RepairSpec => []NoConcurrentRepair
<1>1. CASE Cardinality(Workers) = 1
    <2>1. CreatesApart => NoConcurrentRepair
        BY DEF CreatesApart, NoConcurrentRepair
    <2>2. RepairTypeInv /\ CreatesApart /\ [RepairNext]_repairVars => CreatesApart'
        BY <1>1, ApartNext
    <2> QED BY RepairTypesInit, RepairTypesNext, ApartInit, <2>1, <2>2, PTL DEF RepairSpec
<1>2. CASE Cardinality(Workers) # 1
    <2>1. NoConcurrentRepair
        BY <1>2 DEF NoConcurrentRepair
    <2> QED BY <2>1, PTL
<1> QED BY <1>1, <1>2

-----------------------------------------------------------------------------
(* The probes of a tick, and the due schedules *)

Probes == [pc : {"off", "loop", "evaluated", "enqueued"}, todo : SUBSET Rules, rule : Rules \cup {None},
           at : Nat, target : Nat, result : Results]

\* A process with rules is probing; it is one of those that run.
ProbeInv ==
    /\ probe \in [Schedulers -> Probes]
    /\ probedAt \subseteq Nat \X Nat
    /\ matches \in Seq(Nat \X Nat)
    /\ \A p \in Schedulers : tick[p].pc # "idle" => p \in config.processes
    /\ \A p \in Schedulers : probe[p].pc # "off" => tick[p].pc = "probing"
    /\ \A p \in Schedulers : probe[p].pc \in {"evaluated", "enqueued"} => probe[p].rule \in Rules

SchedulerInv == TypeInv /\ ProbeInv

\* The first state.
LEMMA ProbeInit == SchedulerInit => SchedulerInv
BY TypesInit DEF SchedulerInit, SchedulerInv, ProbeInv, Probes, NoProbe, Results, Init, IdleTick

\* A step with due schedules is one of a process that runs and is not probing;
\* the task runs it leaves are not of probes.
LEMMA DueStepEffects ==
    ASSUME TypeInv, NEW p \in Schedulers, DueStep(p)
    PROVE  /\ tick[p].pc # "probing"
           /\ tick[p].pc = "idle" => p \in config.processes
           /\ \A r \in Schedulers : r # p => tick'[r] = tick[r]
           /\ config' = config
           /\ OldRunsStay /\ \A i \in DOMAIN runs' \ DOMAIN runs : runs'[i].source = "scheduled" /\ runs'[i].rule = 0
<1>0. tick \in [Schedulers -> Ticks]
    BY DEF TypeInv, TypeOK
<1>1. CASE PlanStep(p)
    <2>1. /\ tick[p].pc = "locked" /\ config' = config /\ runs' = runs
          /\ \A r \in Schedulers : r # p => tick'[r] = tick[r]
        BY <1>1, PlanLeaves
    <2> QED BY <2>1 DEF OldRunsStay
<1>2. CASE CommitPlan(p)
    <2>1. NewRun(p).source = "scheduled" /\ NewRun(p).rule = 0
        BY DEF NewRun, TaskRun
    <2>2. /\ tick[p].pc = "planned" /\ config' = config /\ OldRunsStay
          /\ \A r \in Schedulers : r # p => tick'[r] = tick[r]
        BY <1>2, CommittedPlan
    <2>3. \A i \in DOMAIN runs' \ DOMAIN runs : runs'[i].source = "scheduled" /\ runs'[i].rule = 0
        <3>1. CASE runs' = runs
            BY <3>1
        <3>2. CASE runs' = Append(runs, NewRun(p))
            BY <1>2, <2>1, <3>2, CommittedPlan, AppendedRun
        <3> QED BY <1>2, <3>1, <3>2, CommittedPlan
    <2> QED BY <2>2, <2>3
<1>3. CASE StartTick(p) \/ TakeDue(p) \/ EndDue(p) \/ RefusePolicy(p)
    <2>1. /\ tick[p].pc # "probing"
          /\ tick[p].pc = "idle" => p \in config.processes
          /\ config' = config /\ runs' = runs
        BY <1>3 DEF StartTick, TakeDue, EndDue, RefusePolicy, RolledBack
    <2>2. \A r \in Schedulers : r # p => tick'[r] = tick[r]
        BY <1>0, <1>3 DEF StartTick, TakeDue, EndDue, RefusePolicy, RolledBack
    <2> QED BY <2>1, <2>2 DEF OldRunsStay
<1> QED BY <1>1, <1>2, <1>3 DEF DueStep

\* A step of a request, a worker or the clock leaves the ticks alone, and no
\* task run of a probe is new.
LEMMA WebEffects ==
    ASSUME TypeInv, WebAndWorkers
    PROVE  /\ UNCHANGED <<tick, config, probeVars>>
           /\ OldRunsStay /\ \A i \in DOMAIN runs' \ DOMAIN runs : runs'[i].source # "probe" /\ runs'[i].rule = 0
<1>1. ASSUME NEW q \in Requests, RequestStep(q)
      PROVE  /\ UNCHANGED <<tick, config>>
             /\ OldRunsStay /\ \A i \in DOMAIN runs' \ DOMAIN runs : runs'[i].source # "probe" /\ runs'[i].rule = 0
    <2>1. CASE CommitNews(q)
        <3>1. tick' = tick /\ config' = config
            BY <2>1 DEF CommitNews
        <3>2. OldRunsStay /\ \A i \in DOMAIN runs' \ DOMAIN runs : runs'[i].source # "probe" /\ runs'[i].rule = 0
            BY <2>1, SubmittedNews
        <3> QED BY <3>1, <3>2
    <2>2. CASE Retry(q)
        <3>1. DOMAIN runs' \ DOMAIN runs = {Len(runs) + 1}
            BY <2>2, RetriedRun
        <3> QED BY <2>2, <3>1, RetriedRun
    <2>3. CASE ~CommitNews(q) /\ ~Retry(q)
        <3>1. tick' = tick /\ config' = config /\ runs' = runs
            BY <1>1, <2>3 DEF RequestStep, ReadRow, DeleteRules, CommitRequest, FailRequest, SubmitNews
        <3> QED BY <3>1 DEF OldRunsStay
    <2> QED BY <2>1, <2>2, <2>3
<1>2. ASSUME NEW i \in DOMAIN runs, NEW status \in config.endings \cup {"open"},
             \/ EndRun(i, status) /\ status # "open"
             \/ RewriteRun(i, status)
      PROVE  /\ UNCHANGED <<tick, config>>
             /\ OldRunsStay /\ \A j \in DOMAIN runs' \ DOMAIN runs : runs'[j].source # "probe" /\ runs'[j].rule = 0
    <2>1. OldRunsStay /\ DOMAIN runs' = DOMAIN runs
        BY <1>2, EndedRun
    <2>2. UNCHANGED <<tick, config>>
        BY <1>2 DEF EndRun, RewriteRun, WriteStatus
    <2> QED BY <2>1, <2>2
<1>3. CASE PassTime
    BY <1>3 DEF PassTime, WebAndWorkers, OldRunsStay
<1>4. \A status \in config.endings : status # "open"
    BY ConfigTypes DEF TypeInv, TypeOK
<1> QED BY <1>1, <1>2, <1>3, <1>4 DEF WebAndWorkers, EnvironmentStep

\* A step with the rules, of one process.
ProbingStep(p) == RuleStep(p) \/ FinishProbes(p) \/ DieInTick(p)

\* Which of them are steps of ScheduleTick.
LEMMA ProbingIsStep ==
    ASSUME SchedulerInv, NEW p \in Schedulers, ProbingStep(p)
    PROVE  \/ scheduleVars' = scheduleVars
           \/ \E r \in rules, target \in Nat : CreateProbeRun(p, r, target)
           \/ EndTick(p) \/ AbortProbes(p) \/ Die(p)
<1>1. CASE Enqueue(p)
    <2>1. CreateProbeRun(p, probe[p].rule, probe[p].target) /\ probe[p].rule \in rules
        BY <1>1 DEF Enqueue, CreateProbeRun
    <2>2. probe[p].target \in Nat
        BY DEF SchedulerInv, ProbeInv, Probes
    <2> QED BY <2>1, <2>2
<1>2. CASE LoadRules(p) \/ PassRule(p) \/ Evaluate(p) \/ EnqueueFails(p) \/ LogResult(p)
    BY <1>2 DEF LoadRules, PassRule, Evaluate, EnqueueFails, LogResult
<1>3. CASE LoseRule(p) \/ FinishProbes(p) \/ DieInTick(p)
    BY <1>3 DEF LoseRule, FinishProbes, DieInTick
<1> QED BY <1>1, <1>2, <1>3 DEF ProbingStep, RuleStep

\* What the composed step does, by whom.
LEMMA SchedulerSteps ==
    ASSUME [SchedulerNext]_vars
    PROVE  \/ \E p \in Schedulers : (DueStep(p) /\ UNCHANGED probeVars) \/ ProbingStep(p)
           \/ WebAndWorkers
           \/ UNCHANGED vars
BY DEF SchedulerNext, SchedulerStep, ProbingStep

\* Every step of the composed scheduler is one of ScheduleTick, or leaves its
\* variables alone.
LEMMA SchedulerStepIsStep ==
    ASSUME SchedulerInv, [SchedulerNext]_vars PROVE [Next]_scheduleVars
<1>1. ASSUME NEW p \in Schedulers, ProbingStep(p) PROVE [Next]_scheduleVars
    BY <1>1, ProbingIsStep DEF Next
<1>2. ASSUME NEW p \in Schedulers, DueStep(p) PROVE Next
    BY <1>2 DEF Next
<1>3. CASE WebAndWorkers
    BY <1>3 DEF WebAndWorkers, Next
<1>4. CASE UNCHANGED vars
    BY <1>4 DEF vars
<1> QED BY <1>1, <1>2, <1>3, <1>4, SchedulerSteps

\* A process goes on with the rules, or stops.
LEMMA ProbeChanges ==
    ASSUME SchedulerInv, NEW p \in Schedulers, NEW x \in Probes,
           probe' = [probe EXCEPT ![p] = x],
           x.pc # "off" => tick'[p].pc = "probing",
           x.pc \in {"evaluated", "enqueued"} => x.rule \in Rules,
           tick'[p] = tick[p] \/ tick'[p].pc = "idle",
           \A r \in Schedulers : r # p => tick'[r] = tick[r],
           config' = config,
           probedAt' \subseteq Nat \X Nat, matches' \in Seq(Nat \X Nat)
    PROVE  ProbeInv'
<1>1. /\ probe \in [Schedulers -> Probes]
      /\ \A r \in Schedulers : tick[r].pc # "idle" => r \in config.processes
      /\ \A r \in Schedulers : probe[r].pc # "off" => tick[r].pc = "probing"
      /\ \A r \in Schedulers : probe[r].pc \in {"evaluated", "enqueued"} => probe[r].rule \in Rules
    BY DEF SchedulerInv, ProbeInv
<1>2. probe' \in [Schedulers -> Probes] /\ probe'[p] = x /\ \A r \in Schedulers : r # p => probe'[r] = probe[r]
    BY <1>1
<1>3. \A r \in Schedulers : tick'[r].pc # "idle" => r \in config'.processes
    BY <1>1
<1>4. \A r \in Schedulers : probe'[r].pc # "off" => tick'[r].pc = "probing"
    BY <1>1, <1>2
<1>5. \A r \in Schedulers : probe'[r].pc \in {"evaluated", "enqueued"} => probe'[r].rule \in Rules
    BY <1>1, <1>2
<1> QED BY <1>2, <1>3, <1>4, <1>5 DEF ProbeInv

\* Every step of the composed scheduler keeps the invariant.
LEMMA ProbeNext == SchedulerInv /\ [SchedulerNext]_vars => SchedulerInv'
<1> SUFFICES ASSUME SchedulerInv, [SchedulerNext]_vars PROVE SchedulerInv'
    OBVIOUS
<1>0. /\ TypeInv /\ TypeInv'
      /\ tick \in [Schedulers -> Ticks] /\ probe \in [Schedulers -> Probes]
      /\ probedAt \subseteq Nat \X Nat /\ matches \in Seq(Nat \X Nat)
      /\ rules \subseteq Rules /\ clock \in Nat
      /\ \A p \in Schedulers : probe[p].pc # "off" => tick[p].pc = "probing"
    <2>1. TypeInv'
        BY SchedulerStepIsStep, TypesNext DEF SchedulerInv
    <2>2. clock \in Nat
        BY TimeAssumption DEF SchedulerInv, TypeInv, TypeOK
    <2> QED BY <2>1, <2>2 DEF SchedulerInv, ProbeInv, TypeInv, TypeOK
<1>1. ASSUME NEW p \in Schedulers, DueStep(p), UNCHANGED probeVars PROVE ProbeInv'
    <2>1. /\ tick[p].pc # "probing" /\ (tick[p].pc = "idle" => p \in config.processes)
          /\ \A r \in Schedulers : r # p => tick'[r] = tick[r]
          /\ config' = config
        BY <1>0, <1>1, DueStepEffects
    <2>2. \A r \in Schedulers : tick[r].pc # "idle" => r \in config.processes
        BY DEF SchedulerInv, ProbeInv
    <2>3. \A r \in Schedulers : probe[r].pc # "off" => tick'[r].pc = "probing"
        BY <1>0, <2>1
    <2> QED BY <1>1, <2>1, <2>2, <2>3 DEF SchedulerInv, ProbeInv, probeVars
<1>2. ASSUME NEW p \in Schedulers, ProbingStep(p) PROVE ProbeInv'
    <2>0. /\ NoProbe \in Probes /\ NoProbe.pc = "off"
          /\ probe[p] \in Probes
          /\ \A id \in Nat, t \in Nat : Probed(id, t) \subseteq Nat \X Nat
        BY <1>0 DEF Probes, NoProbe, Results, Probed
    <2>1. CASE LoadRules(p)
        <3> DEFINE x == [NoProbe EXCEPT !.pc = "loop", !.todo = rules]
        <3>1. x \in Probes /\ x.pc = "loop"
            BY <1>0 DEF Probes, NoProbe, Results
        <3>2. /\ probe' = [probe EXCEPT ![p] = x] /\ tick[p].pc = "probing"
              /\ tick' = tick /\ config' = config /\ probedAt' = probedAt /\ matches' = matches
            BY <2>1 DEF LoadRules, scheduleVars
        <3> HIDE DEF x
        <3> QED BY <1>0, <3>1, <3>2, ProbeChanges
    <2>2. CASE PassRule(p)
        <3>1. PICK r : probe' = [probe EXCEPT ![p].todo = @ \ {r}]
            BY <2>2 DEF PassRule
        <3> DEFINE x == [probe[p] EXCEPT !.todo = probe[p].todo \ {r}]
        <3>2. probe' = [probe EXCEPT ![p] = x] /\ x \in Probes /\ x.pc = "loop"
            BY <1>0, <2>2, <3>1 DEF Probes, PassRule
        <3>3. /\ tick[p].pc = "probing"
              /\ tick' = tick /\ config' = config /\ probedAt' = probedAt /\ matches' = matches
            BY <1>0, <2>2 DEF PassRule, scheduleVars
        <3> HIDE DEF x
        <3> QED BY <1>0, <3>2, <3>3, ProbeChanges
    <2>3. CASE Evaluate(p)
        <3>1. PICK r \in probe[p].todo, answer \in {"miss", "error", "hit"} :
                 probe' = [probe EXCEPT
                         ![p].pc = "evaluated", ![p].rule = r, ![p].at = clock,
                         ![p].target = Day(tick[p].now),
                         ![p].result = IF answer = "hit" /\ HasEffectiveTargetTask(r.sched, Day(tick[p].now))
                                       THEN "duplicate" ELSE answer]
            BY <2>3 DEF Evaluate
        <3> DEFINE result == IF answer = "hit" /\ HasEffectiveTargetTask(r.sched, Day(tick[p].now))
                             THEN "duplicate" ELSE answer
                   target == Day(tick[p].now)
                   x == [probe[p] EXCEPT !.pc = "evaluated", !.rule = r, !.at = clock,
                                         !.target = target, !.result = result]
        <3>2. result \in Results
            BY DEF Results
        <3>3. target \in Nat /\ r \in Rules
            <4>1. tick[p].now \in Nat /\ probe[p].todo \subseteq Rules
                BY <1>0 DEF Ticks, Probes
            <4> QED BY <4>1, TimeIsInDay
        <3>4. probe' = [probe EXCEPT ![p] = x]
            BY <1>0, <3>1 DEF Probes
        <3> HIDE DEF result, target
        <3>5. x \in Probes /\ x.pc = "evaluated" /\ x.rule = r
            BY <1>0, <2>0, <3>2, <3>3 DEF Probes
        <3>6. /\ tick[p].pc = "probing"
              /\ tick' = tick /\ config' = config /\ probedAt' = probedAt /\ matches' = matches
            BY <1>0, <2>3 DEF Evaluate, scheduleVars
        <3> HIDE DEF x
        <3> QED BY <1>0, <3>3, <3>4, <3>5, <3>6, ProbeChanges
    <2>4. CASE Enqueue(p)
        <3> DEFINE x == [probe[p] EXCEPT !.pc = "enqueued"]
        <3>1. probe' = [probe EXCEPT ![p] = x] /\ x \in Probes /\ x.pc = "enqueued" /\ x.rule = probe[p].rule
            BY <1>0, <2>4 DEF Probes, Enqueue
        <3>2. probe[p].rule \in Rules /\ probe[p].at \in Nat
            BY <1>0, <2>4 DEF Enqueue, SchedulerInv, ProbeInv, Probes
        <3>3. probedAt' \subseteq Nat \X Nat
            BY <2>0, <2>4, <3>2 DEF Enqueue, Rules
        <3>4. tick[p].pc = "probing" /\ tick' = tick /\ config' = config /\ matches' = matches
            BY <1>0, <2>4 DEF Enqueue, CreateProbeRun
        <3> HIDE DEF x
        <3> QED BY <1>0, <3>1, <3>2, <3>3, <3>4, ProbeChanges
    <2>5. CASE EnqueueFails(p)
        <3> DEFINE x == [probe[p] EXCEPT !.result = "unqueued"]
        <3>1. /\ probe' = [probe EXCEPT ![p] = x] /\ x \in Probes
              /\ x.pc = "evaluated" /\ x.rule = probe[p].rule
            BY <1>0, <2>5 DEF Probes, EnqueueFails, Results
        <3>2. probe[p].rule \in Rules
            BY <2>5 DEF EnqueueFails, SchedulerInv, ProbeInv
        <3>3. /\ tick[p].pc = "probing"
              /\ tick' = tick /\ config' = config /\ probedAt' = probedAt /\ matches' = matches
            BY <1>0, <2>5 DEF EnqueueFails, scheduleVars
        <3> HIDE DEF x
        <3> QED BY <1>0, <3>1, <3>2, <3>3, ProbeChanges
    <2>6. CASE LogResult(p)
        <3> DEFINE x == [NoProbe EXCEPT !.pc = "loop", !.todo = probe[p].todo \ {probe[p].rule}]
        <3>1. probe' = [probe EXCEPT ![p] = x] /\ x \in Probes /\ x.pc = "loop"
            BY <1>0, <2>0, <2>6 DEF Probes, LogResult, NoProbe, Results
        <3>2. probe[p].rule \in Rules /\ probe[p].at \in Nat /\ probe[p].pc # "off"
            BY <1>0, <2>6 DEF LogResult, SchedulerInv, ProbeInv, Probes
        <3>3. probedAt' \subseteq Nat \X Nat
            BY <1>0, <2>0, <2>6, <3>2 DEF LogResult, Rules
        <3>4. matches' \in Seq(Nat \X Nat)
            <4>1. Day(probe[p].at) \in Nat /\ probe[p].rule.id \in Nat
                BY <3>2, TimeIsInDay DEF Rules
            <4> DEFINE new == <<probe[p].rule.id, Day(probe[p].at)>>
            <4>2. new \in Nat \X Nat /\ matches' \in {matches, Append(matches, new)}
                BY <2>6, <4>1 DEF LogResult
            <4> HIDE DEF new
            <4>3. Append(matches, new) \in Seq(Nat \X Nat)
                BY <1>0, <4>2
            <4> QED BY <1>0, <4>2, <4>3
        <3>5. tick[p].pc = "probing" /\ tick' = tick /\ config' = config
            BY <1>0, <2>6, <3>2 DEF LogResult, scheduleVars
        <3> HIDE DEF x
        <3> QED BY <1>0, <3>1, <3>3, <3>4, <3>5, ProbeChanges
    <2>7. CASE FinishProbes(p) \/ LoseRule(p) \/ DieInTick(p)
        <3>1. /\ probe' = [probe EXCEPT ![p] = NoProbe]
              /\ probedAt' = probedAt /\ matches' = matches /\ config' = config
              /\ tick' = [tick EXCEPT ![p] = IdleTick]
            BY <2>7 DEF FinishProbes, LoseRule, DieInTick, EndTick, AbortProbes, Die, RolledBack
        <3>2. tick'[p].pc = "idle" /\ \A r \in Schedulers : r # p => tick'[r] = tick[r]
            BY <1>0, <3>1 DEF IdleTick
        <3> QED BY <1>0, <2>0, <3>1, <3>2, ProbeChanges
    <2> QED BY <1>2, <2>1, <2>2, <2>3, <2>4, <2>5, <2>6, <2>7 DEF ProbingStep, RuleStep
<1>3. CASE WebAndWorkers
    <2>1. /\ tick' = tick /\ config' = config
          /\ probe' = probe /\ probedAt' = probedAt /\ matches' = matches
        BY <1>0, <1>3, WebEffects DEF probeVars
    <2> QED BY <1>0, <2>1 DEF SchedulerInv, ProbeInv
<1>4. CASE UNCHANGED vars
    BY <1>0, <1>4 DEF vars, scheduleVars, probeVars, SchedulerInv, ProbeInv
<1> QED BY <1>0, <1>1, <1>2, <1>3, <1>4, SchedulerSteps DEF SchedulerInv

\* The variables of schedules and probes keep their types.
THEOREM SchedulerTypesCorrect == SchedulerSpec => []SchedulerTypeOK
<1>1. SchedulerInv => SchedulerTypeOK
    BY DEF SchedulerInv, ProbeInv, Probes, TypeInv, SchedulerTypeOK
<1> QED BY ProbeInit, ProbeNext, <1>1, PTL DEF SchedulerSpec

\* The tick with its probes implements the module of the due schedules.
THEOREM SchedulerImplementsSchedules == SchedulerSpec => Spec
<1>1. SchedulerInit => Init
    BY DEF SchedulerInit
<1>2. SchedulerInv /\ [SchedulerNext]_vars => [Next]_scheduleVars
    BY SchedulerStepIsStep
<1> QED BY ProbeInit, ProbeNext, <1>1, <1>2, PTL DEF SchedulerSpec, Spec

-----------------------------------------------------------------------------
(* One task run per target of a probe *)

\* The task runs of the probes whose rows never said that they had failed.
UnfailedProbeRun(i) == runs[i].source = "probe" /\ runs[i].ever \cap Ineffective = {}
HasUnfailedRun(s, target) ==
    /\ s \in Deduplicated
    /\ \E i \in DOMAIN runs : UnfailedProbeRun(i) /\ runs[i].sched = s /\ runs[i].first = target

\* A match that is about to become a task run is the first of its target.
HitIsFirst ==
    \A p \in Schedulers : probe[p].pc = "evaluated" /\ probe[p].result = "hit" =>
        ~HasUnfailedRun(probe[p].rule.sched, probe[p].target)

OnceInv == HitIsFirst /\ ProbeOncePerTarget

\* A run that never failed is found by the look for effective ones.
LEMMA UnfailedIsEffective ==
    ASSUME Remembered, NEW s, NEW target, HasUnfailedRun(s, target)
    PROVE  HasEffectiveTargetTask(s, target)
<1>1. PICK i \in DOMAIN runs : UnfailedProbeRun(i) /\ runs[i].sched = s /\ runs[i].first = target
    BY DEF HasUnfailedRun
<1>2. runs[i].status \notin Ineffective
    BY <1>1 DEF Remembered, UnfailedProbeRun, Ineffective
<1> QED BY <1>1, <1>2 DEF HasUnfailedRun, UnfailedProbeRun, HasEffectiveTargetTask, RunsOf

\* There are no probes at first.
LEMMA OnceInit == SchedulerInit => OnceInv
BY DEF SchedulerInit, Init, OnceInv, HitIsFirst, ProbeOncePerTarget, NoProbe

\* With one process, every step keeps the task runs of a target apart.
LEMMA OnceNext ==
    ASSUME SchedulerInv, Remembered, OneProcess => OnceInv, [SchedulerNext]_vars
    PROVE  OneProcess' => OnceInv'
<1>0. /\ TypeInv
      /\ tick \in [Schedulers -> Ticks] /\ probe \in [Schedulers -> Probes]
      /\ \A p \in Schedulers : probe[p].pc # "off" => tick[p].pc = "probing"
      /\ \A p \in Schedulers : tick[p].pc # "idle" => p \in config.processes
      /\ config' = config
    <2>1. TypeInv /\ config' = config
        BY SchedulerStepIsStep, StepKinds DEF SchedulerInv
    <2> QED BY <2>1 DEF SchedulerInv, ProbeInv, TypeInv, TypeOK
<1> SUFFICES ASSUME OneProcess PROVE OnceInv'
    BY <1>0 DEF OneProcess
<1>1. /\ OnceInv
      /\ \A p, r \in Schedulers : tick[p].pc # "idle" /\ tick[r].pc # "idle" => p = r
    <2>1. IsFiniteSet(config.processes)
        <3>1. config.processes \subseteq Schedulers
            BY <1>0, ConfigsAssumption DEF TypeInv, TypeOK
        <3> QED BY <3>1, ProcessesAssumption, FS_Subset
    <2>2. \E p : config.processes = {p}
        BY <2>1, FS_Singleton DEF OneProcess
    <2> QED BY <1>0, <2>2
<1>2. ASSUME OldRunsStay, \A i \in DOMAIN runs' \ DOMAIN runs : runs'[i].source # "probe",
             \A p \in Schedulers : probe'[p].pc = "evaluated" /\ probe'[p].result = "hit" =>
                probe'[p] = probe[p]
      PROVE  OnceInv'
    <2>1. \A i \in DOMAIN runs' : UnfailedProbeRun(i)' =>
             /\ i \in DOMAIN runs /\ UnfailedProbeRun(i)
             /\ runs'[i].sched = runs[i].sched /\ runs'[i].first = runs[i].first
        BY <1>2 DEF OldRunsStay, UnfailedProbeRun
    <2>2. ProbeOncePerTarget'
        BY <1>1, <2>1 DEF OnceInv, ProbeOncePerTarget, UnfailedProbeRun
    <2>3. HitIsFirst'
        <3> SUFFICES ASSUME NEW p \in Schedulers, probe'[p].pc = "evaluated", probe'[p].result = "hit"
                     PROVE  ~HasUnfailedRun(probe[p].rule.sched, probe[p].target)'
            BY DEF HitIsFirst
        <3>1. probe'[p] = probe[p] /\ ~HasUnfailedRun(probe[p].rule.sched, probe[p].target)
            BY <1>1, <1>2 DEF OnceInv, HitIsFirst
        <3> QED BY <2>1, <3>1 DEF HasUnfailedRun
    <2> QED BY <2>2, <2>3 DEF OnceInv
<1>3. ASSUME NEW p \in Schedulers, DueStep(p), UNCHANGED probeVars PROVE OnceInv'
    <2>1. OldRunsStay /\ \A i \in DOMAIN runs' \ DOMAIN runs : runs'[i].source # "probe"
        BY <1>0, <1>3, DueStepEffects
    <2>2. probe' = probe
        BY <1>3 DEF probeVars
    <2> QED BY <1>2, <2>1, <2>2
<1>4. CASE WebAndWorkers
    <2>1. /\ OldRunsStay /\ \A i \in DOMAIN runs' \ DOMAIN runs : runs'[i].source # "probe"
          /\ probe' = probe
        BY <1>0, <1>4, WebEffects DEF probeVars
    <2> QED BY <1>2, <2>1
<1>5. ASSUME NEW p \in Schedulers, Enqueue(p) PROVE OnceInv'
    <2> DEFINE rule == probe[p].rule
               new == TaskRun(rule.sched, "probe", None, probe[p].target, probe[p].target, rule.id, "open")
               n == Len(runs) + 1
    <2>1. /\ probe[p].pc = "evaluated" /\ probe[p].result = "hit" /\ rule \in rules
          /\ probe' = [probe EXCEPT ![p].pc = "enqueued"]
          /\ runs' = Append(runs, new)
        BY <1>5 DEF Enqueue, CreateProbeRun
    <2>2. new \in Runs /\ new.sched = rule.sched /\ new.first = probe[p].target
        <3>1. probe[p].target \in Nat
            BY <1>0 DEF Probes
        <3>2. rule.sched \in Schedules /\ rule.id \in Nat
            BY <2>1 DEF SchedulerInv, TypeInv, TypeOK, Rules
        <3> QED BY <1>0, <3>1, <3>2, TaskRunTypes DEF TaskRun, Sources, MaybeTime, RunStatuses
    <2> HIDE DEF new
    <2>3. /\ DOMAIN runs' = DOMAIN runs \cup {n} /\ runs'[n] = new /\ n \notin DOMAIN runs
          /\ \A i \in DOMAIN runs : runs'[i] = runs[i]
        BY <1>0, <2>1, <2>2, AppendedRun
    <2>4. ~HasUnfailedRun(rule.sched, probe[p].target)
        BY <1>1, <2>1 DEF OnceInv, HitIsFirst
    <2>5. \A r \in Schedulers : ~(probe'[r].pc = "evaluated")
        BY <1>0, <1>1, <2>1 DEF Probes
    <2>6. ProbeOncePerTarget'
        <3> SUFFICES ASSUME NEW i \in DOMAIN runs', NEW j \in DOMAIN runs',
                            runs'[i].source = "probe", runs'[j].source = "probe",
                            runs'[i].sched = runs'[j].sched, runs'[i].sched \in Deduplicated,
                            runs'[i].first = runs'[j].first,
                            runs'[i].ever \cap Ineffective = {}, runs'[j].ever \cap Ineffective = {}
                     PROVE  i = j
            BY DEF ProbeOncePerTarget
        <3>1. CASE i \in DOMAIN runs /\ j \in DOMAIN runs
            BY <1>1, <2>3, <3>1 DEF OnceInv, ProbeOncePerTarget
        <3>2. ASSUME NEW k \in DOMAIN runs, rule.sched \in Deduplicated, runs[k].source = "probe",
                     runs[k].sched = rule.sched, runs[k].first = probe[p].target,
                     runs[k].ever \cap Ineffective = {}
              PROVE  FALSE
            BY <2>4, <3>2 DEF HasUnfailedRun, UnfailedProbeRun
        <3>3. CASE i = n /\ j \in DOMAIN runs
            BY <2>2, <2>3, <3>2, <3>3
        <3>4. CASE j = n /\ i \in DOMAIN runs
            BY <2>2, <2>3, <3>2, <3>4
        <3> QED BY <2>3, <3>1, <3>3, <3>4
    <2> QED BY <2>5, <2>6 DEF OnceInv, HitIsFirst
<1>6. ASSUME NEW p \in Schedulers, Evaluate(p) PROVE OnceInv'
    <2>1. PICK r \in probe[p].todo, answer \in {"miss", "error", "hit"} :
             probe' = [probe EXCEPT
                     ![p].pc = "evaluated", ![p].rule = r, ![p].at = clock,
                     ![p].target = Day(tick[p].now),
                     ![p].result = IF answer = "hit" /\ HasEffectiveTargetTask(r.sched, Day(tick[p].now))
                                   THEN "duplicate" ELSE answer]
        BY <1>6 DEF Evaluate
    <2>2. /\ probe'[p].rule = r /\ probe'[p].target = Day(tick[p].now)
          /\ probe'[p].result = "hit" => ~HasUnfailedRun(r.sched, Day(tick[p].now))
          /\ \A s \in Schedulers : s # p => probe'[s] = probe[s]
        BY <1>0, <2>1, UnfailedIsEffective DEF Probes
    <2>3. runs' = runs
        BY <1>6 DEF Evaluate, scheduleVars
    <2>4. ProbeOncePerTarget'
        BY <1>1, <2>3 DEF OnceInv, ProbeOncePerTarget
    <2>5. HitIsFirst'
        BY <1>1, <2>2, <2>3 DEF OnceInv, HitIsFirst, HasUnfailedRun, UnfailedProbeRun
    <2> QED BY <2>4, <2>5 DEF OnceInv
<1>7. ASSUME NEW p \in Schedulers, ProbingStep(p), ~Enqueue(p), ~Evaluate(p) PROVE OnceInv'
    <2>1. runs' = runs
        BY <1>7 DEF ProbingStep, RuleStep, LoadRules, PassRule, EnqueueFails, LogResult, LoseRule,
                    FinishProbes, DieInTick, EndTick, AbortProbes, Die, RolledBack, scheduleVars
    <2>2. OldRunsStay
        BY <2>1 DEF OldRunsStay
    <2>3. /\ \A r \in Schedulers : r # p => probe'[r] = probe[r]
          /\ ~(probe'[p].pc = "evaluated" /\ probe'[p].result = "hit")
        <3>1. CASE LoadRules(p) \/ LogResult(p)
            BY <1>0, <3>1 DEF LoadRules, LogResult, NoProbe
        <3>2. CASE PassRule(p)
            BY <1>0, <3>2 DEF PassRule, Probes
        <3>3. CASE EnqueueFails(p)
            BY <1>0, <3>3 DEF EnqueueFails, Probes
        <3>4. CASE LoseRule(p) \/ FinishProbes(p) \/ DieInTick(p)
            BY <1>0, <3>4 DEF LoseRule, FinishProbes, DieInTick, NoProbe
        <3> QED BY <1>7, <3>1, <3>2, <3>3, <3>4 DEF ProbingStep, RuleStep
    <2>4. \A r \in Schedulers : probe'[r].pc = "evaluated" /\ probe'[r].result = "hit" => probe'[r] = probe[r]
        BY <2>3
    <2> QED BY <1>2, <2>1, <2>2, <2>4
<1>8. CASE UNCHANGED vars
    <2>1. runs' = runs /\ probe' = probe
        BY <1>8 DEF vars, scheduleVars, probeVars
    <2>2. OldRunsStay
        BY <2>1 DEF OldRunsStay
    <2> QED BY <1>2, <2>1, <2>2
<1> QED BY <1>3, <1>4, <1>5, <1>6, <1>7, <1>8, SchedulerSteps

\* With one process the probes of a schedule leave at most one task run per
\* target whose row never said that it had failed, whatever dies, however rules
\* are replaced and whatever is written over the rows of ended runs.
THEOREM ProbesRunOnce == SchedulerSpec => []ProbeOncePerTarget
<1>1. SchedulerInit => (OneProcess => OnceInv)
    BY OnceInit
<1>2. SchedulerInv /\ Remembered /\ (OneProcess => OnceInv) /\ [SchedulerNext]_vars
      => (OneProcess => OnceInv)'
    BY OnceNext
<1>4. SchedulerInit => Remembered
    BY RememberedInit DEF SchedulerInit
<1>5. SchedulerInv /\ Remembered /\ [SchedulerNext]_vars => Remembered'
    BY SchedulerStepIsStep, RememberedNext DEF SchedulerInv
<1>3. (OneProcess => OnceInv) => ProbeOncePerTarget
    BY DEF OnceInv, ProbeOncePerTarget
<1> QED BY ProbeInit, ProbeNext, <1>1, <1>2, <1>3, <1>4, <1>5, PTL DEF SchedulerSpec

-----------------------------------------------------------------------------
(* The limit of a day.  Task runs and logged matches of a rule are counted  *)
(* against each other: as long as a rule exists, its matches of a day that  *)
(* is not over lag behind its task runs by the ticks that died and the one  *)
(* task run that is not logged yet.                                         *)

RunsFor(id, d) == {i \in DOMAIN runs : runs[i].rule = id /\ runs[i].first = d}
MatchesFor(id, d) == {i \in DOMAIN matches : matches[i] = <<id, d>>}
CountRuns(id, d) == Cardinality(RunsFor(id, d))
CountMatches(id, d) == Cardinality(MatchesFor(id, d))

RulesKnown == /\ \A i \in DOMAIN runs : runs[i].rule <= lastRule
              /\ \A r \in rules : r.id <= lastRule
              /\ \A r, s \in rules : r.id = s.id => r = s

\* A tick and its probe happen in their order, and a rule is dealt with once.
InOrder == \A p \in Schedulers :
    /\ tick[p].pc # "idle" => tick[p].now <= clock
    /\ probe[p].pc \in {"evaluated", "enqueued"} =>
          /\ probe[p].target = Day(tick[p].now)
          /\ tick[p].now <= probe[p].at /\ probe[p].at <= clock
          /\ probe[p].rule \in probe[p].todo
    /\ probe[p].pc = "enqueued" => probe[p].result = "hit"

\* The task run is committed, the log is not.
Unlogged(p, r, d) == probe[p].pc = "enqueued" /\ probe[p].rule = r /\ probe[p].target = d

\* The tick, of that day, has yet to deal with the rule.
Ahead(p, r, d) == /\ tick[p].pc # "idle"
                  /\ d = Day(tick[p].now)
                  /\ probe[p].pc = "off" \/ r \in probe[p].todo
                  /\ ~(probe[p].pc = "enqueued" /\ probe[p].rule = r)

\* A match is about to become a task run.
Hits(p, r, d) == /\ probe[p].pc = "evaluated" /\ probe[p].result = "hit"
                 /\ probe[p].rule = r /\ probe[p].target = d

WithinLimit == \A id \in Nat \ {0}, d \in Nat : CountRuns(id, d) <= MaxTriggers + deaths

MatchesKeepUp ==
    \A r \in rules, d \in Nat :
        r.id # 0 /\ Day(clock) <= d =>
            \/ CountRuns(r.id, d) <= CountMatches(r.id, d) + deaths
            \/ /\ CountRuns(r.id, d) <= CountMatches(r.id, d) + deaths + 1
               /\ \E p \in Schedulers : Unlogged(p, r, d)

AheadIsLogged ==
    \A p \in Schedulers, r \in rules, d \in Nat :
        r.id # 0 /\ Ahead(p, r, d) => CountRuns(r.id, d) <= CountMatches(r.id, d) + deaths

HitIsBelow ==
    \A p \in Schedulers, r \in rules, d \in Nat :
        r.id # 0 /\ Hits(p, r, d) => CountRuns(r.id, d) < MaxTriggers + deaths

CountInv == WithinLimit /\ MatchesKeepUp /\ AheadIsLogged /\ HitIsBelow

\* Days follow each other like times.
LEMMA DaysGrow ==
    ASSUME NEW s \in Nat, NEW t \in Nat, s <= t
    PROVE  Day(s) <= Day(t)
<1> DEFINE a == Day(s)
           b == Day(t)
<1>1. /\ a \in Nat /\ TimeOfDay(s) \in Nat /\ s = DayLength * a + TimeOfDay(s)
      /\ b \in Nat /\ TimeOfDay(t) < DayLength /\ t = DayLength * b + TimeOfDay(t)
      /\ TimeOfDay(t) \in Nat /\ DayLength \in Nat
    <2>1. DayLength \in Nat /\ DayLength > 0
        BY TimeAssumption
    <2>2. a \in Nat /\ TimeOfDay(s) \in 0 .. DayLength - 1 /\ s = DayLength * a + TimeOfDay(s)
        BY TimeIsInDay
    <2>3. b \in Nat /\ TimeOfDay(t) \in 0 .. DayLength - 1 /\ t = DayLength * b + TimeOfDay(t)
        BY TimeIsInDay
    <2> HIDE DEF a, b
    <2> QED BY <2>1, <2>2, <2>3
<1> HIDE DEF a, b
<1>2. ASSUME a > b PROVE FALSE
    <2>1. PICK k \in Nat : a = (b + 1) + k
        <3>1. a - (b + 1) \in Nat /\ a = (b + 1) + (a - (b + 1))
            BY <1>1, <1>2
        <3> QED BY <3>1
    <2>2. DayLength * a = DayLength * b + DayLength + DayLength * k
        BY <1>1, <2>1
    <2>3. DayLength * k \in Nat /\ DayLength * b \in Nat
        BY <1>1, <2>1
    <2> QED BY <1>1, <2>2, <2>3
<1>3. a <= b
    BY <1>1, <1>2
<1> QED BY <1>3 DEF a, b

\* The elements of a sequence that are counted.
LEMMA FiniteCount ==
    ASSUME NEW S, NEW s \in Seq(S), NEW T, T \subseteq DOMAIN s
    PROVE  IsFiniteSet(T) /\ Cardinality(T) \in Nat
<1>1. DOMAIN s = 1 .. Len(s) /\ Len(s) \in Nat
    OBVIOUS
<1>2. IsFiniteSet(DOMAIN s)
    BY <1>1, FS_Interval
<1> QED BY <1>2, FS_Subset, FS_CardinalityType

\* The counts are numbers.
LEMMA CountTypes ==
    ASSUME TypeInv, matches \in Seq(Nat \X Nat), NEW id, NEW d
    PROVE  CountRuns(id, d) \in Nat /\ CountMatches(id, d) \in Nat
<1>1. runs \in Seq(Runs)
    BY DEF TypeInv, TypeOK
<1>2. RunsFor(id, d) \subseteq DOMAIN runs /\ MatchesFor(id, d) \subseteq DOMAIN matches
    BY DEF RunsFor, MatchesFor
<1> QED BY <1>1, <1>2, FiniteCount DEF CountRuns, CountMatches

\* A new task run counts for one rule and day.
LEMMA RunCounted ==
    ASSUME TypeInv, NEW new \in Runs, runs' = Append(runs, new), NEW id, NEW d
    PROVE  CountRuns(id, d)' = IF new.rule = id /\ new.first = d THEN CountRuns(id, d) + 1
                               ELSE CountRuns(id, d)
<1>1. /\ Len(runs) + 1 \notin DOMAIN runs
      /\ DOMAIN runs' = DOMAIN runs \cup {Len(runs) + 1}
      /\ runs'[Len(runs) + 1] = new
      /\ \A i \in DOMAIN runs : runs'[i] = runs[i]
    BY AppendedRun
<1>2. IsFiniteSet(RunsFor(id, d))
    <2>1. runs \in Seq(Runs) /\ RunsFor(id, d) \subseteq DOMAIN runs
        BY DEF TypeInv, TypeOK, RunsFor
    <2> QED BY <2>1, FiniteCount
<1>3. CASE new.rule = id /\ new.first = d
    <2>1. RunsFor(id, d)' = RunsFor(id, d) \cup {Len(runs) + 1}
        BY <1>1, <1>3 DEF RunsFor
    <2>2. Len(runs) + 1 \notin RunsFor(id, d)
        BY <1>1 DEF RunsFor
    <2>3. Cardinality(RunsFor(id, d) \cup {Len(runs) + 1}) = Cardinality(RunsFor(id, d)) + 1
        BY <1>2, <2>2, FS_AddElement
    <2> QED BY <1>3, <2>1, <2>3 DEF CountRuns
<1>4. CASE ~(new.rule = id /\ new.first = d)
    <2>1. RunsFor(id, d)' = RunsFor(id, d)
        BY <1>1, <1>4 DEF RunsFor
    <2> QED BY <1>4, <2>1 DEF CountRuns
<1> QED BY <1>3, <1>4

\* A match that is logged counts for one rule and day.
LEMMA MatchCounted ==
    ASSUME matches \in Seq(Nat \X Nat), NEW a \in Nat, NEW b \in Nat,
           matches' = Append(matches, <<a, b>>), NEW id, NEW d
    PROVE  CountMatches(id, d)' = IF a = id /\ b = d THEN CountMatches(id, d) + 1
                                  ELSE CountMatches(id, d)
<1> DEFINE new == <<a, b>>
<1>0. new \in Nat \X Nat /\ (new = <<id, d>> <=> a = id /\ b = d)
    OBVIOUS
<1> HIDE DEF new
<1>1. /\ Len(matches) + 1 \notin DOMAIN matches
      /\ DOMAIN matches' = DOMAIN matches \cup {Len(matches) + 1}
      /\ matches'[Len(matches) + 1] = new
      /\ \A i \in DOMAIN matches : matches'[i] = matches[i]
    <2>1. matches' = Append(matches, new)
        BY DEF new
    <2>2. /\ Len(matches) \in Nat /\ DOMAIN matches = 1 .. Len(matches)
          /\ DOMAIN matches' = 1 .. Len(matches) + 1
          /\ matches'[Len(matches) + 1] = new
          /\ \A i \in DOMAIN matches : matches'[i] = matches[i]
        BY <1>0, <2>1, AppendProperties
    <2> QED BY <2>2
<1>2. IsFiniteSet(MatchesFor(id, d))
    <2>1. MatchesFor(id, d) \subseteq DOMAIN matches
        BY DEF MatchesFor
    <2> QED BY <2>1, FiniteCount
<1>3. CASE new = <<id, d>>
    <2>1. MatchesFor(id, d)' = MatchesFor(id, d) \cup {Len(matches) + 1}
        BY <1>1, <1>3 DEF MatchesFor
    <2>2. Len(matches) + 1 \notin MatchesFor(id, d)
        BY <1>1 DEF MatchesFor
    <2>3. Cardinality(MatchesFor(id, d) \cup {Len(matches) + 1}) = Cardinality(MatchesFor(id, d)) + 1
        BY <1>2, <2>2, FS_AddElement
    <2> QED BY <1>0, <1>3, <2>1, <2>3 DEF CountMatches
<1>4. CASE new # <<id, d>>
    <2>1. MatchesFor(id, d)' = MatchesFor(id, d)
        BY <1>1, <1>4 DEF MatchesFor
    <2> QED BY <1>0, <1>4, <2>1 DEF CountMatches
<1> QED BY <1>3, <1>4

\* Steps that count nothing: task runs of no rule, ticks that go on, end or die.
\* A rule may be ahead of a tick that begins, which happens on the day itself.
LEMMA CountStays ==
    ASSUME SchedulerInv, TypeInv', matches' = matches, CountInv,
           \A id \in Nat \ {0}, d \in Nat : CountRuns(id, d)' = CountRuns(id, d),
           clock <= clock',
           \A r \in rules' : r \in rules \/ \A d \in Nat : CountRuns(r.id, d)' = 0,
           \/ /\ deaths' = deaths
              /\ \A p \in Schedulers, r \in rules \cap rules', d \in Nat :
                    Unlogged(p, r, d) => Unlogged(p, r, d)'
           \/ deaths' = deaths + 1,
           \A p \in Schedulers, r \in rules \cap rules', d \in Nat :
              Ahead(p, r, d)' => \/ Ahead(p, r, d)
                                 \/ d = Day(clock) /\ \A s \in Schedulers : ~Unlogged(s, r, d),
           \A p \in Schedulers, r \in rules \cap rules', d \in Nat :
              r.id # 0 /\ Hits(p, r, d)' => \/ Hits(p, r, d)
                                            \/ CountRuns(r.id, d) < MaxTriggers + deaths
    PROVE  CountInv'
<1>1. /\ clock \in Nat /\ clock' \in Nat /\ deaths \in Nat /\ deaths' \in Nat
      /\ deaths <= deaths' /\ MaxTriggers \in Nat /\ MaxTriggers > 0
      /\ rules \subseteq Rules /\ rules' \subseteq Rules
      /\ Day(clock) \in Nat /\ Day(clock') \in Nat /\ Day(clock) <= Day(clock')
      /\ \A r \in Rules : r.id \in Nat
    <2>1. clock \in Nat /\ clock' \in Nat /\ deaths \in Nat /\ deaths' \in Nat
        BY TimeAssumption DEF SchedulerInv, TypeInv, TypeOK
    <2>2. rules \subseteq Rules /\ rules' \subseteq Rules
        BY DEF SchedulerInv, TypeInv, TypeOK
    <2>3. MaxTriggers \in Nat /\ MaxTriggers > 0
        BY ProbeAssumption
    <2> QED BY <2>1, <2>2, <2>3, DaysGrow, TimeIsInDay DEF Rules
<1>2. \A id, d : /\ CountRuns(id, d) \in Nat /\ CountMatches(id, d) \in Nat
                 /\ CountMatches(id, d)' = CountMatches(id, d)
    <2>1. \A id, d : CountRuns(id, d) \in Nat /\ CountMatches(id, d) \in Nat
        BY CountTypes DEF SchedulerInv, ProbeInv
    <2>2. \A id, d : CountMatches(id, d)' = CountMatches(id, d)
        BY DEF CountMatches, MatchesFor
    <2> QED BY <2>1, <2>2
<1>7. 0 < MaxTriggers + deaths'
    <2>1. \A m, n \in Nat : m > 0 => 0 < m + n
        OBVIOUS
    <2> QED BY <1>1, <2>1
<1>3. WithinLimit'
    BY <1>1, <1>2 DEF CountInv, WithinLimit
<1>4. MatchesKeepUp'
    <2> SUFFICES ASSUME NEW r \in rules', NEW d \in Nat, r.id # 0, Day(clock') <= d
                 PROVE  \/ CountRuns(r.id, d)' <= CountMatches(r.id, d)' + deaths'
                        \/ /\ CountRuns(r.id, d)' <= CountMatches(r.id, d)' + deaths' + 1
                           /\ \E p \in Schedulers : Unlogged(p, r, d)'
        BY DEF MatchesKeepUp
    <2>1. CASE r \in rules
        <3>1. r.id \in Nat /\ CountRuns(r.id, d)' = CountRuns(r.id, d)
            BY <1>1, <2>1
        <3>2. \/ CountRuns(r.id, d) <= CountMatches(r.id, d) + deaths
              \/ /\ CountRuns(r.id, d) <= CountMatches(r.id, d) + deaths + 1
                 /\ \E p \in Schedulers : Unlogged(p, r, d)
            BY <1>1, <2>1 DEF CountInv, MatchesKeepUp
        <3>3. CASE CountRuns(r.id, d) <= CountMatches(r.id, d) + deaths
            BY <1>1, <1>2, <3>1, <3>3
        <3>4. CASE deaths' = deaths + 1
            BY <1>1, <1>2, <3>1, <3>2, <3>4
        <3>5. CASE deaths' = deaths /\ ~(CountRuns(r.id, d) <= CountMatches(r.id, d) + deaths)
            <4>1. PICK p \in Schedulers : Unlogged(p, r, d)
                BY <3>2, <3>5
            <4>2. Unlogged(p, r, d)'
                BY <1>1, <2>1, <3>5, <4>1
            <4> QED BY <1>2, <3>1, <3>2, <3>5, <4>2
        <3> QED BY <3>3, <3>4, <3>5
    <2>2. CASE r \notin rules
        <3>1. CountRuns(r.id, d)' = 0
            BY <2>2
        <3> QED BY <1>1, <1>2, <3>1
    <2> QED BY <2>1, <2>2
<1>5. AheadIsLogged'
    <2> SUFFICES ASSUME NEW p \in Schedulers, NEW r \in rules', NEW d \in Nat,
                        r.id # 0, Ahead(p, r, d)'
                 PROVE  CountRuns(r.id, d)' <= CountMatches(r.id, d)' + deaths'
        BY DEF AheadIsLogged
    <2>1. CASE r \in rules
        <3>1. r.id \in Nat /\ CountRuns(r.id, d)' = CountRuns(r.id, d)
            BY <1>1, <2>1
        <3>2. CASE Ahead(p, r, d)
            <4>1. CountRuns(r.id, d) <= CountMatches(r.id, d) + deaths
                BY <2>1, <3>2 DEF CountInv, AheadIsLogged
            <4> QED BY <1>1, <1>2, <3>1, <4>1
        <3>3. CASE d = Day(clock) /\ \A s \in Schedulers : ~Unlogged(s, r, d)
            <4>1. CountRuns(r.id, d) <= CountMatches(r.id, d) + deaths
                BY <1>1, <2>1, <3>3 DEF CountInv, MatchesKeepUp
            <4> QED BY <1>1, <1>2, <3>1, <4>1
        <3> QED BY <2>1, <3>2, <3>3
    <2>2. CASE r \notin rules
        <3>1. CountRuns(r.id, d)' = 0
            BY <2>2
        <3> QED BY <1>1, <1>2, <3>1
    <2> QED BY <2>1, <2>2
<1>6. HitIsBelow'
    <2> SUFFICES ASSUME NEW p \in Schedulers, NEW r \in rules', NEW d \in Nat,
                        r.id # 0, Hits(p, r, d)'
                 PROVE  CountRuns(r.id, d)' < MaxTriggers + deaths'
        BY DEF HitIsBelow
    <2>1. CASE r \in rules
        <3>1. r.id \in Nat /\ CountRuns(r.id, d)' = CountRuns(r.id, d)
            BY <1>1, <2>1
        <3>2. CountRuns(r.id, d) < MaxTriggers + deaths
            BY <2>1 DEF CountInv, HitIsBelow
        <3> QED BY <1>1, <1>2, <3>1, <3>2
    <2>2. CASE r \notin rules
        <3>1. CountRuns(r.id, d)' = 0
            BY <2>2
        <3> QED BY <1>7, <3>1
    <2> QED BY <2>1, <2>2
<1> QED BY <1>3, <1>4, <1>5, <1>6 DEF CountInv

\* Task runs that name no rule are not counted.
LEMMA NoRuleCounted ==
    ASSUME TypeInv, OldRunsStay, \A i \in DOMAIN runs' \ DOMAIN runs : runs'[i].rule = 0,
           NEW id \in Nat \ {0}, NEW d
    PROVE  CountRuns(id, d)' = CountRuns(id, d)
<1>1. ASSUME NEW i PROVE i \in RunsFor(id, d)' <=> i \in RunsFor(id, d)
    <2>1. CASE i \in DOMAIN runs
        BY <2>1 DEF RunsFor, OldRunsStay
    <2>2. CASE i \in DOMAIN runs' \ DOMAIN runs
        BY <2>2 DEF RunsFor
    <2>3. CASE i \notin DOMAIN runs' /\ i \notin DOMAIN runs
        BY <2>3 DEF RunsFor
    <2> QED BY <2>1, <2>2, <2>3
<1>2. RunsFor(id, d)' = RunsFor(id, d)
    BY <1>1
<1> QED BY <1>2 DEF CountRuns

\* A step with due schedules takes place at the time of the tick.
LEMMA DueStepTimes ==
    ASSUME TypeInv, NEW p \in Schedulers, DueStep(p)
    PROVE  /\ clock' = clock /\ deaths' = deaths /\ rules' = rules /\ lastRule' = lastRule
           /\ tick[p].pc = "idle" => tick'[p].now = clock
           /\ tick[p].pc # "idle" => tick'[p].pc = "idle" \/ tick'[p].now = tick[p].now
<1>0. tick \in [Schedulers -> Ticks]
    BY DEF TypeInv, TypeOK
<1>1. CASE PlanStep(p)
    <2>1. /\ clock' = clock /\ deaths' = deaths /\ rules' = rules /\ lastRule' = lastRule
          /\ \E plan : tick' = [tick EXCEPT ![p].pc = "planned", ![p].plan = plan]
          /\ tick[p].pc = "locked"
        BY <1>1 DEF PlanStep, PlanSkippedFallback, PlanDataset, PlanSinceLastSuccess, PlanHeat,
                    PlanNoNews, PlanNews, Planned, HoldsKind, Holds, commandVars
    <2> QED BY <1>0, <2>1 DEF Ticks
<1>2. CASE CommitPlan(p)
    BY <1>0, <1>2 DEF CommitPlan, commandVars, Ticks
<1>3. CASE StartTick(p)
    BY <1>0, <1>3 DEF StartTick, commandVars, IdleTick
<1>4. CASE TakeDue(p)
    BY <1>0, <1>4 DEF TakeDue, commandVars, Ticks
<1>5. CASE EndDue(p)
    BY <1>0, <1>5 DEF EndDue, commandVars, IdleTick
<1>6. CASE RefusePolicy(p)
    BY <1>0, <1>6 DEF RefusePolicy, RolledBack, commandVars, IdleTick
<1> QED BY <1>1, <1>2, <1>3, <1>4, <1>5, <1>6 DEF DueStep

\* What requests, workers and the clock do to rules.
LEMMA WebRules ==
    ASSUME TypeInv, RulesKnown, WebAndWorkers
    PROVE  /\ clock <= clock' /\ deaths' = deaths /\ lastRule <= lastRule'
           /\ \A r \in rules' : r \in rules \/ r.id = lastRule + 1
           /\ RulesKnown'
<1>0. /\ lastRule \in Nat /\ clock \in Nat /\ rules \subseteq Rules
      /\ \A i \in DOMAIN runs : runs[i].rule \in Nat
      /\ \A r \in rules : r.id \in Nat
    <2>1. runs \in Seq(Runs) /\ \A i \in DOMAIN runs : runs[i] \in Runs
        BY DEF TypeInv, TypeOK
    <2> QED BY <2>1, TimeAssumption DEF TypeInv, TypeOK, Runs, Rules
<1>1. OldRunsStay /\ \A i \in DOMAIN runs' \ DOMAIN runs : runs'[i].rule = 0
    BY WebEffects
<1>2. ASSUME rules' = rules, lastRule' = lastRule PROVE RulesKnown'
    BY <1>0, <1>1, <1>2 DEF RulesKnown, OldRunsStay
<1>3. ASSUME NEW q \in Requests, CommitRequest(q)
      PROVE  /\ clock' = clock /\ deaths' = deaths /\ lastRule <= lastRule'
             /\ \A r \in rules' : r \in rules \/ r.id = lastRule + 1
             /\ RulesKnown'
    <2>1. /\ clock' = clock /\ deaths' = deaths /\ runs' = runs
          /\ \/ lastRule' = lastRule /\ rules' \subseteq rules
             \/ /\ lastRule' = lastRule + 1
                /\ rules' \subseteq rules \cup {[id |-> lastRule + 1, sched |-> request[q].sched]}
        BY <1>3 DEF CommitRequest
    <2>2. CASE lastRule' = lastRule /\ rules' \subseteq rules
        BY <1>0, <2>1, <2>2 DEF RulesKnown
    <2>3. CASE /\ lastRule' = lastRule + 1
               /\ rules' \subseteq rules \cup {[id |-> lastRule + 1, sched |-> request[q].sched]}
        <3> DEFINE new == [id |-> lastRule + 1, sched |-> request[q].sched]
        <3>1. new.id = lastRule + 1 /\ \A r \in rules' : r \in rules \/ r = new
            BY <2>3
        <3> HIDE DEF new
        <3>2. \A r, s \in rules' : r.id = s.id => r = s
            <4> SUFFICES ASSUME NEW r \in rules', NEW s \in rules', r.id = s.id PROVE r = s
                OBVIOUS
            <4>1. \A t \in rules : t.id # new.id
                BY <1>0, <3>1 DEF RulesKnown
            <4> QED BY <3>1, <4>1 DEF RulesKnown
        <3>3. \A r \in rules' : r.id <= lastRule'
            BY <1>0, <2>3, <3>1 DEF RulesKnown
        <3>4. \A i \in DOMAIN runs' : runs'[i].rule <= lastRule'
            BY <1>0, <2>1, <2>3 DEF RulesKnown
        <3>5. RulesKnown'
            BY <3>2, <3>3, <3>4 DEF RulesKnown
        <3>6. lastRule <= lastRule' /\ \A r \in rules' : r \in rules \/ r.id = lastRule + 1
            BY <1>0, <2>3, <3>1
        <3> QED BY <2>1, <3>5, <3>6
    <2> QED BY <2>1, <2>2, <2>3
<1>4. ASSUME NEW q \in Requests, RequestStep(q), ~CommitRequest(q)
      PROVE  clock' = clock /\ deaths' = deaths /\ rules' = rules /\ lastRule' = lastRule
    BY <1>4 DEF RequestStep, ReadRow, DeleteRules, FailRequest, SubmitNews, CommitNews, Retry
<1>5. CASE EnvironmentStep
    <2>1. clock <= clock' /\ deaths' = deaths /\ rules' = rules /\ lastRule' = lastRule
        <3>1. CASE PassTime
            BY <1>0, <3>1 DEF PassTime, commandVars
        <3>2. ASSUME NEW i, NEW status, WriteStatus(i, status)
              PROVE  clock' = clock /\ deaths' = deaths /\ rules' = rules /\ lastRule' = lastRule
            BY <3>2 DEF WriteStatus, commandVars
        <3>3. CASE ~PassTime
            <4>1. PICK i, status : WriteStatus(i, status)
                BY <1>5, <3>3 DEF EnvironmentStep, EndRun, RewriteRun
            <4> QED BY <1>0, <3>2, <4>1
        <3> QED BY <3>1, <3>3
    <2> QED BY <1>0, <1>2, <2>1
<1> QED BY <1>0, <1>2, <1>3, <1>4, <1>5 DEF WebAndWorkers

\* What a step with the rules leaves alone.
LEMMA ProbingLeaves ==
    ASSUME SchedulerInv, NEW p \in Schedulers, ProbingStep(p)
    PROVE  /\ clock' = clock /\ rules' = rules /\ lastRule' = lastRule /\ config' = config
           /\ \A r \in Schedulers : r # p => probe'[r] = probe[r] /\ tick'[r] = tick[r]
           /\ tick'[p] = tick[p] \/ tick'[p].pc = "idle"
           /\ ~Enqueue(p) => runs' = runs
           /\ ~LogResult(p) => matches' = matches
           /\ ~DieInTick(p) => deaths' = deaths
<1>0. tick \in [Schedulers -> Ticks] /\ probe \in [Schedulers -> Probes]
    BY DEF SchedulerInv, ProbeInv, TypeInv, TypeOK
<1>1. CASE LoadRules(p) \/ PassRule(p) \/ Evaluate(p) \/ EnqueueFails(p) \/ LogResult(p)
    <2>1. /\ scheduleVars' = scheduleVars
          /\ ~LogResult(p) => matches' = matches
        BY <1>1 DEF LoadRules, PassRule, Evaluate, EnqueueFails, LogResult
    <2>2. \A r \in Schedulers : r # p => probe'[r] = probe[r]
        <3>1. CASE LoadRules(p) \/ LogResult(p)
            BY <1>0, <3>1 DEF LoadRules, LogResult
        <3>2. CASE PassRule(p)
            BY <1>0, <3>2 DEF PassRule
        <3>3. CASE Evaluate(p)
            BY <1>0, <3>3 DEF Evaluate
        <3>4. CASE EnqueueFails(p)
            BY <1>0, <3>4 DEF EnqueueFails
        <3> QED BY <1>1, <3>1, <3>2, <3>3, <3>4
    <2>3. /\ clock' = clock /\ rules' = rules /\ lastRule' = lastRule /\ config' = config
          /\ tick' = tick /\ runs' = runs /\ deaths' = deaths
        BY <2>1 DEF scheduleVars, commandVars
    <2> QED BY <2>1, <2>2, <2>3
<1>2. CASE Enqueue(p)
    BY <1>0, <1>2 DEF Enqueue, CreateProbeRun, commandVars
<1>3. CASE FinishProbes(p) \/ LoseRule(p) \/ DieInTick(p)
    <2>1. /\ clock' = clock /\ rules' = rules /\ lastRule' = lastRule /\ config' = config
          /\ runs' = runs /\ matches' = matches /\ (~DieInTick(p) => deaths' = deaths)
          /\ tick' = [tick EXCEPT ![p] = IdleTick] /\ probe' = [probe EXCEPT ![p] = NoProbe]
        BY <1>3 DEF FinishProbes, LoseRule, DieInTick, EndTick, AbortProbes, Die, RolledBack, commandVars
    <2> QED BY <1>0, <2>1 DEF IdleTick
<1> QED BY <1>1, <1>2, <1>3 DEF ProbingStep, RuleStep


\* At first nothing is counted.
LEMMA LimitInit == SchedulerInit => RulesKnown /\ InOrder /\ CountInv
<1> SUFFICES ASSUME SchedulerInit PROVE RulesKnown /\ InOrder /\ CountInv
    OBVIOUS
<1>0. /\ runs = <<>> /\ matches = <<>> /\ deaths = 0
      /\ tick = [p \in Schedulers |-> IdleTick] /\ probe = [p \in Schedulers |-> NoProbe]
      /\ \A r \in rules : r.id \in Schedules /\ r = [id |-> r.id, sched |-> r.id]
      /\ \A s \in Schedules : s <= lastRule
    BY DEF SchedulerInit, Init
<1>1. RulesKnown
    <2>1. \A i \in DOMAIN runs : runs[i].rule <= lastRule
        BY <1>0
    <2>2. \A r, s \in rules : r.id = s.id => r = s
        BY <1>0
    <2> QED BY <1>0, <2>1, <2>2 DEF RulesKnown
<1>2. InOrder
    BY <1>0 DEF InOrder, IdleTick, NoProbe
<1>3. \A id, d : CountRuns(id, d) = 0 /\ CountMatches(id, d) = 0
    <2>1. \A id, d : RunsFor(id, d) = {} /\ MatchesFor(id, d) = {}
        BY <1>0 DEF RunsFor, MatchesFor
    <2> QED BY <2>1, FS_EmptySet DEF CountRuns, CountMatches
<1>4. MaxTriggers \in Nat /\ MaxTriggers > 0
    BY ProbeAssumption
<1>5. \A p \in Schedulers : \A r, d : ~Hits(p, r, d)
    BY <1>0 DEF Hits, NoProbe
<1> QED BY <1>0, <1>1, <1>2, <1>3, <1>4, <1>5
        DEF CountInv, WithinLimit, MatchesKeepUp, AheadIsLogged, HitIsBelow

\* One process ticks, if only one runs.
LEMMA OneTicks ==
    ASSUME SchedulerInv, OneProcess
    PROVE  /\ \A p, r \in config.processes : p = r
           /\ \A p, r \in Schedulers : tick[p].pc # "idle" /\ tick[r].pc # "idle" => p = r
           /\ \A p \in Schedulers : probe[p].pc # "off" => tick[p].pc # "idle"
<1>1. config.processes \subseteq Schedulers
    BY ConfigsAssumption DEF SchedulerInv, TypeInv, TypeOK
<1>2. IsFiniteSet(config.processes)
    BY <1>1, ProcessesAssumption, FS_Subset
<1>3. \E p : config.processes = {p}
    BY <1>2, FS_Singleton DEF OneProcess
<1> QED BY <1>3 DEF SchedulerInv, ProbeInv

\* The task run of a match.
LEMMA EnqueueEffects ==
    ASSUME SchedulerInv, NEW p \in Schedulers, Enqueue(p)
    PROVE  /\ probe[p].pc = "evaluated" /\ probe[p].result = "hit" /\ probe[p].rule \in rules
           /\ tick[p].pc = "probing" /\ tick' = tick /\ matches' = matches /\ deaths' = deaths
           /\ probe'[p] = [probe[p] EXCEPT !.pc = "enqueued"]
           /\ \E new \in Runs : /\ new.rule = probe[p].rule.id /\ new.first = probe[p].target
                                /\ runs' = Append(runs, new)
<1>0. TypeInv /\ probe \in [Schedulers -> Probes]
    BY DEF SchedulerInv, ProbeInv
<1> DEFINE rule == probe[p].rule
           new == TaskRun(rule.sched, "probe", None, probe[p].target, probe[p].target, rule.id, "open")
<1>1. /\ probe[p].pc = "evaluated" /\ probe[p].result = "hit" /\ rule \in rules
      /\ tick[p].pc = "probing" /\ tick' = tick /\ matches' = matches /\ deaths' = deaths
      /\ probe' = [probe EXCEPT ![p].pc = "enqueued"]
      /\ runs' = Append(runs, new)
    BY DEF Enqueue, CreateProbeRun
<1>2. new \in Runs /\ new.rule = rule.id /\ new.first = probe[p].target
    <2>1. probe[p].target \in Nat
        BY <1>0 DEF Probes
    <2>2. rule.sched \in Schedules /\ rule.id \in Nat
        BY <1>1 DEF SchedulerInv, TypeInv, TypeOK, Rules
    <2> QED BY <1>0, <2>1, <2>2, TaskRunTypes DEF TaskRun, Sources, MaybeTime, RunStatuses
<1> HIDE DEF new
<1> QED BY <1>0, <1>1, <1>2

\* Rules keep their ids apart, and task runs name rules there have been.
LEMMA RulesNext ==
    ASSUME SchedulerInv, RulesKnown, [SchedulerNext]_vars
    PROVE  RulesKnown'
<1>0. TypeInv
    BY DEF SchedulerInv
<1>1. ASSUME OldRunsStay, \A i \in DOMAIN runs' \ DOMAIN runs : runs'[i].rule <= lastRule,
             rules' = rules, lastRule' = lastRule
      PROVE  RulesKnown'
    BY <1>1 DEF RulesKnown, OldRunsStay
<1>2. ASSUME NEW p \in Schedulers, DueStep(p) PROVE RulesKnown'
    <2>1. lastRule \in Nat
        BY <1>0 DEF TypeInv, TypeOK
    <2>2. \A i \in DOMAIN runs' \ DOMAIN runs : runs'[i].rule <= lastRule
        BY <1>0, <1>2, <2>1, DueStepEffects
    <2> QED BY <1>0, <1>1, <1>2, <2>2, DueStepEffects, DueStepTimes
<1>3. CASE WebAndWorkers
    BY <1>0, <1>3, WebRules
<1>4. ASSUME NEW p \in Schedulers, ProbingStep(p) PROVE RulesKnown'
    <2>1. rules' = rules /\ lastRule' = lastRule
        BY <1>4, ProbingLeaves
    <2>2. CASE runs' = runs
        BY <1>1, <2>1, <2>2 DEF OldRunsStay
    <2>3. CASE Enqueue(p)
        <3>1. PICK new \in Runs : new.rule = probe[p].rule.id /\ runs' = Append(runs, new)
            BY <2>3, EnqueueEffects
        <3>2. new.rule <= lastRule
            BY <2>3, <3>1, EnqueueEffects DEF RulesKnown
        <3>3. OldRunsStay /\ \A i \in DOMAIN runs' \ DOMAIN runs : runs'[i].rule <= lastRule
            BY <1>0, <3>1, <3>2, AppendedRun
        <3> QED BY <1>1, <2>1, <3>3
    <2> QED BY <1>4, <2>2, <2>3, ProbingLeaves
<1>5. CASE UNCHANGED vars
    BY <1>1, <1>5 DEF vars, scheduleVars, commandVars, OldRunsStay
<1> QED BY <1>2, <1>3, <1>4, <1>5, SchedulerSteps

\* Ticks and probes stay in their order.
LEMMA OrderNext ==
    ASSUME SchedulerInv, InOrder, [SchedulerNext]_vars
    PROVE  InOrder'
<1>0. /\ TypeInv
      /\ tick \in [Schedulers -> Ticks] /\ probe \in [Schedulers -> Probes]
      /\ \A p \in Schedulers : probe[p].pc # "off" => tick[p].pc = "probing"
      /\ clock \in Nat /\ clock' \in Nat
      /\ \A p \in Schedulers : tick[p].now \in Nat /\ probe[p].at \in Nat
    <2>1. TypeInv /\ TypeInv'
        <3>1. [Next]_scheduleVars
            BY SchedulerStepIsStep
        <3> QED BY <3>1, TypesNext DEF SchedulerInv
    <2>2. clock \in Nat /\ clock' \in Nat
        BY <2>1, TimeAssumption DEF TypeInv, TypeOK
    <2>3. tick \in [Schedulers -> Ticks] /\ probe \in [Schedulers -> Probes]
        BY DEF SchedulerInv, ProbeInv, TypeInv, TypeOK
    <2> QED BY <2>1, <2>2, <2>3 DEF SchedulerInv, ProbeInv, Ticks, Probes
<1> DEFINE Fine(p) == /\ tick[p].pc # "idle" => tick[p].now <= clock
                      /\ probe[p].pc \in {"evaluated", "enqueued"} =>
                            /\ probe[p].target = Day(tick[p].now)
                            /\ tick[p].now <= probe[p].at /\ probe[p].at <= clock
                            /\ probe[p].rule \in probe[p].todo
                      /\ probe[p].pc = "enqueued" => probe[p].result = "hit"
<1>1. \A p \in Schedulers : Fine(p)
    BY DEF InOrder
<1>2. ASSUME NEW p \in Schedulers, probe'[p] = probe[p], tick'[p] = tick[p], clock <= clock'
      PROVE  Fine(p)'
    <2>1. Fine(p)
        BY <1>1
    <2>2. \A a, b, c \in Nat : a <= b /\ b <= c => a <= c
        OBVIOUS
    <2>3. Day(tick'[p].now) = Day(tick[p].now)
        BY <1>2
    <2> QED BY <1>0, <1>2, <2>1, <2>2, <2>3
<1>3. ASSUME NEW p \in Schedulers, probe'[p].pc \in {"off", "loop"},
             tick'[p].pc # "idle" => tick'[p].now <= clock'
      PROVE  Fine(p)'
    BY <1>3
<1>4. ASSUME \A p \in Schedulers : Fine(p)' PROVE InOrder'
    BY <1>4 DEF InOrder
<1>5. ASSUME NEW p \in Schedulers, DueStep(p), UNCHANGED probeVars PROVE InOrder'
    <2>1. probe' = probe /\ clock' = clock /\ probe[p].pc = "off"
        BY <1>0, <1>5, DueStepTimes, DueStepEffects DEF probeVars, Probes
    <2>2. \A r \in Schedulers : r # p => tick'[r] = tick[r]
        BY <1>0, <1>5, DueStepEffects
    <2>3. tick'[p].pc # "idle" => tick'[p].now <= clock'
        BY <1>0, <1>1, <1>5, <2>1, DueStepTimes
    <2>4. Fine(p)'
        BY <1>3, <2>1, <2>3
    <2>5. \A r \in Schedulers \ {p} : Fine(r)'
        BY <1>0, <1>2, <2>1, <2>2
    <2> HIDE DEF Fine
    <2> QED BY <1>4, <2>4, <2>5
<1>6. CASE WebAndWorkers
    <2>1. probe' = probe /\ tick' = tick
        BY <1>0, <1>6, WebEffects DEF probeVars
    <2>2. clock <= clock'
        <3>1. clock' = clock \/ clock' = clock + 1
            BY <1>6 DEF WebAndWorkers, RequestStep, EnvironmentStep, ReadRow, DeleteRules, CommitRequest,
                        FailRequest, SubmitNews, CommitNews, Retry, EndRun, RewriteRun,
                        WriteStatus, PassTime
        <3> QED BY <1>0, <3>1
    <2>3. \A p \in Schedulers : Fine(p)'
        BY <1>2, <2>1, <2>2
    <2> HIDE DEF Fine
    <2> QED BY <1>4, <2>3
<1>7. ASSUME NEW p \in Schedulers, ProbingStep(p) PROVE InOrder'
    <2>1. /\ clock' = clock
          /\ \A r \in Schedulers : r # p => probe'[r] = probe[r] /\ tick'[r] = tick[r]
          /\ tick'[p].pc # "idle" => tick'[p] = tick[p]
        BY <1>7, ProbingLeaves
    <2>2. \A r \in Schedulers \ {p} : Fine(r)'
        BY <1>0, <1>2, <2>1
    <2>3. tick'[p].pc # "idle" => tick'[p].now <= clock'
        BY <1>1, <2>1
    <2>4. ASSUME \/ LoadRules(p) \/ PassRule(p) \/ LogResult(p)
                 \/ FinishProbes(p) \/ LoseRule(p) \/ DieInTick(p)
          PROVE  Fine(p)'
        <3>1. probe'[p].pc \in {"off", "loop"}
            <4>1. CASE PassRule(p)
                BY <1>0, <4>1 DEF PassRule, Probes
            <4>2. CASE LoadRules(p) \/ LogResult(p)
                BY <1>0, <4>2 DEF LoadRules, LogResult, NoProbe
            <4>3. CASE FinishProbes(p) \/ LoseRule(p) \/ DieInTick(p)
                BY <1>0, <4>3 DEF FinishProbes, LoseRule, DieInTick, NoProbe
            <4> QED BY <2>4, <4>1, <4>2, <4>3
        <3> QED BY <1>3, <2>3, <3>1
    <2>5. ASSUME Evaluate(p) PROVE Fine(p)'
        <3>1. /\ probe'[p].pc = "evaluated" /\ probe'[p].at = clock
              /\ probe'[p].target = Day(tick[p].now) /\ probe'[p].rule \in probe'[p].todo
              /\ tick[p].pc = "probing" /\ tick' = tick
            BY <1>0, <2>5 DEF Evaluate, Probes, scheduleVars
        <3>2. tick[p].now <= clock
            BY <1>1, <3>1
        <3> QED BY <1>0, <2>1, <3>1, <3>2
    <2>6. ASSUME Enqueue(p) PROVE Fine(p)'
        <3>1. /\ probe[p].pc = "evaluated" /\ probe[p].result = "hit" /\ tick' = tick
              /\ probe'[p] = [probe[p] EXCEPT !.pc = "enqueued"]
            BY <2>6, EnqueueEffects
        <3>2. /\ probe'[p].rule = probe[p].rule /\ probe'[p].todo = probe[p].todo
              /\ probe'[p].at = probe[p].at /\ probe'[p].target = probe[p].target
              /\ probe'[p].result = "hit" /\ tick'[p] = tick[p]
            BY <1>0, <3>1 DEF Probes
        <3> QED BY <1>1, <2>1, <3>1, <3>2
    <2>7. ASSUME EnqueueFails(p) PROVE Fine(p)'
        <3>1. /\ probe[p].pc = "evaluated" /\ probe'[p].pc = "evaluated" /\ tick' = tick
              /\ probe'[p].rule = probe[p].rule /\ probe'[p].todo = probe[p].todo
              /\ probe'[p].at = probe[p].at /\ probe'[p].target = probe[p].target
            BY <1>0, <2>7 DEF EnqueueFails, Probes, scheduleVars
        <3> QED BY <1>1, <2>1, <3>1
    <2>8. Fine(p)'
        BY <1>7, <2>4, <2>5, <2>6, <2>7 DEF ProbingStep, RuleStep
    <2> HIDE DEF Fine
    <2> QED BY <1>4, <2>2, <2>8
<1>8. CASE UNCHANGED vars
    <2>1. probe' = probe /\ tick' = tick /\ clock' = clock
        BY <1>8 DEF vars, scheduleVars, probeVars
    <2>2. \A p \in Schedulers : Fine(p)'
        BY <1>0, <1>2, <2>1
    <2> HIDE DEF Fine
    <2> QED BY <1>4, <2>2
<1> QED BY <1>5, <1>6, <1>7, <1>8, SchedulerSteps

\* What every step leaves of the counts, and the types they need.
LEMMA CountFacts ==
    ASSUME SchedulerInv
    PROVE  /\ clock \in Nat /\ Day(clock) \in Nat /\ deaths \in Nat
           /\ MaxTriggers \in Nat /\ MaxTriggers > 0
           /\ rules \subseteq Rules /\ \A r \in Rules : r.id \in Nat
           /\ \A id, d : CountRuns(id, d) \in Nat /\ CountMatches(id, d) \in Nat
<1>1. clock \in Nat /\ deaths \in Nat /\ rules \subseteq Rules
    BY TimeAssumption DEF SchedulerInv, TypeInv, TypeOK
<1>2. \A id, d : CountRuns(id, d) \in Nat /\ CountMatches(id, d) \in Nat
    BY CountTypes DEF SchedulerInv, ProbeInv
<1> QED BY <1>1, <1>2, TimeIsInDay, ProbeAssumption DEF Rules

\* A step with due schedules: when the tick begins, nothing is left unlogged.
LEMMA DueCounts ==
    ASSUME SchedulerInv, SchedulerInv', OneProcess, CountInv,
           NEW p \in Schedulers, DueStep(p), UNCHANGED probeVars
    PROVE  CountInv'
<1>0. TypeInv /\ TypeInv' /\ clock \in Nat
    BY CountFacts DEF SchedulerInv
<1>1. /\ clock' = clock /\ deaths' = deaths /\ rules' = rules /\ probe' = probe /\ matches' = matches
      /\ OldRunsStay /\ \A i \in DOMAIN runs' \ DOMAIN runs : runs'[i].rule = 0
      /\ tick[p].pc = "idle" => tick'[p].now = clock
      /\ tick[p].pc # "idle" => tick'[p].pc = "idle" \/ tick'[p].now = tick[p].now
      /\ \A r \in Schedulers : r # p => tick'[r] = tick[r]
      /\ tick[p].pc = "idle" => p \in config.processes
    BY <1>0, DueStepTimes, DueStepEffects DEF probeVars
<1>2. \A id \in Nat \ {0}, d \in Nat : CountRuns(id, d)' = CountRuns(id, d)
    BY <1>0, <1>1, NoRuleCounted
<1>3. ASSUME NEW s \in Schedulers, NEW r \in rules \cap rules', NEW d \in Nat, Ahead(s, r, d)'
      PROVE  Ahead(s, r, d) \/ (d = Day(clock) /\ \A u \in Schedulers : ~Unlogged(u, r, d))
    <2>1. CASE s # p
        BY <1>1, <1>3, <2>1 DEF Ahead
    <2>2. CASE s = p /\ tick[p].pc # "idle"
        BY <1>1, <1>3, <2>2 DEF Ahead
    <2>3. CASE s = p /\ tick[p].pc = "idle"
        <3>1. d = Day(clock)
            BY <1>1, <1>3, <2>3 DEF Ahead
        <3>2. ASSUME NEW u \in Schedulers, probe[u].pc # "off" PROVE FALSE
            <4>1. tick[u].pc = "probing" /\ u \in config.processes
                BY <3>2 DEF SchedulerInv, ProbeInv
            <4>2. u = p
                BY <1>1, <2>3, <4>1, OneTicks
            <4> QED BY <2>3, <4>1, <4>2
        <3> QED BY <3>1, <3>2 DEF Unlogged
    <2> QED BY <2>1, <2>2, <2>3
<1>4. /\ \A s \in Schedulers, r \in rules \cap rules', d \in Nat : Unlogged(s, r, d) => Unlogged(s, r, d)'
      /\ \A s \in Schedulers, r \in rules \cap rules', d \in Nat : Hits(s, r, d)' => Hits(s, r, d)
    BY <1>1 DEF Unlogged, Hits
<1> QED BY <1>0, <1>1, <1>2, <1>3, <1>4, CountStays

\* A step of a request, a worker or the clock: a new rule has no task runs.
LEMMA WebCounts ==
    ASSUME SchedulerInv, SchedulerInv', RulesKnown, CountInv, WebAndWorkers
    PROVE  CountInv'
<1>0. TypeInv /\ TypeInv' /\ lastRule \in Nat
    BY DEF SchedulerInv, TypeInv, TypeOK
<1>1. /\ tick' = tick /\ probe' = probe /\ matches' = matches
      /\ OldRunsStay /\ \A i \in DOMAIN runs' \ DOMAIN runs : runs'[i].rule = 0
      /\ clock <= clock' /\ deaths' = deaths
      /\ \A r \in rules' : r \in rules \/ r.id = lastRule + 1
    BY <1>0, WebEffects, WebRules DEF probeVars
<1>2. \A id \in Nat \ {0}, d \in Nat : CountRuns(id, d)' = CountRuns(id, d)
    BY <1>0, <1>1, NoRuleCounted
<1>3. ASSUME NEW id, id = lastRule + 1, NEW d \in Nat PROVE CountRuns(id, d)' = 0
    <2>1. RunsFor(id, d) = {}
        <3>1. \A i \in DOMAIN runs : runs[i].rule \in Nat /\ runs[i].rule <= lastRule
            <4>1. runs \in Seq(Runs)
                BY <1>0 DEF TypeInv, TypeOK
            <4>2. \A i \in DOMAIN runs : runs[i] \in Runs
                BY <4>1
            <4> QED BY <4>2 DEF RulesKnown, Runs
        <3> QED BY <1>0, <1>3, <3>1 DEF RunsFor
    <2>2. CountRuns(id, d) = 0
        BY <2>1, FS_EmptySet DEF CountRuns
    <2>3. id \in Nat \ {0}
        BY <1>0, <1>3
    <2> QED BY <1>2, <2>2, <2>3
<1>4. /\ \A s \in Schedulers, r \in rules \cap rules', d \in Nat : Unlogged(s, r, d) => Unlogged(s, r, d)'
      /\ \A s \in Schedulers, r \in rules \cap rules', d \in Nat : Hits(s, r, d)' => Hits(s, r, d)
      /\ \A s \in Schedulers, r \in rules \cap rules', d \in Nat : Ahead(s, r, d)' => Ahead(s, r, d)
    BY <1>1 DEF Unlogged, Hits, Ahead
<1>5. \A r \in rules' : r \in rules \/ \A d \in Nat : CountRuns(r.id, d)' = 0
    BY <1>1, <1>3
<1> QED BY <1>0, <1>1, <1>2, <1>4, <1>5, CountStays

\* A step with the rules that leaves neither a task run nor a match: a rule
\* that becomes a hit has matches, and so task runs, below its limit.
LEMMA QuietCounts ==
    ASSUME SchedulerInv, SchedulerInv', InOrder, OneProcess, CountInv,
           NEW p \in Schedulers, ProbingStep(p), runs' = runs, matches' = matches
    PROVE  CountInv'
<1>0. /\ tick \in [Schedulers -> Ticks] /\ probe \in [Schedulers -> Probes]
      /\ \A s \in Schedulers : probe[s].pc # "off" => tick[s].pc = "probing"
      /\ rules \subseteq Rules /\ clock \in Nat
    BY CountFacts DEF SchedulerInv, ProbeInv, TypeInv, TypeOK
<1>1. /\ clock' = clock /\ rules' = rules
      /\ \A s \in Schedulers : s # p => probe'[s] = probe[s] /\ tick'[s] = tick[s]
      /\ tick'[p] = tick[p] \/ tick'[p].pc = "idle"
      /\ ~DieInTick(p) => deaths' = deaths
    BY ProbingLeaves
<1>2. \A id \in Nat \ {0}, d \in Nat : CountRuns(id, d)' = CountRuns(id, d)
    BY DEF CountRuns, RunsFor
<1>3. ASSUME probe'[p].pc # "enqueued",
             probe[p].pc = "enqueued" => probe[p].rule \notin rules \/ DieInTick(p),
             tick'[p].pc # "idle" => /\ tick[p].pc # "idle" /\ probe'[p].pc # "off"
                                     /\ \/ probe[p].pc = "off"
                                        \/ /\ probe'[p].todo \subseteq probe[p].todo
                                           /\ probe[p].pc # "enqueued",
             \A r \in rules, d \in Nat : r.id # 0 /\ Hits(p, r, d)' =>
                Hits(p, r, d) \/ CountRuns(r.id, d) < MaxTriggers + deaths
      PROVE  CountInv'
    <2>1. \A s \in Schedulers, r \in rules, d \in Nat : Ahead(s, r, d)' => Ahead(s, r, d)
        <3> SUFFICES ASSUME NEW s \in Schedulers, NEW r \in rules, NEW d \in Nat, Ahead(s, r, d)'
                     PROVE  Ahead(s, r, d)
            OBVIOUS
        <3>1. CASE s # p
            BY <1>1, <3>1 DEF Ahead
        <3>2. CASE s = p
            <4>1. tick'[p].pc # "idle" /\ tick'[p] = tick[p] /\ d = Day(tick[p].now)
                BY <1>1, <3>2 DEF Ahead
            <4>2. r \in probe'[p].todo /\ (probe[p].pc = "off" \/ r \in probe[p].todo)
                BY <1>3, <3>2, <4>1 DEF Ahead
            <4>3. probe[p].pc # "enqueued"
                BY <1>3, <4>1
            <4> QED BY <3>2, <4>1, <4>2, <4>3 DEF Ahead
        <3> QED BY <3>1, <3>2
    <2>2. \A s \in Schedulers, r \in rules, d \in Nat :
             r.id # 0 /\ Hits(s, r, d)' => Hits(s, r, d) \/ CountRuns(r.id, d) < MaxTriggers + deaths
        BY <1>1, <1>3 DEF Hits
    <2>3. ~DieInTick(p) => \A s \in Schedulers, r \in rules, d \in Nat :
                              Unlogged(s, r, d) => Unlogged(s, r, d)'
        BY <1>1, <1>3 DEF Unlogged
    <2>4. DieInTick(p) => deaths' = deaths + 1
        BY DEF DieInTick, Die
    <2>5. TypeInv'
        BY DEF SchedulerInv
    <2>6. clock <= clock'
        BY <1>0, <1>1
    <2> QED BY <1>1, <1>2, <2>1, <2>2, <2>3, <2>4, <2>5, <2>6, CountStays
<1>4. CASE LoadRules(p)
    <2>1. probe[p].pc = "off" /\ probe'[p].pc = "loop" /\ tick[p].pc = "probing"
        BY <1>0, <1>4 DEF LoadRules, NoProbe
    <2> QED BY <1>3, <2>1 DEF Hits
<1>5. CASE PassRule(p)
    <2>1. /\ probe[p].pc = "loop" /\ probe'[p].pc = "loop" /\ tick[p].pc = "probing"
          /\ probe'[p].todo \subseteq probe[p].todo
        BY <1>0, <1>5 DEF PassRule, Probes
    <2> QED BY <1>3, <2>1 DEF Hits
<1>6. CASE EnqueueFails(p)
    <2>1. /\ probe[p].pc = "evaluated" /\ probe'[p].pc = "evaluated" /\ tick[p].pc = "probing"
          /\ probe'[p].todo = probe[p].todo /\ probe'[p].result = "unqueued"
        BY <1>0, <1>6 DEF EnqueueFails, Probes
    <2> QED BY <1>3, <2>1 DEF Hits
<1>7. CASE LogResult(p)
    <2>1. /\ probe[p].pc \in {"evaluated", "enqueued"} /\ probe'[p].pc = "loop" /\ tick[p].pc = "probing"
          /\ probe'[p].todo \subseteq probe[p].todo
        BY <1>0, <1>7 DEF LogResult, NoProbe
    <2>2. probe[p].pc # "enqueued"
        <3>1. probe[p].pc = "enqueued" => probe[p].result = "hit"
            BY DEF InOrder
        <3>2. matches \in Seq(Nat \X Nat) /\ probe[p].at \in Nat
            BY <1>0 DEF SchedulerInv, ProbeInv, Probes
        <3>3. probe[p].rule.id \in Nat /\ Day(probe[p].at) \in Nat
            <4>1. probe[p].rule \in Rules
                BY <2>1 DEF SchedulerInv, ProbeInv
            <4> QED BY <3>2, <4>1, TimeIsInDay DEF Rules
        <3> DEFINE new == <<probe[p].rule.id, Day(probe[p].at)>>
        <3>4. new \in Nat \X Nat
            BY <3>3
        <3>5. probe[p].result = "hit" => matches' = Append(matches, new)
            BY <1>7 DEF LogResult
        <3> HIDE DEF new
        <3>6. Append(matches, new) # matches
            <4>1. Len(Append(matches, new)) = Len(matches) + 1 /\ Len(matches) \in Nat
                BY <3>2, <3>4
            <4> QED BY <4>1
        <3> QED BY <3>1, <3>5, <3>6
    <2> QED BY <1>3, <2>1, <2>2 DEF Hits
<1>8. CASE FinishProbes(p) \/ LoseRule(p) \/ DieInTick(p)
    <2>1. tick'[p].pc = "idle" /\ probe'[p].pc = "off"
        BY <1>0, <1>8 DEF FinishProbes, LoseRule, DieInTick, EndTick, AbortProbes, Die, RolledBack,
                          IdleTick, NoProbe
    <2>2. probe[p].pc = "enqueued" => probe[p].rule \notin rules \/ DieInTick(p)
        BY <1>8 DEF FinishProbes, LoseRule
    <2> QED BY <1>3, <2>1, <2>2 DEF Hits
<1>9. CASE Evaluate(p)
    <2>1. PICK r \in probe[p].todo :
             /\ ShouldProbe(p, r)
             /\ probe[p].pc = "loop" /\ probe'[p].pc = "evaluated" /\ tick[p].pc = "probing"
             /\ probe'[p].todo = probe[p].todo
             /\ probe'[p].rule = r /\ probe'[p].target = Day(tick[p].now)
        BY <1>0, <1>9 DEF Evaluate, Probes
    <2>2. ASSUME NEW x \in rules, NEW d \in Nat, x.id # 0, Hits(p, x, d)'
          PROVE  CountRuns(x.id, d) < MaxTriggers + deaths
        <3>1. x = r /\ d = Day(tick[p].now)
            BY <2>1, <2>2 DEF Hits
        <3>2. CountMatches(x.id, d) < MaxTriggers
            BY <2>1, <3>1 DEF ShouldProbe, MatchesToday, CountMatches, MatchesFor
        <3>3. Ahead(p, x, d)
            BY <2>1, <3>1 DEF Ahead
        <3>4. CountRuns(x.id, d) <= CountMatches(x.id, d) + deaths
            BY <2>2, <3>3 DEF CountInv, AheadIsLogged
        <3>5. \A a, b, c, e \in Nat : a <= b + e /\ b < c => a < c + e
            OBVIOUS
        <3> QED BY <3>2, <3>4, <3>5, CountFacts
    <2> QED BY <1>3, <2>1, <2>2
<1>10. CASE Enqueue(p)
    <2>1. PICK new \in Runs : runs' = Append(runs, new)
        BY <1>10, EnqueueEffects
    <2>2. Len(runs') = Len(runs) + 1 /\ Len(runs) \in Nat
        BY <2>1, AppendedRun DEF SchedulerInv
    <2> QED BY <2>2
<1> QED BY <1>4, <1>5, <1>6, <1>7, <1>8, <1>9, <1>10 DEF ProbingStep, RuleStep

\* A task run for a match, which was below the limit and had nothing unlogged.
LEMMA EnqueueCounts ==
    ASSUME SchedulerInv, RulesKnown, InOrder, OneProcess, CountInv, NEW p \in Schedulers, Enqueue(p)
    PROVE  CountInv'
<1> DEFINE rule == probe[p].rule
           target == probe[p].target
<1>0. /\ TypeInv /\ rule \in rules /\ rule.id \in Nat /\ target \in Nat
      /\ clock \in Nat /\ Day(clock) \in Nat /\ deaths \in Nat /\ MaxTriggers \in Nat /\ rules \subseteq Rules
      /\ \A id, d : CountRuns(id, d) \in Nat /\ CountMatches(id, d) \in Nat
      /\ \A r \in rules : r.id \in Nat
    <2>1. rule \in rules
        BY EnqueueEffects
    <2>2. target \in Nat
        BY DEF SchedulerInv, ProbeInv, Probes
    <2> QED BY <2>1, <2>2, CountFacts DEF SchedulerInv
<1>1. /\ probe[p].pc = "evaluated" /\ probe[p].result = "hit" /\ rule \in rules
      /\ tick[p].pc = "probing" /\ tick' = tick /\ matches' = matches /\ deaths' = deaths
      /\ probe'[p].pc = "enqueued" /\ probe'[p].rule = rule /\ probe'[p].target = target
      /\ probe'[p].todo = probe[p].todo
      /\ clock' = clock /\ rules' = rules
      /\ \A r \in Schedulers : r # p => probe'[r] = probe[r]
      /\ target = Day(tick[p].now) /\ rule \in probe[p].todo
    <2>1. probe[p] \in Probes
        BY DEF SchedulerInv, ProbeInv
    <2>2. ProbingStep(p)
        BY DEF ProbingStep, RuleStep
    <2>3. /\ probe[p].pc = "evaluated" /\ probe[p].result = "hit"
          /\ tick[p].pc = "probing" /\ tick' = tick /\ matches' = matches
          /\ deaths' = deaths
          /\ probe'[p] = [probe[p] EXCEPT !.pc = "enqueued"]
        BY EnqueueEffects
    <2>4. /\ probe'[p].pc = "enqueued" /\ probe'[p].rule = rule /\ probe'[p].target = target
          /\ probe'[p].todo = probe[p].todo
        BY <2>1, <2>3 DEF Probes
    <2>5. /\ clock' = clock /\ rules' = rules
          /\ \A r \in Schedulers : r # p => probe'[r] = probe[r]
        BY <2>2, ProbingLeaves
    <2>6. target = Day(tick[p].now) /\ rule \in probe[p].todo
        BY <2>3 DEF InOrder
    <2> QED BY <1>0, <2>3, <2>4, <2>5, <2>6
<1>2. \A id, d : CountRuns(id, d)' = IF id = rule.id /\ d = target THEN CountRuns(id, d) + 1
                                     ELSE CountRuns(id, d)
    <2>1. PICK new \in Runs : new.rule = rule.id /\ new.first = target /\ runs' = Append(runs, new)
        BY EnqueueEffects
    <2> QED BY <1>0, <2>1, RunCounted
<1>3. \A id, d : CountMatches(id, d)' = CountMatches(id, d)
    BY <1>1 DEF CountMatches, MatchesFor
<1>4. \A r \in Schedulers : r # p => tick[r].pc = "idle" /\ probe[r].pc = "off"
    BY <1>1, OneTicks
<1>5. rule.id # 0 => /\ CountRuns(rule.id, target) < MaxTriggers + deaths
                     /\ CountRuns(rule.id, target) <= CountMatches(rule.id, target) + deaths
    <2>1. Hits(p, rule, target) /\ Ahead(p, rule, target)
        BY <1>1 DEF Hits, Ahead
    <2> QED BY <1>0, <2>1 DEF CountInv, HitIsBelow, AheadIsLogged
<1>6. \A r \in rules : r # rule => r.id # rule.id
    BY <1>0 DEF RulesKnown
<1>11. \A a, b, c \in Nat : /\ a < b + c => a + 1 <= b + c
                            /\ a <= b + c => a + 1 <= b + c + 1
    OBVIOUS
<1> HIDE DEF rule, target
<1>7. WithinLimit'
    <2> SUFFICES ASSUME NEW id \in Nat \ {0}, NEW d \in Nat
                 PROVE  CountRuns(id, d)' <= MaxTriggers + deaths
        BY <1>1 DEF WithinLimit
    <2>1. CASE id = rule.id /\ d = target
        BY <1>0, <1>2, <1>5, <1>11, <2>1
    <2>2. CASE ~(id = rule.id /\ d = target)
        BY <1>2, <2>2 DEF CountInv, WithinLimit
    <2> QED BY <2>1, <2>2
<1>8. MatchesKeepUp'
    <2> SUFFICES ASSUME NEW r \in rules, NEW d \in Nat, r.id # 0, Day(clock) <= d
                 PROVE  \/ CountRuns(r.id, d)' <= CountMatches(r.id, d) + deaths
                        \/ /\ CountRuns(r.id, d)' <= CountMatches(r.id, d) + deaths + 1
                           /\ \E s \in Schedulers : Unlogged(s, r, d)'
        BY <1>1, <1>3 DEF MatchesKeepUp
    <2>1. CASE r = rule /\ d = target
        <3>1. Unlogged(p, r, d)'
            BY <1>1, <2>1 DEF Unlogged
        <3> QED BY <1>0, <1>2, <1>5, <1>11, <2>1, <3>1
    <2>2. CASE ~(r = rule /\ d = target)
        <3>1. CountRuns(r.id, d)' = CountRuns(r.id, d)
            BY <1>2, <1>6, <2>2
        <3>2. \A s \in Schedulers : ~Unlogged(s, r, d)
            BY <1>1, <1>4 DEF Unlogged
        <3> QED BY <3>1, <3>2 DEF CountInv, MatchesKeepUp
    <2> QED BY <2>1, <2>2
<1>9. AheadIsLogged'
    <2> SUFFICES ASSUME NEW s \in Schedulers, NEW r \in rules, NEW d \in Nat, r.id # 0, Ahead(s, r, d)'
                 PROVE  CountRuns(r.id, d)' <= CountMatches(r.id, d) + deaths
        BY <1>1, <1>3 DEF AheadIsLogged
    <2>1. s = p /\ r # rule /\ Ahead(p, r, d)
        BY <1>1, <1>4 DEF Ahead
    <2>2. CountRuns(r.id, d)' = CountRuns(r.id, d)
        BY <1>2, <1>6, <2>1
    <2> QED BY <2>1, <2>2 DEF CountInv, AheadIsLogged
<1>10. HitIsBelow'
    <2>1. \A s \in Schedulers : probe'[s].pc # "evaluated"
        BY <1>1, <1>4
    <2> QED BY <2>1 DEF HitIsBelow, Hits
<1> QED BY <1>7, <1>8, <1>9, <1>10 DEF CountInv

\* A match is logged.  The day it is logged for is the target of the task run,
\* unless that day is over.
LEMMA LogCounts ==
    ASSUME SchedulerInv, RulesKnown, InOrder, OneProcess, CountInv, NEW p \in Schedulers, LogResult(p),
           matches' # matches
    PROVE  CountInv'
<1> DEFINE rule == probe[p].rule
           at == probe[p].at
           target == probe[p].target
<1>0. /\ rule \in Rules /\ rule.id \in Nat /\ at \in Nat /\ target \in Nat /\ Day(at) \in Nat
      /\ tick[p].now \in Nat /\ matches \in Seq(Nat \X Nat) /\ TypeInv
      /\ clock \in Nat /\ Day(clock) \in Nat /\ deaths \in Nat /\ MaxTriggers \in Nat /\ rules \subseteq Rules
      /\ \A id, d : CountRuns(id, d) \in Nat /\ CountMatches(id, d) \in Nat
      /\ \A r \in rules : r.id \in Nat
    <2>1. probe[p].pc \in {"evaluated", "enqueued"}
        BY DEF LogResult
    <2>2. rule \in Rules
        BY <2>1 DEF SchedulerInv, ProbeInv
    <2>3. probe[p] \in Probes /\ tick[p] \in Ticks
        BY DEF SchedulerInv, ProbeInv, TypeInv, TypeOK
    <2>4. at \in Nat /\ target \in Nat /\ tick[p].now \in Nat
        BY <2>3 DEF Probes, Ticks
    <2>5. matches \in Seq(Nat \X Nat) /\ TypeInv
        BY DEF SchedulerInv, ProbeInv
    <2> QED BY <2>2, <2>4, <2>5, CountFacts, TimeIsInDay DEF Rules
<1>1. /\ matches' = Append(matches, <<rule.id, Day(at)>>)
      /\ probe'[p].pc = "loop" /\ probe'[p].todo = probe[p].todo \ {rule}
      /\ runs' = runs /\ tick' = tick /\ clock' = clock /\ rules' = rules /\ deaths' = deaths
      /\ probe[p].pc \in {"evaluated", "enqueued"}
      /\ target = Day(tick[p].now) /\ tick[p].now <= at /\ at <= clock
      /\ tick[p].pc # "idle" /\ rule \in probe[p].todo
      /\ \A r \in Schedulers : r # p => probe'[r] = probe[r]
    <2>1. ProbingStep(p) /\ ~Enqueue(p) /\ ~DieInTick(p)
        <3>1. deaths' = deaths
            BY DEF LogResult, scheduleVars
        <3>2. ProbingStep(p)
            BY DEF ProbingStep, RuleStep
        <3>3. ~DieInTick(p)
            BY <1>0, <3>1 DEF DieInTick, Die
        <3>4. ~Enqueue(p)
            BY DEF Enqueue
        <3> QED BY <3>2, <3>3, <3>4
    <2>2. /\ probe[p].pc \in {"evaluated", "enqueued"}
          /\ matches' = Append(matches, <<rule.id, Day(at)>>)
        BY DEF LogResult
    <2>3. probe'[p].pc = "loop" /\ probe'[p].todo = probe[p].todo \ {rule}
        BY DEF LogResult, NoProbe, SchedulerInv, ProbeInv
    <2>4. tick' = tick
        BY DEF LogResult, scheduleVars
    <2>5. tick[p].pc # "idle"
        BY <2>2 DEF SchedulerInv, ProbeInv
    <2> QED BY <2>1, <2>2, <2>3, <2>4, <2>5, ProbingLeaves DEF InOrder
<1>2. \A id, d : CountMatches(id, d)' = IF rule.id = id /\ Day(at) = d THEN CountMatches(id, d) + 1
                                        ELSE CountMatches(id, d)
    <2> DEFINE a == rule.id
               b == Day(at)
    <2>1. a \in Nat /\ b \in Nat /\ matches \in Seq(Nat \X Nat) /\ matches' = Append(matches, <<a, b>>)
        BY <1>0, <1>1
    <2> HIDE DEF a, b
    <2>2. \A id, d : CountMatches(id, d)' = IF a = id /\ b = d THEN CountMatches(id, d) + 1
                                            ELSE CountMatches(id, d)
        BY <2>1, MatchCounted
    <2> QED BY <2>2 DEF a, b
<1>3. \A id, d : CountRuns(id, d)' = CountRuns(id, d)
    BY <1>1 DEF CountRuns, RunsFor
<1>4. \A r \in Schedulers : r # p => tick[r].pc = "idle" /\ probe[r].pc = "off"
    BY <1>1, OneTicks
<1>5. target <= Day(at) /\ Day(at) <= Day(clock)
    BY <1>0, <1>1, DaysGrow
<1>6. \A id, d : CountMatches(id, d)' \in Nat /\ CountMatches(id, d) <= CountMatches(id, d)'
    BY <1>0, <1>2
<1>12. \A a, b, c, e \in Nat : a <= b + e /\ b <= c => a <= c + e
    OBVIOUS
<1> HIDE DEF rule, at, target
<1>7. WithinLimit'
    BY <1>1, <1>3 DEF CountInv, WithinLimit
<1>8. MatchesKeepUp'
    <2> SUFFICES ASSUME NEW r \in rules, NEW d \in Nat, r.id # 0, Day(clock) <= d
                 PROVE  CountRuns(r.id, d) <= CountMatches(r.id, d)' + deaths
        BY <1>1, <1>3 DEF MatchesKeepUp
    <2>1. CASE CountRuns(r.id, d) <= CountMatches(r.id, d) + deaths
        BY <1>0, <1>6, <1>12, <2>1
    <2>2. CASE ~(CountRuns(r.id, d) <= CountMatches(r.id, d) + deaths)
        <3>1. /\ CountRuns(r.id, d) <= CountMatches(r.id, d) + deaths + 1
              /\ \E s \in Schedulers : Unlogged(s, r, d)
            BY <2>2 DEF CountInv, MatchesKeepUp
        <3>2. r = rule /\ d = target
            BY <1>4, <3>1 DEF Unlogged, rule, target
        <3>3. Day(at) = d
            BY <1>0, <1>5, <3>2
        <3>4. CountMatches(r.id, d)' = CountMatches(r.id, d) + 1
            BY <1>2, <3>2, <3>3
        <3>5. \A a, b, c \in Nat : a <= b + c + 1 => a <= b + 1 + c
            OBVIOUS
        <3> QED BY <1>0, <3>1, <3>4, <3>5
    <2> QED BY <2>1, <2>2
<1>9. AheadIsLogged'
    <2> SUFFICES ASSUME NEW s \in Schedulers, NEW r \in rules, NEW d \in Nat, r.id # 0, Ahead(s, r, d)'
                 PROVE  CountRuns(r.id, d) <= CountMatches(r.id, d)' + deaths
        BY <1>1, <1>3 DEF AheadIsLogged
    <2>1. s = p /\ r # rule /\ Ahead(p, r, d)
        BY <1>1, <1>4 DEF Ahead, rule
    <2>2. CountRuns(r.id, d) <= CountMatches(r.id, d) + deaths
        BY <2>1 DEF CountInv, AheadIsLogged
    <2> QED BY <1>0, <1>6, <1>12, <2>2
<1>10. HitIsBelow'
    <2>1. \A s \in Schedulers : probe'[s].pc # "evaluated"
        BY <1>1, <1>4
    <2> QED BY <2>1 DEF HitIsBelow, Hits
<1> QED BY <1>7, <1>8, <1>9, <1>10 DEF CountInv

LimitInv == RulesKnown /\ InOrder /\ (OneProcess => CountInv)

\* Every step keeps the counts.
LEMMA LimitNext == SchedulerInv /\ LimitInv /\ [SchedulerNext]_vars => LimitInv'
<1> SUFFICES ASSUME SchedulerInv, LimitInv, [SchedulerNext]_vars PROVE LimitInv'
    OBVIOUS
<1>1. RulesKnown' /\ InOrder'
    BY RulesNext, OrderNext DEF LimitInv
<1>2. SchedulerInv'
    BY ProbeNext
<1>3. config' = config
    BY SchedulerStepIsStep, StepKinds DEF SchedulerInv
<1>4. ASSUME OneProcess PROVE CountInv'
    <2>0. CountInv /\ RulesKnown /\ InOrder
        BY <1>4 DEF LimitInv
    <2>1. ASSUME NEW p \in Schedulers, DueStep(p), UNCHANGED probeVars PROVE CountInv'
        BY <1>2, <1>4, <2>0, <2>1, DueCounts
    <2>2. CASE WebAndWorkers
        BY <1>2, <2>0, <2>2, WebCounts
    <2>3. ASSUME NEW p \in Schedulers, ProbingStep(p) PROVE CountInv'
        <3>1. CASE Enqueue(p)
            BY <1>4, <2>0, <3>1, EnqueueCounts
        <3>2. CASE LogResult(p) /\ matches' # matches
            BY <1>4, <2>0, <3>2, LogCounts
        <3>3. CASE runs' = runs /\ matches' = matches
            BY <1>2, <1>4, <2>0, <2>3, <3>3, QuietCounts
        <3> QED BY <2>3, <3>1, <3>2, <3>3, ProbingLeaves
    <2>4. CASE UNCHANGED vars
        <3>1. /\ \A id, d : CountRuns(id, d)' = CountRuns(id, d) /\ CountMatches(id, d)' = CountMatches(id, d)
              /\ rules' = rules /\ deaths' = deaths /\ clock' = clock
              /\ \A s, r, d : /\ Unlogged(s, r, d)' = Unlogged(s, r, d)
                              /\ Ahead(s, r, d)' = Ahead(s, r, d)
                              /\ Hits(s, r, d)' = Hits(s, r, d)
            BY <2>4 DEF vars, scheduleVars, commandVars, probeVars, CountRuns, CountMatches, RunsFor,
                        MatchesFor, Unlogged, Ahead, Hits
        <3> QED BY <2>0, <3>1 DEF CountInv, WithinLimit, MatchesKeepUp, AheadIsLogged, HitIsBelow
    <2> QED BY <2>1, <2>2, <2>3, <2>4, SchedulerSteps
<1> QED BY <1>1, <1>3, <1>4 DEF LimitInv, OneProcess

\* With one process a rule has no more task runs for a day than it may have
\* matches, but for one per tick that died.
THEOREM ProbesKeepLimit == SchedulerSpec => []DailyLimit
<1>1. SchedulerInit => LimitInv
    BY LimitInit DEF LimitInv
<1>2. SchedulerInv /\ LimitInv => DailyLimit
    <2> SUFFICES ASSUME SchedulerInv, LimitInv, OneProcess,
                        NEW id \in 1 .. lastRule, NEW day \in 0 .. Day(MaxTime)
                 PROVE  Cardinality({i \in DOMAIN runs : runs[i].rule = id /\ runs[i].first = day})
                            <= MaxTriggers + deaths
        BY DEF DailyLimit
    <2>1. id \in Nat \ {0} /\ day \in Nat
        BY DEF SchedulerInv, TypeInv, TypeOK
    <2> QED BY <2>1 DEF LimitInv, CountInv, WithinLimit, CountRuns, RunsFor
<1> QED BY ProbeInit, ProbeNext, LimitNext, <1>1, <1>2, PTL DEF SchedulerSpec

-----------------------------------------------------------------------------
(* The whole tick *)

\* The first states of the whole are first states of the parts.
LEMMA OperationsStarts == OperationsInit => SchedulerInit /\ RepairInit
BY DEF OperationsInit

\* Every step of the whole is a step of each part, or leaves its variables alone.
LEMMA OperationsStepIsStep ==
    [OperationsNext]_operationsVars => [SchedulerNext]_vars /\ [RepairNext]_repairVars
<1> SUFFICES ASSUME [OperationsNext]_operationsVars
             PROVE  [SchedulerNext]_vars /\ [RepairNext]_repairVars
    OBVIOUS
<1>1. ASSUME NEW p \in Schedulers, SchedulerStep(p), UNCHANGED repairVars
      PROVE  [SchedulerNext]_vars /\ [RepairNext]_repairVars
    BY <1>1 DEF SchedulerNext
<1>2. ASSUME NEW p \in Schedulers, LookLast(p) PROVE [SchedulerNext]_vars /\ [RepairNext]_repairVars
    BY <1>2 DEF LookLast, RepairNext
<1>3. ASSUME NEW p \in Schedulers, EndOperationsTick(p)
      PROVE  [SchedulerNext]_vars /\ [RepairNext]_repairVars
    BY <1>3 DEF EndOperationsTick, SchedulerNext, RepairNext
<1>4. ASSUME NEW p \in Schedulers, DieInTick(p), EndLook(p)
      PROVE  [SchedulerNext]_vars /\ [RepairNext]_repairVars
    BY <1>4 DEF SchedulerNext, RepairNext
<1>5. CASE WebAndWorkers /\ UNCHANGED repairVars
    BY <1>5 DEF SchedulerNext
<1>6. CASE (WorkStep \/ OtherStep) /\ UNCHANGED vars
    BY <1>6 DEF RepairNext
<1>7. CASE UNCHANGED operationsVars
    BY <1>7 DEF operationsVars
<1> QED BY <1>1, <1>2, <1>3, <1>4, <1>5, <1>6, <1>7 DEF OperationsNext, OperationsStep

\* The whole tick implements each of its parts.
THEOREM OperationsImplementsParts == OperationsSpec => SchedulerSpec /\ RepairSpec
BY OperationsStarts, OperationsStepIsStep, PTL DEF OperationsSpec, SchedulerSpec, RepairSpec

\* Every variable of the scheduler, of the audits and of the repairs has its type.
THEOREM OperationsTypesCorrect == OperationsSpec => []OperationsTypeOK
<1>1. SchedulerTypeOK /\ RepairTypeOK => OperationsTypeOK
    BY DEF OperationsTypeOK
<1> QED BY <1>1, OperationsImplementsParts, SchedulerTypesCorrect, RepairTypesCorrect, PTL

\* The whole tick keeps the promise of the schedules: its processes, probes,
\* requests and deaths are not seen in what it serves.
THEOREM OperationsKeepPromise == OperationsSpec => DueSchedulesSpec
BY OperationsImplementsParts, SchedulerImplementsSchedules, ImplementsDueSchedules, PTL

\* What is proved of the parts holds of the whole tick.
THEOREM OperationsAreSafe ==
    OperationsSpec => /\ []OperationsTypeOK /\ DueSchedulesSpec
                      /\ []OneRunPerDueTime /\ RunsOfActiveRowsOnly
                      /\ []NoDayLost /\ []OneNewsRun /\ []HeatOncePerDate
                      /\ []ProbeOncePerTarget /\ []DailyLimit /\ []NoConcurrentRepair
BY OperationsImplementsParts, SchedulerImplementsSchedules, OperationsTypesCorrect, OperationsKeepPromise,
   DueTimesRunOnce, RunsAreDue, NoDayIsLost, NewsRunsOnce, HeatRunsOnce, ProbesRunOnce,
   ProbesKeepLimit, RepairsAreApart, PTL
=============================================================================
