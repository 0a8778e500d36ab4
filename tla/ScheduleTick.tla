---------------------------- MODULE ScheduleTick ----------------------------
(***************************************************************************)
(* Automatic tasks (ops.schedule): the tick of OperationsScheduleService,  *)
(* which turns due schedules into task runs, run by one or more scheduler  *)
(* processes, beside the requests of operators that pause, resume, change  *)
(* or delete a schedule.                                                   *)
(*                                                                         *)
(* A transaction of the tick locks one row (FOR UPDATE SKIP LOCKED), plans *)
(* what to do with it and commits.  A request reads the row without a      *)
(* lock, decides on what it read, deletes the probe rules of the schedule  *)
(* (ScheduleProbeBindingService) and commits the columns it changed: the   *)
(* sessions of the application do not flush on their own, so the UPDATE of *)
(* the row is the last statement.                                          *)
(*                                                                         *)
(* Time is a counter; a day has DayLength of its units and every cron      *)
(* expression falls due once a day, at DueTime.  The kinds of schedules    *)
(* are those the tick tells apart: a dataset action (or workflow), one     *)
(* whose window starts after the last success, the heat materialization    *)
(* and the news linking.                                                   *)
(***************************************************************************)
EXTENDS SchedulerProcesses, Naturals, Sequences, FiniteSets

CONSTANTS
    Schedules,    \* ids of schedules
    Requests,     \* requests to the web application, each made at most once
    Configs,      \* configurations a behaviour may start with
    DayLength,    \* units of time in a day
    DueTime,      \* time of day of every cron expression and of the first heat check
    DeadlineTime, \* time of the next day at which heat gives up, before DueTime
    MaxWindow,    \* days a window since the last success may have before units_exceeded
    MaxTime,      \* bound: no configuration runs longer
    MaxDeaths     \* bound: scheduler processes that die

Types == {"once", "cron"}
Modes == {"schedule", "probe", "schedule_probe_fallback"}
Kinds == {"dataset", "since", "heat", "news"}
RowStatuses == {"active", "paused", "deleted"}
Sources == {"scheduled", "probe", "manual", "retry"}
RunStatuses == {"open", "success", "partial", "failed"}
Endings == RunStatuses \ {"open"}
Operations == {"pause", "resume", "edit", "reschedule", "delete", "news", "retry"}

MaybeTime == Nat \cup {None}

\* The columns of a schedule that nobody changes here, and its first row.
ScheduleConfig == [kind : Kinds, type : Types, mode : Modes, valid : BOOLEAN,
                   status : RowStatuses, next : MaybeTime]

ASSUME SchedulesAssumption == Schedules \subseteq Nat
ASSUME TimeAssumption == /\ DayLength \in Nat \ {0}
                         /\ DueTime \in 0 .. DayLength - 1
                         /\ DeadlineTime \in 0 .. DueTime
                         /\ MaxWindow \in Nat /\ MaxTime \in Nat /\ MaxDeaths \in Nat
ASSUME NoneAssumption == None \notin Nat \cup Schedules \cup Schedulers \cup Requests
ASSUME ProcessesAssumption == IsFiniteSet(Schedulers) /\ Schedulers \cap Requests = {}
\* A configuration also bounds the instance: horizon stops the clock, endings
\* are the ways in which task runs end, rewritten tells whether their rows are
\* written again after that, requests and operations what operators do, and
\* deaths the number of processes that die.
ASSUME ConfigsAssumption ==
    Configs \subseteq [processes : SUBSET Schedulers, of : [Schedules -> ScheduleConfig],
                      horizon : 0 .. MaxTime, endings : SUBSET Endings, rewritten : BOOLEAN,
                      requests : SUBSET Requests, operations : SUBSET Operations, deaths : 0 .. MaxDeaths]

VARIABLES
    config,    \* the processes that run and the fixed columns of the schedules
    clock,
    row,       \* ops.schedule: status and next_run_at
    rules,     \* ops.probe_rule: [id, sched]
    lastRule,  \* the id sequence of probe_rule
    runs,      \* ops.task_run, in the order of ids
    holder,    \* the process whose transaction locks the row of a schedule
    newsLock,  \* the transaction that holds the advisory lock of news linking
    tick,      \* what a scheduler process is doing
    request,   \* what a request is doing
    written,   \* history: due times that a request wrote into a row
    deaths     \* history: scheduler processes that died

commandVars == <<rules, lastRule, request, written>>
scheduleVars == <<config, clock, row, commandVars, runs, holder, newsLock, tick, deaths>>

-----------------------------------------------------------------------------
(* Times and rows *)

Day(t) == t \div DayLength
TimeOfDay(t) == t % DayLength

\* Mutant: an occurrence at t itself counts.
NextOccurrenceNotAfter(t) ==
    DueTime + DayLength * (IF TimeOfDay(t) <= DueTime THEN Day(t) ELSE Day(t) + 1)

\* The first occurrence of a cron expression after t (compute_next_run_at).
NextOccurrence(t) ==
    DueTime + DayLength * (IF TimeOfDay(t) < DueTime THEN Day(t) ELSE Day(t) + 1)

\* The day a heat schedule that fell due at t materializes, and the time
\* after which it does not wait for its inputs any more.
HeatDate(t) == IF TimeOfDay(t) >= DueTime \/ Day(t) = 0 THEN Day(t) ELSE Day(t) - 1
HeatDeadline(t) == DayLength * (HeatDate(t) + 1) + DeadlineTime

Kind(s) == config.of[s].kind
Type(s) == config.of[s].type
Mode(s) == config.of[s].mode

IsDue(s, t) == /\ row[s].status = "active"
               /\ Mode(s) # "probe"
               /\ row[s].next # None
               /\ row[s].next <= t

\* The order in which the tick takes due schedules: by next_run_at, then id.
Before(s, t) == \/ row[s].next < row[t].next
                \/ row[s].next = row[t].next /\ s <= t

\* A schedule that was run or skipped: a cron schedule waits for its next
\* occurrence, one that runs once is paused.
Advanced(s, t) == IF Type(s) = "once" THEN [status |-> "paused", next |-> None]
                                      ELSE [row[s] EXCEPT !.next = NextOccurrence(t)]

-----------------------------------------------------------------------------
(* Task runs *)

RunsOf(s, source) == {i \in DOMAIN runs : runs[i].sched = s /\ runs[i].source = source}
\* A retry keeps the schedule and the window of the run it repeats.
WindowsOf(s) == RunsOf(s, "scheduled") \cup RunsOf(s, "retry")
Ineffective == {"failed"}

\* A task run of the probe of this schedule, not failed, requested that day.
HasEffectiveProbeTask(s, day) ==
    \E i \in RunsOf(s, "probe") : runs[i].status \notin Ineffective /\ runs[i].day = day

HasActiveNewsTask == \E i \in DOMAIN runs : runs[i].news /\ runs[i].status = "open"

\* Mutant: only attempts that have not failed.
HasLiveHeatAttempt(s, date) ==
    \E i \in RunsOf(s, "scheduled") : runs[i].first = date /\ runs[i].status \notin Ineffective

HasHeatAttempt(s, date) == \E i \in RunsOf(s, "scheduled") : runs[i].first = date

\* Mutant: a window that ended in any way counts.
EndedEnds(s) == {runs[i].last : i \in {j \in WindowsOf(s) : runs[j].status # "open"}}

\* The first day that no successful run of the schedule covers: the day after
\* the latest end of a window whose row says success at this moment.  A run of
\* a probe has a day, but no window.
SuccessfulEnds(s) == {runs[i].last : i \in {j \in WindowsOf(s) : runs[j].status = "success"}}
IsCursor(s, d) == \/ d = 0 /\ SuccessfulEnds(s) = {}
                  \/ /\ d # 0 /\ d - 1 \in SuccessfulEnds(s)
                     /\ \A e \in SuccessfulEnds(s) : e < d

\* ever is a history: how its row said, at any time, that the queued run ended.
TaskRun(s, source, due, first, last, rule, status) ==
    [sched |-> s, source |-> source, due |-> due, first |-> first, last |-> last,
     rule |-> rule, news |-> FALSE, status |-> status, ever |-> {}, day |-> Day(clock)]

-----------------------------------------------------------------------------
(* A tick.  now is the time at which it started; done holds the schedules  *)
(* it has taken; due is the next_run_at of the one it holds, as it read it. *)

NoPlan == [what |-> "none", first |-> 0, last |-> 0, next |-> None]
IdleTick == [pc |-> "idle", now |-> 0, done |-> {}, sched |-> None, due |-> None, plan |-> NoPlan]

StartTick(p) ==
    /\ p \in config.processes
    /\ tick[p].pc = "idle"
    /\ tick' = [tick EXCEPT ![p] = [IdleTick EXCEPT !.pc = "due", !.now = clock]]
    /\ UNCHANGED <<config, clock, row, commandVars, runs, holder, newsLock, deaths>>

\* Mutant: without FOR UPDATE SKIP LOCKED.
UnlockedCandidates(p) == {s \in Schedules : IsDue(s, tick[p].now) /\ s \notin tick[p].done}

\* SELECT ... ORDER BY next_run_at, id LIMIT 1 FOR UPDATE SKIP LOCKED
Candidates(p) == {s \in Schedules : /\ IsDue(s, tick[p].now)
                                    /\ s \notin tick[p].done
                                    /\ holder[s] = None}

TakeDue(p) ==
    /\ tick[p].pc = "due"
    /\ \E s \in Candidates(p) :
          /\ \A t \in Candidates(p) : Before(s, t)
          /\ holder' = [holder EXCEPT ![s] = p]
          /\ tick' = [tick EXCEPT ![p].pc = "locked", ![p].sched = s, ![p].due = row[s].next,
                                  ![p].done = @ \cup {s}]
    /\ UNCHANGED <<config, clock, row, commandVars, runs, newsLock, deaths>>

\* No schedule is left; the tick goes on with the probes.
EndDue(p) ==
    /\ tick[p].pc = "due"
    /\ Candidates(p) = {}
    /\ tick' = [tick EXCEPT ![p] = [IdleTick EXCEPT !.pc = "probing", !.now = tick[p].now]]
    /\ UNCHANGED <<config, clock, row, commandVars, runs, holder, newsLock, deaths>>

\* What a process leaves behind when it dies or an exception leaves the tick:
\* its transaction is rolled back.  The service manager starts it again.
RolledBack(p) ==
    /\ tick' = [tick EXCEPT ![p] = IdleTick]
    /\ holder' = [s \in Schedules |-> IF holder[s] = p THEN None ELSE holder[s]]
    /\ newsLock' = IF newsLock = p THEN None ELSE newsLock
    /\ UNCHANGED <<config, clock, row, commandVars, runs>>

\* _validate_calendar_policy raises for a schedule that does not validate any more.
RefusePolicy(p) ==
    /\ tick[p].pc = "locked"
    /\ ~config.of[tick[p].sched].valid
    /\ RolledBack(p)
    /\ UNCHANGED deaths

Die(p) ==
    /\ tick[p].pc # "idle"
    /\ deaths < config.deaths
    /\ deaths' = deaths + 1
    /\ RolledBack(p)

\* The tick plans what to commit for the schedule it holds.
Planned(p, plan) ==
    /\ tick' = [tick EXCEPT ![p].pc = "planned", ![p].plan = plan]
    /\ UNCHANGED <<config, clock, row, commandVars, runs, holder, deaths>>
Plan(what, first, last, next) ==
    [what |-> what, first |-> first, last |-> last, next |-> next]
SkipDue == [NoPlan EXCEPT !.what = "skip"]
Due(p) == tick[p].due

Holds(p) == tick[p].pc = "locked" /\ config.of[tick[p].sched].valid

\* Mutant: a fallback leaves every day to its probe.
SkipsUnprobed(p) == Mode(tick[p].sched) = "schedule_probe_fallback"
SkipsFallback(p) == /\ Mode(tick[p].sched) = "schedule_probe_fallback"
                    /\ HasEffectiveProbeTask(tick[p].sched, Day(tick[p].now))
HoldsKind(p, kind) == /\ Holds(p)
                      /\ ~SkipsFallback(p)
                      /\ Kind(tick[p].sched) = kind

PlanSkippedFallback(p) ==
    /\ Holds(p)
    /\ SkipsFallback(p)
    /\ Planned(p, SkipDue)
    /\ UNCHANGED newsLock

PlanDataset(p) ==
    /\ HoldsKind(p, "dataset")
    /\ Planned(p, Plan("run", Day(Due(p)), Day(Due(p)), None))
    /\ UNCHANGED newsLock

\* Mutant: an empty window is not skipped.
PlanEmptyWindow(p) ==
    /\ HoldsKind(p, "since")
    /\ \E start \in 0 .. Day(MaxTime) + 1 :
          /\ IsCursor(tick[p].sched, start)
          /\ Planned(p, Plan("run", start, Day(Due(p)) - 1, None))
    /\ UNCHANGED newsLock

\* The window since the last success ends the day before the due time.  An
\* empty one is skipped; one with too many units gets a run that has failed,
\* and the schedule is paused.
PlanSinceLastSuccess(p) ==
    /\ HoldsKind(p, "since")
    /\ \E start \in 0 .. Day(MaxTime) + 1 :
          /\ IsCursor(tick[p].sched, start)
          /\ Planned(p, IF start >= Day(Due(p)) THEN SkipDue
                        ELSE Plan(IF Day(Due(p)) - start > MaxWindow THEN "fail" ELSE "run",
                                  start, Day(Due(p)) - 1, None))
    /\ UNCHANGED newsLock

\* One automatic attempt per trade date: when the inputs are ready, or, as a
\* run that has failed, when they are still missing at the deadline.
PlanHeat(p) ==
    /\ HoldsKind(p, "heat")
    /\ \E readiness \in {"ready", "not_trading", "missing"} :
          LET date == HeatDate(Due(p))
              now == tick[p].now
          IN  Planned(p,
                CASE HasHeatAttempt(tick[p].sched, date) -> SkipDue
                  [] OTHER ->
                     CASE readiness = "ready" -> Plan("run", date, date, None)
                       [] readiness = "not_trading" -> SkipDue
                       [] readiness = "missing" /\ now < HeatDeadline(Due(p)) ->
                             Plan("retry", date, date,
                                  IF now + 1 < HeatDeadline(Due(p)) THEN now + 1
                                                                    ELSE HeatDeadline(Due(p)))
                       [] OTHER -> Plan("timeout", date, date, None))
    /\ UNCHANGED newsLock

\* The first look at open runs of news linking has no lock; a window
\* without news is skipped as well.
PlanNoNews(p) ==
    /\ HoldsKind(p, "news")
    /\ Planned(p, SkipDue)
    /\ UNCHANGED newsLock

\* Mutant: no second look under the lock.
PlanNewsUnseen(p) ==
    /\ HoldsKind(p, "news")
    /\ newsLock = None
    /\ newsLock' = p
    /\ Planned(p, Plan("run", Day(tick[p].now), Day(tick[p].now), None))

\* stage_task_run takes the advisory lock, to the end of the transaction, and looks again.
PlanNews(p) ==
    /\ HoldsKind(p, "news")
    /\ newsLock = None
    /\ newsLock' = p
    /\ Planned(p, IF HasActiveNewsTask THEN SkipDue
                  ELSE Plan("run", Day(tick[p].now), Day(tick[p].now), None))

\* Mutant: a schedule that is skipped keeps its due time.
CommitPlanUnlessSkipped(p) ==
    LET s == tick[p].sched
        plan == tick[p].plan
    IN  /\ tick[p].pc = "planned"
        /\ row' = IF plan.what = "skip" THEN row ELSE [row EXCEPT ![s] = Advanced(s, tick[p].now)]
        /\ runs' = IF plan.what = "run"
                   THEN Append(runs, [TaskRun(s, "scheduled", Due(p), plan.first, plan.last, 0, "open")
                                         EXCEPT !.news = (Kind(s) = "news")])
                   ELSE runs
        /\ holder' = [holder EXCEPT ![s] = None]
        /\ newsLock' = IF newsLock = p THEN None ELSE newsLock
        /\ tick' = [tick EXCEPT ![p].pc = "due", ![p].sched = None, ![p].due = None,
                                ![p].plan = NoPlan]
        /\ UNCHANGED <<config, clock, commandVars, deaths>>

CommitPlan(p) ==
    LET s == tick[p].sched
        plan == tick[p].plan
        status == IF plan.what = "run" THEN "open" ELSE "failed"
    IN  /\ tick[p].pc = "planned"
        /\ row' = [row EXCEPT ![s] =
                      CASE plan.what = "retry" -> [row[s] EXCEPT !.next = plan.next]
                        [] plan.what = "fail" -> [status |-> "paused", next |-> None]
                        [] OTHER -> Advanced(s, tick[p].now)]
        /\ runs' = IF plan.what \in {"run", "fail", "timeout"}
                   THEN Append(runs, [TaskRun(s, "scheduled", Due(p), plan.first, plan.last, 0, status)
                                         EXCEPT !.news = (Kind(s) = "news")])
                   ELSE runs
        /\ holder' = [holder EXCEPT ![s] = None]
        /\ newsLock' = IF newsLock = p THEN None ELSE newsLock
        /\ tick' = [tick EXCEPT ![p].pc = "due", ![p].sched = None, ![p].due = None,
                                ![p].plan = NoPlan]
        /\ UNCHANGED <<config, clock, commandVars, deaths>>

-----------------------------------------------------------------------------
(* Requests of operators.  read is the row as the request loaded it; status *)
(* and next are what it will write (None: the column is left alone);        *)
(* victims are the rules that its DELETE statement saw.                     *)

NewRequest == [pc |-> "new", op |-> None, sched |-> None,
               read |-> [status |-> "deleted", next |-> None],
               status |-> None, next |-> None, victims |-> {}]

\* A request that needs nothing: the schedule is in that state already, or a
\* schedule that runs once has no time to be resumed at.
NeedsNothing(op, s) ==
    \/ op = "pause" /\ row[s].status = "paused"
    \/ op = "resume" /\ row[s].status = "active"
    \/ op = "resume" /\ Type(s) = "once" /\ row[s].next = None

\* What the request validates (a pause and a delete validate nothing).
Accepts(op, s) ==
    /\ op \in {"resume", "edit", "reschedule"} => config.of[s].valid
    /\ op = "reschedule" => Mode(s) # "probe"

ReadRow(q, op, s) ==
    /\ q \in config.requests
    /\ request[q].pc = "new"
    /\ op \in config.operations
    /\ row[s].status # "deleted"
    /\ Accepts(op, s)
    /\ ~NeedsNothing(op, s)
    /\ request' = [request EXCEPT ![q] = [NewRequest EXCEPT !.pc = "read", !.op = op,
                                             !.sched = s, !.read = row[s]]]
    /\ UNCHANGED <<config, clock, row, rules, lastRule, runs, holder, newsLock, tick, written, deaths>>

\* The columns the request changes, decided on the row it read.
NewStatus(q) == CASE request[q].op \in {"pause", "delete"} -> "paused"
                  [] request[q].op = "resume" -> "active"
                  [] OTHER -> request[q].read.status
NewNexts(q) ==
    LET s == request[q].sched IN
    CASE request[q].op = "reschedule" -> 0 .. config.horizon
      [] /\ request[q].op = "resume" /\ request[q].read.next = None
         /\ Mode(s) # "probe" -> {NextOccurrence(clock)}
      [] OTHER -> {request[q].read.next}

\* The rules of the schedule are deleted before the row is written.
DeleteRules(q) ==
    /\ request[q].pc = "read"
    /\ \E next \in NewNexts(q) :
          request' = [request EXCEPT
                        ![q].pc = "synced",
                        ![q].status = IF NewStatus(q) = request[q].read.status
                                      THEN None ELSE NewStatus(q),
                        ![q].next = IF next = request[q].read.next THEN None ELSE next,
                        ![q].victims = {r \in rules : r.sched = request[q].sched}]
    /\ UNCHANGED <<config, clock, row, rules, lastRule, runs, holder, newsLock, tick, written, deaths>>

\* sync_for_schedule: a schedule that is active, as the request knows it, gets a new rule.
BindsRule(q) == /\ request[q].op # "delete"
                /\ NewStatus(q) = "active"
                /\ Mode(request[q].sched) # "schedule"

Written(q) == LET r == request[q] IN
    IF r.op = "delete" THEN [status |-> "deleted", next |-> None]
    ELSE [status |-> IF r.status = None THEN row[r.sched].status ELSE r.status,
          next |-> IF r.next = None THEN row[r.sched].next ELSE r.next]

\* UPDATE by primary key, INSERT of the rule and COMMIT; the UPDATE waits for
\* the transaction of a tick that holds the row.
CommitRequest(q) ==
    LET s == request[q].sched IN
    /\ request[q].pc = "synced"
    /\ holder[s] = None
    /\ row[s].status # "deleted"
    /\ row' = [row EXCEPT ![s] = Written(q)]
    /\ lastRule' = IF BindsRule(q) THEN lastRule + 1 ELSE lastRule
    /\ rules' = (rules \ request[q].victims) \cup
                   (IF BindsRule(q) THEN {[id |-> lastRule + 1, sched |-> s]} ELSE {})
    /\ written' = IF request[q].next = None THEN written
                  ELSE written \cup {<<s, request[q].next>>}
    /\ request' = [request EXCEPT ![q] = [NewRequest EXCEPT !.pc = "done"]]
    /\ UNCHANGED <<config, clock, runs, holder, newsLock, tick, deaths>>

\* The row is gone: the UPDATE matches nothing, and the request fails.
FailRequest(q) ==
    /\ request[q].pc = "synced"
    /\ row[request[q].sched].status = "deleted"
    /\ request' = [request EXCEPT ![q] = [NewRequest EXCEPT !.pc = "done"]]
    /\ UNCHANGED <<config, clock, row, rules, lastRule, runs, holder, newsLock, tick, written, deaths>>

\* create_manual_task_run of the news linking, or a retry: the advisory lock,
\* and a look at the open runs.
SubmitNews(q) ==
    /\ q \in config.requests
    /\ request[q].pc = "new"
    /\ "news" \in config.operations
    /\ newsLock = None
    /\ \E s \in Schedules : Kind(s) = "news"
    /\ newsLock' = IF HasActiveNewsTask THEN None ELSE q
    /\ request' = [request EXCEPT ![q].op = "news",
                                  ![q].pc = IF HasActiveNewsTask THEN "done" ELSE "staged"]
    /\ UNCHANGED <<config, clock, row, rules, lastRule, runs, holder, tick, written, deaths>>

CommitNews(q) ==
    /\ request[q].pc = "staged"
    /\ runs' = Append(runs, [TaskRun(None, "manual", None, Day(clock), Day(clock), 0, "open")
                                EXCEPT !.news = TRUE])
    /\ newsLock' = None
    /\ request' = [request EXCEPT ![q] = [NewRequest EXCEPT !.pc = "done"]]
    /\ UNCHANGED <<config, clock, row, rules, lastRule, holder, tick, written, deaths>>

\* retry_task_run of a run with a window, whatever its status.  One of a probe
\* run counts in no look at the task runs, and one of news linking is submitted
\* like any other.
Retry(q) ==
    /\ q \in config.requests
    /\ request[q].pc = "new"
    /\ "retry" \in config.operations
    /\ \E s \in Schedules : \E i \in WindowsOf(s) :
          /\ ~runs[i].news
          /\ runs' = Append(runs, TaskRun(s, "retry", None, runs[i].first, runs[i].last, 0, "open"))
    /\ request' = [request EXCEPT ![q].op = "retry", ![q].pc = "done"]
    /\ UNCHANGED <<config, clock, row, rules, lastRule, holder, newsLock, tick, written, deaths>>

-----------------------------------------------------------------------------
(* The probes of a tick, as far as schedules are concerned: task runs for a *)
(* rule, and the end of the tick.  ProbeTick models them in detail.         *)

CreateProbeRun(p, r, target) ==
    /\ tick[p].pc = "probing"
    /\ r \in rules
    /\ runs' = Append(runs, TaskRun(r.sched, "probe", None, target, target, r.id, "open"))
    /\ UNCHANGED <<config, clock, row, commandVars, holder, newsLock, tick, deaths>>

EndTick(p) ==
    /\ tick[p].pc = "probing"
    /\ tick' = [tick EXCEPT ![p] = IdleTick]
    /\ UNCHANGED <<config, clock, row, commandVars, runs, holder, newsLock, deaths>>

\* The tick ends with an exception: a rule it had loaded is gone.
AbortProbes(p) ==
    /\ tick[p].pc = "probing"
    /\ RolledBack(p)
    /\ UNCHANGED deaths

(* The workers, cancels and reconciliation, which TaskRunLifecycle models: *)
(* the row of a queued run says how it ended.                              *)
WriteStatus(i, status) ==
    /\ runs' = [runs EXCEPT ![i].status = status, ![i].ever = @ \cup ({status} \ {"open"})]
    /\ UNCHANGED <<config, clock, row, commandVars, holder, newsLock, tick, deaths>>

EndRun(i, status) ==
    /\ runs[i].status = "open"
    /\ WriteStatus(i, status)

\* A row that said so is written again by whoever read it before: a worker that
\* was written off ends the run once more, a refresh that fails makes a success
\* a failure, a late cancel opens the run again, reconciliation ends it.  The
\* runs that were recorded as failed and never queued have no such writers.
RewriteRun(i, status) ==
    /\ config.rewritten
    /\ runs[i].ever # {}
    /\ status # runs[i].status
    /\ WriteStatus(i, status)

PassTime ==
    /\ clock < config.horizon
    /\ clock' = clock + 1
    /\ UNCHANGED <<config, row, commandVars, runs, holder, newsLock, tick, deaths>>

-----------------------------------------------------------------------------
(* The first rows are committed ones: an active schedule that probes has its rule. *)
Init ==
    /\ config \in Configs
    /\ clock = 0
    /\ row = [s \in Schedules |-> [status |-> config.of[s].status, next |-> config.of[s].next]]
    /\ rules = {[id |-> s, sched |-> s] : s \in {t \in Schedules :
                   config.of[t].status = "active" /\ config.of[t].mode # "schedule"}}
    /\ lastRule \in Schedules \cup {0} /\ \A s \in Schedules : s <= lastRule
    /\ runs = <<>>
    /\ holder = [s \in Schedules |-> None]
    /\ newsLock = None
    /\ tick = [p \in Schedulers |-> IdleTick]
    /\ request = [q \in Requests |-> NewRequest]
    /\ written = {}
    /\ deaths = 0

PlanStep(p) == \/ PlanSkippedFallback(p) \/ PlanDataset(p) \/ PlanSinceLastSuccess(p)
               \/ PlanHeat(p) \/ PlanNoNews(p) \/ PlanNews(p)
DueStep(p) == \/ StartTick(p) \/ TakeDue(p) \/ EndDue(p)
              \/ RefusePolicy(p) \/ PlanStep(p) \/ CommitPlan(p)
RequestStep(q) == \/ \E op \in Operations \ {"news", "retry"}, s \in Schedules : ReadRow(q, op, s)
                  \/ DeleteRules(q) \/ CommitRequest(q) \/ FailRequest(q)
                  \/ SubmitNews(q) \/ CommitNews(q) \/ Retry(q)
EnvironmentStep == \/ \E i \in DOMAIN runs, status \in config.endings : EndRun(i, status)
                   \/ \E i \in DOMAIN runs, status \in config.endings \cup {"open"} : RewriteRun(i, status)
                   \/ PassTime

Next == \/ \E p \in Schedulers : \/ DueStep(p) \/ Die(p) \/ EndTick(p) \/ AbortProbes(p)
                                 \/ \E r \in rules, target \in Nat : CreateProbeRun(p, r, target)
        \/ \E q \in Requests : RequestStep(q)
        \/ EnvironmentStep

Spec == Init /\ [][Next]_scheduleVars

-----------------------------------------------------------------------------
Rules == [id : Nat, sched : Schedules]
Rows == [status : RowStatuses, next : MaybeTime]
Runs == [sched : Schedules \cup {None}, source : Sources, due : MaybeTime, first : Nat, last : Nat,
         rule : Nat, news : BOOLEAN, status : RunStatuses, ever : SUBSET Endings, day : Nat]
Plans == [what : {"none", "skip", "run", "retry", "fail", "timeout"},
          first : Nat, last : Nat, next : MaybeTime]
Ticks == [pc : {"idle", "due", "locked", "planned", "probing"}, now : Nat, done : SUBSET Schedules,
          sched : Schedules \cup {None}, due : MaybeTime, plan : Plans]
RequestStates == [pc : {"new", "read", "synced", "staged", "done"}, op : Operations \cup {None},
                  sched : Schedules \cup {None}, read : Rows, status : RowStatuses \cup {None},
                  next : MaybeTime, victims : SUBSET Rules]

(* Type correctness. *)
TypeOK ==
    /\ config \in Configs
    /\ clock \in 0 .. MaxTime
    /\ row \in [Schedules -> Rows]
    /\ rules \subseteq Rules
    /\ lastRule \in Nat
    /\ runs \in Seq(Runs)
    /\ holder \in [Schedules -> Schedulers \cup {None}]
    /\ newsLock \in Schedulers \cup Requests \cup {None}
    /\ tick \in [Schedulers -> Ticks]
    /\ request \in [Requests -> RequestStates]
    /\ written \subseteq Schedules \X Nat
    /\ deaths \in 0 .. MaxDeaths

(* Two schedulers, ticks that started long ago, and requests that act on    *)
(* rows they read before: a due time gives at most one task run, unless a   *)
(* request set the schedule to that time or to an earlier one.              *)
SetBack(s, due) == \E x \in written : x[1] = s /\ x[2] <= due
OneRunPerDueTime ==
    \A i, j \in DOMAIN runs :
        (/\ i < j
         /\ runs[i].source = "scheduled" /\ runs[j].source = "scheduled"
         /\ runs[i].sched = runs[j].sched /\ runs[i].due = runs[j].due)
        => SetBack(runs[i].sched, runs[i].due)

(* When a scheduled task run is committed, its schedule is still active and *)
(* still has the due time the run was planned for, and the same commit      *)
(* takes it away: no pause, change or deletion slips in between.            *)
RunsOfActiveRowsOnly ==
    [][Len(runs') > Len(runs) /\ runs'[Len(runs')].source = "scheduled" =>
          LET new == runs'[Len(runs')] IN
          /\ row[new.sched].status = "active"
          /\ row[new.sched].next = new.due
          /\ row'[new.sched].next # new.due]_scheduleVars

(* Windows since the last success may overlap while earlier ones are still  *)
(* open, are retried, fail or succeed in any order, and a success may be    *)
(* taken back or come after a failure was written: yet every day up to the  *)
(* latest end that counts as successful lies in a window whose row said     *)
(* success at some time, so that its data was committed.                    *)
NoDayLost ==
    \A s \in Schedules : Kind(s) = "since" =>
        \A e \in SuccessfulEnds(s) : \A d \in 0 .. e :
            \E i \in WindowsOf(s) : /\ "success" \in runs[i].ever
                                    /\ runs[i].first <= d /\ d <= runs[i].last

(* Scheduled or submitted by hand, from any number of processes: at most    *)
(* one run of news linking is open that has not ended before, and nothing   *)
(* but a row that ended and was opened again can stand beside it.           *)
IsFirstOpen(i) == runs[i].status = "open" /\ runs[i].ever = {}
OneNewsRun == \A i, j \in DOMAIN runs : /\ runs[i].news /\ IsFirstOpen(i)
                                         /\ runs[j].news /\ IsFirstOpen(j) => i = j

(* Heat is attempted once per trade date by its schedule, although the      *)
(* schedule falls due again and again until the deadline, and although a    *)
(* request may set it to any time.                                          *)
HeatOncePerDate ==
    \A i, j \in DOMAIN runs :
        (/\ runs[i].source = "scheduled" /\ runs[j].source = "scheduled"
         /\ runs[i].sched = runs[j].sched /\ Kind(runs[i].sched) = "heat"
         /\ runs[i].first = runs[j].first) => i = j

Promise == INSTANCE DueSchedules
              WITH fixed <- config.of, asked <- [q \in Requests |-> request[q].sched]

(* The processes that take schedules beside each other, the plans they make *)
(* before they commit, the requests that write what they read before, and   *)
(* the deaths in between are not to be seen in the tables: every commit is  *)
(* a step of one process that serves schedules one at a time and knows the  *)
(* runs as they are.                                                        *)
DueSchedulesSpec == Promise!Spec
=============================================================================
