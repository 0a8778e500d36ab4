------------------------------ MODULE ProbeTick ------------------------------
(***************************************************************************)
(* The probes of a tick (ProbeRuntimeService.run_once), composed with the  *)
(* due schedules of the same tick (ScheduleTick) to OperationsScheduler    *)
(* .run_once: a scheduler process first serves the due schedules, then     *)
(* loads the active rules and goes through them.                           *)
(*                                                                         *)
(* For a rule the process counts the matches logged that day, asks the     *)
(* source, looks for a task run that has the same target, creates the task *)
(* run (one commit) and logs the result (another).  Rules are deleted and  *)
(* created again by requests at any time.  The order of the rules in a     *)
(* tick is left open.                                                      *)
(***************************************************************************)
EXTENDS ScheduleTick

CONSTANTS
    Deduplicated,  \* schedules with a condition for which runs are deduplicated by target
    ProbeTimes,    \* times of day inside the window of the rules
    ProbeInterval, \* units of time between two probes of a rule
    MaxTriggers    \* max_triggers_per_day of the rules

ASSUME ProbeAssumption == /\ Deduplicated \subseteq Schedules
                          /\ ProbeTimes \subseteq 0 .. DayLength - 1
                          /\ ProbeInterval \in Nat
                          /\ MaxTriggers \in Nat \ {0}

VARIABLES
    probe,    \* what a scheduler process is doing with the rules it loaded
    probedAt, \* last_probed_at: pairs of a rule id and a time, one per rule
    matches   \* probe_run_log with condition_matched: pairs of a rule id and a day

probeVars == <<probe, probedAt, matches>>
vars == <<scheduleVars, probeVars>>

Results == {"none", "miss", "error", "unqueued", "duplicate", "hit"}
NoProbe == [pc |-> "off", todo |-> {}, rule |-> None, at |-> 0, target |-> 0, result |-> "none"]

LoadRules(p) ==
    /\ tick[p].pc = "probing"
    /\ probe[p].pc = "off"
    /\ probe' = [probe EXCEPT ![p] = [NoProbe EXCEPT !.pc = "loop", !.todo = rules]]
    /\ UNCHANGED <<scheduleVars, probedAt, matches>>

MatchesToday(r, day) == {i \in DOMAIN matches : matches[i] = <<r.id, day>>}

\* Mutant: the limit is off by one.
ShouldProbeOnceMore(p, r) ==
    LET now == tick[p].now IN
    /\ TimeOfDay(now) \in ProbeTimes
    /\ \A t \in 0 .. clock : <<r.id, t>> \in probedAt => now >= t + ProbeInterval
    /\ Cardinality(MatchesToday(r, Day(now))) <= MaxTriggers

\* _should_probe: the window, the interval and the limit of the day, all at
\* the time at which the tick started.
ShouldProbe(p, r) ==
    LET now == tick[p].now IN
    /\ TimeOfDay(now) \in ProbeTimes
    /\ \A t \in 0 .. clock : <<r.id, t>> \in probedAt => now >= t + ProbeInterval
    /\ Cardinality(MatchesToday(r, Day(now))) < MaxTriggers

PassRule(p) ==
    /\ probe[p].pc = "loop"
    /\ \E r \in probe[p].todo :
          /\ ~ShouldProbe(p, r)
          /\ probe' = [probe EXCEPT ![p].todo = @ \ {r}]
    /\ UNCHANGED <<scheduleVars, probedAt, matches>>

\* Mutant: only task runs of rules that still exist.
HasTargetTaskOfRules(s, target) ==
    /\ s \in Deduplicated
    /\ \E i \in RunsOf(s, "probe") : /\ runs[i].status \notin Ineffective
                                     /\ runs[i].first = target
                                     /\ \E r \in rules : r.id = runs[i].rule

\* A task run of the schedule's probes for that target that has not failed.
HasEffectiveTargetTask(s, target) ==
    /\ s \in Deduplicated
    /\ \E i \in RunsOf(s, "probe") : runs[i].status \notin Ineffective /\ runs[i].first = target

\* The source answers, or raises; a match is compared with the task runs.
Evaluate(p) ==
    /\ probe[p].pc = "loop"
    /\ \E r \in probe[p].todo, answer \in {"miss", "error", "hit"} :
          LET target == Day(tick[p].now) IN
          /\ ShouldProbe(p, r)
          /\ probe' = [probe EXCEPT
                         ![p].pc = "evaluated", ![p].rule = r, ![p].at = clock, ![p].target = target,
                         ![p].result = IF answer = "hit" /\ HasEffectiveTargetTask(r.sched, target)
                                       THEN "duplicate" ELSE answer]
    /\ UNCHANGED <<scheduleVars, probedAt, matches>>

Probed(id, t) == {x \in probedAt : x[1] # id} \cup {<<id, t>>}

\* create_task_run commits the task run together with last_probed_at.
Enqueue(p) ==
    /\ probe[p].pc = "evaluated"
    /\ probe[p].result = "hit"
    /\ CreateProbeRun(p, probe[p].rule, probe[p].target)
    /\ probedAt' = Probed(probe[p].rule.id, probe[p].at)
    /\ probe' = [probe EXCEPT ![p].pc = "enqueued"]
    /\ UNCHANGED matches

\* It may refuse the context instead; the exception is caught.
EnqueueFails(p) ==
    /\ probe[p].pc = "evaluated"
    /\ probe[p].result = "hit"
    /\ probe' = [probe EXCEPT ![p].result = "unqueued"]
    /\ UNCHANGED <<scheduleVars, probedAt, matches>>

\* The log of the result and last_probed_at are committed; a duplicate counts as a match.
LogResult(p) ==
    LET r == probe[p].rule
        result == probe[p].result
    IN  /\ \/ probe[p].pc = "enqueued"
           \/ probe[p].pc = "evaluated" /\ result # "hit"
        /\ r \in rules \/ result = "error"
        /\ matches' = IF result \in {"hit", "duplicate"}
                      THEN Append(matches, <<r.id, Day(probe[p].at)>>) ELSE matches
        /\ probedAt' = IF result = "error" THEN probedAt ELSE Probed(r.id, probe[p].at)
        /\ probe' = [probe EXCEPT ![p] = [NoProbe EXCEPT !.pc = "loop",
                                                         !.todo = probe[p].todo \ {r}]]
        /\ UNCHANGED scheduleVars

FinishProbes(p) ==
    /\ probe[p].pc = "loop"
    /\ probe[p].todo = {}
    /\ EndTick(p)
    /\ probe' = [probe EXCEPT ![p] = NoProbe]
    /\ UNCHANGED <<probedAt, matches>>

\* A rule the tick loaded was deleted: loading it again or writing it raises.
LoseRule(p) ==
    /\ \/ probe[p].pc = "loop" /\ \E r \in probe[p].todo : r \notin rules
       \/ probe[p].pc \in {"evaluated", "enqueued"} /\ probe[p].rule \notin rules
    /\ AbortProbes(p)
    /\ probe' = [probe EXCEPT ![p] = NoProbe]
    /\ UNCHANGED <<probedAt, matches>>

DieInTick(p) ==
    /\ Die(p)
    /\ probe' = [probe EXCEPT ![p] = NoProbe]
    /\ UNCHANGED <<probedAt, matches>>

-----------------------------------------------------------------------------
SchedulerInit == /\ Init
                 /\ probe = [p \in Schedulers |-> NoProbe]
                 /\ probedAt = {}
                 /\ matches = <<>>

RuleStep(p) == \/ LoadRules(p) \/ PassRule(p) \/ Evaluate(p) \/ Enqueue(p) \/ EnqueueFails(p)
               \/ LogResult(p) \/ LoseRule(p)
SchedulerStep(p) == (DueStep(p) /\ UNCHANGED probeVars) \/ RuleStep(p)
WebAndWorkers == (\/ \E q \in Requests : RequestStep(q)
                  \/ EnvironmentStep) /\ UNCHANGED probeVars

SchedulerNext == \/ \E p \in Schedulers : SchedulerStep(p) \/ FinishProbes(p) \/ DieInTick(p)
                 \/ WebAndWorkers

SchedulerSpec == SchedulerInit /\ [][SchedulerNext]_vars

-----------------------------------------------------------------------------
(* Type correctness of the composed scheduler. *)
SchedulerTypeOK ==
    /\ TypeOK
    /\ probe \in [Schedulers -> [pc : {"off", "loop", "evaluated", "enqueued"},
                                 todo : SUBSET Rules, rule : Rules \cup {None},
                                 at : Nat, target : Nat, result : Results]]
    /\ probedAt \subseteq Nat \X Nat
    /\ matches \in Seq(Nat \X Nat)

OneProcess == Cardinality(config.processes) = 1

(* Where runs are deduplicated by their target, the probes of a schedule    *)
(* leave at most one task run per target whose row never said that it had   *)
(* failed, as long as one process probes: whatever dies between the task    *)
(* run and its log, and although every pause, resume and change of the      *)
(* schedule starts a new rule whose log is empty.  A second run needs a     *)
(* first that was written off, even if its worker succeeds afterwards.      *)
ProbeOncePerTarget ==
    OneProcess =>
        \A i, j \in DOMAIN runs :
            (/\ runs[i].source = "probe" /\ runs[j].source = "probe"
             /\ runs[i].sched = runs[j].sched /\ runs[i].sched \in Deduplicated
             /\ runs[i].first = runs[j].first
             /\ runs[i].ever \cap Ineffective = {} /\ runs[j].ever \cap Ineffective = {})
            => i = j

(* max_triggers_per_day bounds the task runs of a rule for a target, as     *)
(* long as one process probes; every tick that dies between a task run and  *)
(* its log costs at most one more.                                          *)
DailyLimit ==
    OneProcess =>
        \A id \in 1 .. lastRule, day \in 0 .. Day(MaxTime) :
            Cardinality({i \in DOMAIN runs : runs[i].rule = id /\ runs[i].first = day})
                <= MaxTriggers + deaths
=============================================================================
