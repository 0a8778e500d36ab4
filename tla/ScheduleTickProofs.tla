--------------------------- MODULE ScheduleTickProofs ---------------------------
(***************************************************************************)
(* Proofs about ScheduleTick, for any schedules, schedulers, requests and  *)
(* configurations.                                                         *)
(***************************************************************************)
EXTENDS ScheduleTick, SequenceTheorems, TLAPS

-----------------------------------------------------------------------------
(* Facts about time and configurations *)

\* What a configuration is made of.
LEMMA ConfigTypes ==
    ASSUME config \in Configs
    PROVE  /\ config.of \in [Schedules -> ScheduleConfig]
           /\ config.horizon \in 0 .. MaxTime
           /\ config.endings \subseteq {"success", "partial", "failed"}
           /\ config.deaths \in 0 .. MaxDeaths
BY ConfigsAssumption DEF RunStatuses, Endings

\* A time is a day and a time of day.
LEMMA TimeIsInDay ==
    ASSUME NEW t \in Nat
    PROVE  /\ Day(t) \in Nat
           /\ TimeOfDay(t) \in 0 .. DayLength - 1
           /\ t = DayLength * Day(t) + TimeOfDay(t)
<1>1. DayLength \in Nat /\ DayLength > 0
    BY TimeAssumption
<1>2. t \div DayLength \in Nat
    BY <1>1
<1>3. t % DayLength \in 0 .. DayLength - 1
    BY <1>1
<1>4. t = DayLength * (t \div DayLength) + (t % DayLength)
    BY <1>1
<1> QED BY <1>2, <1>3, <1>4 DEF Day, TimeOfDay

\* The next occurrence of a cron expression lies ahead.
LEMMA NextIsLater ==
    ASSUME NEW t \in Nat
    PROVE  NextOccurrence(t) \in Nat /\ NextOccurrence(t) > t
<1> DEFINE d == Day(t)
           r == TimeOfDay(t)
<1>1. /\ d \in Nat /\ r \in 0 .. DayLength - 1 /\ t = DayLength * d + r
    BY TimeIsInDay
<1>2. DayLength \in Nat /\ DueTime \in 0 .. DayLength - 1
    BY TimeAssumption
<1>3. DayLength * (d + 1) = DayLength * d + DayLength /\ DayLength * d \in Nat
    BY <1>1, <1>2
<1>4. NextOccurrence(t) = DueTime + DayLength * (IF r < DueTime THEN d ELSE d + 1)
    BY DEF NextOccurrence
<1> HIDE DEF d, r
<1>5. CASE r < DueTime
    <2>1. NextOccurrence(t) = DueTime + DayLength * d
        BY <1>4, <1>5
    <2> QED BY <2>1, <1>1, <1>2, <1>3, <1>5
<1>6. CASE ~(r < DueTime)
    <2>1. NextOccurrence(t) = DueTime + (DayLength * d + DayLength)
        BY <1>3, <1>4, <1>6
    <2> QED BY <2>1, <1>1, <1>2, <1>3, <1>6
<1> QED BY <1>5, <1>6

\* The day that a heat schedule materializes, and its deadline.
LEMMA HeatTypes ==
    ASSUME NEW t \in Nat
    PROVE  HeatDate(t) \in Nat /\ HeatDeadline(t) \in Nat
<1>1. Day(t) \in Nat
    BY TimeIsInDay
<1>2. HeatDate(t) \in Nat
    BY <1>1 DEF HeatDate
<1>3. DayLength \in Nat /\ DeadlineTime \in Nat
    BY TimeAssumption
<1>4. DayLength * (HeatDate(t) + 1) \in Nat
    BY <1>2, <1>3
<1> QED BY <1>2, <1>3, <1>4 DEF HeatDeadline

-----------------------------------------------------------------------------
(* Types *)

\* What a process holds, and what a request has read.
HoldsSchedule == \A p \in Schedulers : tick[p].pc \in {"locked", "planned"} =>
                    tick[p].sched \in Schedules /\ tick[p].due \in Nat
ReadSchedule == \A q \in Requests : request[q].pc \in {"read", "synced"} =>
                    request[q].sched \in Schedules

TypeInv == TypeOK /\ HoldsSchedule /\ ReadSchedule

\* The tick of one process changes to another tick of these types.
LEMMA TickTypes ==
    ASSUME TypeInv, NEW p \in Schedulers, NEW t \in Ticks,
           t.pc \in {"locked", "planned"} => t.sched \in Schedules /\ t.due \in Nat,
           tick' = [tick EXCEPT ![p] = t]
    PROVE  tick' \in [Schedulers -> Ticks] /\ HoldsSchedule'
BY DEF TypeInv, TypeOK, HoldsSchedule

\* A request changes to another state of these types.
LEMMA RequestTypes ==
    ASSUME TypeInv, NEW q \in Requests, NEW r \in RequestStates,
           r.pc \in {"read", "synced"} => r.sched \in Schedules,
           request' = [request EXCEPT ![q] = r]
    PROVE  request' \in [Requests -> RequestStates] /\ ReadSchedule'
BY DEF TypeInv, TypeOK, ReadSchedule

\* A task run that is created.
LEMMA TaskRunTypes ==
    ASSUME TypeInv, NEW s \in Schedules \cup {None}, NEW source \in Sources, NEW due \in MaybeTime,
           NEW first \in Nat, NEW last \in Nat, NEW rule \in Nat, NEW status \in RunStatuses,
           NEW news \in BOOLEAN
    PROVE  /\ TaskRun(s, source, due, first, last, rule, status) \in Runs
           /\ [TaskRun(s, source, due, first, last, rule, status) EXCEPT !.news = news] \in Runs
<1>1. clock \in Nat
    BY TimeAssumption DEF TypeInv, TypeOK
<1>2. Day(clock) \in Nat
    BY <1>1, TimeIsInDay
<1> QED BY <1>2 DEF TaskRun, Runs

\* What rolling back a transaction leaves.
LEMMA RolledBackTypes ==
    ASSUME TypeInv, NEW p \in Schedulers, RolledBack(p),
           UNCHANGED commandVars, deaths' \in 0 .. MaxDeaths
    PROVE  TypeInv'
<1>1. IdleTick \in Ticks
    BY DEF IdleTick, Ticks, NoPlan, Plans, MaybeTime
<1>2. tick' = [tick EXCEPT ![p] = IdleTick] /\ IdleTick.pc = "idle"
    BY DEF RolledBack, IdleTick
<1>3. tick' \in [Schedulers -> Ticks] /\ HoldsSchedule'
    BY <1>1, <1>2, TickTypes
<1>4. /\ holder' \in [Schedules -> Schedulers \cup {None}]
      /\ newsLock' \in Schedulers \cup Requests \cup {None}
    BY DEF TypeInv, TypeOK, RolledBack
<1> QED BY <1>3, <1>4 DEF TypeInv, TypeOK, RolledBack, ReadSchedule, commandVars

\* A schedule that was run or skipped.
LEMMA AdvancedTypes ==
    ASSUME TypeInv, NEW s \in Schedules, NEW t \in Nat
    PROVE  Advanced(s, t) \in Rows
<1>1. NextOccurrence(t) \in Nat
    BY NextIsLater
<1>2. row[s] \in Rows
    BY DEF TypeInv, TypeOK
<1> QED BY <1>1, <1>2 DEF Advanced, Rows, MaybeTime, RowStatuses

\* A plan of the tick.
LEMMA PlannedTypes ==
    ASSUME TypeInv, NEW p \in Schedulers, NEW plan \in Plans, tick[p].pc = "locked",
           Planned(p, plan), newsLock' \in {newsLock, p}
    PROVE  TypeInv'
<1> DEFINE t == [tick[p] EXCEPT !.pc = "planned", !.plan = plan]
<1>1. tick[p] \in Ticks /\ tick \in [Schedulers -> Ticks]
    BY DEF TypeInv, TypeOK
<1>2. t \in Ticks /\ t.sched = tick[p].sched /\ t.due = tick[p].due
    BY <1>1 DEF Ticks
<1>3. t.sched \in Schedules /\ t.due \in Nat
    BY <1>2 DEF TypeInv, HoldsSchedule
<1>4. tick' = [tick EXCEPT ![p] = t]
    BY <1>1 DEF Planned, Ticks
<1>5. tick' \in [Schedulers -> Ticks] /\ HoldsSchedule'
    BY <1>2, <1>3, <1>4, TickTypes
<1>6. newsLock' \in Schedulers \cup Requests \cup {None}
    BY DEF TypeInv, TypeOK
<1> QED BY <1>5, <1>6 DEF TypeInv, TypeOK, Planned, ReadSchedule, commandVars

\* The first state has the types.
LEMMA TypesInit == Init => TypeInv
<1> SUFFICES ASSUME Init PROVE TypeInv
    OBVIOUS
<1>1. config.of \in [Schedules -> ScheduleConfig]
    BY ConfigTypes DEF Init
<1>2. row \in [Schedules -> Rows]
    BY <1>1 DEF Init, Rows, ScheduleConfig
<1>3. rules \subseteq Rules /\ lastRule \in Nat
    BY SchedulesAssumption DEF Init, Rules
<1>4. tick \in [Schedulers -> Ticks] /\ HoldsSchedule
    BY DEF Init, IdleTick, Ticks, NoPlan, Plans, MaybeTime, HoldsSchedule
<1>5. request \in [Requests -> RequestStates] /\ ReadSchedule
    BY DEF Init, NewRequest, RequestStates, Rows, RowStatuses, MaybeTime, ReadSchedule
<1>6. clock \in 0 .. MaxTime /\ deaths \in 0 .. MaxDeaths
    BY TimeAssumption DEF Init
<1>7. runs \in Seq(Runs)
    BY DEF Init
<1> QED BY <1>2, <1>3, <1>4, <1>5, <1>6, <1>7 DEF Init, TypeInv, TypeOK

\* Every step keeps the types.
LEMMA TypesNext == TypeInv /\ [Next]_scheduleVars => TypeInv'
<1> SUFFICES ASSUME TypeInv, [Next]_scheduleVars PROVE TypeInv'
    OBVIOUS
<1>0. /\ clock \in Nat /\ MaxTime \in Nat /\ MaxDeaths \in Nat
      /\ deaths \in 0 .. MaxDeaths
    BY TimeAssumption DEF TypeInv, TypeOK
<1>1. ASSUME NEW p \in Schedulers, StartTick(p) PROVE TypeInv'
    <2> DEFINE t == [IdleTick EXCEPT !.pc = "due", !.now = clock]
    <2>1. t \in Ticks /\ t.pc = "due"
        BY <1>0 DEF IdleTick, Ticks, NoPlan, Plans, MaybeTime
    <2>2. tick' = [tick EXCEPT ![p] = t]
        BY <1>1 DEF StartTick
    <2>3. tick' \in [Schedulers -> Ticks] /\ HoldsSchedule'
        BY <2>1, <2>2, TickTypes
    <2> QED BY <1>1, <2>3 DEF StartTick, TypeInv, TypeOK, ReadSchedule, commandVars
<1>2. ASSUME NEW p \in Schedulers, TakeDue(p) PROVE TypeInv'
    <2>1. PICK s \in Candidates(p) :
             /\ holder' = [holder EXCEPT ![s] = p]
             /\ tick' = [tick EXCEPT ![p].pc = "locked", ![p].sched = s, ![p].due = row[s].next,
                                     ![p].done = @ \cup {s}]
        BY <1>2 DEF TakeDue
    <2> DEFINE t == [tick[p] EXCEPT !.pc = "locked", !.sched = s, !.due = row[s].next,
                                    !.done = @ \cup {s}]
    <2>2. s \in Schedules /\ row[s].next \in Nat
        BY <2>1 DEF Candidates, IsDue, TypeInv, TypeOK, Rows, MaybeTime
    <2>3. tick[p] \in Ticks /\ tick \in [Schedulers -> Ticks]
        BY DEF TypeInv, TypeOK
    <2>4. t \in Ticks /\ t.sched = s /\ t.due = row[s].next
        BY <2>2, <2>3 DEF Ticks, MaybeTime
    <2>5. tick' = [tick EXCEPT ![p] = t]
        BY <2>1, <2>3 DEF Ticks
    <2>6. tick' \in [Schedulers -> Ticks] /\ HoldsSchedule'
        BY <2>2, <2>4, <2>5, TickTypes
    <2>7. holder' \in [Schedules -> Schedulers \cup {None}]
        BY <2>1, <2>2 DEF TypeInv, TypeOK
    <2> QED BY <1>2, <2>6, <2>7 DEF TakeDue, TypeInv, TypeOK, ReadSchedule, commandVars
<1>3. ASSUME NEW p \in Schedulers, EndDue(p) PROVE TypeInv'
    <2> DEFINE t == [IdleTick EXCEPT !.pc = "probing", !.now = tick[p].now]
    <2>1. tick[p].now \in Nat
        BY DEF TypeInv, TypeOK, Ticks
    <2>2. t \in Ticks /\ t.pc = "probing"
        BY <2>1 DEF IdleTick, Ticks, NoPlan, Plans, MaybeTime
    <2>3. tick' = [tick EXCEPT ![p] = t]
        BY <1>3 DEF EndDue
    <2>4. tick' \in [Schedulers -> Ticks] /\ HoldsSchedule'
        BY <2>2, <2>3, TickTypes
    <2> QED BY <1>3, <2>4 DEF EndDue, TypeInv, TypeOK, ReadSchedule, commandVars
<1>4. ASSUME NEW p \in Schedulers, RefusePolicy(p) \/ AbortProbes(p) PROVE TypeInv'
    <2>1. RolledBack(p) /\ UNCHANGED <<commandVars, deaths>>
        BY <1>4 DEF RefusePolicy, AbortProbes, RolledBack
    <2> QED BY <1>0, <2>1, RolledBackTypes
<1>5. ASSUME NEW p \in Schedulers, Die(p) PROVE TypeInv'
    <2>1. config.deaths \in 0 .. MaxDeaths
        BY ConfigTypes DEF TypeInv, TypeOK
    <2>2. deaths' \in 0 .. MaxDeaths
        BY <1>0, <1>5, <2>1 DEF Die
    <2>3. RolledBack(p) /\ UNCHANGED commandVars
        BY <1>5 DEF Die, RolledBack
    <2> QED BY <2>2, <2>3, RolledBackTypes
<1>6. ASSUME NEW p \in Schedulers, PlanStep(p) PROVE TypeInv'
    <2>1. /\ tick[p] \in Ticks
          /\ tick[p].pc = "locked"
          /\ tick[p].due \in Nat /\ tick[p].now \in Nat
        BY <1>6 DEF PlanStep, PlanSkippedFallback, PlanDataset, PlanSinceLastSuccess, PlanHeat,
                    PlanNoNews, PlanNews, HoldsKind, Holds, TypeInv, TypeOK, HoldsSchedule, Ticks
    <2>2. SkipDue \in Plans
        BY DEF SkipDue, NoPlan, Plans, MaybeTime
    <2>3. Day(tick[p].due) \in Nat /\ Day(tick[p].now) \in Nat
        BY <2>1, TimeIsInDay
    <2>4. \A what \in {"run", "fail", "timeout", "retry"}, first \in Nat, last \in Nat,
             next \in MaybeTime : Plan(what, first, last, next) \in Plans
        BY DEF Plan, Plans
    <2>5. None \in MaybeTime
        BY DEF MaybeTime
    <2>6. \E plan \in Plans : Planned(p, plan) /\ newsLock' \in {newsLock, p}
        <3>1. CASE PlanSkippedFallback(p) \/ PlanNoNews(p)
            BY <2>2, <3>1 DEF PlanSkippedFallback, PlanNoNews
        <3>2. CASE PlanDataset(p)
            BY <2>3, <2>4, <2>5, <3>2 DEF PlanDataset, Due
        <3>3. CASE PlanSinceLastSuccess(p)
            <4>1. PICK start \in 0 .. Day(MaxTime) + 1 :
                     Planned(p, IF start >= Day(Due(p)) THEN SkipDue
                                ELSE Plan(IF Day(Due(p)) - start > MaxWindow THEN "fail" ELSE "run",
                                          start, Day(Due(p)) - 1, None))
                BY <3>3 DEF PlanSinceLastSuccess
            <4>2. start \in Nat
                BY <1>0, TimeIsInDay
            <4>3. CASE start >= Day(Due(p))
                BY <2>2, <3>3, <4>1, <4>3 DEF PlanSinceLastSuccess
            <4>4. CASE ~(start >= Day(Due(p)))
                <5>1. Day(Due(p)) \in Nat /\ Day(Due(p)) - 1 \in Nat
                    BY <2>3, <4>2, <4>4 DEF Due
                <5>2. Plan(IF Day(Due(p)) - start > MaxWindow THEN "fail" ELSE "run",
                           start, Day(Due(p)) - 1, None) \in Plans
                    BY <2>4, <2>5, <4>2, <5>1
                <5> QED BY <3>3, <4>1, <4>4, <5>2 DEF PlanSinceLastSuccess
            <4> QED BY <4>3, <4>4
        <3>4. CASE PlanHeat(p)
            <4>1. HeatDate(Due(p)) \in Nat /\ HeatDeadline(Due(p)) \in Nat
                BY <2>1, HeatTypes DEF Due
            <4> DEFINE later == IF tick[p].now + 1 < HeatDeadline(Due(p)) THEN tick[p].now + 1
                                ELSE HeatDeadline(Due(p))
            <4>2. later \in MaybeTime
                BY <2>1, <4>1 DEF MaybeTime
            <4>3. /\ Plan("run", HeatDate(Due(p)), HeatDate(Due(p)), None) \in Plans
                  /\ Plan("timeout", HeatDate(Due(p)), HeatDate(Due(p)), None) \in Plans
                  /\ Plan("retry", HeatDate(Due(p)), HeatDate(Due(p)), later) \in Plans
                BY <2>4, <2>5, <4>1, <4>2
            <4> QED BY <2>2, <3>4, <4>3 DEF PlanHeat
        <3>5. CASE PlanNews(p)
            BY <2>2, <2>3, <2>4, <2>5, <3>5 DEF PlanNews
        <3> QED BY <1>6, <3>1, <3>2, <3>3, <3>4, <3>5 DEF PlanStep
    <2> QED BY <2>1, <2>6, PlannedTypes
<1>7. ASSUME NEW p \in Schedulers, CommitPlan(p) PROVE TypeInv'
    <2> DEFINE s == tick[p].sched
               plan == tick[p].plan
               t == [tick[p] EXCEPT !.pc = "due", !.sched = None, !.due = None, !.plan = NoPlan]
    <2>1. /\ tick[p] \in Ticks /\ tick \in [Schedulers -> Ticks]
          /\ tick[p].pc = "planned" /\ s \in Schedules /\ Due(p) \in Nat
          /\ plan \in Plans /\ tick[p].now \in Nat
        BY <1>7 DEF CommitPlan, TypeInv, TypeOK, HoldsSchedule, Ticks, Due
    <2>2. t \in Ticks /\ t.pc = "due"
        BY <2>1 DEF Ticks, NoPlan, Plans, MaybeTime
    <2>3. tick' = [tick EXCEPT ![p] = t]
        BY <1>7, <2>1 DEF CommitPlan, Ticks
    <2>4. tick' \in [Schedulers -> Ticks] /\ HoldsSchedule'
        BY <2>2, <2>3, TickTypes
    <2>5. row' \in [Schedules -> Rows]
        <3>1. Advanced(s, tick[p].now) \in Rows
            BY <2>1, AdvancedTypes
        <3>2. [row[s] EXCEPT !.next = plan.next] \in Rows
            BY <2>1 DEF TypeInv, TypeOK, Rows, Plans
        <3>3. [status |-> "paused", next |-> None] \in Rows
            BY DEF Rows, RowStatuses, MaybeTime
        <3> QED BY <1>7, <3>1, <3>2, <3>3 DEF CommitPlan, TypeInv, TypeOK
    <2>6. runs' \in Seq(Runs)
        <3> DEFINE status == IF plan.what = "run" THEN "open" ELSE "failed"
                   new == [TaskRun(s, "scheduled", Due(p), plan.first, plan.last, 0, status)
                              EXCEPT !.news = (Kind(s) = "news")]
        <3>1. new \in Runs
            BY <2>1, TaskRunTypes DEF Sources, MaybeTime, RunStatuses, Plans
        <3>2. runs' \in {runs, Append(runs, new)}
            BY <1>7 DEF CommitPlan
        <3>3. runs \in Seq(Runs)
            BY DEF TypeInv, TypeOK
        <3> HIDE DEF new
        <3>4. Append(runs, new) \in Seq(Runs)
            BY <3>1, <3>3
        <3> QED BY <3>2, <3>3, <3>4
    <2>7. /\ holder' \in [Schedules -> Schedulers \cup {None}]
          /\ newsLock' \in Schedulers \cup Requests \cup {None}
        BY <1>7 DEF CommitPlan, TypeInv, TypeOK
    <2> QED BY <1>7, <2>4, <2>5, <2>6, <2>7
            DEF CommitPlan, TypeInv, TypeOK, ReadSchedule, commandVars
<1>8. ASSUME NEW p \in Schedulers, EndTick(p) PROVE TypeInv'
    <2>1. IdleTick \in Ticks /\ IdleTick.pc = "idle"
        BY DEF IdleTick, Ticks, NoPlan, Plans, MaybeTime
    <2>2. tick' \in [Schedulers -> Ticks] /\ HoldsSchedule'
        BY <1>8, <2>1, TickTypes DEF EndTick
    <2> QED BY <1>8, <2>2 DEF EndTick, TypeInv, TypeOK, ReadSchedule, commandVars
<1>9. ASSUME NEW p \in Schedulers, NEW r \in rules, NEW target \in Nat, CreateProbeRun(p, r, target)
      PROVE  TypeInv'
    <2>1. r.sched \in Schedules /\ r.id \in Nat
        BY DEF TypeInv, TypeOK, Rules
    <2>2. TaskRun(r.sched, "probe", None, target, target, r.id, "open") \in Runs
        BY <2>1, TaskRunTypes DEF Sources, MaybeTime, RunStatuses
    <2>3. runs' \in Seq(Runs)
        BY <1>9, <2>2 DEF CreateProbeRun, TypeInv, TypeOK
    <2> QED BY <1>9, <2>3 DEF CreateProbeRun, TypeInv, TypeOK, HoldsSchedule, ReadSchedule, commandVars
<1>10. ASSUME NEW q \in Requests, NEW op \in Operations \ {"news", "retry"}, NEW s \in Schedules, ReadRow(q, op, s)
       PROVE  TypeInv'
    <2> DEFINE r == [NewRequest EXCEPT !.pc = "read", !.op = op, !.sched = s, !.read = row[s]]
    <2>1. row[s] \in Rows
        BY DEF TypeInv, TypeOK
    <2>2. r \in RequestStates /\ r.sched = s
        BY <2>1 DEF NewRequest, RequestStates, MaybeTime
    <2>3. request' = [request EXCEPT ![q] = r]
        BY <1>10 DEF ReadRow
    <2>4. request' \in [Requests -> RequestStates] /\ ReadSchedule'
        BY <2>2, <2>3, RequestTypes
    <2> QED BY <1>10, <2>4 DEF ReadRow, TypeInv, TypeOK, HoldsSchedule
<1>11. ASSUME NEW q \in Requests, DeleteRules(q) PROVE TypeInv'
    <2>1. PICK next \in NewNexts(q) :
             request' = [request EXCEPT
                        ![q].pc = "synced",
                        ![q].status = IF NewStatus(q) = request[q].read.status
                                      THEN None ELSE NewStatus(q),
                        ![q].next = IF next = request[q].read.next THEN None ELSE next,
                        ![q].victims = {r \in rules : r.sched = request[q].sched}]
        BY <1>11 DEF DeleteRules
    <2> DEFINE status == IF NewStatus(q) = request[q].read.status THEN None ELSE NewStatus(q)
               at == IF next = request[q].read.next THEN None ELSE next
               victims == {r \in rules : r.sched = request[q].sched}
               s == [request[q] EXCEPT !.pc = "synced", !.status = status, !.next = at,
                                       !.victims = victims]
    <2>2. request[q] \in RequestStates /\ request \in [Requests -> RequestStates]
        BY DEF TypeInv, TypeOK
    <2>3. request[q].sched \in Schedules
        BY <1>11 DEF DeleteRules, TypeInv, ReadSchedule
    <2>4. status \in RowStatuses \cup {None}
        BY <2>2 DEF NewStatus, RequestStates, Rows, RowStatuses
    <2>5. next \in MaybeTime
        <3>1. NextOccurrence(clock) \in Nat
            BY <1>0, NextIsLater
        <3>2. 0 .. config.horizon \subseteq Nat
            BY <1>0, ConfigTypes DEF TypeInv, TypeOK
        <3>3. request[q].read.next \in MaybeTime
            BY <2>2 DEF RequestStates, Rows
        <3> QED BY <2>1, <3>1, <3>2, <3>3 DEF NewNexts, MaybeTime
    <2>6. at \in MaybeTime
        BY <2>5 DEF MaybeTime
    <2>7. victims \subseteq Rules
        BY DEF TypeInv, TypeOK
    <2>8. request' = [request EXCEPT ![q] = s]
        BY <2>1, <2>2 DEF RequestStates
    <2> HIDE DEF status, at, victims
    <2>9. s \in RequestStates /\ s.sched = request[q].sched
        BY <2>2, <2>4, <2>6, <2>7 DEF RequestStates
    <2>10. request' \in [Requests -> RequestStates] /\ ReadSchedule'
        BY <2>3, <2>8, <2>9, RequestTypes
    <2> QED BY <1>11, <2>10 DEF DeleteRules, TypeInv, TypeOK, HoldsSchedule
<1>12. ASSUME NEW q \in Requests, CommitRequest(q) PROVE TypeInv'
    <2> DEFINE s == request[q].sched
    <2>1. s \in Schedules /\ request[q] \in RequestStates
        BY <1>12 DEF CommitRequest, TypeInv, TypeOK, ReadSchedule
    <2>2. Written(q) \in Rows
        BY <2>1 DEF Written, TypeInv, TypeOK, RequestStates, Rows, RowStatuses, MaybeTime
    <2>3. row' \in [Schedules -> Rows]
        BY <1>12, <2>2 DEF CommitRequest, TypeInv, TypeOK
    <2>4. lastRule' \in Nat /\ rules' \subseteq Rules
        BY <1>12, <2>1 DEF CommitRequest, TypeInv, TypeOK, Rules
    <2>5. written' \subseteq Schedules \X Nat
        BY <1>12, <2>1 DEF CommitRequest, TypeInv, TypeOK, RequestStates, MaybeTime
    <2>6. [NewRequest EXCEPT !.pc = "done"] \in RequestStates
        BY DEF NewRequest, RequestStates, Rows, RowStatuses, MaybeTime
    <2>7. request' \in [Requests -> RequestStates] /\ ReadSchedule'
        BY <1>12, <2>6, RequestTypes DEF CommitRequest, NewRequest
    <2> QED BY <1>12, <2>3, <2>4, <2>5, <2>7 DEF CommitRequest, TypeInv, TypeOK, HoldsSchedule
<1>13. ASSUME NEW q \in Requests, FailRequest(q) PROVE TypeInv'
    <2>1. [NewRequest EXCEPT !.pc = "done"] \in RequestStates
        BY DEF NewRequest, RequestStates, Rows, RowStatuses, MaybeTime
    <2>2. request' \in [Requests -> RequestStates] /\ ReadSchedule'
        BY <1>13, <2>1, RequestTypes DEF FailRequest, NewRequest
    <2> QED BY <1>13, <2>2 DEF FailRequest, TypeInv, TypeOK, HoldsSchedule
<1>14. ASSUME NEW q \in Requests, SubmitNews(q) PROVE TypeInv'
    <2> DEFINE there == IF HasActiveNewsTask THEN "done" ELSE "staged"
               r == [request[q] EXCEPT !.op = "news", !.pc = there]
    <2>1. request[q] \in RequestStates /\ request \in [Requests -> RequestStates]
        BY DEF TypeInv, TypeOK
    <2>2. r \in RequestStates /\ r.pc \in {"done", "staged"}
        BY <2>1 DEF RequestStates, Operations
    <2>3. request' = [request EXCEPT ![q] = r]
        BY <1>14, <2>1 DEF SubmitNews, RequestStates
    <2>4. request' \in [Requests -> RequestStates] /\ ReadSchedule'
        BY <2>2, <2>3, RequestTypes
    <2>5. newsLock' \in Schedulers \cup Requests \cup {None}
        BY <1>14 DEF SubmitNews
    <2> QED BY <1>14, <2>4, <2>5 DEF SubmitNews, TypeInv, TypeOK, HoldsSchedule
<1>15. ASSUME NEW q \in Requests, CommitNews(q) PROVE TypeInv'
    <2> DEFINE new == [TaskRun(None, "manual", None, Day(clock), Day(clock), 0, "open")
                          EXCEPT !.news = TRUE]
    <2>1. Day(clock) \in Nat
        BY <1>0, TimeIsInDay
    <2>2. new \in Runs
        BY <2>1, TaskRunTypes DEF Sources, MaybeTime, RunStatuses
    <2>3. runs' = Append(runs, new)
        BY <1>15 DEF CommitNews
    <2>4. runs' \in Seq(Runs)
        BY <2>2, <2>3 DEF TypeInv, TypeOK
    <2>5. [NewRequest EXCEPT !.pc = "done"] \in RequestStates
        BY DEF NewRequest, RequestStates, Rows, RowStatuses, MaybeTime
    <2>6. request' \in [Requests -> RequestStates] /\ ReadSchedule'
        BY <1>15, <2>5, RequestTypes DEF CommitNews, NewRequest
    <2> QED BY <1>15, <2>4, <2>6 DEF CommitNews, TypeInv, TypeOK, HoldsSchedule
<1>16. ASSUME NEW i \in DOMAIN runs, NEW status \in config.endings \cup {"open"}, WriteStatus(i, status)
       PROVE  TypeInv'
    <2>1. status \in RunStatuses /\ {status} \ {"open"} \subseteq Endings
        BY ConfigTypes DEF TypeInv, TypeOK, RunStatuses, Endings
    <2>2. runs \in Seq(Runs) /\ runs[i] \in Runs
        BY DEF TypeInv, TypeOK
    <2> DEFINE ever == runs[i].ever \cup ({status} \ {"open"})
               new == [runs[i] EXCEPT !.status = status, !.ever = ever]
    <2>3. ever \subseteq Endings
        BY <2>1, <2>2 DEF Runs
    <2>4. new \in Runs
        <3> HIDE DEF ever
        <3> QED BY <2>1, <2>2, <2>3 DEF Runs
    <2>5. runs' = [runs EXCEPT ![i] = new]
        BY <1>16, <2>2 DEF WriteStatus, Runs
    <2> HIDE DEF new
    <2>6. runs' \in Seq(Runs)
        BY <2>2, <2>4, <2>5, ExceptSeq
    <2> QED BY <1>16, <2>6 DEF WriteStatus, TypeInv, TypeOK, HoldsSchedule, ReadSchedule, commandVars
<1>17. CASE PassTime
    <2>1. clock' \in 0 .. MaxTime
        BY <1>0, <1>17, ConfigTypes DEF PassTime, TypeInv, TypeOK
    <2> QED BY <1>17, <2>1 DEF PassTime, TypeInv, TypeOK, HoldsSchedule, ReadSchedule, commandVars
<1>18. CASE UNCHANGED scheduleVars
    BY <1>18 DEF scheduleVars, commandVars, TypeInv, TypeOK, HoldsSchedule, ReadSchedule
<1>19. ASSUME NEW q \in Requests, Retry(q) PROVE TypeInv'
    <2>1. PICK s \in Schedules : \E i \in WindowsOf(s) :
             runs' = Append(runs, TaskRun(s, "retry", None, runs[i].first, runs[i].last, 0, "open"))
        BY <1>19 DEF Retry
    <2>2. PICK i \in WindowsOf(s) :
             runs' = Append(runs, TaskRun(s, "retry", None, runs[i].first, runs[i].last, 0, "open"))
        BY <2>1
    <2>3. runs \in Seq(Runs) /\ runs[i] \in Runs
        BY DEF WindowsOf, RunsOf, TypeInv, TypeOK
    <2>4. TaskRun(s, "retry", None, runs[i].first, runs[i].last, 0, "open") \in Runs
        <3>1. runs[i].first \in Nat /\ runs[i].last \in Nat
            BY <2>3 DEF Runs
        <3> QED BY <3>1, TaskRunTypes DEF Sources, MaybeTime, RunStatuses
    <2>5. runs' \in Seq(Runs)
        BY <2>2, <2>3, <2>4
    <2> DEFINE r == [request[q] EXCEPT !.op = "retry", !.pc = "done"]
    <2>6. request[q] \in RequestStates /\ request \in [Requests -> RequestStates]
        BY DEF TypeInv, TypeOK
    <2>7. r \in RequestStates /\ r.pc = "done"
        BY <2>6 DEF RequestStates, Operations
    <2>8. request' = [request EXCEPT ![q] = r]
        BY <1>19, <2>6 DEF Retry, RequestStates
    <2>9. request' \in [Requests -> RequestStates] /\ ReadSchedule'
        BY <2>7, <2>8, RequestTypes
    <2> QED BY <1>19, <2>5, <2>9 DEF Retry, TypeInv, TypeOK, HoldsSchedule
<1>20. CASE EnvironmentStep
    BY <1>16, <1>17, <1>20 DEF EnvironmentStep, EndRun, RewriteRun
<1> QED BY <1>1, <1>2, <1>3, <1>4, <1>5, <1>6, <1>7, <1>8, <1>9, <1>10, <1>11, <1>12, <1>13,
           <1>14, <1>15, <1>18, <1>19, <1>20 DEF Next, DueStep, RequestStep

\* Every variable keeps its type, in every reachable state.
THEOREM TypeCorrect == Spec => []TypeOK
<1>1. TypeInv => TypeOK
    BY DEF TypeInv
<1> QED BY TypesInit, TypesNext, <1>1, PTL DEF Spec

-----------------------------------------------------------------------------
(* A schedule that a tick holds *)

\* The row is locked, is active, and has the due time the tick has read; it is
\* not later than the tick.
HeldRow == \A p \in Schedulers : tick[p].pc \in {"locked", "planned"} =>
              /\ holder[tick[p].sched] = p
              /\ row[tick[p].sched].status = "active"
              /\ row[tick[p].sched].next = tick[p].due
              /\ tick[p].due <= tick[p].now

\* Who waits for the inputs of heat sets the schedule to a time that lies ahead.
RetryIsLater == \A p \in Schedulers : tick[p].pc = "planned" /\ tick[p].plan.what = "retry" =>
                    tick[p].plan.next \in Nat /\ tick[p].plan.next > tick[p].now

LockInv == HeldRow /\ RetryIsLater

\* No schedule is held at first.
LEMMA LockInit == Init => LockInv
BY DEF Init, LockInv, HeldRow, RetryIsLater, IdleTick

\* A tick that stops holding a schedule, or none, leaves the other ones alone.
LEMMA LockReleased ==
    ASSUME TypeInv, LockInv, NEW p \in Schedulers, NEW t \in Ticks, t.pc \notin {"locked", "planned"},
           tick' = [tick EXCEPT ![p] = t],
           \A s \in Schedules : holder[s] # p => holder'[s] = holder[s] /\ row'[s] = row[s]
    PROVE  LockInv'
<1>1. \A r \in Schedulers : tick'[r].pc \in {"locked", "planned"} =>
         /\ r # p /\ tick'[r] = tick[r]
         /\ tick[r].sched \in Schedules
    BY DEF TypeInv, TypeOK, HoldsSchedule
<1> QED BY <1>1 DEF LockInv, HeldRow, RetryIsLater

\* What a plan of the tick keeps.
LEMMA LockPlanned ==
    ASSUME TypeInv, LockInv, NEW p \in Schedulers, PlanStep(p) PROVE LockInv'
<1>1. PICK plan : /\ tick' = [tick EXCEPT ![p].pc = "planned", ![p].plan = plan]
                  /\ UNCHANGED <<config, clock, row, runs, holder>>
                  /\ plan.what = "retry" => plan.next \in Nat /\ plan.next > tick[p].now
    <2>1. SkipDue.what # "retry"
        BY DEF SkipDue, NoPlan
    <2>2. CASE PlanHeat(p)
        <3> DEFINE now == tick[p].now
                   deadline == HeatDeadline(Due(p))
                   later == IF now + 1 < deadline THEN now + 1 ELSE deadline
                   date == HeatDate(Due(p))
        <3>1. tick[p].now \in Nat /\ Due(p) \in Nat
            BY <2>2 DEF PlanHeat, HoldsKind, Holds, TypeInv, TypeOK, HoldsSchedule, Ticks, Due
        <3>2. deadline \in Nat
            BY <3>1, HeatTypes
        <3>3. now < deadline => later \in Nat /\ later > now
            BY <3>1, <3>2
        <3>4. \/ Planned(p, SkipDue) \/ Planned(p, Plan("run", date, date, None))
              \/ Planned(p, Plan("timeout", date, date, None))
              \/ now < deadline /\ Planned(p, Plan("retry", date, date, later))
            BY <2>2 DEF PlanHeat
        <3> QED BY <2>1, <3>3, <3>4 DEF Planned, Plan
    <2>3. CASE ~PlanHeat(p)
        BY <2>1, <2>3 DEF PlanStep, PlanSkippedFallback, PlanDataset, PlanSinceLastSuccess,
                          PlanNoNews, PlanNews, Planned, Plan
    <2> QED BY <2>2, <2>3
<1>2. tick[p].pc = "locked"
    BY DEF PlanStep, PlanSkippedFallback, PlanDataset, PlanSinceLastSuccess, PlanHeat,
           PlanNoNews, PlanNews, HoldsKind, Holds
<1>3. tick \in [Schedulers -> Ticks]
    BY DEF TypeInv, TypeOK
<1>4. /\ tick'[p].sched = tick[p].sched /\ tick'[p].due = tick[p].due
      /\ tick'[p].now = tick[p].now /\ tick'[p].plan = plan
      /\ \A r \in Schedulers : r # p => tick'[r] = tick[r]
    BY <1>1, <1>3 DEF Ticks
<1>5. HeldRow'
    <2>1. row' = row /\ holder' = holder
        BY <1>1
    <2>2. /\ holder[tick[p].sched] = p
          /\ row[tick[p].sched].status = "active"
          /\ row[tick[p].sched].next = tick[p].due
          /\ tick[p].due <= tick[p].now
        BY <1>2 DEF LockInv, HeldRow
    <2>3. \A r \in Schedulers : r # p /\ tick'[r].pc \in {"locked", "planned"} =>
             /\ holder'[tick'[r].sched] = r
             /\ row'[tick'[r].sched].status = "active"
             /\ row'[tick'[r].sched].next = tick'[r].due
             /\ tick'[r].due <= tick'[r].now
        BY <1>4, <2>1 DEF LockInv, HeldRow
    <2> QED BY <1>4, <2>1, <2>2, <2>3 DEF HeldRow
<1>6. RetryIsLater'
    <2>1. plan.what = "retry" => plan.next \in Nat /\ plan.next > tick'[p].now
        BY <1>1, <1>4
    <2>2. \A r \in Schedulers : r # p /\ tick'[r].pc = "planned" /\ tick'[r].plan.what = "retry" =>
             tick'[r].plan.next \in Nat /\ tick'[r].plan.next > tick'[r].now
        BY <1>4 DEF LockInv, RetryIsLater
    <2> QED BY <1>4, <2>1, <2>2 DEF RetryIsLater
<1> QED BY <1>5, <1>6 DEF LockInv

\* Every step keeps the invariant about held schedules.
LEMMA LockNext == TypeInv /\ LockInv /\ [Next]_scheduleVars => LockInv'
<1> SUFFICES ASSUME TypeInv, LockInv, [Next]_scheduleVars PROVE LockInv'
    OBVIOUS
<1>0. tick \in [Schedulers -> Ticks] /\ holder \in [Schedules -> Schedulers \cup {None}]
    BY DEF TypeInv, TypeOK
<1>1. IdleTick \in Ticks /\ IdleTick.pc = "idle"
    BY DEF IdleTick, Ticks, NoPlan, Plans, MaybeTime
<1>2. ASSUME NEW p \in Schedulers, StartTick(p) PROVE LockInv'
    <2> DEFINE t == [IdleTick EXCEPT !.pc = "due", !.now = clock]
    <2>1. t \in Ticks /\ t.pc = "due"
        <3>1. clock \in Nat
            BY TimeAssumption DEF TypeInv, TypeOK
        <3> QED BY <3>1 DEF IdleTick, Ticks, NoPlan, Plans, MaybeTime
    <2> QED BY <1>2, <2>1, LockReleased DEF StartTick
<1>3. ASSUME NEW p \in Schedulers, TakeDue(p) PROVE LockInv'
    <2>1. PICK s \in Candidates(p) :
             /\ holder' = [holder EXCEPT ![s] = p]
             /\ tick' = [tick EXCEPT ![p].pc = "locked", ![p].sched = s, ![p].due = row[s].next,
                                     ![p].done = @ \cup {s}]
        BY <1>3 DEF TakeDue
    <2>2. /\ s \in Schedules /\ holder[s] = None
          /\ row[s].status = "active" /\ row[s].next <= tick[p].now
        BY <2>1 DEF Candidates, IsDue
    <2>3. /\ tick'[p].pc = "locked" /\ tick'[p].sched = s /\ tick'[p].due = row[s].next
          /\ tick'[p].now = tick[p].now
          /\ \A r \in Schedulers : r # p => tick'[r] = tick[r]
        BY <1>0, <2>1 DEF Ticks
    <2>4. \A r \in Schedulers : tick[r].pc \in {"locked", "planned"} =>
             tick[r].sched \in Schedules /\ tick[r].sched # s
        BY <2>2, NoneAssumption DEF TypeInv, HoldsSchedule, LockInv, HeldRow
    <2>5. row' = row
        BY <1>3 DEF TakeDue
    <2>6. \A r \in Schedulers : r # p /\ tick[r].pc \in {"locked", "planned"} =>
             holder'[tick[r].sched] = holder[tick[r].sched]
        BY <2>1, <2>4
    <2>7. holder'[s] = p
        BY <1>0, <2>1, <2>2 DEF TypeInv, TypeOK
    <2>8. HeldRow'
        BY <2>2, <2>3, <2>5, <2>6, <2>7 DEF LockInv, HeldRow
    <2>9. RetryIsLater'
        BY <2>3 DEF LockInv, RetryIsLater
    <2> QED BY <2>8, <2>9 DEF LockInv
<1>4. ASSUME NEW p \in Schedulers, EndDue(p) PROVE LockInv'
    <2> DEFINE t == [IdleTick EXCEPT !.pc = "probing", !.now = tick[p].now]
    <2>1. t \in Ticks /\ t.pc = "probing"
        BY <1>0 DEF IdleTick, Ticks, NoPlan, Plans, MaybeTime
    <2> QED BY <1>4, <2>1, LockReleased DEF EndDue
<1>5. ASSUME NEW p \in Schedulers, RolledBack(p) PROVE LockInv'
    <2>1. /\ tick' = [tick EXCEPT ![p] = IdleTick]
          /\ \A s \in Schedules : holder[s] # p => holder'[s] = holder[s] /\ row'[s] = row[s]
        BY <1>5 DEF RolledBack
    <2> QED BY <1>1, <2>1, LockReleased
<1>6. ASSUME NEW p \in Schedulers, PlanStep(p) PROVE LockInv'
    BY <1>6, LockPlanned
<1>7. ASSUME NEW p \in Schedulers, CommitPlan(p) PROVE LockInv'
    <2> DEFINE t == [tick[p] EXCEPT !.pc = "due", !.sched = None, !.due = None, !.plan = NoPlan]
    <2>1. t \in Ticks /\ t.pc = "due"
        BY <1>0 DEF Ticks, NoPlan, Plans, MaybeTime
    <2>2. tick' = [tick EXCEPT ![p] = t]
        BY <1>0, <1>7 DEF CommitPlan, Ticks
    <2>3. tick[p].sched \in Schedules /\ holder[tick[p].sched] = p
        BY <1>7 DEF CommitPlan, TypeInv, HoldsSchedule, LockInv, HeldRow
    <2>4. row \in [Schedules -> Rows]
        BY DEF TypeInv, TypeOK
    <2>5. \A s \in Schedules : holder[s] # p => holder'[s] = holder[s] /\ row'[s] = row[s]
        BY <1>0, <1>7, <2>3, <2>4 DEF CommitPlan
    <2> QED BY <2>1, <2>2, <2>5, LockReleased
<1>8. ASSUME NEW p \in Schedulers, EndTick(p) PROVE LockInv'
    BY <1>1, <1>8, LockReleased DEF EndTick
<1>9. ASSUME NEW q \in Requests, CommitRequest(q) PROVE LockInv'
    <2>1. /\ UNCHANGED <<holder, tick>>
          /\ holder[request[q].sched] = None
          /\ row' = [row EXCEPT ![request[q].sched] = Written(q)]
        BY <1>9 DEF CommitRequest
    <2>2. \A r \in Schedulers : tick[r].pc \in {"locked", "planned"} =>
             tick[r].sched \in Schedules /\ tick[r].sched # request[q].sched
        BY <2>1, NoneAssumption DEF TypeInv, HoldsSchedule, LockInv, HeldRow
    <2>3. row \in [Schedules -> Rows]
        BY DEF TypeInv, TypeOK
    <2> QED BY <2>1, <2>2, <2>3 DEF LockInv, HeldRow, RetryIsLater
<1>10. CASE UNCHANGED <<row, holder, tick>>
    BY <1>10 DEF LockInv, HeldRow, RetryIsLater
<1> QED
    <2>1. ASSUME NEW p \in Schedulers, DueStep(p) \/ Die(p) \/ EndTick(p) \/ AbortProbes(p)
          PROVE  LockInv'
        BY <1>2, <1>3, <1>4, <1>5, <1>6, <1>7, <1>8, <2>1 DEF DueStep, RefusePolicy, Die, AbortProbes
    <2>2. ASSUME NEW p \in Schedulers, NEW r \in rules, NEW target \in Nat, CreateProbeRun(p, r, target)
          PROVE  LockInv'
        BY <1>10, <2>2 DEF CreateProbeRun
    <2>3. ASSUME NEW q \in Requests, RequestStep(q) PROVE LockInv'
        BY <1>9, <1>10, <2>3 DEF RequestStep, ReadRow, DeleteRules, FailRequest, SubmitNews,
                                 CommitNews, Retry
    <2>4. CASE EnvironmentStep \/ UNCHANGED scheduleVars
        BY <1>10, <2>4 DEF EnvironmentStep, EndRun, RewriteRun, WriteStatus, PassTime, scheduleVars
    <2> QED BY <2>1, <2>2, <2>3, <2>4 DEF Next

\* TypeInv /\ LockInv is an invariant of the specification.
LEMMA Locked == Spec => [](TypeInv /\ LockInv)
BY TypesInit, TypesNext, LockInit, LockNext, PTL DEF Spec

-----------------------------------------------------------------------------
(* What a step does to task runs, plans and the lock of news linking *)

\* Every task run stays what it is; only what its row says may change, and what
\* it said once is remembered.
OldRunsStay ==
    \A i \in DOMAIN runs :
        /\ i \in DOMAIN runs'
        /\ runs'[i].sched = runs[i].sched /\ runs'[i].source = runs[i].source
        /\ runs'[i].due = runs[i].due /\ runs'[i].news = runs[i].news
        /\ runs'[i].first = runs[i].first /\ runs'[i].last = runs[i].last
        /\ runs'[i].rule = runs[i].rule /\ runs'[i].day = runs[i].day
        /\ runs[i].ever \subseteq runs'[i].ever
        /\ runs'[i].ever = {} => runs'[i].status = runs[i].status
        /\ runs'[i].status \in {runs[i].status, "open"} \cup runs'[i].ever

\* A task run that is new is open, and of a probe but not of news linking.
NewRunsAreOfProbes ==
    \A i \in DOMAIN runs' \ DOMAIN runs :
        runs'[i].source = "probe" /\ ~runs'[i].news /\ runs'[i].status = "open"

\* Nobody plans or stages anything, and whoever releases the lock goes idle.
NothingIsPlanned ==
    /\ \A p \in Schedulers : tick'[p].pc = "planned" => tick'[p] = tick[p]
    /\ \A q \in Requests : request'[q].pc = "staged" => request[q].pc = "staged"
    /\ \/ newsLock' = newsLock
       \/ \E p \in Schedulers : newsLock = p /\ newsLock' = None /\ tick'[p].pc = "idle"

QuietStep == /\ UNCHANGED <<row, written>>
             /\ OldRunsStay /\ NewRunsAreOfProbes
             /\ NothingIsPlanned

\* A task run is appended.
LEMMA AppendedRun ==
    ASSUME TypeInv, NEW new \in Runs, runs' = Append(runs, new)
    PROVE  /\ Len(runs) \in Nat /\ Len(runs) + 1 \notin DOMAIN runs
           /\ Len(runs') = Len(runs) + 1
           /\ DOMAIN runs' = DOMAIN runs \cup {Len(runs) + 1}
           /\ runs'[Len(runs) + 1] = new
           /\ \A i \in DOMAIN runs : runs'[i] = runs[i]
           /\ OldRunsStay
<1>1. runs \in Seq(Runs)
    BY DEF TypeInv, TypeOK
<1>2. /\ Len(runs) \in Nat /\ DOMAIN runs = 1 .. Len(runs)
      /\ Len(runs') = Len(runs) + 1
      /\ DOMAIN runs' = 1 .. Len(runs) + 1
      /\ runs'[Len(runs) + 1] = new
      /\ \A i \in DOMAIN runs : runs'[i] = runs[i]
    BY <1>1, AppendProperties
<1> QED BY <1>2 DEF OldRunsStay

\* A task run ends, or its row is written once more.
LEMMA EndedRun ==
    ASSUME TypeInv, NEW i \in DOMAIN runs, NEW status \in config.endings \cup {"open"},
           (EndRun(i, status) /\ status # "open") \/ RewriteRun(i, status)
    PROVE  OldRunsStay /\ DOMAIN runs' = DOMAIN runs
<1>1. runs \in Seq(Runs) /\ \A j \in DOMAIN runs : runs[j] \in Runs
    BY DEF TypeInv, TypeOK
<1>2. /\ runs' = [runs EXCEPT ![i].status = status, ![i].ever = @ \cup ({status} \ {"open"})]
      /\ status # "open" \/ runs[i].ever # {}
    BY DEF EndRun, RewriteRun, WriteStatus
<1>3. /\ DOMAIN runs' = DOMAIN runs
      /\ runs'[i] = [runs[i] EXCEPT !.status = status, !.ever = @ \cup ({status} \ {"open"})]
      /\ \A j \in DOMAIN runs : j # i => runs'[j] = runs[j]
    BY <1>1, <1>2 DEF Runs
<1>4. /\ runs'[i].status = status /\ runs'[i].ever = runs[i].ever \cup ({status} \ {"open"})
      /\ runs'[i].sched = runs[i].sched /\ runs'[i].source = runs[i].source
      /\ runs'[i].due = runs[i].due /\ runs'[i].news = runs[i].news
      /\ runs'[i].first = runs[i].first /\ runs'[i].last = runs[i].last
      /\ runs'[i].rule = runs[i].rule /\ runs'[i].day = runs[i].day
    BY <1>1, <1>3 DEF Runs
<1>5. /\ runs[i].ever \subseteq runs'[i].ever /\ runs'[i].ever # {}
      /\ runs'[i].status \in {"open"} \cup runs'[i].ever
    BY <1>2, <1>4
<1> QED BY <1>3, <1>4, <1>5 DEF OldRunsStay

\* The task run of a plan that is committed.
NewRun(p) ==
    LET plan == tick[p].plan
        s == tick[p].sched
    IN  [TaskRun(s, "scheduled", tick[p].due, plan.first, plan.last, 0,
                 IF plan.what = "run" THEN "open" ELSE "failed") EXCEPT !.news = (Kind(s) = "news")]

\* What committing a plan does.
LEMMA CommittedPlan ==
    ASSUME TypeInv, NEW p \in Schedulers, CommitPlan(p)
    PROVE  /\ tick[p].pc = "planned" /\ tick[p].sched \in Schedules /\ tick[p].due \in Nat
           /\ NewRun(p) \in Runs
           /\ \/ runs' = runs /\ tick[p].plan.what \notin {"run", "fail", "timeout"}
              \/ runs' = Append(runs, NewRun(p)) /\ tick[p].plan.what \in {"run", "fail", "timeout"}
           /\ OldRunsStay
           /\ tick'[p].pc = "due" /\ \A r \in Schedulers : r # p => tick'[r] = tick[r]
           /\ UNCHANGED <<config, request, written>>
           /\ newsLock' = IF newsLock = p THEN None ELSE newsLock
<1>1. /\ tick[p].pc = "planned" /\ tick[p].sched \in Schedules /\ tick[p].due \in Nat
      /\ tick[p] \in Ticks /\ tick \in [Schedulers -> Ticks]
    BY DEF CommitPlan, TypeInv, TypeOK, HoldsSchedule
<1>2. NewRun(p) \in Runs
    BY <1>1, TaskRunTypes DEF NewRun, Sources, MaybeTime, RunStatuses, Ticks, Plans
<1>3. \/ runs' = runs /\ tick[p].plan.what \notin {"run", "fail", "timeout"}
      \/ runs' = Append(runs, NewRun(p)) /\ tick[p].plan.what \in {"run", "fail", "timeout"}
    BY DEF CommitPlan, NewRun, Due
<1>4. tick'[p].pc = "due" /\ \A r \in Schedulers : r # p => tick'[r] = tick[r]
    BY <1>1 DEF CommitPlan, Ticks
<1>5. OldRunsStay
    <2>1. CASE runs' = runs
        BY <2>1 DEF OldRunsStay
    <2>2. CASE runs' = Append(runs, NewRun(p))
        BY <1>2, <2>2, AppendedRun
    <2> QED BY <1>3, <2>1, <2>2
<1> QED BY <1>1, <1>2, <1>3, <1>4, <1>5 DEF CommitPlan, commandVars

\* The task run of a request for news linking.
LEMMA SubmittedNews ==
    ASSUME TypeInv, NEW q \in Requests, CommitNews(q)
    PROVE  /\ Len(runs') = Len(runs) + 1
           /\ DOMAIN runs' = DOMAIN runs \cup {Len(runs) + 1} /\ Len(runs) + 1 \notin DOMAIN runs
           /\ \A i \in DOMAIN runs : runs'[i] = runs[i]
           /\ runs'[Len(runs) + 1].source = "manual" /\ runs'[Len(runs) + 1].rule = 0
           /\ runs'[Len(runs) + 1].status = "open"
           /\ OldRunsStay
           /\ row' = row /\ tick' = tick /\ written' = written
<1> DEFINE new == [TaskRun(None, "manual", None, Day(clock), Day(clock), 0, "open") EXCEPT !.news = TRUE]
<1>1. clock \in Nat
    BY TimeAssumption DEF TypeInv, TypeOK
<1>2. Day(clock) \in Nat
    BY <1>1, TimeIsInDay
<1>3. new \in Runs /\ new.source = "manual" /\ new.rule = 0 /\ new.status = "open"
    BY <1>2, TaskRunTypes DEF TaskRun, Sources, MaybeTime, RunStatuses
<1>4. runs' = Append(runs, new) /\ row' = row /\ tick' = tick /\ written' = written
    BY DEF CommitNews
<1> HIDE DEF new
<1> QED BY <1>3, <1>4, AppendedRun

\* The task run of a request that repeats the window of another.
LEMMA RetriedRun ==
    ASSUME TypeInv, NEW q \in Requests, Retry(q)
    PROVE  /\ Len(runs') = Len(runs) + 1
           /\ DOMAIN runs' = DOMAIN runs \cup {Len(runs) + 1} /\ Len(runs) + 1 \notin DOMAIN runs
           /\ \A i \in DOMAIN runs : runs'[i] = runs[i]
           /\ LET new == runs'[Len(runs) + 1] IN
              /\ new.source = "retry" /\ new.rule = 0 /\ ~new.news /\ new.status = "open"
              /\ new.sched \in Schedules
              /\ \E i \in WindowsOf(new.sched) : new.first = runs[i].first /\ new.last = runs[i].last
           /\ OldRunsStay /\ NothingIsPlanned
           /\ UNCHANGED <<config, row, tick, written>>
<1>1. PICK s \in Schedules : \E i \in WindowsOf(s) :
         runs' = Append(runs, TaskRun(s, "retry", None, runs[i].first, runs[i].last, 0, "open"))
    BY DEF Retry
<1>2. PICK i \in WindowsOf(s) :
         runs' = Append(runs, TaskRun(s, "retry", None, runs[i].first, runs[i].last, 0, "open"))
    BY <1>1
<1> DEFINE new == TaskRun(s, "retry", None, runs[i].first, runs[i].last, 0, "open")
<1>3. runs[i].first \in Nat /\ runs[i].last \in Nat
    <2>1. runs[i] \in Runs
        BY DEF WindowsOf, RunsOf, TypeInv, TypeOK
    <2> QED BY <2>1 DEF Runs
<1>4. /\ new \in Runs /\ new.source = "retry" /\ new.rule = 0 /\ ~new.news /\ new.status = "open"
      /\ new.sched = s /\ new.first = runs[i].first /\ new.last = runs[i].last
    BY <1>3, TaskRunTypes DEF TaskRun, Sources, MaybeTime, RunStatuses
<1>5. runs' = Append(runs, new)
    BY <1>2
<1>6. UNCHANGED <<config, row, tick, newsLock, written>>
      /\ request' = [request EXCEPT ![q].op = "retry", ![q].pc = "done"]
    BY DEF Retry
<1> HIDE DEF new
<1>7. /\ Len(runs') = Len(runs) + 1 /\ runs'[Len(runs) + 1] = new
      /\ DOMAIN runs' = DOMAIN runs \cup {Len(runs) + 1} /\ Len(runs) + 1 \notin DOMAIN runs
      /\ \A j \in DOMAIN runs : runs'[j] = runs[j]
      /\ OldRunsStay
    BY <1>4, <1>5, AppendedRun
<1>8. NothingIsPlanned
    <2>1. request \in [Requests -> RequestStates]
        BY DEF TypeInv, TypeOK
    <2>2. \A x \in Requests : request'[x].pc = "staged" => request[x].pc = "staged"
        BY <1>6, <2>1 DEF RequestStates
    <2> QED BY <1>6, <2>2 DEF NothingIsPlanned
<1> QED BY <1>4, <1>6, <1>7, <1>8

\* What a plan leaves alone.
LEMMA PlanLeaves ==
    ASSUME TypeInv, NEW p \in Schedulers, PlanStep(p)
    PROVE  /\ tick[p].pc = "locked"
           /\ UNCHANGED <<config, row, runs, request, written>>
           /\ tick'[p].sched = tick[p].sched
           /\ \A r \in Schedulers : r # p => tick'[r] = tick[r]
           /\ newsLock' = newsLock \/ (newsLock = None /\ newsLock' = p)
<1>1. tick \in [Schedulers -> Ticks]
    BY DEF TypeInv, TypeOK
<1>2. tick[p].pc = "locked"
    BY DEF PlanStep, PlanSkippedFallback, PlanDataset, PlanSinceLastSuccess, PlanHeat,
           PlanNoNews, PlanNews, HoldsKind, Holds
<1>3. \E plan : Planned(p, plan)
    BY DEF PlanStep, PlanSkippedFallback, PlanDataset, PlanSinceLastSuccess, PlanHeat,
           PlanNoNews, PlanNews
<1>4. newsLock' = newsLock \/ (newsLock = None /\ newsLock' = p)
    BY DEF PlanStep, PlanSkippedFallback, PlanDataset, PlanSinceLastSuccess, PlanHeat,
           PlanNoNews, PlanNews
<1> QED BY <1>1, <1>2, <1>3, <1>4 DEF Planned, commandVars, Ticks

\* Every step plans, commits a plan or a request, or is quiet.
LEMMA StepKinds ==
    ASSUME TypeInv, [Next]_scheduleVars
    PROVE  /\ config' = config
           /\ \/ QuietStep
              \/ \E p \in Schedulers : PlanStep(p) \/ CommitPlan(p)
              \/ \E q \in Requests : CommitRequest(q) \/ SubmitNews(q) \/ CommitNews(q) \/ Retry(q)
<1>0. tick \in [Schedulers -> Ticks] /\ request \in [Requests -> RequestStates]
    BY DEF TypeInv, TypeOK
<1>1. ASSUME NEW p \in Schedulers, NEW t, tick' = [tick EXCEPT ![p] = t], t.pc # "planned"
      PROVE  \A r \in Schedulers : tick'[r].pc = "planned" => tick'[r] = tick[r]
    BY <1>0, <1>1
<1>2. ASSUME NEW p \in Schedulers, RolledBack(p), UNCHANGED commandVars PROVE QuietStep
    <2>1. \A r \in Schedulers : tick'[r].pc = "planned" => tick'[r] = tick[r]
        BY <1>1, <1>2 DEF RolledBack, IdleTick
    <2>2. tick'[p].pc = "idle"
        BY <1>0, <1>2 DEF RolledBack, IdleTick
    <2>3. newsLock' = newsLock \/ (newsLock = p /\ newsLock' = None)
        BY <1>2 DEF RolledBack
    <2> QED BY <1>2, <2>1, <2>2, <2>3
            DEF RolledBack, commandVars, QuietStep, NothingIsPlanned, OldRunsStay, NewRunsAreOfProbes
<1>3. ASSUME NEW p \in Schedulers, StartTick(p) \/ TakeDue(p) \/ EndDue(p) \/ EndTick(p) PROVE QuietStep
    <2>1. PICK t : tick' = [tick EXCEPT ![p] = t] /\ t.pc # "planned"
        <3>1. CASE TakeDue(p)
            <4>1. PICK s \in Candidates(p) :
                     tick' = [tick EXCEPT ![p].pc = "locked", ![p].sched = s, ![p].due = row[s].next,
                                          ![p].done = @ \cup {s}]
                BY <3>1 DEF TakeDue
            <4> DEFINE t == [tick[p] EXCEPT !.pc = "locked", !.sched = s, !.due = row[s].next,
                                            !.done = @ \cup {s}]
            <4>2. tick' = [tick EXCEPT ![p] = t] /\ t.pc = "locked"
                BY <1>0, <4>1 DEF Ticks
            <4> QED BY <4>2
        <3>2. CASE StartTick(p)
            <4>1. tick' = [tick EXCEPT ![p] = [IdleTick EXCEPT !.pc = "due", !.now = clock]]
                BY <3>2 DEF StartTick
            <4>2. [IdleTick EXCEPT !.pc = "due", !.now = clock].pc = "due"
                BY DEF IdleTick
            <4> QED BY <4>1, <4>2
        <3>3. CASE EndDue(p)
            <4>1. tick' = [tick EXCEPT ![p] = [IdleTick EXCEPT !.pc = "probing", !.now = tick[p].now]]
                BY <3>3 DEF EndDue
            <4>2. [IdleTick EXCEPT !.pc = "probing", !.now = tick[p].now].pc = "probing"
                BY DEF IdleTick
            <4> QED BY <4>1, <4>2
        <3>4. CASE EndTick(p)
            <4>1. tick' = [tick EXCEPT ![p] = IdleTick] /\ IdleTick.pc = "idle"
                BY <3>4 DEF EndTick, IdleTick
            <4> QED BY <4>1
        <3> QED BY <1>3, <3>1, <3>2, <3>3, <3>4
    <2>2. \A r \in Schedulers : tick'[r].pc = "planned" => tick'[r] = tick[r]
        BY <1>1, <2>1
    <2>3. UNCHANGED <<row, commandVars, runs, newsLock>>
        BY <1>3 DEF StartTick, TakeDue, EndDue, EndTick
    <2> QED BY <2>2, <2>3
            DEF commandVars, QuietStep, NothingIsPlanned, OldRunsStay, NewRunsAreOfProbes
<1>4. ASSUME NEW p \in Schedulers, NEW r \in rules, NEW target \in Nat, CreateProbeRun(p, r, target)
      PROVE  QuietStep
    <2> DEFINE new == TaskRun(r.sched, "probe", None, target, target, r.id, "open")
    <2>1. r.sched \in Schedules /\ r.id \in Nat
        BY DEF TypeInv, TypeOK, Rules
    <2>2. new \in Runs /\ new.source = "probe" /\ ~new.news /\ new.status = "open"
        BY <2>1, TaskRunTypes DEF Sources, MaybeTime, RunStatuses, TaskRun
    <2>3. runs' = Append(runs, new)
        BY <1>4 DEF CreateProbeRun
    <2> HIDE DEF new
    <2>4. OldRunsStay /\ NewRunsAreOfProbes
        BY <2>2, <2>3, AppendedRun DEF NewRunsAreOfProbes
    <2> QED BY <1>4, <2>4 DEF CreateProbeRun, commandVars, QuietStep, NothingIsPlanned
<1>5. ASSUME NEW q \in Requests, \/ \E op \in Operations \ {"news", "retry"}, s \in Schedules : ReadRow(q, op, s)
                                 \/ DeleteRules(q) \/ FailRequest(q)
      PROVE  QuietStep
    <2>1. UNCHANGED <<row, runs, newsLock, tick, written>>
        BY <1>5 DEF ReadRow, DeleteRules, FailRequest
    <2>2. PICK r : request' = [request EXCEPT ![q] = r] /\ r.pc # "staged"
        <3>1. CASE DeleteRules(q)
            <4>1. PICK next \in NewNexts(q) :
                     request' = [request EXCEPT
                        ![q].pc = "synced",
                        ![q].status = IF NewStatus(q) = request[q].read.status
                                      THEN None ELSE NewStatus(q),
                        ![q].next = IF next = request[q].read.next THEN None ELSE next,
                        ![q].victims = {r \in rules : r.sched = request[q].sched}]
                BY <3>1 DEF DeleteRules
            <4> DEFINE r == [request[q] EXCEPT
                        !.pc = "synced",
                        !.status = IF NewStatus(q) = request[q].read.status
                                      THEN None ELSE NewStatus(q),
                        !.next = IF next = request[q].read.next THEN None ELSE next,
                        !.victims = {x \in rules : x.sched = request[q].sched}]
            <4>2. request' = [request EXCEPT ![q] = r] /\ r.pc = "synced"
                BY <1>0, <4>1 DEF RequestStates
            <4> QED BY <4>2
        <3>2. CASE FailRequest(q)
            <4>1. request' = [request EXCEPT ![q] = [NewRequest EXCEPT !.pc = "done"]]
                BY <3>2 DEF FailRequest
            <4>2. [NewRequest EXCEPT !.pc = "done"].pc = "done"
                BY DEF NewRequest
            <4> QED BY <4>1, <4>2
        <3>3. CASE \E op \in Operations \ {"news", "retry"}, s \in Schedules : ReadRow(q, op, s)
            <4>1. PICK op \in Operations \ {"news", "retry"}, s \in Schedules : ReadRow(q, op, s)
                BY <3>3
            <4> DEFINE r == [NewRequest EXCEPT !.pc = "read", !.op = op, !.sched = s, !.read = row[s]]
            <4>2. request' = [request EXCEPT ![q] = r] /\ r.pc = "read"
                BY <4>1 DEF ReadRow, NewRequest
            <4> QED BY <4>2
        <3> QED BY <1>5, <3>1, <3>2, <3>3
    <2>3. \A x \in Requests : request'[x].pc = "staged" => request[x].pc = "staged"
        BY <1>0, <2>2
    <2> QED BY <2>1, <2>3 DEF QuietStep, NothingIsPlanned, OldRunsStay, NewRunsAreOfProbes
<1>6. ASSUME NEW i \in DOMAIN runs, NEW status \in config.endings \cup {"open"},
             (EndRun(i, status) /\ status # "open") \/ RewriteRun(i, status)
      PROVE  QuietStep
    <2>1. OldRunsStay /\ DOMAIN runs' = DOMAIN runs
        BY <1>6, EndedRun
    <2>2. UNCHANGED <<row, commandVars, newsLock, tick>>
        BY <1>6 DEF EndRun, RewriteRun, WriteStatus
    <2> QED BY <2>1, <2>2 DEF commandVars, QuietStep, NothingIsPlanned, NewRunsAreOfProbes
<1>7. ASSUME UNCHANGED <<row, commandVars, runs, newsLock, tick>> PROVE QuietStep
    <2>1. /\ row' = row /\ written' = written /\ runs' = runs
          /\ newsLock' = newsLock /\ tick' = tick /\ request' = request
        BY <1>7 DEF commandVars
    <2>2. NothingIsPlanned
        BY <2>1 DEF NothingIsPlanned
    <2>3. OldRunsStay
        BY <2>1 DEF OldRunsStay
    <2>4. NewRunsAreOfProbes
        BY <2>1 DEF NewRunsAreOfProbes
    <2> QED BY <2>1, <2>2, <2>3, <2>4 DEF QuietStep
<1>8. config' = config
    <2>1. ASSUME NEW p \in Schedulers, PlanStep(p) PROVE config' = config
        BY <2>1, PlanLeaves
    <2>2. ASSUME NEW p \in Schedulers, DueStep(p) \/ Die(p) \/ EndTick(p) \/ AbortProbes(p)
          PROVE  config' = config
        BY <2>1, <2>2 DEF DueStep, StartTick, TakeDue, EndDue, RefusePolicy, RolledBack, Die, EndTick,
                          AbortProbes, CommitPlan
    <2>3. ASSUME NEW q \in Requests, RequestStep(q) PROVE config' = config
        BY <2>3 DEF RequestStep, ReadRow, DeleteRules, CommitRequest, FailRequest, SubmitNews,
                          CommitNews, Retry
    <2>4. CASE EnvironmentStep \/ UNCHANGED scheduleVars
        BY <2>4 DEF EnvironmentStep, EndRun, RewriteRun, WriteStatus, PassTime, scheduleVars
    <2>5. ASSUME NEW p \in Schedulers, NEW r \in rules, NEW target \in Nat, CreateProbeRun(p, r, target)
          PROVE  config' = config
        BY <2>5 DEF CreateProbeRun
    <2> QED BY <2>2, <2>3, <2>4, <2>5 DEF Next
<1>9. CASE \E p \in Schedulers : RefusePolicy(p) \/ Die(p) \/ AbortProbes(p)
    BY <1>2, <1>9 DEF RefusePolicy, Die, AbortProbes, RolledBack
<1>10. CASE PassTime \/ UNCHANGED scheduleVars
    BY <1>7, <1>10 DEF PassTime, scheduleVars
<1>11. CASE EnvironmentStep
    <2>1. \A status \in config.endings : status # "open"
        BY ConfigTypes DEF TypeInv, TypeOK
    <2>2. CASE PassTime
        BY <1>8, <1>10, <2>2
    <2>3. CASE \E i \in DOMAIN runs, status \in config.endings : EndRun(i, status)
        <3>1. PICK i \in DOMAIN runs, status \in config.endings : EndRun(i, status)
            BY <2>3
        <3> QED BY <1>6, <1>8, <2>1, <3>1
    <2>4. CASE \E i \in DOMAIN runs, status \in config.endings \cup {"open"} : RewriteRun(i, status)
        <3>1. PICK i \in DOMAIN runs, status \in config.endings \cup {"open"} : RewriteRun(i, status)
            BY <2>4
        <3> QED BY <1>6, <1>8, <3>1
    <2> QED BY <1>11, <2>2, <2>3, <2>4 DEF EnvironmentStep
<1> QED BY <1>3, <1>4, <1>5, <1>8, <1>9, <1>10, <1>11 DEF Next, DueStep, RequestStep

-----------------------------------------------------------------------------
(* What the rows say is remembered *)

\* A row that does not say open has said what it says, or was created as failed.
Remembered == \A i \in DOMAIN runs : \/ runs[i].status = "open"
                                      \/ runs[i].status \in runs[i].ever
                                      \/ (runs[i].source = "scheduled" /\ runs[i].status = "failed")

\* There are no task runs at first.
LEMMA RememberedInit == Init => Remembered
BY DEF Init, Remembered

\* Every step keeps the memory.
LEMMA RememberedNext == TypeInv /\ Remembered /\ [Next]_scheduleVars => Remembered'
<1> SUFFICES ASSUME TypeInv, Remembered, [Next]_scheduleVars PROVE Remembered'
    OBVIOUS
<1>1. ASSUME OldRunsStay, \A i \in DOMAIN runs' \ DOMAIN runs :
                \/ runs'[i].status = "open"
                \/ (runs'[i].source = "scheduled" /\ runs'[i].status = "failed")
      PROVE  Remembered'
    <2> SUFFICES ASSUME NEW i \in DOMAIN runs', i \in DOMAIN runs
                 PROVE  \/ runs'[i].status = "open"
                        \/ runs'[i].status \in runs'[i].ever
                        \/ (runs'[i].source = "scheduled" /\ runs'[i].status = "failed")
        BY <1>1 DEF Remembered
    <2>1. /\ runs'[i].source = runs[i].source /\ runs[i].ever \subseteq runs'[i].ever
          /\ runs'[i].status \in {runs[i].status, "open"} \cup runs'[i].ever
        BY <1>1 DEF OldRunsStay
    <2> QED BY <2>1 DEF Remembered
<1>2. CASE QuietStep
    BY <1>1, <1>2 DEF QuietStep, NewRunsAreOfProbes
<1>3. CASE runs' = runs
    BY <1>3 DEF Remembered
<1>4. ASSUME NEW p \in Schedulers, CommitPlan(p) PROVE Remembered'
    <2>1. CASE runs' = Append(runs, NewRun(p))
        <3>1. /\ OldRunsStay
              /\ \A i \in DOMAIN runs' \ DOMAIN runs : runs'[i] = NewRun(p)
            BY <1>4, <2>1, CommittedPlan, AppendedRun
        <3>2. /\ NewRun(p).status \in {"open", "failed"} /\ NewRun(p).source = "scheduled"
            BY DEF NewRun, TaskRun
        <3> QED BY <1>1, <3>1, <3>2
    <2> QED BY <1>3, <1>4, <2>1, CommittedPlan
<1>5. ASSUME NEW q \in Requests, CommitNews(q) \/ Retry(q) PROVE Remembered'
    BY <1>1, <1>5, SubmittedNews, RetriedRun
<1> QED
    <2>1. ASSUME NEW p \in Schedulers, PlanStep(p) PROVE runs' = runs
        BY <2>1, PlanLeaves
    <2>2. ASSUME NEW q \in Requests, CommitRequest(q) \/ SubmitNews(q) PROVE runs' = runs
        BY <2>2 DEF CommitRequest, SubmitNews
    <2> QED BY <1>2, <1>3, <1>4, <1>5, <2>1, <2>2, StepKinds

-----------------------------------------------------------------------------
(* One task run per due time *)

\* The schedule of a task run has left the due time of that run behind, unless
\* a request set it back.
DueTimeIsPast ==
    \A i \in DOMAIN runs : runs[i].source = "scheduled" =>
        /\ runs[i].sched \in Schedules /\ runs[i].due \in Nat
        /\ \/ row[runs[i].sched].next = None
           \/ row[runs[i].sched].next > runs[i].due
           \/ SetBack(runs[i].sched, runs[i].due)

DueInv == DueTimeIsPast /\ OneRunPerDueTime

\* What SetBack says after a step.
SetBackThen(s, due) == \E x \in written' : x[1] = s /\ x[2] <= due

\* There are no task runs at first.
LEMMA DueInit == Init => DueInv
BY DEF Init, DueInv, DueTimeIsPast, OneRunPerDueTime

\* What a schedule is set to when a plan is committed lies ahead of the tick.
LEMMA CommittedNext ==
    ASSUME TypeInv, LockInv, NEW p \in Schedulers, CommitPlan(p)
    PROVE  LET s == tick[p].sched IN
           /\ row'[s].next = None \/ (row'[s].next \in Nat /\ row'[s].next > tick[p].due)
           /\ \A t \in Schedules : t # s => row'[t] = row[t]
<1> DEFINE s == tick[p].sched
<1>1. /\ s \in Schedules /\ tick[p].due \in Nat /\ tick[p].now \in Nat
      /\ tick[p].due <= tick[p].now /\ tick[p].pc = "planned"
    BY DEF CommitPlan, TypeInv, TypeOK, HoldsSchedule, Ticks, LockInv, HeldRow
<1>2. row \in [Schedules -> Rows]
    BY DEF TypeInv, TypeOK
<1>3. \A t \in Schedules : t # s => row'[t] = row[t]
    BY <1>1, <1>2 DEF CommitPlan
<1>4. row'[s] \in {[row[s] EXCEPT !.next = tick[p].plan.next], [status |-> "paused", next |-> None],
                   Advanced(s, tick[p].now)}
      /\ (tick[p].plan.what # "retry" => row'[s] \in {[status |-> "paused", next |-> None],
                                                      Advanced(s, tick[p].now)})
    BY <1>1, <1>2 DEF CommitPlan
<1>5. CASE tick[p].plan.what = "retry" /\ row'[s] = [row[s] EXCEPT !.next = tick[p].plan.next]
    <2>1. tick[p].plan.next \in Nat /\ tick[p].plan.next > tick[p].now
        BY <1>1, <1>5 DEF LockInv, RetryIsLater
    <2>2. row'[s].next = tick[p].plan.next
        BY <1>1, <1>2, <1>5 DEF Rows
    <2> QED BY <1>1, <1>3, <2>1, <2>2
<1>6. CASE row'[s] = [status |-> "paused", next |-> None]
    BY <1>3, <1>6
<1>7. CASE row'[s] = Advanced(s, tick[p].now)
    <2>1. NextOccurrence(tick[p].now) \in Nat /\ NextOccurrence(tick[p].now) > tick[p].now
        BY <1>1, NextIsLater
    <2>2. row'[s].next = None \/ row'[s].next = NextOccurrence(tick[p].now)
        BY <1>1, <1>2, <1>7 DEF Advanced, Rows
    <2> QED BY <1>1, <1>3, <2>1, <2>2
<1> QED BY <1>4, <1>5, <1>6, <1>7

\* Every step keeps the invariant about due times.
LEMMA DueNext == TypeInv /\ LockInv /\ DueInv /\ [Next]_scheduleVars => DueInv'
<1> SUFFICES ASSUME TypeInv, LockInv, DueInv, [Next]_scheduleVars PROVE DueInv'
    OBVIOUS
<1>0. /\ runs \in Seq(Runs) /\ Len(runs) \in Nat /\ DOMAIN runs = 1 .. Len(runs)
      /\ \A s, t : SetBack(s, t) <=> \E x \in written : x[1] = s /\ x[2] <= t
    BY DEF TypeInv, TypeOK, SetBack
<1>1. CASE QuietStep
    <2>1. \A i \in DOMAIN runs' : runs'[i].source = "scheduled" =>
             /\ i \in DOMAIN runs /\ runs[i].source = "scheduled"
             /\ runs'[i].sched = runs[i].sched /\ runs'[i].due = runs[i].due
        BY <1>1 DEF QuietStep, OldRunsStay, NewRunsAreOfProbes
    <2>2. row' = row /\ written' = written
        BY <1>1 DEF QuietStep
    <2>3. DueTimeIsPast'
        BY <2>1, <2>2 DEF DueInv, DueTimeIsPast, SetBack
    <2>4. OneRunPerDueTime'
        BY <2>1, <2>2 DEF DueInv, OneRunPerDueTime, SetBack
    <2> QED BY <2>3, <2>4 DEF DueInv
<1>2. ASSUME NEW p \in Schedulers, PlanStep(p) PROVE DueInv'
    BY <1>2, PlanLeaves DEF DueInv, DueTimeIsPast, OneRunPerDueTime, SetBack
<1>3. ASSUME NEW p \in Schedulers, CommitPlan(p) PROVE DueInv'
    <2> DEFINE s == tick[p].sched
               due == tick[p].due
               n == Len(runs) + 1
    <2>1. /\ s \in Schedules /\ due \in Nat /\ row[s].next = due
          /\ written' = written
        BY <1>3, CommittedPlan DEF LockInv, HeldRow
    <2>2. /\ row'[s].next = None \/ (row'[s].next \in Nat /\ row'[s].next > due)
          /\ \A t \in Schedules : t # s => row'[t] = row[t]
        BY <1>3, CommittedNext
    <2>3. /\ \A i \in DOMAIN runs : /\ i \in DOMAIN runs'
                                    /\ runs'[i].sched = runs[i].sched /\ runs'[i].due = runs[i].due
                                    /\ runs'[i].source = runs[i].source
          /\ \/ DOMAIN runs' = DOMAIN runs
             \/ /\ DOMAIN runs' = DOMAIN runs \cup {n}
                /\ runs'[n].sched = s /\ runs'[n].due = due
        <3>1. CASE runs' = runs
            BY <3>1
        <3>2. CASE runs' = Append(runs, NewRun(p))
            <4>1. /\ DOMAIN runs' = DOMAIN runs \cup {n} /\ runs'[n] = NewRun(p)
                  /\ \A i \in DOMAIN runs : runs'[i] = runs[i]
                BY <1>3, <3>2, CommittedPlan, AppendedRun
            <4>2. NewRun(p).sched = s /\ NewRun(p).due = due
                BY DEF NewRun, TaskRun
            <4> QED BY <4>1, <4>2
        <3> QED BY <1>3, <3>1, <3>2, CommittedPlan
    <2>4. None \notin Nat
        BY NoneAssumption
    <2> HIDE DEF s, due, n
    <2>5. DueTimeIsPast'
        <3> SUFFICES ASSUME NEW i \in DOMAIN runs', runs'[i].source = "scheduled"
                     PROVE  /\ runs'[i].sched \in Schedules /\ runs'[i].due \in Nat
                            /\ \/ row'[runs'[i].sched].next = None
                               \/ row'[runs'[i].sched].next > runs'[i].due
                               \/ SetBackThen(runs'[i].sched, runs'[i].due)
            BY DEF DueTimeIsPast, SetBack, SetBackThen
        <3>1. CASE i \in DOMAIN runs
            <4>1. /\ runs[i].sched \in Schedules /\ runs[i].due \in Nat
                  /\ \/ row[runs[i].sched].next = None
                     \/ row[runs[i].sched].next > runs[i].due
                     \/ SetBack(runs[i].sched, runs[i].due)
                BY <2>3, <3>1 DEF DueInv, DueTimeIsPast
            <4>2. SetBack(runs[i].sched, runs[i].due) => SetBackThen(runs'[i].sched, runs'[i].due)
                BY <2>1, <2>3, <3>1 DEF SetBack, SetBackThen
            <4>3. CASE runs[i].sched = s
                BY <2>1, <2>2, <2>3, <2>4, <3>1, <4>1, <4>2, <4>3
            <4>4. CASE runs[i].sched # s
                BY <2>2, <2>3, <3>1, <4>1, <4>2, <4>4
            <4> QED BY <4>3, <4>4
        <3>2. CASE i \notin DOMAIN runs
            BY <2>1, <2>2, <2>3, <3>2
        <3> QED BY <3>1, <3>2
    <2>6. OneRunPerDueTime'
        <3> SUFFICES ASSUME NEW i \in DOMAIN runs', NEW j \in DOMAIN runs', i < j,
                            runs'[i].source = "scheduled", runs'[j].source = "scheduled",
                            runs'[i].sched = runs'[j].sched, runs'[i].due = runs'[j].due
                     PROVE  SetBackThen(runs'[i].sched, runs'[i].due)
            BY DEF OneRunPerDueTime, SetBack, SetBackThen
        <3>1. i \in DOMAIN runs
            BY <1>0, <2>3 DEF n
        <3>2. SetBack(runs[i].sched, runs[i].due) => SetBackThen(runs'[i].sched, runs'[i].due)
            BY <2>1, <2>3, <3>1 DEF SetBack, SetBackThen
        <3>3. CASE j \in DOMAIN runs
            BY <2>3, <3>1, <3>2, <3>3 DEF DueInv, OneRunPerDueTime
        <3>4. CASE j \notin DOMAIN runs
            <4>1. runs[i].sched = s /\ runs[i].due = due /\ runs[i].source = "scheduled"
                BY <2>3, <3>1, <3>4
            <4>2. \/ row[s].next = None \/ row[s].next > due \/ SetBack(s, due)
                BY <3>1, <4>1 DEF DueInv, DueTimeIsPast
            <4> QED BY <2>1, <2>4, <3>2, <4>1, <4>2
        <3> QED BY <3>3, <3>4
    <2> QED BY <2>5, <2>6 DEF DueInv
<1>4. ASSUME NEW q \in Requests, CommitRequest(q) PROVE DueInv'
    <2> DEFINE s == request[q].sched
    <2>1. /\ runs' = runs /\ row' = [row EXCEPT ![s] = Written(q)]
          /\ written' = IF request[q].next = None THEN written
                        ELSE written \cup {<<s, request[q].next>>}
          /\ s \in Schedules /\ request[q] \in RequestStates
        BY <1>4 DEF CommitRequest, TypeInv, TypeOK, ReadSchedule
    <2>2. /\ Written(q).next \in {None, row[s].next, request[q].next}
          /\ Written(q).next = request[q].next =>
                \/ request[q].next = None
                \/ request[q].next \in Nat /\ <<s, request[q].next>> \in written'
        BY <2>1 DEF Written, RequestStates, MaybeTime
    <2>3. \A i \in DOMAIN runs : SetBack(runs[i].sched, runs[i].due)
                                    => SetBackThen(runs'[i].sched, runs'[i].due)
        BY <2>1 DEF SetBack, SetBackThen
    <2>4. row \in [Schedules -> Rows]
        BY DEF TypeInv, TypeOK
    <2>5. OneRunPerDueTime'
        BY <2>1, <2>3 DEF DueInv, OneRunPerDueTime, SetBack, SetBackThen
    <2>6. DueTimeIsPast'
        <3> SUFFICES ASSUME NEW i \in DOMAIN runs, runs[i].source = "scheduled"
                     PROVE  /\ runs[i].sched \in Schedules /\ runs[i].due \in Nat
                            /\ \/ row'[runs[i].sched].next = None
                               \/ row'[runs[i].sched].next > runs[i].due
                               \/ SetBackThen(runs'[i].sched, runs'[i].due)
            BY <2>1 DEF DueTimeIsPast, SetBack, SetBackThen
        <3>1. /\ runs[i].sched \in Schedules /\ runs[i].due \in Nat
              /\ \/ row[runs[i].sched].next = None
                 \/ row[runs[i].sched].next > runs[i].due
                 \/ SetBackThen(runs'[i].sched, runs'[i].due)
            BY <2>3 DEF DueInv, DueTimeIsPast
        <3>2. CASE runs[i].sched # s
            BY <2>1, <2>4, <3>1, <3>2
        <3>3. CASE runs[i].sched = s /\ Written(q).next \in {None, row[s].next}
            BY <2>1, <2>4, <3>1, <3>3
        <3>4. CASE runs[i].sched = s /\ request[q].next \in Nat /\ <<s, request[q].next>> \in written'
                   /\ Written(q).next = request[q].next
            <4>1. request[q].next <= runs[i].due => SetBackThen(runs'[i].sched, runs'[i].due)
                BY <2>1, <3>4 DEF SetBack, SetBackThen
            <4>2. row'[runs[i].sched].next = request[q].next
                BY <2>1, <2>4, <3>4
            <4> QED BY <3>1, <3>4, <4>1, <4>2
        <3> QED BY <2>2, <3>2, <3>3, <3>4
    <2> QED BY <2>5, <2>6 DEF DueInv
<1>5. ASSUME NEW q \in Requests, SubmitNews(q) PROVE DueInv'
    BY <1>5 DEF SubmitNews, DueInv, DueTimeIsPast, OneRunPerDueTime, SetBack
<1>6. ASSUME NEW q \in Requests, CommitNews(q) \/ Retry(q) PROVE DueInv'
    <2>1. /\ \A i \in DOMAIN runs' : runs'[i].source = "scheduled" => i \in DOMAIN runs /\ runs'[i] = runs[i]
          /\ row' = row /\ written' = written
        BY <1>6, SubmittedNews, RetriedRun
    <2>2. DueTimeIsPast'
        BY <2>1 DEF DueInv, DueTimeIsPast, SetBack
    <2>3. OneRunPerDueTime'
        BY <2>1 DEF DueInv, OneRunPerDueTime, SetBack
    <2> QED BY <2>2, <2>3 DEF DueInv
<1> QED BY <1>1, <1>2, <1>3, <1>4, <1>5, <1>6, StepKinds

\* Two schedulers, ticks that started long ago and requests that act on rows
\* they read before leave at most one task run per due time, unless a request
\* set the schedule to that time or an earlier one.
THEOREM DueTimesRunOnce == Spec => []OneRunPerDueTime
<1>1. DueInv => OneRunPerDueTime
    BY DEF DueInv
<1> QED BY Locked, DueInit, DueNext, <1>1, PTL DEF Spec

\* A step that commits a scheduled task run finds its schedule active and at
\* the due time of the run, and takes it away from there.
LEMMA ScheduledRunIsDue ==
    TypeInv /\ LockInv /\ [Next]_scheduleVars =>
        (Len(runs') > Len(runs) /\ runs'[Len(runs')].source = "scheduled" =>
            LET new == runs'[Len(runs')] IN
            /\ row[new.sched].status = "active"
            /\ row[new.sched].next = new.due
            /\ row'[new.sched].next # new.due)
<1> SUFFICES ASSUME TypeInv, LockInv, [Next]_scheduleVars,
                    Len(runs') > Len(runs), runs'[Len(runs')].source = "scheduled"
             PROVE  LET new == runs'[Len(runs')] IN
                    /\ row[new.sched].status = "active"
                    /\ row[new.sched].next = new.due
                    /\ row'[new.sched].next # new.due
    OBVIOUS
<1>0. /\ Len(runs) \in Nat /\ DOMAIN runs = 1 .. Len(runs)
      /\ Len(runs') \in Nat /\ DOMAIN runs' = 1 .. Len(runs')
    BY TypesNext DEF TypeInv, TypeOK
<1>1. Len(runs') \in DOMAIN runs' \ DOMAIN runs
    BY <1>0
<1>2. ASSUME NEW p \in Schedulers, CommitPlan(p), runs' = Append(runs, NewRun(p))
      PROVE  LET new == runs'[Len(runs')] IN
             /\ row[new.sched].status = "active"
             /\ row[new.sched].next = new.due
             /\ row'[new.sched].next # new.due
    <2>1. runs'[Len(runs')] = NewRun(p)
        BY <1>2, CommittedPlan, AppendedRun
    <2>2. NewRun(p).sched = tick[p].sched /\ NewRun(p).due = tick[p].due
        BY DEF NewRun, TaskRun
    <2>3. /\ row[tick[p].sched].status = "active" /\ row[tick[p].sched].next = tick[p].due
          /\ tick[p].due \in Nat
        BY <1>2, CommittedPlan DEF LockInv, HeldRow
    <2>4. row'[tick[p].sched].next = None
          \/ (row'[tick[p].sched].next \in Nat /\ row'[tick[p].sched].next > tick[p].due)
        BY <1>2, CommittedNext
    <2> QED BY <2>1, <2>2, <2>3, <2>4, NoneAssumption
<1>3. CASE QuietStep
    BY <1>1, <1>3 DEF QuietStep, NewRunsAreOfProbes
<1>4. ASSUME NEW q \in Requests, CommitNews(q) \/ Retry(q) PROVE FALSE
    BY <1>4, SubmittedNews, RetriedRun
<1>5. CASE runs' = runs
    BY <1>0, <1>5
<1> QED
    <2>1. ASSUME NEW p \in Schedulers, PlanStep(p) PROVE runs' = runs
        BY <2>1, PlanLeaves
    <2>2. ASSUME NEW q \in Requests, CommitRequest(q) \/ SubmitNews(q) PROVE runs' = runs
        BY <2>2 DEF CommitRequest, SubmitNews
    <2>3. ASSUME NEW p \in Schedulers, CommitPlan(p) PROVE runs' = runs \/ runs' = Append(runs, NewRun(p))
        BY <2>3, CommittedPlan
    <2> QED BY <1>2, <1>3, <1>4, <1>5, <2>1, <2>2, <2>3, StepKinds

\* No pause, change or deletion slips in between the look of a tick at a
\* schedule and the commit of its task run.
THEOREM RunsAreDue == Spec => RunsOfActiveRowsOnly
BY Locked, ScheduledRunIsDue, PTL DEF Spec, RunsOfActiveRowsOnly

-----------------------------------------------------------------------------
(* One run of news linking *)

\* A run of news linking is open that has not ended before.
HasFirstNews == \E i \in DOMAIN runs : runs[i].news /\ IsFirstOpen(i)

\* Whoever has planned or staged a run of news linking holds the advisory lock,
\* and no other one is open before its first end.
NewsIsLocked ==
    /\ \A p \in Schedulers :
          tick[p].pc = "planned" /\ tick[p].plan.what = "run" /\ Kind(tick[p].sched) = "news"
             => newsLock = p /\ ~HasFirstNews
    /\ \A q \in Requests : request[q].pc = "staged" => newsLock = q /\ ~HasFirstNews

NewsInv == NewsIsLocked /\ OneNewsRun

\* Nothing is open, planned or staged at first.
LEMMA NewsInit == Init => NewsInv
BY DEF Init, NewsInv, NewsIsLocked, OneNewsRun, IdleTick, NewRequest

\* Every step keeps the invariant about news linking.
LEMMA NewsNext == TypeInv /\ NewsInv /\ [Next]_scheduleVars => NewsInv'
<1> SUFFICES ASSUME TypeInv, NewsInv, [Next]_scheduleVars PROVE NewsInv'
    OBVIOUS
<1>0. /\ config' = config
      /\ None \notin Schedulers \cup Requests /\ Schedulers \cap Requests = {}
    BY StepKinds, NoneAssumption, ProcessesAssumption
<1>1. HasFirstNews => HasActiveNewsTask
    BY DEF HasFirstNews, HasActiveNewsTask, IsFirstOpen
<1>2. CASE QuietStep
    <2>1. \A i \in DOMAIN runs' : runs'[i].news /\ IsFirstOpen(i)' =>
             i \in DOMAIN runs /\ runs[i].news /\ IsFirstOpen(i)
        BY <1>2 DEF QuietStep, OldRunsStay, NewRunsAreOfProbes, IsFirstOpen
    <2>2. HasFirstNews' => HasFirstNews
        BY <2>1 DEF HasFirstNews, IsFirstOpen
    <2>3. OneNewsRun'
        BY <2>1 DEF NewsInv, OneNewsRun, IsFirstOpen
    <2>4. /\ \A p \in Schedulers : tick'[p].pc = "planned" => tick'[p] = tick[p]
          /\ \A q \in Requests : request'[q].pc = "staged" => request[q].pc = "staged"
          /\ \/ newsLock' = newsLock
             \/ \E p \in Schedulers : newsLock = p /\ newsLock' = None /\ tick'[p].pc = "idle"
        BY <1>2 DEF QuietStep, NothingIsPlanned
    <2>5. NewsIsLocked'
        <3>1. ASSUME NEW p \in Schedulers, tick'[p].pc = "planned", tick'[p].plan.what = "run",
                     (Kind(tick[p].sched) = "news")'
              PROVE  newsLock' = p /\ ~HasFirstNews'
            <4>1. newsLock = p /\ ~HasFirstNews
                BY <1>0, <2>4, <3>1 DEF NewsInv, NewsIsLocked, Kind
            <4> QED BY <2>2, <2>4, <3>1, <4>1
        <3>2. ASSUME NEW q \in Requests, request'[q].pc = "staged"
              PROVE  newsLock' = q /\ ~HasFirstNews'
            <4>1. newsLock = q /\ ~HasFirstNews
                BY <2>4, <3>2 DEF NewsInv, NewsIsLocked
            <4> QED BY <1>0, <2>2, <2>4, <4>1
        <3> QED BY <3>1, <3>2 DEF NewsIsLocked
    <2> QED BY <2>3, <2>5 DEF NewsInv
<1>3. ASSUME NEW p \in Schedulers, PlanStep(p) PROVE NewsInv'
    <2>1. /\ tick[p].pc = "locked" /\ tick'[p].sched = tick[p].sched
          /\ \A r \in Schedulers : r # p => tick'[r] = tick[r]
          /\ runs' = runs /\ request' = request
          /\ newsLock' = newsLock \/ (newsLock = None /\ newsLock' = p)
        BY <1>3, PlanLeaves
    <2>2. tick'[p].plan.what = "run" /\ Kind(tick[p].sched) = "news"
             => newsLock' = p /\ ~HasFirstNews
        <3>1. tick \in [Schedulers -> Ticks]
            BY DEF TypeInv, TypeOK
        <3>2. \A plan : Planned(p, plan) => tick'[p].plan = plan
            BY <3>1 DEF Planned, Ticks
        <3>3. SkipDue.what # "run"
            BY DEF SkipDue, NoPlan
        <3>4. CASE PlanNews(p)
            BY <1>1, <3>2, <3>3, <3>4 DEF PlanNews
        <3>5. CASE PlanSkippedFallback(p) \/ PlanNoNews(p)
            BY <3>2, <3>3, <3>5 DEF PlanSkippedFallback, PlanNoNews
        <3>6. CASE PlanDataset(p) \/ PlanSinceLastSuccess(p) \/ PlanHeat(p)
            BY <3>6 DEF PlanDataset, PlanSinceLastSuccess, PlanHeat, HoldsKind
        <3> QED BY <1>3, <3>4, <3>5, <3>6 DEF PlanStep
    <2>3. \A x \in Schedulers \cup Requests : newsLock = x => newsLock' = x
        BY <1>0, <2>1
    <2>4. HasFirstNews' <=> HasFirstNews
        BY <2>1 DEF HasFirstNews, IsFirstOpen
    <2>5. OneNewsRun'
        BY <2>1 DEF NewsInv, OneNewsRun, IsFirstOpen
    <2>6. NewsIsLocked'
        BY <1>0, <2>1, <2>2, <2>3, <2>4 DEF NewsInv, NewsIsLocked, Kind
    <2> QED BY <2>5, <2>6 DEF NewsInv
<1>4. ASSUME NEW p \in Schedulers, CommitPlan(p) PROVE NewsInv'
    <2>1. /\ tick'[p].pc = "due" /\ \A r \in Schedulers : r # p => tick'[r] = tick[r]
          /\ request' = request /\ newsLock' = IF newsLock = p THEN None ELSE newsLock
          /\ tick[p].pc = "planned"
        BY <1>4, CommittedPlan
    <2>2. CASE runs' = runs
        <3>1. HasFirstNews' <=> HasFirstNews
            BY <2>2 DEF HasFirstNews, IsFirstOpen
        <3>2. OneNewsRun'
            BY <2>2 DEF NewsInv, OneNewsRun, IsFirstOpen
        <3>3. NewsIsLocked'
            BY <1>0, <2>1, <3>1 DEF NewsInv, NewsIsLocked, Kind
        <3> QED BY <3>2, <3>3 DEF NewsInv
    <2>3. CASE runs' = Append(runs, NewRun(p))
        <3> DEFINE n == Len(runs) + 1
        <3>1. /\ DOMAIN runs' = DOMAIN runs \cup {n} /\ runs'[n] = NewRun(p)
              /\ \A i \in DOMAIN runs : runs'[i] = runs[i]
            BY <1>4, <2>3, CommittedPlan, AppendedRun
        <3>2. /\ NewRun(p).news <=> Kind(tick[p].sched) = "news"
              /\ NewRun(p).status = "open" => tick[p].plan.what = "run"
            BY DEF NewRun, TaskRun
        <3>3. CASE tick[p].plan.what = "run" /\ Kind(tick[p].sched) = "news"
            <4>1. newsLock = p /\ ~HasFirstNews
                BY <2>1, <3>3 DEF NewsInv, NewsIsLocked
            <4>2. OneNewsRun'
                BY <3>1, <4>1 DEF OneNewsRun, HasFirstNews, IsFirstOpen
            <4>3. \A r \in Schedulers : r # p /\ tick[r].pc = "planned" /\ tick[r].plan.what = "run"
                                        => Kind(tick[r].sched) # "news"
                BY <4>1 DEF NewsInv, NewsIsLocked
            <4>4. \A q \in Requests : request[q].pc # "staged"
                BY <1>0, <4>1 DEF NewsInv, NewsIsLocked
            <4>5. NewsIsLocked'
                BY <1>0, <2>1, <4>3, <4>4 DEF NewsIsLocked, Kind
            <4> QED BY <4>2, <4>5 DEF NewsInv
        <3>4. CASE ~(tick[p].plan.what = "run" /\ Kind(tick[p].sched) = "news")
            <4>1. ~(NewRun(p).news /\ NewRun(p).status = "open")
                BY <3>2, <3>4
            <4>2. HasFirstNews' <=> HasFirstNews
                BY <3>1, <4>1 DEF HasFirstNews, IsFirstOpen
            <4>3. OneNewsRun'
                BY <3>1, <4>1 DEF NewsInv, OneNewsRun, IsFirstOpen
            <4>4. NewsIsLocked'
                BY <1>0, <2>1, <4>2 DEF NewsInv, NewsIsLocked, Kind
            <4> QED BY <4>3, <4>4 DEF NewsInv
        <3> QED BY <3>3, <3>4
    <2> QED BY <1>4, <2>2, <2>3, CommittedPlan
<1>5. ASSUME NEW q \in Requests, CommitRequest(q) PROVE NewsInv'
    <2>1. /\ UNCHANGED <<runs, newsLock, tick>>
          /\ request' = [request EXCEPT ![q] = [NewRequest EXCEPT !.pc = "done"]]
        BY <1>5 DEF CommitRequest
    <2>2. request \in [Requests -> RequestStates]
        BY DEF TypeInv, TypeOK
    <2>3. \A x \in Requests : request'[x].pc = "staged" => request[x].pc = "staged"
        BY <2>1, <2>2 DEF NewRequest
    <2>4. HasFirstNews' <=> HasFirstNews
        BY <2>1 DEF HasFirstNews, IsFirstOpen
    <2>5. OneNewsRun' /\ NewsIsLocked'
        BY <1>0, <2>1, <2>3, <2>4 DEF NewsInv, NewsIsLocked, OneNewsRun, IsFirstOpen, Kind
    <2> QED BY <2>5 DEF NewsInv
<1>6. ASSUME NEW q \in Requests, SubmitNews(q) PROVE NewsInv'
    <2> DEFINE there == IF HasActiveNewsTask THEN "done" ELSE "staged"
    <2>1. /\ UNCHANGED <<runs, tick>>
          /\ newsLock = None /\ newsLock' = IF HasActiveNewsTask THEN None ELSE q
          /\ request' = [request EXCEPT ![q].op = "news", ![q].pc = there]
        BY <1>6 DEF SubmitNews
    <2>2. request \in [Requests -> RequestStates]
        BY DEF TypeInv, TypeOK
    <2>3. /\ request'[q].pc = there
          /\ \A x \in Requests : x # q => request'[x] = request[x]
        BY <2>1, <2>2 DEF RequestStates
    <2>4. HasFirstNews' <=> HasFirstNews
        BY <2>1 DEF HasFirstNews, IsFirstOpen
    <2>5. OneNewsRun'
        BY <2>1 DEF NewsInv, OneNewsRun, IsFirstOpen
    <2>6. /\ \A x \in Requests : request[x].pc # "staged"
          /\ \A p \in Schedulers : ~(/\ tick[p].pc = "planned" /\ tick[p].plan.what = "run"
                                     /\ Kind(tick[p].sched) = "news")
        BY <1>0, <2>1 DEF NewsInv, NewsIsLocked
    <2>7. \A x \in Requests : request'[x].pc = "staged" => newsLock' = x /\ ~HasFirstNews'
        <3>1. CASE HasActiveNewsTask
            BY <2>3, <2>6, <3>1
        <3>2. CASE ~HasActiveNewsTask
            BY <1>1, <2>1, <2>3, <2>4, <2>6, <3>2
        <3> QED BY <3>1, <3>2
    <2>8. \A p \in Schedulers : ~(/\ tick'[p].pc = "planned" /\ tick'[p].plan.what = "run"
                                  /\ Kind(tick[p].sched)' = "news")
        BY <1>0, <2>1, <2>6 DEF Kind
    <2>9. NewsIsLocked'
        BY <2>7, <2>8 DEF NewsIsLocked
    <2> QED BY <2>5, <2>9 DEF NewsInv
<1>7. ASSUME NEW q \in Requests, CommitNews(q) PROVE NewsInv'
    <2>1. /\ DOMAIN runs' = DOMAIN runs \cup {Len(runs) + 1}
          /\ \A i \in DOMAIN runs : runs'[i] = runs[i]
          /\ tick' = tick
        BY <1>7, SubmittedNews
    <2>2. /\ request[q].pc = "staged"
          /\ request' = [request EXCEPT ![q] = [NewRequest EXCEPT !.pc = "done"]]
        BY <1>7 DEF CommitNews
    <2>3. newsLock = q /\ ~HasFirstNews
        BY <2>2 DEF NewsInv, NewsIsLocked
    <2>4. OneNewsRun'
        BY <2>1, <2>3 DEF OneNewsRun, HasFirstNews, IsFirstOpen
    <2>5. request \in [Requests -> RequestStates]
        BY DEF TypeInv, TypeOK
    <2>6. \A x \in Requests : request'[x].pc # "staged"
        BY <2>2, <2>3, <2>5 DEF NewRequest, NewsInv, NewsIsLocked
    <2>7. \A p \in Schedulers : ~(/\ tick[p].pc = "planned" /\ tick[p].plan.what = "run"
                                  /\ Kind(tick[p].sched) = "news")
        BY <1>0, <2>3 DEF NewsInv, NewsIsLocked
    <2>8. NewsIsLocked'
        BY <1>0, <2>1, <2>6, <2>7 DEF NewsIsLocked, Kind
    <2> QED BY <2>4, <2>8 DEF NewsInv
<1>8. ASSUME NEW q \in Requests, Retry(q) PROVE NewsInv'
    <2>1. /\ DOMAIN runs' = DOMAIN runs \cup {Len(runs) + 1}
          /\ \A i \in DOMAIN runs : runs'[i] = runs[i]
          /\ ~runs'[Len(runs) + 1].news
          /\ tick' = tick /\ NothingIsPlanned
        BY <1>8, RetriedRun
    <2>2. HasFirstNews' <=> HasFirstNews
        BY <2>1 DEF HasFirstNews, IsFirstOpen
    <2>3. OneNewsRun'
        BY <2>1 DEF NewsInv, OneNewsRun, IsFirstOpen
    <2>4. newsLock' = newsLock
        BY <1>8 DEF Retry
    <2>5. \A x \in Requests : request'[x].pc = "staged" => request[x].pc = "staged"
        BY <2>1 DEF NothingIsPlanned
    <2>6. NewsIsLocked'
        BY <1>0, <2>1, <2>2, <2>4, <2>5 DEF NewsInv, NewsIsLocked, Kind
    <2> QED BY <2>3, <2>6 DEF NewsInv
<1> QED BY <1>2, <1>3, <1>4, <1>5, <1>6, <1>7, <1>8, StepKinds

\* At most one run of news linking, scheduled or submitted by hand, is open
\* before its first end: beside it there are at most runs that ended and whose
\* rows were opened again.
THEOREM NewsRunsOnce == Spec => []OneNewsRun
<1>1. NewsInv => OneNewsRun
    BY DEF NewsInv
<1> QED BY TypesInit, TypesNext, NewsInit, NewsNext, <1>1, PTL DEF Spec

-----------------------------------------------------------------------------
(* One attempt of heat per trade date *)

\* A planned attempt is the first one of its date.
HeatPlanIsFirst ==
    \A p \in Schedulers :
        tick[p].pc = "planned" /\ Kind(tick[p].sched) = "heat" =>
            /\ tick[p].plan.what # "fail"
            /\ tick[p].plan.what \in {"run", "timeout"}
                  => ~HasHeatAttempt(tick[p].sched, tick[p].plan.first)

HeatInv == HeatPlanIsFirst /\ HeatOncePerDate

\* Nothing is planned at first.
LEMMA HeatInit == Init => HeatInv
BY DEF Init, HeatInv, HeatPlanIsFirst, HeatOncePerDate, IdleTick

\* Every step keeps the invariant about attempts of heat.
LEMMA HeatNext == TypeInv /\ LockInv /\ HeatInv /\ [Next]_scheduleVars => HeatInv'
<1> SUFFICES ASSUME TypeInv, LockInv, HeatInv, [Next]_scheduleVars PROVE HeatInv'
    OBVIOUS
<1>0. config' = config
    BY StepKinds
<1>1. ASSUME \A i \in DOMAIN runs' : runs'[i].source = "scheduled" =>
                /\ i \in DOMAIN runs /\ runs[i].source = "scheduled"
                /\ runs'[i].sched = runs[i].sched /\ runs'[i].first = runs[i].first,
             \A p \in Schedulers : tick'[p].pc = "planned" => tick'[p] = tick[p]
      PROVE  HeatInv'
    <2>1. \A s, d : HasHeatAttempt(s, d)' => HasHeatAttempt(s, d)
        BY <1>1 DEF HasHeatAttempt, RunsOf
    <2>2. HeatPlanIsFirst'
        <3> SUFFICES ASSUME NEW p \in Schedulers, tick'[p].pc = "planned", (Kind(tick[p].sched) = "heat")'
                     PROVE  /\ tick'[p].plan.what # "fail"
                            /\ tick'[p].plan.what \in {"run", "timeout"}
                                  => ~HasHeatAttempt(tick[p].sched, tick[p].plan.first)'
            BY DEF HeatPlanIsFirst
        <3>1. tick'[p] = tick[p] /\ Kind(tick[p].sched) = "heat"
            BY <1>0, <1>1 DEF Kind
        <3>2. /\ tick[p].plan.what # "fail"
              /\ tick[p].plan.what \in {"run", "timeout"}
                    => ~HasHeatAttempt(tick[p].sched, tick[p].plan.first)
            BY <3>1 DEF HeatInv, HeatPlanIsFirst
        <3>3. HasHeatAttempt(tick[p].sched, tick[p].plan.first)'
                 => HasHeatAttempt(tick[p].sched, tick[p].plan.first)
            BY <1>1, <3>1 DEF HasHeatAttempt, RunsOf
        <3> QED BY <3>1, <3>2, <3>3
    <2>3. HeatOncePerDate'
        BY <1>0, <1>1 DEF HeatInv, HeatOncePerDate, Kind
    <2> QED BY <2>2, <2>3 DEF HeatInv
<1>2. CASE QuietStep
    BY <1>1, <1>2 DEF QuietStep, OldRunsStay, NewRunsAreOfProbes, NothingIsPlanned
<1>3. ASSUME NEW p \in Schedulers, PlanStep(p) PROVE HeatInv'
    <2>1. /\ tick[p].pc = "locked" /\ tick'[p].sched = tick[p].sched
          /\ \A r \in Schedulers : r # p => tick'[r] = tick[r]
          /\ runs' = runs
        BY <1>3, PlanLeaves
    <2>2. Kind(tick[p].sched) = "heat" =>
             /\ tick'[p].plan.what # "fail"
             /\ tick'[p].plan.what \in {"run", "timeout"}
                   => ~HasHeatAttempt(tick[p].sched, tick'[p].plan.first)
        <3>1. tick \in [Schedulers -> Ticks]
            BY DEF TypeInv, TypeOK
        <3>2. \A plan : Planned(p, plan) => tick'[p].plan = plan
            BY <3>1 DEF Planned, Ticks
        <3>3. SkipDue.what = "skip"
            BY DEF SkipDue, NoPlan
        <3>4. CASE PlanHeat(p)
            <4> DEFINE date == HeatDate(Due(p))
            <4>1. \/ Planned(p, SkipDue)
                  \/ /\ ~HasHeatAttempt(tick[p].sched, date)
                     /\ \E what \in {"run", "timeout", "retry"} : \E next : Planned(p, Plan(what, date, date, next))
                BY <3>4 DEF PlanHeat
            <4>2. \A what, next : /\ Plan(what, date, date, next).what = what
                                  /\ Plan(what, date, date, next).first = date
                BY DEF Plan
            <4> HIDE DEF date
            <4> QED BY <3>2, <3>3, <4>1, <4>2
        <3>5. CASE PlanSkippedFallback(p)
            BY <3>2, <3>3, <3>5 DEF PlanSkippedFallback
        <3>6. CASE PlanDataset(p) \/ PlanSinceLastSuccess(p) \/ PlanNoNews(p) \/ PlanNews(p)
            BY <3>6 DEF PlanDataset, PlanSinceLastSuccess, PlanNoNews, PlanNews, HoldsKind
        <3> QED BY <1>3, <3>4, <3>5, <3>6 DEF PlanStep
    <2>3. \A s, d : RunsOf(s, d)' = RunsOf(s, d)
        BY <2>1 DEF RunsOf
    <2>4. HeatPlanIsFirst'
        <3> SUFFICES ASSUME NEW r \in Schedulers, tick'[r].pc = "planned", (Kind(tick[r].sched) = "heat")'
                     PROVE  /\ tick'[r].plan.what # "fail"
                            /\ tick'[r].plan.what \in {"run", "timeout"}
                                  => ~HasHeatAttempt(tick[r].sched, tick[r].plan.first)'
            BY DEF HeatPlanIsFirst
        <3>1. tick'[r].sched = tick[r].sched /\ Kind(tick[r].sched) = "heat"
            BY <1>0, <2>1 DEF Kind
        <3>2. HasHeatAttempt(tick[r].sched, tick[r].plan.first)'
                 <=> HasHeatAttempt(tick[r].sched, tick'[r].plan.first)
            BY <2>1, <3>1 DEF HasHeatAttempt, RunsOf
        <3>3. CASE r = p
            BY <2>2, <3>1, <3>2, <3>3
        <3>4. CASE r # p
            BY <2>1, <3>1, <3>2, <3>4 DEF HeatInv, HeatPlanIsFirst
        <3> QED BY <3>3, <3>4
    <2>5. HeatOncePerDate'
        BY <1>0, <2>1 DEF HeatInv, HeatOncePerDate, Kind
    <2> QED BY <2>4, <2>5 DEF HeatInv
<1>4. ASSUME NEW p \in Schedulers, CommitPlan(p) PROVE HeatInv'
    <2>1. /\ tick'[p].pc = "due" /\ \A r \in Schedulers : r # p => tick'[r] = tick[r]
          /\ tick[p].pc = "planned" /\ tick[p].sched \in Schedules
        BY <1>4, CommittedPlan
    <2>2. \A r \in Schedulers : tick'[r].pc = "planned" => r # p /\ tick'[r] = tick[r]
        BY <2>1
    <2>3. CASE runs' = runs
        BY <1>1, <2>2, <2>3
    <2>4. CASE runs' = Append(runs, NewRun(p)) /\ tick[p].plan.what \in {"run", "fail", "timeout"}
        <3> DEFINE n == Len(runs) + 1
                   s == tick[p].sched
        <3>1. /\ DOMAIN runs' = DOMAIN runs \cup {n} /\ runs'[n] = NewRun(p)
              /\ n \notin DOMAIN runs
              /\ \A i \in DOMAIN runs : runs'[i] = runs[i]
            BY <1>4, <2>4, CommittedPlan, AppendedRun
        <3>2. NewRun(p).sched = s /\ NewRun(p).first = tick[p].plan.first
            BY DEF NewRun, TaskRun
        <3>3. HeatPlanIsFirst'
            <4> SUFFICES ASSUME NEW r \in Schedulers, tick'[r].pc = "planned", (Kind(tick[r].sched) = "heat")'
                         PROVE  /\ tick'[r].plan.what # "fail"
                                /\ tick'[r].plan.what \in {"run", "timeout"}
                                      => ~HasHeatAttempt(tick[r].sched, tick[r].plan.first)'
                BY DEF HeatPlanIsFirst
            <4>1. r # p /\ tick'[r] = tick[r] /\ Kind(tick[r].sched) = "heat"
                BY <1>0, <2>2 DEF Kind
            <4>2. tick[r].sched # s
                BY <2>1, <4>1 DEF LockInv, HeldRow
            <4>3. HasHeatAttempt(tick[r].sched, tick[r].plan.first)'
                     => HasHeatAttempt(tick[r].sched, tick[r].plan.first)
                BY <3>1, <3>2, <4>1, <4>2 DEF HasHeatAttempt, RunsOf
            <4> QED BY <4>1, <4>3 DEF HeatInv, HeatPlanIsFirst
        <3>4. HeatOncePerDate'
            <4> SUFFICES ASSUME NEW i \in DOMAIN runs', NEW j \in DOMAIN runs',
                                runs'[i].source = "scheduled", runs'[j].source = "scheduled",
                                runs'[i].sched = runs'[j].sched, (Kind(runs[i].sched) = "heat")',
                                runs'[i].first = runs'[j].first
                         PROVE  i = j
                BY DEF HeatOncePerDate
            <4>1. Kind(runs'[i].sched) = "heat"
                BY <1>0 DEF Kind
            <4>2. CASE i \in DOMAIN runs /\ j \in DOMAIN runs
                BY <3>1, <4>1, <4>2 DEF HeatInv, HeatOncePerDate
            <4>3. CASE i = n \/ j = n
                <5>1. Kind(s) = "heat" /\ runs'[i].sched = s /\ runs'[i].first = tick[p].plan.first
                    BY <3>1, <3>2, <4>1, <4>3
                <5>2. ~HasHeatAttempt(s, tick[p].plan.first)
                    BY <2>1, <2>4, <5>1 DEF HeatInv, HeatPlanIsFirst
                <5>3. \A k \in DOMAIN runs : ~(/\ runs'[k].source = "scheduled" /\ runs'[k].sched = s
                                               /\ runs'[k].first = tick[p].plan.first)
                    BY <3>1, <5>2 DEF HasHeatAttempt, RunsOf
                <5> QED BY <3>1, <5>1, <5>3
            <4> QED BY <3>1, <4>2, <4>3
        <3> QED BY <3>3, <3>4 DEF HeatInv
    <2> QED BY <1>4, <2>3, <2>4, CommittedPlan
<1>5. ASSUME NEW q \in Requests, CommitRequest(q) \/ SubmitNews(q) PROVE HeatInv'
    BY <1>1, <1>5 DEF CommitRequest, SubmitNews
<1>6. ASSUME NEW q \in Requests, CommitNews(q) \/ Retry(q) PROVE HeatInv'
    <2>1. /\ \A i \in DOMAIN runs' : runs'[i].source = "scheduled" => i \in DOMAIN runs /\ runs'[i] = runs[i]
          /\ tick' = tick
        BY <1>6, SubmittedNews, RetriedRun
    <2> QED BY <1>1, <2>1
<1> QED BY <1>2, <1>3, <1>4, <1>5, <1>6, StepKinds

\* A schedule of heat makes one attempt per trade date, however often it falls
\* due and whatever times requests set it to.
THEOREM HeatRunsOnce == Spec => []HeatOncePerDate
<1>1. HeatInv => HeatOncePerDate
    BY DEF HeatInv
<1> QED BY Locked, HeatInit, HeatNext, <1>1, PTL DEF Spec

-----------------------------------------------------------------------------
(* Windows since the last success *)

\* Runs that have a window of their schedule, by their source.
Windowed == {"scheduled", "retry"}

\* A window of the schedule whose row has said success holds the day.
Covered(s, d) == \E i \in DOMAIN runs : /\ runs[i].sched = s /\ runs[i].source \in Windowed
                                        /\ "success" \in runs[i].ever
                                        /\ runs[i].first <= d /\ d <= runs[i].last

\* Every day before a window, planned, committed or repeated, was covered before.
WindowInv ==
    /\ \A p \in Schedulers :
          /\ tick[p].pc = "planned" /\ Kind(tick[p].sched) = "since"
          /\ tick[p].plan.what \in {"run", "fail", "timeout"}
          => \A d \in Nat : d < tick[p].plan.first => Covered(tick[p].sched, d)
    /\ \A i \in DOMAIN runs :
          runs[i].source \in Windowed /\ Kind(runs[i].sched) = "since"
          => \A d \in Nat : d < runs[i].first => Covered(runs[i].sched, d)

\* Up to the end of a successful window there is no day that none covers.
LEMMA WindowsCover == TypeInv /\ Remembered /\ WindowInv => NoDayLost
<1> SUFFICES ASSUME TypeInv, Remembered, WindowInv, NEW s \in Schedules, Kind(s) = "since",
                    NEW e \in SuccessfulEnds(s), NEW d \in 0 .. e
             PROVE  Covered(s, d)
    BY DEF NoDayLost, Covered, WindowsOf, RunsOf, Windowed
<1>1. PICK i \in DOMAIN runs : /\ runs[i].sched = s /\ runs[i].source \in Windowed
                               /\ runs[i].status = "success" /\ runs[i].last = e
    BY DEF SuccessfulEnds, WindowsOf, RunsOf, Windowed
<1>2. runs[i].first \in Nat /\ e \in Nat
    <2>1. runs[i] \in Runs
        BY DEF TypeInv, TypeOK
    <2> QED BY <1>1, <2>1 DEF Runs
<1>3. CASE d < runs[i].first
    BY <1>1, <1>2, <1>3 DEF WindowInv
<1>4. CASE ~(d < runs[i].first)
    BY <1>1, <1>2, <1>4 DEF Covered, Remembered
<1> QED BY <1>3, <1>4

\* What was covered stays covered.
LEMMA CoveredStays ==
    ASSUME TypeInv, OldRunsStay, NEW s, NEW d, Covered(s, d)
    PROVE  \E i \in DOMAIN runs' : /\ runs'[i].sched = s /\ runs'[i].source \in Windowed
                                   /\ "success" \in runs'[i].ever
                                   /\ runs'[i].first <= d /\ d <= runs'[i].last
BY DEF OldRunsStay, Covered

\* Nothing is planned at first.
LEMMA WindowInit == Init => WindowInv
BY DEF Init, WindowInv, IdleTick

\* Every step keeps the invariant about windows.
LEMMA WindowNext == TypeInv /\ Remembered /\ WindowInv /\ [Next]_scheduleVars => WindowInv'
<1> SUFFICES ASSUME TypeInv, Remembered, WindowInv, [Next]_scheduleVars PROVE WindowInv'
    OBVIOUS
<1> DEFINE Then(s, d) == \E i \in DOMAIN runs' : /\ runs'[i].sched = s /\ runs'[i].source \in Windowed
                                                  /\ "success" \in runs'[i].ever
                                                  /\ runs'[i].first <= d /\ d <= runs'[i].last
<1>0. config' = config
    BY StepKinds
<1>1. ASSUME OldRunsStay,
             \A p \in Schedulers :
                tick'[p].pc = "planned" /\ Kind(tick'[p].sched) = "since"
                /\ tick'[p].plan.what \in {"run", "fail", "timeout"} =>
                      \A d \in Nat : d < tick'[p].plan.first => Covered(tick'[p].sched, d),
             \A i \in DOMAIN runs' \ DOMAIN runs :
                runs'[i].source \in Windowed /\ Kind(runs'[i].sched) = "since" =>
                      \A d \in Nat : d < runs'[i].first => Covered(runs'[i].sched, d)
      PROVE  WindowInv'
    <2>1. \A s, d : Covered(s, d) => Then(s, d)
        BY <1>1, CoveredStays
    <2>2. ASSUME NEW p \in Schedulers, tick'[p].pc = "planned", (Kind(tick[p].sched) = "since")',
                 tick'[p].plan.what \in {"run", "fail", "timeout"},
                 NEW d \in Nat, d < tick'[p].plan.first
          PROVE  Then(tick'[p].sched, d)
        BY <1>0, <1>1, <2>1, <2>2 DEF Kind
    <2>3. ASSUME NEW i \in DOMAIN runs', runs'[i].source \in Windowed, (Kind(runs[i].sched) = "since")',
                 NEW d \in Nat, d < runs'[i].first
          PROVE  Then(runs'[i].sched, d)
        <3>1. Kind(runs'[i].sched) = "since"
            BY <1>0, <2>3 DEF Kind
        <3>2. CASE i \in DOMAIN runs
            <4>1. /\ runs[i].source \in Windowed /\ runs'[i].sched = runs[i].sched
                  /\ runs'[i].first = runs[i].first
                BY <1>1, <2>3, <3>2 DEF OldRunsStay
            <4>2. Covered(runs'[i].sched, d)
                BY <2>3, <3>1, <3>2, <4>1 DEF WindowInv
            <4> QED BY <2>1, <4>2
        <3>3. CASE i \notin DOMAIN runs
            BY <1>1, <2>1, <2>3, <3>1, <3>3
        <3> QED BY <3>2, <3>3
    <2> QED BY <2>2, <2>3 DEF WindowInv, Covered
<1>2. CASE QuietStep
    <2>1. \A i \in DOMAIN runs' \ DOMAIN runs : runs'[i].source \notin Windowed
        BY <1>2 DEF QuietStep, NewRunsAreOfProbes, Windowed
    <2>2. OldRunsStay /\ \A p \in Schedulers : tick'[p].pc = "planned" => tick'[p] = tick[p]
        BY <1>2 DEF QuietStep, NothingIsPlanned
    <2> QED BY <1>1, <2>1, <2>2 DEF WindowInv
<1>3. ASSUME NEW p \in Schedulers, PlanStep(p) PROVE WindowInv'
    <2>1. /\ tick[p].pc = "locked" /\ tick'[p].sched = tick[p].sched
          /\ \A r \in Schedulers : r # p => tick'[r] = tick[r]
          /\ runs' = runs
        BY <1>3, PlanLeaves
    <2>2. OldRunsStay
        BY <2>1 DEF OldRunsStay
    <2>3. Kind(tick[p].sched) = "since" /\ tick'[p].plan.what \in {"run", "fail", "timeout"} =>
             \A d \in Nat : d < tick'[p].plan.first => Covered(tick[p].sched, d)
        <3>1. tick \in [Schedulers -> Ticks]
            BY DEF TypeInv, TypeOK
        <3>2. \A plan : Planned(p, plan) => tick'[p].plan = plan
            BY <3>1 DEF Planned, Ticks
        <3>3. SkipDue.what = "skip"
            BY DEF SkipDue, NoPlan
        <3>4. CASE PlanSinceLastSuccess(p)
            <4>1. PICK start \in 0 .. Day(MaxTime) + 1 :
                     /\ IsCursor(tick[p].sched, start)
                     /\ Planned(p, IF start >= Day(Due(p)) THEN SkipDue
                                   ELSE Plan(IF Day(Due(p)) - start > MaxWindow THEN "fail" ELSE "run",
                                             start, Day(Due(p)) - 1, None))
                BY <3>4 DEF PlanSinceLastSuccess
            <4>2. tick'[p].plan.what = "skip" \/ tick'[p].plan.first = start
                BY <3>2, <3>3, <4>1 DEF Plan
            <4>3. start \in Nat /\ tick[p].sched \in Schedules
                <5>1. MaxTime \in Nat
                    BY TimeAssumption
                <5>2. Day(MaxTime) \in Nat
                    BY <5>1, TimeIsInDay
                <5> QED BY <2>1, <5>2 DEF TypeInv, HoldsSchedule
            <4>4. ASSUME Kind(tick[p].sched) = "since", NEW d \in Nat, d < start
                  PROVE  Covered(tick[p].sched, d)
                <5>1. start - 1 \in SuccessfulEnds(tick[p].sched)
                    BY <4>1, <4>3, <4>4 DEF IsCursor
                <5>2. d \in 0 .. start - 1
                    BY <4>3, <4>4
                <5>3. NoDayLost
                    BY WindowsCover
                <5> QED BY <4>3, <4>4, <5>1, <5>2, <5>3 DEF NoDayLost, Covered, WindowsOf, RunsOf, Windowed
            <4> QED BY <4>2, <4>4
        <3>5. CASE PlanSkippedFallback(p)
            BY <3>2, <3>3, <3>5 DEF PlanSkippedFallback
        <3>6. CASE PlanDataset(p) \/ PlanHeat(p) \/ PlanNoNews(p) \/ PlanNews(p)
            BY <3>6 DEF PlanDataset, PlanHeat, PlanNoNews, PlanNews, HoldsKind
        <3> QED BY <1>3, <3>4, <3>5, <3>6 DEF PlanStep
    <2>4. \A r \in Schedulers :
             tick'[r].pc = "planned" /\ Kind(tick'[r].sched) = "since"
             /\ tick'[r].plan.what \in {"run", "fail", "timeout"} =>
                   \A d \in Nat : d < tick'[r].plan.first => Covered(tick'[r].sched, d)
        BY <2>1, <2>3 DEF WindowInv
    <2> QED BY <1>1, <2>1, <2>2, <2>4
<1>4. ASSUME NEW p \in Schedulers, CommitPlan(p) PROVE WindowInv'
    <2>1. /\ tick'[p].pc = "due" /\ \A r \in Schedulers : r # p => tick'[r] = tick[r]
          /\ tick[p].pc = "planned" /\ OldRunsStay
        BY <1>4, CommittedPlan
    <2>2. \A r \in Schedulers : tick'[r].pc = "planned" => tick'[r] = tick[r]
        BY <2>1
    <2>3. \A i \in DOMAIN runs' \ DOMAIN runs :
             runs'[i].source \in Windowed /\ Kind(runs'[i].sched) = "since" =>
                \A d \in Nat : d < runs'[i].first => Covered(runs'[i].sched, d)
        <3>1. CASE runs' = runs
            BY <3>1
        <3>2. CASE runs' = Append(runs, NewRun(p)) /\ tick[p].plan.what \in {"run", "fail", "timeout"}
            <4>1. \A i \in DOMAIN runs' \ DOMAIN runs : runs'[i] = NewRun(p)
                BY <1>4, <3>2, CommittedPlan, AppendedRun
            <4>2. NewRun(p).sched = tick[p].sched /\ NewRun(p).first = tick[p].plan.first
                BY DEF NewRun, TaskRun
            <4> QED BY <2>1, <3>2, <4>1, <4>2 DEF WindowInv
        <3> QED BY <1>4, <3>1, <3>2, CommittedPlan
    <2> QED BY <1>1, <2>1, <2>2, <2>3 DEF WindowInv
<1>5. ASSUME NEW q \in Requests, CommitRequest(q) \/ SubmitNews(q) PROVE WindowInv'
    <2>1. tick' = tick /\ runs' = runs
        BY <1>5 DEF CommitRequest, SubmitNews
    <2>2. OldRunsStay
        BY <2>1 DEF OldRunsStay
    <2> QED BY <1>1, <2>1, <2>2 DEF WindowInv
<1>6. ASSUME NEW q \in Requests, CommitNews(q) PROVE WindowInv'
    <2>1. /\ OldRunsStay /\ tick' = tick
          /\ \A i \in DOMAIN runs' \ DOMAIN runs : runs'[i].source \notin Windowed
        BY <1>6, SubmittedNews DEF Windowed
    <2> QED BY <1>1, <2>1 DEF WindowInv
<1>7. ASSUME NEW q \in Requests, Retry(q) PROVE WindowInv'
    <2> DEFINE new == runs'[Len(runs) + 1]
    <2>1. /\ OldRunsStay /\ tick' = tick
          /\ DOMAIN runs' = DOMAIN runs \cup {Len(runs) + 1}
          /\ \E i \in WindowsOf(new.sched) : new.first = runs[i].first
        BY <1>7, RetriedRun
    <2>2. PICK i \in DOMAIN runs : /\ runs[i].sched = new.sched /\ runs[i].source \in Windowed
                                   /\ new.first = runs[i].first
        BY <2>1 DEF WindowsOf, RunsOf, Windowed
    <2>3. Kind(new.sched) = "since" => \A d \in Nat : d < new.first => Covered(new.sched, d)
        BY <2>2 DEF WindowInv
    <2> QED BY <1>1, <2>1, <2>3 DEF WindowInv
<1> QED BY <1>2, <1>3, <1>4, <1>5, <1>6, <1>7, StepKinds

\* Windows since the last success leave no day out, in whatever order they end
\* and however often their rows are written again or their runs repeated: the
\* days before the cursor lie in windows that said success at some time.
THEOREM NoDayIsLost == Spec => []NoDayLost
BY TypesInit, TypesNext, RememberedInit, RememberedNext, WindowInit, WindowNext, WindowsCover, PTL
   DEF Spec
=============================================================================
