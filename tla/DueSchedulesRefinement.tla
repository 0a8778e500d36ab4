------------------------ MODULE DueSchedulesRefinement ------------------------
(***************************************************************************)
(* The ticks of any number of scheduler processes, together with requests  *)
(* that act on what they read before, implement one process that serves    *)
(* due schedules one at a time.                                            *)
(***************************************************************************)
EXTENDS ScheduleTickProofs

-----------------------------------------------------------------------------
(* Times *)

\* Days begin DayLength apart.
LEMMA DaysAreApart ==
    ASSUME NEW a \in Nat, NEW b \in Nat
    PROVE  /\ DayLength * a \in Nat
           /\ a <= b => DayLength * a <= DayLength * b
           /\ a < b => DayLength * a + DayLength <= DayLength * b
<1>1. DayLength \in Nat
    BY TimeAssumption
<1>2. \A c \in Nat : DayLength * c \in Nat
    BY <1>1
<1>3. \A c \in Nat : DayLength * (a + c) = DayLength * a + DayLength * c
    BY <1>1
<1>4. ASSUME a <= b PROVE DayLength * a <= DayLength * b
    <2>1. b - a \in Nat /\ a + (b - a) = b
        BY <1>4
    <2>2. DayLength * b = DayLength * a + DayLength * (b - a)
        BY <2>1, <1>3
    <2>3. DayLength * (b - a) \in Nat /\ DayLength * a \in Nat
        BY <2>1, <1>2
    <2> QED BY <2>2, <2>3
<1>5. ASSUME a < b PROVE DayLength * a + DayLength <= DayLength * b
    <2>1. b - a - 1 \in Nat /\ (a + 1) + (b - a - 1) = b
        BY <1>5
    <2>2. DayLength * b = DayLength * (a + 1) + DayLength * (b - a - 1)
        <3>1. \A x, c \in Nat : DayLength * (x + c) = DayLength * x + DayLength * c
            BY <1>1
        <3> QED BY <2>1, <3>1
    <2>3. DayLength * (a + 1) = DayLength * a + DayLength
        BY <1>1
    <2>4. DayLength * (b - a - 1) \in Nat /\ DayLength * a \in Nat
        BY <2>1, <1>2
    <2> QED BY <1>1, <2>2, <2>3, <2>4
<1> QED BY <1>2, <1>4, <1>5

\* A day and a time of day determine each other.
LEMMA DayIsUnique ==
    ASSUME NEW t \in Nat, NEW d \in Nat, NEW r \in 0 .. DayLength - 1, t = DayLength * d + r
    PROVE  Day(t) = d /\ TimeOfDay(t) = r
<1> DEFINE e == Day(t)
           q == TimeOfDay(t)
<1>1. e \in Nat /\ q \in 0 .. DayLength - 1 /\ t = DayLength * e + q
    BY TimeIsInDay
<1>2. DayLength \in Nat
    BY TimeAssumption
<1> HIDE DEF e, q
<1>3. /\ DayLength * d \in Nat /\ DayLength * e \in Nat
      /\ d < e => DayLength * d + DayLength <= DayLength * e
      /\ e < d => DayLength * e + DayLength <= DayLength * d
    BY <1>1, DaysAreApart
<1>4. ~(d < e) /\ ~(e < d)
    BY <1>1, <1>2, <1>3
<1>5. d = e
    BY <1>1, <1>4
<1>6. r = q
    BY <1>1, <1>2, <1>3, <1>5
<1> QED BY <1>5, <1>6 DEF e, q

\* What compute_next_run_at computes is the first occurrence after t.
LEMMA NextIsNextDue ==
    ASSUME NEW t \in Nat
    PROVE  /\ Promise!IsNextDue(NextOccurrence(t), t)
           /\ NextOccurrence(t) \in t + 1 .. t + DayLength
<1> DEFINE d == Day(t)
           r == TimeOfDay(t)
           u == NextOccurrence(t)
           k == IF r < DueTime THEN d ELSE d + 1
<1>1. d \in Nat /\ r \in 0 .. DayLength - 1 /\ t = DayLength * d + r
    BY TimeIsInDay
<1>2. DayLength \in Nat /\ DueTime \in 0 .. DayLength - 1
    BY TimeAssumption
<1>3. u \in Nat /\ u > t
    BY NextIsLater
<1>4. u = DueTime + DayLength * k /\ k \in Nat
    BY <1>1 DEF NextOccurrence
<1> HIDE DEF d, r, u
<1>5. DayLength * d \in Nat /\ DayLength * (d + 1) = DayLength * d + DayLength
    BY <1>1, <1>2
<1>6. u <= t + DayLength
    <2>1. CASE r < DueTime
        BY <1>1, <1>2, <1>4, <1>5, <2>1
    <2>2. CASE ~(r < DueTime)
        BY <1>1, <1>2, <1>4, <1>5, <2>2
    <2> QED BY <2>1, <2>2
<1>7. u % DayLength = DueTime
    <2>1. DayLength * k \in Nat
        BY <1>4, DaysAreApart
    <2>2. u = DayLength * k + DueTime
        BY <1>2, <1>4, <2>1
    <2> HIDE DEF k
    <2> QED BY <1>2, <1>3, <1>4, <2>2, DayIsUnique DEF TimeOfDay
<1>8. ASSUME NEW v \in t + 1 .. u - 1, v % DayLength = DueTime PROVE FALSE
    <2> DEFINE e == Day(v)
    <2>1. v \in Nat /\ t < v /\ v < u
        BY <1>3, <1>8
    <2>2. e \in Nat /\ v = DayLength * e + DueTime
        BY <1>8, <2>1, TimeIsInDay DEF TimeOfDay
    <2> HIDE DEF e
    <2>3. /\ DayLength * e \in Nat
          /\ e < d => DayLength * e + DayLength <= DayLength * d
          /\ e <= d => DayLength * e <= DayLength * d
          /\ d <= e => DayLength * d <= DayLength * e
          /\ d + 1 <= e => DayLength * (d + 1) <= DayLength * e
        BY <1>1, <2>2, DaysAreApart
    <2>4. CASE r < DueTime
        <3>1. u = DayLength * d + DueTime
            BY <1>2, <1>4, <1>5, <2>4
        <3>2. CASE e < d
            BY <1>1, <1>2, <1>5, <2>1, <2>2, <2>3, <3>2
        <3>3. CASE d <= e
            BY <1>2, <1>5, <2>1, <2>2, <2>3, <3>1, <3>3
        <3> QED BY <1>1, <2>2, <3>2, <3>3
    <2>5. CASE ~(r < DueTime)
        <3>1. u = DayLength * (d + 1) + DueTime
            BY <1>2, <1>4, <1>5, <2>5
        <3>2. CASE e <= d
            BY <1>1, <1>2, <1>5, <2>1, <2>2, <2>3, <2>5, <3>2
        <3>3. CASE d + 1 <= e
            BY <1>2, <1>5, <2>1, <2>2, <2>3, <3>1, <3>3
        <3> QED BY <1>1, <2>2, <3>2, <3>3
    <2> QED BY <2>4, <2>5
<1>9. Promise!IsNextDue(u, t)
    BY <1>3, <1>7, <1>8 DEF Promise!IsNextDue
<1> QED BY <1>2, <1>3, <1>6, <1>9 DEF u

\* The date that the heat materializes is the last one whose time has come.
LEMMA HeatDateIsLast ==
    ASSUME NEW due \in Nat
    PROVE  /\ Promise!IsHeatDate(HeatDate(due), due)
           /\ HeatDate(due) \in 0 .. Day(due)
           /\ Promise!Deadline(HeatDate(due)) = HeatDeadline(due)
<1> DEFINE d == Day(due)
           r == TimeOfDay(due)
<1>1. d \in Nat /\ r \in 0 .. DayLength - 1 /\ due = DayLength * d + r
    BY TimeIsInDay
<1>2. DayLength \in Nat /\ DueTime \in 0 .. DayLength - 1
    BY TimeAssumption
<1>3. Promise!Deadline(HeatDate(due)) = HeatDeadline(due)
    BY DEF Promise!Deadline, HeatDeadline
<1>4. HeatDate(due) = IF r >= DueTime \/ d = 0 THEN d ELSE d - 1
    BY DEF HeatDate
<1> HIDE DEF d, r
<1>5. DayLength * d \in Nat /\ DayLength * (d + 1) = DayLength * d + DayLength
    BY <1>1, <1>2
<1>6. CASE r >= DueTime \/ d = 0
    <2>1. HeatDate(due) = d
        BY <1>4, <1>6
    <2>2. due < DueTime + DayLength * (d + 1)
        BY <1>1, <1>2, <1>5
    <2>3. d = 0 \/ DueTime + DayLength * d <= due
        BY <1>1, <1>2, <1>5, <1>6
    <2> QED BY <1>1, <1>3, <2>1, <2>2, <2>3 DEF Promise!IsHeatDate, d
<1>7. CASE ~(r >= DueTime \/ d = 0)
    <2>1. HeatDate(due) = d - 1 /\ d - 1 \in Nat /\ (d - 1) + 1 = d
        BY <1>1, <1>4, <1>7
    <2>2. due < DueTime + DayLength * d
        BY <1>1, <1>2, <1>5, <1>7
    <2>3. DayLength * (d - 1) + DayLength <= DayLength * d /\ DayLength * (d - 1) \in Nat
        BY <1>1, <2>1, DaysAreApart
    <2>4. DueTime + DayLength * (d - 1) <= due
        BY <1>1, <1>2, <1>5, <2>3
    <2>5. d - 1 \in 0 .. d
        BY <1>1, <2>1
    <2> QED BY <1>3, <2>1, <2>2, <2>4, <2>5 DEF Promise!IsHeatDate, d
<1> QED BY <1>6, <1>7

-----------------------------------------------------------------------------
(* Plans on their way *)

\* A probe of the schedule created a task run on that day.
ProbedOn(s, day) == \E i \in RunsOf(s, "probe") : runs[i].day = day

\* The plan of p is one that could be made now, whatever happened since it was
\* made.
PlanFits(p) ==
    LET s == tick[p].sched
        due == tick[p].due
        now == tick[p].now
        plan == tick[p].plan
    IN  \/ /\ plan.what = "skip"
           /\ \/ Mode(s) = "schedule_probe_fallback" /\ ProbedOn(s, Day(now))
              \/ Kind(s) = "since" /\ \A d \in Nat : d < Day(due) => Covered(s, d)
              \/ Kind(s) \in {"heat", "news"}
        \/ /\ Kind(s) = "dataset" /\ plan.what = "run"
           /\ plan.first = Day(due) /\ plan.last = Day(due)
        \/ /\ Kind(s) = "since" /\ plan.first < Day(due) /\ plan.last = Day(due) - 1
           /\ plan.what = IF Day(due) - plan.first > MaxWindow THEN "fail" ELSE "run"
           /\ \A d \in Nat : d < plan.first => Covered(s, d)
        \/ /\ Kind(s) = "heat" /\ plan.first = HeatDate(due) /\ plan.last = plan.first
           /\ ~HasHeatAttempt(s, plan.first)
           /\ \/ plan.what = "run"
              \/ plan.what = "timeout" /\ now >= HeatDeadline(due)
              \/ plan.what = "retry" /\ plan.next \in now + 1 .. HeatDeadline(due)
        \/ /\ Kind(s) = "news" /\ plan.what = "run"
           /\ plan.first = Day(now) /\ plan.last = plan.first

\* A tick is not ahead of the clock, and it takes no schedule that only probes.
TakenInv == \A p \in Schedulers :
                /\ tick[p].now <= clock
                /\ tick[p].pc \in {"locked", "planned"} => Mode(tick[p].sched) # "probe"

FitInv == \A p \in Schedulers : tick[p].pc = "planned" =>
              config.of[tick[p].sched].valid /\ PlanFits(p)

\* All ticks are idle at first.
LEMMA FitInit == Init => TakenInv /\ FitInv
BY DEF Init, TakenInv, FitInv, IdleTick

\* Every step keeps what is known of the schedules that are taken.
LEMMA TakenNext == TypeInv /\ TakenInv /\ [Next]_scheduleVars => TakenInv'
<1> SUFFICES ASSUME TypeInv, TakenInv, [Next]_scheduleVars PROVE TakenInv'
    OBVIOUS
<1>0. /\ tick \in [Schedulers -> Ticks] /\ clock \in Nat /\ config' = config
      /\ \A p \in Schedulers : tick[p].now \in Nat
    BY StepKinds, TimeAssumption DEF TypeInv, TypeOK, Ticks
<1>1. IdleTick.pc = "idle" /\ IdleTick.now = 0 /\ IdleTick \in Ticks
    BY DEF IdleTick, Ticks, NoPlan, Plans, MaybeTime
<1>2. ASSUME NEW p \in Schedulers, NEW t, tick' = [tick EXCEPT ![p] = t], clock' = clock,
             t.now \in Nat, t.now <= clock,
             t.pc \in {"locked", "planned"} => Mode(t.sched) # "probe"
      PROVE  TakenInv'
    BY <1>0, <1>2 DEF TakenInv, Mode
<1>3. ASSUME NEW p \in Schedulers, RolledBack(p) PROVE TakenInv'
    <2>1. tick' = [tick EXCEPT ![p] = IdleTick] /\ clock' = clock
        BY <1>3 DEF RolledBack
    <2>2. IdleTick.now \in Nat /\ IdleTick.now <= clock /\ IdleTick.pc \notin {"locked", "planned"}
        BY <1>0, <1>1
    <2> QED BY <1>2, <2>1, <2>2
<1>4. ASSUME NEW p \in Schedulers, StartTick(p) PROVE TakenInv'
    <2> DEFINE t == [IdleTick EXCEPT !.pc = "due", !.now = clock]
    <2>1. t.pc = "due" /\ t.now = clock
        BY DEF IdleTick
    <2>2. tick' = [tick EXCEPT ![p] = t] /\ clock' = clock
        BY <1>4 DEF StartTick
    <2> HIDE DEF t
    <2>3. t.now \in Nat /\ t.now <= clock /\ t.pc \notin {"locked", "planned"}
        BY <1>0, <2>1
    <2> QED BY <1>2, <2>2, <2>3
<1>5. ASSUME NEW p \in Schedulers, TakeDue(p) PROVE TakenInv'
    <2>1. PICK s \in Candidates(p) :
             tick' = [tick EXCEPT ![p].pc = "locked", ![p].sched = s, ![p].due = row[s].next,
                                  ![p].done = @ \cup {s}]
        BY <1>5 DEF TakeDue
    <2> DEFINE t == [tick[p] EXCEPT !.pc = "locked", !.sched = s, !.due = row[s].next,
                                    !.done = @ \cup {s}]
    <2>2. tick' = [tick EXCEPT ![p] = t] /\ t.now = tick[p].now /\ t.sched = s
        BY <1>0, <2>1 DEF Ticks
    <2>3. Mode(s) # "probe"
        BY DEF Candidates, IsDue
    <2>4. clock' = clock
        BY <1>5 DEF TakeDue
    <2>5. tick[p].now <= clock
        BY DEF TakenInv
    <2> HIDE DEF t
    <2> QED BY <1>0, <1>2, <2>2, <2>3, <2>4, <2>5
<1>6. ASSUME NEW p \in Schedulers, EndDue(p) \/ EndTick(p) PROVE TakenInv'
    <2> DEFINE t == [IdleTick EXCEPT !.pc = "probing", !.now = tick[p].now]
    <2>1. t.pc = "probing" /\ t.now = tick[p].now
        BY DEF IdleTick
    <2>2. tick[p].now <= clock
        BY DEF TakenInv
    <2>3. clock' = clock /\ (tick' = [tick EXCEPT ![p] = t] \/ tick' = [tick EXCEPT ![p] = IdleTick])
        BY <1>6 DEF EndDue, EndTick
    <2>4. IdleTick.now \in Nat /\ IdleTick.now <= clock /\ IdleTick.pc \notin {"locked", "planned"}
        BY <1>0, <1>1
    <2> HIDE DEF t
    <2>5. CASE tick' = [tick EXCEPT ![p] = t]
        BY <1>0, <1>2, <2>1, <2>2, <2>3, <2>5
    <2>6. CASE tick' = [tick EXCEPT ![p] = IdleTick]
        BY <1>2, <2>3, <2>4, <2>6
    <2> QED BY <2>3, <2>5, <2>6
<1>7. ASSUME NEW p \in Schedulers, PlanStep(p) PROVE TakenInv'
    <2>1. PICK plan : /\ tick' = [tick EXCEPT ![p].pc = "planned", ![p].plan = plan]
                      /\ clock' = clock /\ tick[p].pc = "locked"
        BY <1>7 DEF PlanStep, PlanSkippedFallback, PlanDataset, PlanSinceLastSuccess, PlanHeat,
                    PlanNoNews, PlanNews, HoldsKind, Holds, Planned
    <2> DEFINE t == [tick[p] EXCEPT !.pc = "planned", !.plan = plan]
    <2>2. tick' = [tick EXCEPT ![p] = t] /\ t.now = tick[p].now /\ t.sched = tick[p].sched
        BY <1>0, <2>1 DEF Ticks
    <2>3. tick[p].now <= clock /\ Mode(tick[p].sched) # "probe"
        BY <2>1 DEF TakenInv
    <2>4. t.now \in Nat /\ t.now <= clock /\ Mode(t.sched) # "probe"
        BY <1>0, <2>2, <2>3
    <2> HIDE DEF t
    <2> QED BY <1>2, <2>1, <2>2, <2>4
<1>8. ASSUME NEW p \in Schedulers, CommitPlan(p) PROVE TakenInv'
    <2> DEFINE t == [tick[p] EXCEPT !.pc = "due", !.sched = None, !.due = None, !.plan = NoPlan]
    <2>1. tick' = [tick EXCEPT ![p] = t] /\ t.now = tick[p].now /\ t.pc = "due" /\ clock' = clock
        BY <1>0, <1>8 DEF CommitPlan, Ticks
    <2>2. tick[p].now <= clock
        BY DEF TakenInv
    <2> HIDE DEF t
    <2> QED BY <1>0, <1>2, <2>1, <2>2
<1>9. CASE UNCHANGED <<clock, tick>>
    BY <1>0, <1>9 DEF TakenInv, Mode
<1>10. CASE PassTime
    BY <1>0, <1>10 DEF PassTime, TakenInv, Mode
<1> QED
    <2>1. ASSUME NEW p \in Schedulers, DueStep(p) \/ Die(p) \/ EndTick(p) \/ AbortProbes(p)
          PROVE  TakenInv'
        BY <1>3, <1>4, <1>5, <1>6, <1>7, <1>8, <2>1 DEF DueStep, RefusePolicy, Die, AbortProbes
    <2>2. ASSUME NEW p \in Schedulers, NEW r \in rules, NEW target \in Nat, CreateProbeRun(p, r, target)
          PROVE  TakenInv'
        BY <1>9, <2>2 DEF CreateProbeRun
    <2>3. ASSUME NEW q \in Requests, RequestStep(q) PROVE TakenInv'
        BY <1>9, <2>3 DEF RequestStep, ReadRow, DeleteRules, CommitRequest, FailRequest,
                          SubmitNews, CommitNews, Retry
    <2>4. CASE EnvironmentStep \/ UNCHANGED scheduleVars
        BY <1>9, <1>10, <2>4 DEF EnvironmentStep, EndRun, RewriteRun, WriteStatus, scheduleVars
    <2> QED BY <2>1, <2>2, <2>3, <2>4 DEF Next

\* A plan still fits while no run of its schedule is scheduled.
LEMMA FitStays ==
    ASSUME TypeInv, OldRunsStay, config' = config, NEW p \in Schedulers, tick'[p] = tick[p],
           PlanFits(p),
           \A i \in DOMAIN runs' \ DOMAIN runs :
               runs'[i].source = "scheduled" => runs'[i].sched # tick[p].sched
    PROVE  PlanFits(p)'
<1> DEFINE s == tick[p].sched
           plan == tick[p].plan
<1>1. \A d : Covered(s, d) => Covered(s, d)'
    BY CoveredStays DEF Covered
<1>2. \A d : HasHeatAttempt(s, d)' => HasHeatAttempt(s, d)
    BY DEF HasHeatAttempt, RunsOf, OldRunsStay
<1>3. \A d : ProbedOn(s, d) => ProbedOn(s, d)'
    BY DEF ProbedOn, RunsOf, OldRunsStay
<1>4. Kind(s)' = Kind(s) /\ Mode(s)' = Mode(s) /\ s' = s /\ plan' = plan
    BY DEF Kind, Mode
<1> QED BY <1>1, <1>2, <1>3, <1>4 DEF PlanFits

\* A plan fits when it is made.
LEMMA PlanIsMade ==
    ASSUME TypeInv, LockInv, Remembered, WindowInv, TakenInv, NEW p \in Schedulers, PlanStep(p)
    PROVE  config'.of[tick'[p].sched].valid /\ PlanFits(p)'
<1> DEFINE s == tick[p].sched
           due == tick[p].due
           now == tick[p].now
<1>0. /\ tick \in [Schedulers -> Ticks] /\ s \in Schedules
      /\ due \in Nat /\ now \in Nat /\ tick[p].pc = "locked"
      /\ UNCHANGED <<config, row, runs>>
    BY PlanLeaves DEF TypeInv, TypeOK, HoldsSchedule, Ticks
<1>1. ASSUME NEW plan, Planned(p, plan)
      PROVE  /\ tick'[p].sched = s /\ tick'[p].due = due /\ tick'[p].now = now
             /\ tick'[p].plan = plan
    BY <1>0, <1>1 DEF Planned, Ticks
<1>2. config.of[s].valid
    BY DEF PlanStep, PlanSkippedFallback, PlanDataset, PlanSinceLastSuccess, PlanHeat,
           PlanNoNews, PlanNews, HoldsKind, Holds
<1>3. /\ \A k : (Kind(k)' = Kind(k) /\ Mode(k)' = Mode(k))
      /\ \A k, d : Covered(k, d)' <=> Covered(k, d)
      /\ \A k, d : HasHeatAttempt(k, d)' <=> HasHeatAttempt(k, d)
      /\ \A k, d : ProbedOn(k, d)' <=> ProbedOn(k, d)
    BY <1>0 DEF Kind, Mode, Covered, HasHeatAttempt, ProbedOn, RunsOf
<1>4. SkipDue.what = "skip"
    BY DEF SkipDue, NoPlan
<1>5. \A what, first, last, next :
         LET plan == Plan(what, first, last, next) IN
         plan.what = what /\ plan.first = first /\ plan.last = last /\ plan.next = next
    BY DEF Plan
<1>6. config'.of[tick'[p].sched].valid
    BY <1>0, <1>2, PlanLeaves
<1> DEFINE Fits(plan) ==
        \/ /\ plan.what = "skip"
           /\ \/ Mode(s) = "schedule_probe_fallback" /\ ProbedOn(s, Day(now))
              \/ Kind(s) = "since" /\ \A d \in Nat : d < Day(due) => Covered(s, d)
              \/ Kind(s) \in {"heat", "news"}
        \/ /\ Kind(s) = "dataset" /\ plan.what = "run"
           /\ plan.first = Day(due) /\ plan.last = Day(due)
        \/ /\ Kind(s) = "since" /\ plan.first < Day(due) /\ plan.last = Day(due) - 1
           /\ plan.what = IF Day(due) - plan.first > MaxWindow THEN "fail" ELSE "run"
           /\ \A d \in Nat : d < plan.first => Covered(s, d)
        \/ /\ Kind(s) = "heat" /\ plan.first = HeatDate(due) /\ plan.last = plan.first
           /\ ~HasHeatAttempt(s, plan.first)
           /\ \/ plan.what = "run"
              \/ plan.what = "timeout" /\ now >= HeatDeadline(due)
              \/ plan.what = "retry" /\ plan.next \in now + 1 .. HeatDeadline(due)
        \/ /\ Kind(s) = "news" /\ plan.what = "run"
           /\ plan.first = Day(now) /\ plan.last = plan.first
<1>7. ASSUME NEW plan, Planned(p, plan), Fits(plan) PROVE PlanFits(p)'
    BY <1>1, <1>3, <1>7 DEF PlanFits
<1>8. CASE PlanSkippedFallback(p)
    <2>1. Planned(p, SkipDue) /\ SkipsFallback(p)
        BY <1>8 DEF PlanSkippedFallback
    <2>2. Mode(s) = "schedule_probe_fallback" /\ ProbedOn(s, Day(now))
        BY <2>1 DEF SkipsFallback, HasEffectiveProbeTask, ProbedOn
    <2> QED BY <1>4, <1>6, <1>7, <2>1, <2>2
<1>9. CASE PlanDataset(p)
    <2>1. Kind(s) = "dataset" /\ Planned(p, Plan("run", Day(due), Day(due), None))
        BY <1>9 DEF PlanDataset, HoldsKind, Due
    <2>2. Fits(Plan("run", Day(due), Day(due), None))
        BY <1>5, <2>1
    <2> QED BY <1>6, <1>7, <2>1, <2>2
<1>10. CASE PlanSinceLastSuccess(p)
    <2> DEFINE what(start) == IF Day(due) - start > MaxWindow THEN "fail" ELSE "run"
    <2>1. PICK start \in 0 .. Day(MaxTime) + 1 :
             /\ IsCursor(s, start)
             /\ Planned(p, IF start >= Day(due) THEN SkipDue
                           ELSE Plan(what(start), start, Day(due) - 1, None))
        BY <1>10 DEF PlanSinceLastSuccess, Due
    <2>2. Kind(s) = "since"
        BY <1>10 DEF PlanSinceLastSuccess, HoldsKind
    <2>3. start \in Nat /\ Day(due) \in Nat
        <3>1. start \in Nat
            BY <2>1
        <3>2. Day(due) \in Nat
            BY <1>0, TimeIsInDay
        <3> QED BY <3>1, <3>2
    <2>4. ASSUME NEW d \in Nat, d < start PROVE Covered(s, d)
        <3>1. start - 1 \in SuccessfulEnds(s) /\ d \in 0 .. start - 1
            BY <2>1, <2>3, <2>4 DEF IsCursor
        <3> QED BY <1>0, <2>2, <3>1, WindowsCover DEF NoDayLost, Covered, WindowsOf, RunsOf, Windowed
    <2>5. CASE start >= Day(due)
        <3>1. \A d \in Nat : d < Day(due) => Covered(s, d)
            BY <2>3, <2>4, <2>5
        <3>2. Fits(SkipDue)
            BY <1>4, <2>2, <3>1
        <3> QED BY <1>6, <1>7, <2>1, <2>5, <3>2
    <2>6. CASE ~(start >= Day(due))
        <3> DEFINE plan == Plan(what(start), start, Day(due) - 1, None)
        <3>1. plan.what = what(start) /\ plan.first = start /\ plan.last = Day(due) - 1
            BY <1>5
        <3>2. Planned(p, plan)
            BY <2>1, <2>6
        <3> HIDE DEF plan
        <3>3. Fits(plan)
            BY <2>2, <2>3, <2>4, <2>6, <3>1
        <3> QED BY <1>6, <1>7, <3>2, <3>3
    <2> QED BY <2>5, <2>6
<1>11. CASE PlanHeat(p)
    <2> DEFINE date == HeatDate(due)
               deadline == HeatDeadline(due)
               later == IF now + 1 < deadline THEN now + 1 ELSE deadline
    <2>1. Kind(s) = "heat"
        BY <1>11 DEF PlanHeat, HoldsKind
    <2>2. \/ Planned(p, SkipDue)
          \/ /\ ~HasHeatAttempt(s, date)
             /\ \/ Planned(p, Plan("run", date, date, None))
                \/ now < deadline /\ Planned(p, Plan("retry", date, date, later))
                \/ ~(now < deadline) /\ Planned(p, Plan("timeout", date, date, None))
        BY <1>11 DEF PlanHeat, Due
    <2>3. deadline \in Nat
        BY <1>0, HeatTypes
    <2>4. now < deadline => later \in now + 1 .. deadline
        BY <1>0, <2>3
    <2>5. ~(now < deadline) => now >= deadline
        BY <1>0, <2>3
    <2>6. Fits(SkipDue)
        BY <1>4, <2>1
    <2>7. ~HasHeatAttempt(s, date) => Fits(Plan("run", date, date, None))
        BY <1>5, <2>1
    <2>8. ~HasHeatAttempt(s, date) /\ now < deadline => Fits(Plan("retry", date, date, later))
        BY <1>5, <2>1, <2>4
    <2>9. ~HasHeatAttempt(s, date) /\ ~(now < deadline) => Fits(Plan("timeout", date, date, None))
        BY <1>5, <2>1, <2>5
    <2> HIDE DEF Fits, date, deadline, later
    <2> QED BY <1>6, <1>7, <2>2, <2>6, <2>7, <2>8, <2>9
<1>12. CASE PlanNoNews(p) \/ PlanNews(p)
    <2>1. Kind(s) = "news"
        BY <1>12 DEF PlanNoNews, PlanNews, HoldsKind
    <2>2. Planned(p, SkipDue) \/ Planned(p, Plan("run", Day(now), Day(now), None))
        BY <1>12 DEF PlanNoNews, PlanNews
    <2>3. Fits(SkipDue) /\ Fits(Plan("run", Day(now), Day(now), None))
        BY <1>4, <1>5, <2>1
    <2> HIDE DEF Fits
    <2> QED BY <1>6, <1>7, <2>2, <2>3
<1> QED BY <1>8, <1>9, <1>10, <1>11, <1>12 DEF PlanStep
\* Every step keeps the plans fitting: while a schedule is held, no other
\* process makes a run of it, and what else happens to runs does not matter.
LEMMA FitNext ==
    TypeInv /\ LockInv /\ Remembered /\ WindowInv /\ TakenInv /\ FitInv /\ [Next]_scheduleVars => FitInv'
<1> SUFFICES ASSUME TypeInv, LockInv, Remembered, WindowInv, TakenInv, FitInv, [Next]_scheduleVars
             PROVE  FitInv'
    OBVIOUS
<1>0. config' = config
    BY StepKinds
<1>1. ASSUME NEW p \in Schedulers, tick'[p].pc = "planned", tick'[p] = tick[p], OldRunsStay,
             \A i \in DOMAIN runs' \ DOMAIN runs :
                 runs'[i].source = "scheduled" => runs'[i].sched # tick[p].sched
      PROVE  config'.of[tick'[p].sched].valid /\ PlanFits(p)'
    <2>1. config.of[tick[p].sched].valid /\ PlanFits(p)
        BY <1>1 DEF FitInv
    <2> QED BY <1>0, <1>1, <2>1, FitStays
<1>2. CASE QuietStep
    BY <1>1, <1>2 DEF QuietStep, NothingIsPlanned, NewRunsAreOfProbes, FitInv
<1>3. ASSUME NEW p \in Schedulers, PlanStep(p) PROVE FitInv'
    <2>1. (\A r \in Schedulers : r # p => tick'[r] = tick[r]) /\ runs' = runs
        BY <1>3, PlanLeaves
    <2>2. OldRunsStay
        BY <2>1 DEF OldRunsStay
    <2>3. config'.of[tick'[p].sched].valid /\ PlanFits(p)'
        BY <1>3, PlanIsMade
    <2> QED BY <1>1, <2>1, <2>2, <2>3 DEF FitInv
<1>4. ASSUME NEW p \in Schedulers, CommitPlan(p) PROVE FitInv'
    <2>1. /\ tick'[p].pc = "due" /\ \A r \in Schedulers : r # p => tick'[r] = tick[r]
          /\ tick[p].pc = "planned" /\ OldRunsStay
        BY <1>4, CommittedPlan
    <2>2. \A i \in DOMAIN runs' \ DOMAIN runs : runs'[i].sched = tick[p].sched
        <3>1. CASE runs' = runs
            BY <3>1
        <3>2. CASE runs' = Append(runs, NewRun(p))
            <4>1. \A i \in DOMAIN runs' \ DOMAIN runs : runs'[i] = NewRun(p)
                BY <1>4, <3>2, CommittedPlan, AppendedRun
            <4> QED BY <4>1 DEF NewRun, TaskRun
        <3> QED BY <1>4, <3>1, <3>2, CommittedPlan
    <2>3. \A r \in Schedulers : tick'[r].pc = "planned" => r # p /\ tick[r].sched # tick[p].sched
        BY <2>1 DEF LockInv, HeldRow
    <2> QED BY <1>1, <2>1, <2>2, <2>3 DEF FitInv
<1>5. ASSUME NEW q \in Requests, CommitRequest(q) \/ SubmitNews(q) PROVE FitInv'
    <2>1. tick' = tick /\ runs' = runs
        BY <1>5 DEF CommitRequest, SubmitNews
    <2>2. OldRunsStay
        BY <2>1 DEF OldRunsStay
    <2> QED BY <1>1, <2>1, <2>2 DEF FitInv
<1>6. ASSUME NEW q \in Requests, CommitNews(q) \/ Retry(q) PROVE FitInv'
    <2>1. /\ OldRunsStay /\ tick' = tick
          /\ \A i \in DOMAIN runs' \ DOMAIN runs : runs'[i].source # "scheduled"
        BY <1>6, SubmittedNews, RetriedRun
    <2> QED BY <1>1, <2>1 DEF FitInv
<1> QED BY <1>2, <1>3, <1>4, <1>5, <1>6, StepKinds

-----------------------------------------------------------------------------
(* What requests ask for *)

Asked == [q \in Requests |-> request[q].sched]

\* A request names a schedule from the read of its row to its end, and the status
\* it is going to write is that of a schedule that is there.
AskedInv == \A q \in Requests : /\ request[q].pc \notin {"read", "synced"} => request[q].sched = None
                                /\ request[q].status \in {None, "active", "paused"}

\* Nobody asks for anything at first.
LEMMA AskedInit == Init => AskedInv
BY DEF Init, AskedInv, NewRequest

\* One request changes what it asks for, the others do not.
LEMMA AskedChanges ==
    ASSUME TypeInv, NEW q \in Requests, NEW new, request' = [request EXCEPT ![q] = new]
    PROVE  /\ Asked' = [Asked EXCEPT ![q] = new.sched]
           /\ request'[q] = new /\ \A other \in Requests \ {q} : request'[other] = request[other]
BY DEF TypeInv, TypeOK, Asked

\* Only requests change what is asked for.
LEMMA AskedStays == UNCHANGED request => Asked' = Asked
BY DEF Asked

\* The state that a step of a request leaves it in.
LEMMA RequestMoves ==
    ASSUME TypeInv, NEW q \in Requests
    PROVE  /\ \A op, s : ReadRow(q, op, s) =>
                 \E new : /\ request' = [request EXCEPT ![q] = new]
                          /\ new.pc = "read" /\ new.sched = s /\ new.status = None
           /\ DeleteRules(q) =>
                 \E new : /\ request' = [request EXCEPT ![q] = new]
                          /\ new.pc = "synced" /\ new.sched = request[q].sched
                          /\ new.status \in {None, "active", "paused"}
           /\ CommitRequest(q) \/ FailRequest(q) \/ CommitNews(q) =>
                 \E new : /\ request' = [request EXCEPT ![q] = new]
                          /\ new.pc = "done" /\ new.sched = None /\ new.status = None
           /\ SubmitNews(q) \/ Retry(q) =>
                 \E new : /\ request' = [request EXCEPT ![q] = new]
                          /\ new.pc \in {"done", "staged"} /\ new.sched = request[q].sched
                          /\ new.status = request[q].status
<1>0. request \in [Requests -> RequestStates] /\ request[q] \in RequestStates
    BY DEF TypeInv, TypeOK
<1>1. ASSUME NEW op, NEW s, ReadRow(q, op, s)
      PROVE  \E new : /\ request' = [request EXCEPT ![q] = new]
                      /\ new.pc = "read" /\ new.sched = s /\ new.status = None
    <2> DEFINE new == [NewRequest EXCEPT !.pc = "read", !.op = op, !.sched = s, !.read = row[s]]
    <2>1. request' = [request EXCEPT ![q] = new]
        BY <1>1 DEF ReadRow
    <2>2. new.pc = "read" /\ new.sched = s /\ new.status = None
        BY DEF NewRequest
    <2> QED BY <2>1, <2>2
<1>2. ASSUME DeleteRules(q)
      PROVE  \E new : /\ request' = [request EXCEPT ![q] = new]
                      /\ new.pc = "synced" /\ new.sched = request[q].sched
                      /\ new.status \in {None, "active", "paused"}
    <2> DEFINE status == IF NewStatus(q) = request[q].read.status THEN None ELSE NewStatus(q)
    <2>1. status \in {None, "active", "paused"}
        BY DEF NewStatus
    <2> HIDE DEF status
    <2>2. PICK next : request' = [request EXCEPT
                        ![q].pc = "synced", ![q].status = status,
                        ![q].next = IF next = request[q].read.next THEN None ELSE next,
                        ![q].victims = {r \in rules : r.sched = request[q].sched}]
        BY <1>2 DEF DeleteRules, status
    <2> DEFINE new == [request[q] EXCEPT
                        !.pc = "synced", !.status = status,
                        !.next = IF next = request[q].read.next THEN None ELSE next,
                        !.victims = {r \in rules : r.sched = request[q].sched}]
    <2>3. request' = [request EXCEPT ![q] = new]
        BY <1>0, <2>2
    <2>4. new.pc = "synced" /\ new.sched = request[q].sched /\ new.status = status
        BY <1>0 DEF RequestStates
    <2> QED BY <2>1, <2>3, <2>4
<1>3. ASSUME CommitRequest(q) \/ FailRequest(q) \/ CommitNews(q)
      PROVE  \E new : /\ request' = [request EXCEPT ![q] = new]
                      /\ new.pc = "done" /\ new.sched = None /\ new.status = None
    <2> DEFINE new == [NewRequest EXCEPT !.pc = "done"]
    <2>1. request' = [request EXCEPT ![q] = new]
        BY <1>3 DEF CommitRequest, FailRequest, CommitNews
    <2>2. new.pc = "done" /\ new.sched = None /\ new.status = None
        BY DEF NewRequest
    <2> QED BY <2>1, <2>2
<1>4. ASSUME SubmitNews(q)
      PROVE  \E new : /\ request' = [request EXCEPT ![q] = new]
                      /\ new.pc \in {"done", "staged"} /\ new.sched = request[q].sched
                      /\ new.status = request[q].status
    <2> DEFINE pc == IF HasActiveNewsTask THEN "done" ELSE "staged"
               new == [request[q] EXCEPT !.op = "news", !.pc = pc]
    <2>1. pc \in {"done", "staged"}
        OBVIOUS
    <2>2. request' = [request EXCEPT ![q].op = "news", ![q].pc = pc]
        BY <1>4 DEF SubmitNews
    <2> HIDE DEF pc
    <2>3. request' = [request EXCEPT ![q] = new]
        BY <1>0, <2>2
    <2>4. new.pc = pc /\ new.sched = request[q].sched /\ new.status = request[q].status
        BY <1>0 DEF RequestStates
    <2> QED BY <2>1, <2>3, <2>4
<1>5. ASSUME Retry(q)
      PROVE  \E new : /\ request' = [request EXCEPT ![q] = new]
                      /\ new.pc \in {"done", "staged"} /\ new.sched = request[q].sched
                      /\ new.status = request[q].status
    <2> DEFINE new == [request[q] EXCEPT !.op = "retry", !.pc = "done"]
    <2>1. request' = [request EXCEPT ![q] = new]
        BY <1>0, <1>5 DEF Retry
    <2>2. new.pc = "done" /\ new.sched = request[q].sched /\ new.status = request[q].status
        BY <1>0 DEF RequestStates
    <2> QED BY <2>1, <2>2
<1> QED BY <1>1, <1>2, <1>3, <1>4, <1>5

\* Whatever is not a step of a request leaves them all as they are.
LEMMA OnlyRequestsMove == [Next]_scheduleVars => UNCHANGED request \/ \E q \in Requests : RequestStep(q)
<1> SUFFICES ASSUME [Next]_scheduleVars, \A q \in Requests : ~RequestStep(q) PROVE UNCHANGED request
    OBVIOUS
<1> USE DEF commandVars
<1>1. ASSUME NEW p \in Schedulers, PlanStep(p) PROVE UNCHANGED request
    BY <1>1 DEF PlanStep, PlanSkippedFallback, PlanDataset, PlanSinceLastSuccess, PlanHeat,
                PlanNoNews, PlanNews, Planned
<1>2. ASSUME NEW p \in Schedulers, DueStep(p) \/ Die(p) \/ EndTick(p) \/ AbortProbes(p)
      PROVE  UNCHANGED request
    BY <1>1, <1>2 DEF DueStep, StartTick, TakeDue, EndDue, RefusePolicy, RolledBack, CommitPlan, Die,
                      EndTick, AbortProbes
<1>3. ASSUME NEW p, NEW r, NEW target, CreateProbeRun(p, r, target) PROVE UNCHANGED request
    BY <1>3 DEF CreateProbeRun
<1>4. CASE EnvironmentStep
    BY <1>4 DEF EnvironmentStep, EndRun, RewriteRun, WriteStatus, PassTime
<1>5. CASE UNCHANGED scheduleVars
    BY <1>5 DEF scheduleVars
<1> QED BY <1>2, <1>3, <1>4, <1>5 DEF Next

\* Every step keeps it.
LEMMA AskedNext == TypeInv /\ AskedInv /\ [Next]_scheduleVars => AskedInv'
<1> SUFFICES ASSUME TypeInv, AskedInv, [Next]_scheduleVars PROVE AskedInv'
    OBVIOUS
<1>1. CASE UNCHANGED request
    BY <1>1 DEF AskedInv
<1>2. ASSUME NEW q \in Requests, RequestStep(q) PROVE AskedInv'
    <2>1. ASSUME NEW new, request' = [request EXCEPT ![q] = new], new.status \in {None, "active", "paused"},
                 new.pc \notin {"read", "synced"} => new.sched = None
          PROVE  AskedInv'
        BY <2>1, AskedChanges DEF AskedInv
    <2>3. ASSUME NEW op, NEW s, ReadRow(q, op, s) PROVE AskedInv'
        BY <2>1, <2>3, RequestMoves
    <2>4. CASE DeleteRules(q)
        BY <2>1, <2>4, RequestMoves
    <2>5. CASE CommitRequest(q) \/ FailRequest(q) \/ CommitNews(q)
        BY <2>1, <2>5, RequestMoves
    <2>6. CASE SubmitNews(q) \/ Retry(q)
        <3>1. request[q].sched = None /\ request[q].status \in {None, "active", "paused"}
            BY <2>6 DEF SubmitNews, Retry, AskedInv
        <3> QED BY <2>1, <2>6, <3>1, RequestMoves
    <2> QED BY <1>2, <2>3, <2>4, <2>5, <2>6 DEF RequestStep
<1> QED BY <1>1, <1>2, OnlyRequestsMove

-----------------------------------------------------------------------------
(* The refinement *)

\* What is true of the tables while the plans are on their way.
PromiseInv == TypeInv /\ LockInv /\ NewsInv /\ Remembered /\ WindowInv /\ TakenInv /\ FitInv /\ AskedInv

\* It is true at first.
LEMMA PromiseInvInit == Init => PromiseInv
BY TypesInit, LockInit, NewsInit, RememberedInit, WindowInit, FitInit, AskedInit DEF PromiseInv

\* Every step keeps it.
LEMMA PromiseInvNext == PromiseInv /\ [Next]_scheduleVars => PromiseInv'
BY TypesNext, LockNext, NewsNext, RememberedNext, WindowNext, TakenNext, FitNext, AskedNext
   DEF PromiseInv

\* The first state is one of the promise.
LEMMA PromiseInit == Init => Promise!Init
<1> SUFFICES ASSUME Init PROVE Promise!Init
    OBVIOUS
<1>1. row \in [Schedules -> Rows]
    BY TypesInit DEF TypeInv, TypeOK
<1>2. Asked = [q \in Requests |-> None]
    BY DEF Init, NewRequest, Asked
<1> QED BY <1>1, <1>2 DEF Init, Promise!Init, Rows, RowStatuses, MaybeTime, Asked

\* A plan that skips its due time is committed.
LEMMA CommittedRow ==
    ASSUME TypeInv, LockInv, NEW p \in Schedulers, CommitPlan(p)
    PROVE  LET s == tick[p].sched
               plan == tick[p].plan
           IN  /\ plan.what = "retry" => row' = [row EXCEPT ![s].next = plan.next]
               /\ plan.what = "fail" => Promise!Pause(s)
               /\ plan.what \notin {"retry", "fail"} => Promise!Leave(s, tick[p].now)
<1> DEFINE s == tick[p].sched
           plan == tick[p].plan
           now == tick[p].now
<1>1. /\ row \in [Schedules -> Rows] /\ s \in Schedules /\ now \in Nat
      /\ row' = [row EXCEPT ![s] =
                     CASE plan.what = "retry" -> [row[s] EXCEPT !.next = plan.next]
                       [] plan.what = "fail" -> [status |-> "paused", next |-> None]
                       [] OTHER -> Advanced(s, now)]
    BY DEF CommitPlan, TypeInv, TypeOK, HoldsSchedule, Ticks
<1> HIDE DEF s, plan, now
<1>2. CASE plan.what = "retry"
    <2>1. row' = [row EXCEPT ![s] = [row[s] EXCEPT !.next = plan.next]]
        BY <1>1, <1>2
    <2> QED BY <1>1, <1>2, <2>1 DEF s, plan
<1>3. CASE plan.what = "fail"
    <2>1. row' = [row EXCEPT ![s] = [status |-> "paused", next |-> None]]
        BY <1>1, <1>3
    <2> QED BY <1>3, <2>1 DEF Promise!Pause, s, plan
<1>4. CASE plan.what \notin {"retry", "fail"}
    <2>1. row' = [row EXCEPT ![s] = Advanced(s, now)]
        BY <1>1, <1>4
    <2>2. CASE Type(s) = "once"
        BY <1>4, <2>1, <2>2 DEF Advanced, Type, Promise!Leave, Promise!Pause, s, plan
    <2>3. CASE Type(s) # "once"
        <3> DEFINE u == NextOccurrence(now)
        <3>1. u \in now + 1 .. now + DayLength /\ Promise!IsNextDue(u, now)
            BY <1>1, NextIsNextDue
        <3>2. Advanced(s, now) = [row[s] EXCEPT !.next = u]
            BY <2>3 DEF Advanced
        <3> HIDE DEF u
        <3>3. row' = [row EXCEPT ![s].next = u]
            BY <1>1, <2>1, <3>2
        <3>4. Promise!Leave(s, now)
            BY <2>3, <3>1, <3>3 DEF Promise!Leave, Type
        <3> QED BY <1>4, <3>4 DEF s, plan, now
    <2> QED BY <2>2, <2>3
<1> QED BY <1>2, <1>3, <1>4 DEF s, plan

\* The run of a plan is the one the promise creates.
LEMMA CreatedRun ==
    ASSUME TypeInv, NEW p \in Schedulers, CommitPlan(p), tick[p].plan.what \in {"run", "fail", "timeout"}
    PROVE  Promise!Create(tick[p].sched, "scheduled", tick[p].due, tick[p].plan.first, tick[p].plan.last,
                          Kind(tick[p].sched) = "news",
                          IF tick[p].plan.what = "run" THEN "open" ELSE "failed")
<1>1. runs' = Append(runs, NewRun(p))
    BY CommittedPlan
<1>2. NewRun(p) = [sched |-> tick[p].sched, source |-> "scheduled", due |-> tick[p].due,
                   first |-> tick[p].plan.first, last |-> tick[p].plan.last, rule |-> 0,
                   news |-> Kind(tick[p].sched) = "news",
                   status |-> IF tick[p].plan.what = "run" THEN "open" ELSE "failed",
                   ever |-> {}, day |-> Day(clock)]
    BY DEF NewRun, TaskRun
<1> QED BY <1>1, <1>2 DEF Promise!Create, Promise!Day, Day

\* The promise looks at task runs as the code does.
LEMMA SameLooks ==
    /\ \A s, d : Promise!Covered(s, d) <=> Covered(s, d)
    /\ \A s, d : Promise!Attempted(s, d) <=> HasHeatAttempt(s, d)
    /\ \A s, d : Promise!ProbedOn(s, d) <=> ProbedOn(s, d)
    /\ \A s : Promise!WindowsOf(s) = WindowsOf(s)
    /\ Promise!NewsIsOpen <=> HasFirstNews
    /\ \A t : Promise!Day(t) = Day(t)
<1>1. /\ \A s : Promise!WindowsOf(s) = WindowsOf(s)
      /\ \A s, i : i \in WindowsOf(s)
                      <=> i \in DOMAIN runs /\ runs[i].sched = s /\ runs[i].source \in Windowed
    BY DEF Promise!WindowsOf, Promise!RunsOf, WindowsOf, RunsOf, Windowed
<1>2. \A s, d : Promise!Covered(s, d) <=> Covered(s, d)
    BY <1>1 DEF Promise!Covered, Covered
<1> QED BY <1>1, <1>2
        DEF Promise!Attempted, HasHeatAttempt, Promise!ProbedOn, ProbedOn, Promise!RunsOf, RunsOf,
            Promise!NewsIsOpen, HasFirstNews, IsFirstOpen, Promise!Day, Day

\* A commit serves the schedule it was made for, at the time its tick began.
LEMMA CommitServes ==
    ASSUME PromiseInv, NEW p \in Schedulers, CommitPlan(p)
    PROVE  Promise!Serve(tick[p].sched)
<1> DEFINE s == tick[p].sched
           due == tick[p].due
           now == tick[p].now
           plan == tick[p].plan
<1> USE DEF PromiseInv
<1>1. /\ s \in Schedules /\ due \in Nat /\ now \in Nat /\ clock \in Nat /\ tick[p].pc = "planned"
      /\ plan.first \in Nat /\ plan.last \in Nat
    BY TimeAssumption DEF CommitPlan, TypeInv, TypeOK, HoldsSchedule, Ticks, Plans
<1>2. row[s].status = "active" /\ row[s].next = due /\ due <= now /\ now <= clock
    BY <1>1 DEF LockInv, HeldRow, TakenInv
<1>3. config.of[s].valid /\ PlanFits(p) /\ Mode(s) # "probe"
    BY <1>1 DEF FitInv, TakenInv
<1>4. Promise!IsDue(s) /\ now \in row[s].next .. clock
    BY <1>1, <1>2, <1>3, NoneAssumption DEF Promise!IsDue, Mode
<1>5. config' = config /\ clock' = clock /\ request' = request
    BY DEF CommitPlan, commandVars
<1>6. /\ plan.what = "retry" => row' = [row EXCEPT ![s].next = plan.next]
      /\ plan.what = "fail" => Promise!Pause(s)
      /\ plan.what \notin {"retry", "fail"} => Promise!Leave(s, now)
    BY CommittedRow
<1>7. plan.what \notin {"run", "fail", "timeout"} => runs' = runs
    BY CommittedPlan
<1>8. plan.what \in {"run", "fail", "timeout"} =>
         Promise!Create(s, "scheduled", row[s].next, plan.first, plan.last, Kind(s) = "news",
                        IF plan.what = "run" THEN "open" ELSE "failed")
    BY <1>2, CreatedRun
<1>9. Day(due) \in Nat /\ MaxWindow \in Nat
    BY <1>1, TimeIsInDay, TimeAssumption
<1>10. config.of[s].kind = Kind(s) /\ config.of[s].mode = Mode(s)
    BY DEF Kind, Mode
<1> HIDE DEF s, due, now, plan
<1>11. CASE /\ plan.what = "skip"
            /\ \/ Mode(s) = "schedule_probe_fallback" /\ ProbedOn(s, Day(now))
               \/ Kind(s) = "since" /\ \A d \in Nat : d < Day(due) => Covered(s, d)
               \/ Kind(s) \in {"heat", "news"}
    <2>1. Kind(s) = "since" /\ (\A d \in Nat : d < Day(due) => Covered(s, d))
             => Promise!CoveredBefore(s, Promise!Day(row[s].next))
        BY <1>2, <1>9, SameLooks DEF Promise!CoveredBefore
    <2>2. Promise!Skip(s, now)
        BY <1>6, <1>7, <1>10, <1>11, <2>1, SameLooks DEF Promise!Skip
    <2> QED BY <1>4, <1>5, <2>2 DEF Promise!Serve, s
<1>12. CASE /\ Kind(s) = "dataset" /\ plan.what = "run"
            /\ plan.first = Day(due) /\ plan.last = Day(due)
    <2>1. Promise!RunDataset(s, now)
        BY <1>2, <1>6, <1>8, <1>10, <1>12, SameLooks DEF Promise!RunDataset
    <2> QED BY <1>4, <1>5, <2>1 DEF Promise!Serve, s
<1>13. CASE /\ Kind(s) = "since" /\ plan.first < Day(due) /\ plan.last = Day(due) - 1
            /\ plan.what = IF Day(due) - plan.first > MaxWindow THEN "fail" ELSE "run"
            /\ \A d \in Nat : d < plan.first => Covered(s, d)
    <2>1. Promise!CoveredBefore(s, plan.first)
        BY <1>1, <1>13, SameLooks DEF Promise!CoveredBefore
    <2>2. plan.first \in 0 .. Day(due) /\ Promise!Day(row[s].next) = Day(due)
        BY <1>1, <1>2, <1>9, <1>13, SameLooks
    <2>3. CASE Day(due) - plan.first > MaxWindow
        <3>1. ~(Day(due) - plan.first <= MaxWindow)
            BY <1>1, <1>9, <2>3
        <3>2. plan.what = "fail"
            BY <1>13, <2>3
        <3>3. /\ Promise!Create(s, "scheduled", row[s].next, plan.first, Day(due) - 1, FALSE, "failed")
              /\ Promise!Pause(s)
            BY <1>6, <1>8, <1>13, <3>2
        <3>4. Promise!RunWindow(s, now)
            BY <1>10, <1>13, <2>1, <2>2, <3>1, <3>3 DEF Promise!RunWindow
        <3> QED BY <1>4, <1>5, <3>4 DEF Promise!Serve, s
    <2>4. CASE ~(Day(due) - plan.first > MaxWindow)
        <3>1. Day(due) - plan.first <= MaxWindow
            BY <1>1, <1>9, <2>4
        <3>2. plan.what = "run"
            BY <1>13, <2>4
        <3>3. /\ Promise!Create(s, "scheduled", row[s].next, plan.first, Day(due) - 1, FALSE, "open")
              /\ Promise!Leave(s, now)
            BY <1>6, <1>8, <1>13, <3>2
        <3>4. Promise!RunWindow(s, now)
            BY <1>10, <1>13, <2>1, <2>2, <3>1, <3>3 DEF Promise!RunWindow
        <3> QED BY <1>4, <1>5, <3>4 DEF Promise!Serve, s
    <2> QED BY <2>3, <2>4
<1>14. CASE /\ Kind(s) = "heat" /\ plan.first = HeatDate(due) /\ plan.last = plan.first
            /\ ~HasHeatAttempt(s, plan.first)
            /\ \/ plan.what = "run"
               \/ plan.what = "timeout" /\ now >= HeatDeadline(due)
               \/ plan.what = "retry" /\ plan.next \in now + 1 .. HeatDeadline(due)
    <2> DEFINE date == plan.first
    <2>1. /\ date \in 0 .. Promise!Day(row[s].next)
          /\ Promise!IsHeatDate(date, row[s].next)
          /\ Promise!Deadline(date) = HeatDeadline(due)
        BY <1>1, <1>2, <1>14, HeatDateIsLast, SameLooks
    <2>2. ~Promise!Attempted(s, date)
        BY <1>14, SameLooks
    <2>3. CASE plan.what = "retry"
        <3>1. plan.next \in now + 1 .. Promise!Deadline(date)
            BY <1>14, <2>1, <2>3
        <3>2. row' = [row EXCEPT ![s].next = plan.next] /\ runs' = runs
            BY <1>6, <1>7, <2>3
        <3>3. Promise!AwaitHeat(s, now)
            BY <1>10, <1>14, <2>1, <2>2, <3>1, <3>2 DEF Promise!AwaitHeat
        <3> QED BY <1>4, <1>5, <3>3 DEF Promise!Serve, s
    <2>4. CASE plan.what # "retry"
        <3>1. Promise!Leave(s, now)
            BY <1>6, <1>14, <2>4
        <3>2. \/ Promise!Create(s, "scheduled", row[s].next, date, date, FALSE, "open")
              \/ /\ now >= Promise!Deadline(date)
                 /\ Promise!Create(s, "scheduled", row[s].next, date, date, FALSE, "failed")
            BY <1>8, <1>14, <2>1, <2>4
        <3>3. Promise!RunHeat(s, now)
            BY <1>10, <1>14, <2>1, <2>2, <3>1, <3>2 DEF Promise!RunHeat
        <3> QED BY <1>4, <1>5, <3>3 DEF Promise!Serve, s
    <2> QED BY <2>3, <2>4
<1>15. CASE /\ Kind(s) = "news" /\ plan.what = "run"
            /\ plan.first = Day(now) /\ plan.last = plan.first
    <2>1. ~Promise!NewsIsOpen
        <3>1. ~HasFirstNews
            BY <1>1, <1>15 DEF NewsInv, NewsIsLocked, s, plan
        <3> QED BY <3>1, SameLooks
    <2>2. Promise!RunNews(s, now)
        BY <1>6, <1>8, <1>10, <1>15, <2>1, SameLooks DEF Promise!RunNews
    <2> QED BY <1>4, <1>5, <2>2 DEF Promise!Serve, s
<1>16. PlanFits(p)
    BY <1>3
<1> QED BY <1>11, <1>12, <1>13, <1>14, <1>15, <1>16 DEF PlanFits, s, due, now, plan

\* A request that is served changes the schedule it asked for.
LEMMA CommitChanges ==
    ASSUME PromiseInv, NEW q \in Requests, CommitRequest(q), config' = config
    PROVE  Promise!Change(q)
<1> DEFINE s == request[q].sched
<1>1. /\ s \in Schedules /\ row[s].status \in {"active", "paused"} /\ row \in [Schedules -> Rows]
      /\ request[q].next \in MaybeTime /\ request[q].status \in {None, "active", "paused"}
    <2>1. /\ s \in Schedules /\ row \in [Schedules -> Rows] /\ row[s].status # "deleted"
          /\ request[q] \in RequestStates
        BY DEF CommitRequest, PromiseInv, TypeInv, TypeOK, ReadSchedule
    <2>2. row[s].status \in RowStatuses
        BY <2>1 DEF Rows
    <2>3. request[q].next \in MaybeTime
        BY <2>1 DEF RequestStates
    <2> QED BY <2>1, <2>2, <2>3 DEF RowStatuses, PromiseInv, AskedInv
<1>2. row' = [row EXCEPT ![s] = Written(q)] /\ UNCHANGED <<runs, clock>>
    BY DEF CommitRequest
<1>3. Asked' = [Asked EXCEPT ![q] = None]
    BY RequestMoves, AskedChanges DEF PromiseInv
<1>4. Asked[q] = s /\ s # None
    BY <1>1, NoneAssumption DEF Asked
<1>5. row'[s] = Written(q) /\ row' = [row EXCEPT ![s] = row'[s]]
    BY <1>1, <1>2
<1>6. \/ row'[s] = [status |-> "deleted", next |-> None]
      \/ row'[s] \in [status : {"active", "paused"}, next : Nat \cup {row[s].next}]
    <2>1. CASE request[q].op = "delete"
        BY <1>5, <2>1 DEF Written
    <2>2. CASE request[q].op # "delete"
        <3> DEFINE status == IF request[q].status = None THEN row[s].status ELSE request[q].status
                   next == IF request[q].next = None THEN row[s].next ELSE request[q].next
        <3>1. status \in {"active", "paused"} /\ next \in Nat \cup {row[s].next}
            BY <1>1 DEF MaybeTime
        <3>2. row'[s] = [status |-> status, next |-> next]
            BY <1>5, <2>2 DEF Written
        <3> QED BY <3>1, <3>2
    <2> QED BY <2>1, <2>2
<1> HIDE DEF s
<1> QED BY <1>1, <1>2, <1>3, <1>4, <1>5, <1>6 DEF Promise!Change, Promise!Answer, Asked

\* The other steps of a request are those of one that asks, that is refused or
\* that submits the news linking, or nothing to the promise.
LEMMA RequestPromise ==
    ASSUME PromiseInv, NEW q \in Requests, RequestStep(q), config' = config,
           ~CommitRequest(q), ~CommitNews(q), ~Retry(q)
    PROVE  [Promise!Next]_(Promise!vars)
<1>1. UNCHANGED <<row, runs, clock>>
    BY DEF RequestStep, ReadRow, DeleteRules, FailRequest, SubmitNews
<1>2. Asked[q] = request[q].sched
    BY DEF Asked
<1>3. ASSUME Asked' = [Asked EXCEPT ![q] = request[q].sched] PROVE UNCHANGED (Promise!vars)
    <2>1. Asked' = Asked
        BY <1>2, <1>3 DEF Asked
    <2> QED BY <1>1, <2>1 DEF Promise!vars, Asked
<1>4. ASSUME NEW s \in Schedules, NEW op, ReadRow(q, op, s) PROVE Promise!Ask(q, s)
    <2>1. Asked[q] = None
        BY <1>2, <1>4 DEF ReadRow, PromiseInv, AskedInv
    <2>2. Asked' = [Asked EXCEPT ![q] = s]
        BY <1>4, RequestMoves, AskedChanges DEF PromiseInv
    <2> QED BY <1>1, <2>1, <2>2 DEF Promise!Ask, Asked
<1>5. CASE DeleteRules(q) \/ SubmitNews(q)
    <2>1. Asked' = [Asked EXCEPT ![q] = request[q].sched]
        BY <1>5, RequestMoves, AskedChanges DEF PromiseInv
    <2> QED BY <1>3, <2>1
<1>6. CASE FailRequest(q)
    <2>1. Asked[q] # None /\ row[Asked[q]].status = "deleted"
        BY <1>2, <1>6, NoneAssumption DEF FailRequest, PromiseInv, TypeInv, ReadSchedule
    <2>2. Asked' = [Asked EXCEPT ![q] = None]
        BY <1>6, RequestMoves, AskedChanges DEF PromiseInv
    <2>3. Promise!Reject(q)
        BY <1>1, <2>1, <2>2 DEF Promise!Reject, Promise!Answer, Asked
    <2> QED BY <2>3 DEF Promise!Next
<1>7. ASSUME NEW s \in Schedules, Promise!Ask(q, s) PROVE Promise!Next
    BY <1>7 DEF Promise!Next
<1> QED BY <1>4, <1>5, <1>6, <1>7 DEF RequestStep

\* Every step is one of the promise, or nothing to it.
LEMMA PromiseNext == PromiseInv /\ [Next]_scheduleVars => [Promise!Next]_(Promise!vars)
<1> SUFFICES ASSUME PromiseInv, [Next]_scheduleVars PROVE [Promise!Next]_(Promise!vars)
    OBVIOUS
<1> USE DEF PromiseInv
<1>0. (config.of)' = config.of /\ config' = config
    BY StepKinds
<1>1. CASE UNCHANGED <<config, row, runs, request, clock>>
    BY <1>1 DEF Promise!vars
<1>2. ASSUME NEW p \in Schedulers, CommitPlan(p) PROVE Promise!Next
    <2>1. tick[p].sched \in Schedules
        BY <1>2, CommittedPlan
    <2> QED BY <1>2, <2>1, CommitServes DEF Promise!Next
<1>3. ASSUME NEW q \in Requests, CommitRequest(q) PROVE Promise!Next
    BY <1>0, <1>3, CommitChanges DEF Promise!Next
<1>4. ASSUME NEW q \in Requests, CommitNews(q) PROVE Promise!Next
    <2>1. ~HasFirstNews
        BY <1>4 DEF CommitNews, NewsInv, NewsIsLocked
    <2>2. UNCHANGED <<row, clock>> /\ Asked' = Asked
        <3>1. Asked[q] = None
            BY <1>4 DEF CommitNews, AskedInv, Asked
        <3>2. Asked' = [Asked EXCEPT ![q] = None]
            BY <1>4, RequestMoves, AskedChanges
        <3>3. Asked' = Asked
            BY <3>1, <3>2 DEF Asked
        <3> QED BY <1>4, <3>3 DEF CommitNews
    <2>3. PICK yes : /\ yes = TRUE
                     /\ runs' = Append(runs, [TaskRun(None, "manual", None, Day(clock), Day(clock), 0, "open")
                                                 EXCEPT !.news = yes])
        BY <1>4, Zenon DEF CommitNews
    <2>4. [TaskRun(None, "manual", None, Day(clock), Day(clock), 0, "open") EXCEPT !.news = yes]
             = [sched |-> None, source |-> "manual", due |-> None, first |-> Day(clock),
                last |-> Day(clock), rule |-> 0, news |-> yes, status |-> "open", ever |-> {},
                day |-> Day(clock)]
        BY DEF TaskRun
    <2>5. Promise!Create(None, "manual", None, Day(clock), Day(clock), yes, "open")
        BY <2>3, <2>4, SameLooks DEF Promise!Create
    <2>6. Promise!Create(None, "manual", None, Day(clock), Day(clock), TRUE, "open")
        BY <2>3, <2>5
    <2>7. Promise!SubmitNews
        BY <1>0, <2>1, <2>2, <2>6, SameLooks DEF Promise!SubmitNews, Asked
    <2> QED BY <2>7 DEF Promise!Next
<1>5. ASSUME NEW p \in Schedulers, NEW r \in rules, NEW target \in Nat, CreateProbeRun(p, r, target)
      PROVE  Promise!Next
    <2> DEFINE new == TaskRun(r.sched, "probe", None, target, target, r.id, "open")
    <2>1. r.sched \in Schedules /\ r.id \in Nat
        BY DEF TypeInv, TypeOK, Rules
    <2>2. /\ new \in Runs /\ new.source = "probe" /\ ~new.news /\ new.sched \in Schedules
          /\ new.status = "open" /\ new.ever = {} /\ new.day = Day(clock)
        BY <2>1, TaskRunTypes DEF Sources, MaybeTime, RunStatuses, TaskRun
    <2>3. runs' = Append(runs, new) /\ UNCHANGED <<row, request, clock>>
        BY <1>5 DEF CreateProbeRun, commandVars
    <2> HIDE DEF new
    <2>4. Len(runs') = Len(runs) + 1 /\ runs'[Len(runs')] = new
        BY <2>2, <2>3, AppendedRun
    <2>5. Promise!Probe
        BY <1>0, <2>2, <2>3, <2>4, SameLooks DEF Promise!Probe
    <2> QED BY <2>5 DEF Promise!Next
<1>6. ASSUME NEW i \in DOMAIN runs, NEW status \in config.endings \cup {"open"},
             EndRun(i, status) \/ RewriteRun(i, status)
      PROVE  Promise!Next
    <2>1. status \in {"open", "success", "partial", "failed"}
        BY ConfigTypes DEF TypeInv, TypeOK
    <2>2. /\ runs' = [runs EXCEPT ![i].status = status, ![i].ever = @ \cup ({status} \ {"open"})]
          /\ UNCHANGED <<row, request, clock>>
          /\ runs[i].status = "open" \/ runs[i].ever # {}
        BY <1>6 DEF EndRun, RewriteRun, WriteStatus, commandVars
    <2>3. Promise!Tell(i)
        BY <1>0, <2>1, <2>2 DEF Promise!Tell
    <2> QED BY <2>3 DEF Promise!Next
<1>7. CASE PassTime
    BY <1>0, <1>7 DEF PassTime, commandVars, Promise!Wait, Promise!Next
<1>8. ASSUME NEW q \in Requests, Retry(q) PROVE Promise!Next
    <2>1. PICK s \in Schedules : \E i \in WindowsOf(s) :
             /\ ~runs[i].news
             /\ runs' = Append(runs, TaskRun(s, "retry", None, runs[i].first, runs[i].last, 0, "open"))
        BY <1>8 DEF Retry
    <2>2. PICK i \in WindowsOf(s) :
             /\ ~runs[i].news
             /\ runs' = Append(runs, TaskRun(s, "retry", None, runs[i].first, runs[i].last, 0, "open"))
        BY <2>1
    <2>3. TaskRun(s, "retry", None, runs[i].first, runs[i].last, 0, "open")
             = [sched |-> s, source |-> "retry", due |-> None, first |-> runs[i].first,
                last |-> runs[i].last, rule |-> 0, news |-> FALSE, status |-> "open", ever |-> {},
                day |-> Day(clock)]
        BY DEF TaskRun
    <2>4. Promise!Create(s, "retry", None, runs[i].first, runs[i].last, FALSE, "open")
        BY <2>2, <2>3, SameLooks DEF Promise!Create
    <2>5. Asked' = [Asked EXCEPT ![q] = request[q].sched]
        BY <1>8, RequestMoves, AskedChanges
    <2>6. Asked' = Asked /\ UNCHANGED <<row, clock>>
        BY <1>8, <2>5 DEF Retry, Asked
    <2>7. Promise!Retry(s)
        BY <1>0, <2>2, <2>4, <2>6, SameLooks DEF Promise!Retry, Asked
    <2> QED BY <2>7 DEF Promise!Next
<1> QED
    <2>1. ASSUME NEW p \in Schedulers, DueStep(p) \/ Die(p) \/ EndTick(p) \/ AbortProbes(p)
          PROVE  [Promise!Next]_(Promise!vars)
        <3>1. ASSUME PlanStep(p) PROVE UNCHANGED <<config, row, runs, request, clock>>
            BY <3>1 DEF PlanStep, PlanSkippedFallback, PlanDataset, PlanSinceLastSuccess, PlanHeat,
                        PlanNoNews, PlanNews, Planned, commandVars
        <3>2. ASSUME ~CommitPlan(p) PROVE UNCHANGED <<config, row, runs, request, clock>>
            BY <2>1, <3>1, <3>2 DEF DueStep, StartTick, TakeDue, EndDue, RefusePolicy, RolledBack, Die,
                                    EndTick, AbortProbes, commandVars
        <3> QED BY <1>1, <1>2, <3>2
    <2>2. ASSUME NEW q \in Requests, RequestStep(q) PROVE [Promise!Next]_(Promise!vars)
        BY <1>0, <1>3, <1>4, <1>8, <2>2, RequestPromise
    <2>3. CASE EnvironmentStep
        BY <1>6, <1>7, <2>3 DEF EnvironmentStep
    <2>4. CASE UNCHANGED scheduleVars
        BY <1>1, <2>4 DEF scheduleVars, commandVars
    <2> QED BY <1>5, <2>1, <2>2, <2>3, <2>4 DEF Next

\* The ticks and the requests together implement the promise of one process
\* that serves due schedules in one step each.
THEOREM ImplementsDueSchedules == Spec => DueSchedulesSpec
BY PromiseInvInit, PromiseInvNext, PromiseInit, PromiseNext, PTL DEF Spec, DueSchedulesSpec, Promise!Spec
=============================================================================
