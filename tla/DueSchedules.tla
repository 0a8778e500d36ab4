----------------------------- MODULE DueSchedules -----------------------------
(***************************************************************************)
(* What the scheduler promises to those who schedule a task: due schedules *)
(* are served as if one process had the tables to itself and took each of  *)
(* them in one step, on what the task runs are at that very moment.  There *)
(* are no processes, transactions, locks, plans and deaths.  A schedule is *)
(* changed by nothing else but the requests that asked for it.  What the   *)
(* row of a run said once is not forgotten: ever keeps it.                 *)
(* ScheduleTick implements it.                                             *)
(***************************************************************************)
EXTENDS Naturals, Sequences

CONSTANTS Schedules, Requests, None, DayLength, DueTime, DeadlineTime, MaxWindow

VARIABLES fixed,  \* what nobody changes of a schedule: kind, type, mode, valid
          row,    \* its status and its due time
          runs,   \* the task runs, in the order in which they were created
          asked,  \* the schedule that a request of an operator is going to change
          clock

vars == <<fixed, row, runs, asked, clock>>

Day(t) == t \div DayLength
Deadline(date) == DayLength * (date + 1) + DeadlineTime

\* u is the first time after t at which a cron expression falls due.
IsNextDue(u, t) == /\ u > t
                   /\ u % DayLength = DueTime
                   /\ \A v \in t + 1 .. u - 1 : v % DayLength # DueTime

\* The last day whose time for heat has come at the time due, or the first one.
IsHeatDate(date, due) == /\ due < DueTime + DayLength * (date + 1)
                         /\ date = 0 \/ DueTime + DayLength * date <= due

IsDue(s) == /\ row[s].status = "active"
            /\ fixed[s].valid
            /\ fixed[s].mode # "probe"
            /\ row[s].next # None
            /\ row[s].next <= clock

RunsOf(s, source) == {i \in DOMAIN runs : runs[i].sched = s /\ runs[i].source = source}
WindowsOf(s) == RunsOf(s, "scheduled") \cup RunsOf(s, "retry")
NewsIsOpen == \E i \in DOMAIN runs : runs[i].news /\ runs[i].status = "open" /\ runs[i].ever = {}
Attempted(s, date) == \E i \in RunsOf(s, "scheduled") : runs[i].first = date
ProbedOn(s, day) == \E i \in RunsOf(s, "probe") : runs[i].day = day
\* Some run of the schedule said that it had succeeded with that day.
Covered(s, day) == \E i \in WindowsOf(s) :
                      "success" \in runs[i].ever /\ runs[i].first <= day /\ day <= runs[i].last
CoveredBefore(s, day) == \A d \in 0 .. day : d < day => Covered(s, d)

Create(sched, source, due, first, last, news, status) ==
    runs' = Append(runs, [sched |-> sched, source |-> source, due |-> due, first |-> first,
                          last |-> last, rule |-> 0, news |-> news, status |-> status,
                          ever |-> {}, day |-> Day(clock)])

Pause(s) == row' = [row EXCEPT ![s] = [status |-> "paused", next |-> None]]

\* Served at t: a schedule that runs once is over, any other is due again at
\* the next time after t; the times up to t are passed over.
Leave(s, t) == IF fixed[s].type = "once" THEN Pause(s)
               ELSE \E u \in t + 1 .. t + DayLength : /\ IsNextDue(u, t)
                                                      /\ row' = [row EXCEPT ![s].next = u]

RunDataset(s, t) ==
    LET day == Day(row[s].next) IN
    /\ fixed[s].kind = "dataset"
    /\ Create(s, "scheduled", row[s].next, day, day, FALSE, "open")
    /\ Leave(s, t)

\* The window begins where all days before are covered, and ends the day before.
RunWindow(s, t) ==
    LET day == Day(row[s].next) IN
    /\ fixed[s].kind = "since"
    /\ \E first \in 0 .. day :
          /\ first < day
          /\ CoveredBefore(s, first)
          /\ IF day - first <= MaxWindow
             THEN Create(s, "scheduled", row[s].next, first, day - 1, FALSE, "open") /\ Leave(s, t)
             ELSE Create(s, "scheduled", row[s].next, first, day - 1, FALSE, "failed") /\ Pause(s)

RunHeat(s, t) ==
    /\ fixed[s].kind = "heat"
    /\ \E date \in 0 .. Day(row[s].next) :
          /\ IsHeatDate(date, row[s].next)
          /\ ~Attempted(s, date)
          /\ \/ Create(s, "scheduled", row[s].next, date, date, FALSE, "open")
             \/ /\ t >= Deadline(date)
                /\ Create(s, "scheduled", row[s].next, date, date, FALSE, "failed")
    /\ Leave(s, t)

\* The inputs of heat are not there yet: the schedule is due later, at the
\* deadline at the latest.
AwaitHeat(s, t) ==
    /\ fixed[s].kind = "heat"
    /\ \E date \in 0 .. Day(row[s].next) :
          /\ IsHeatDate(date, row[s].next)
          /\ ~Attempted(s, date)
          /\ \E u \in t + 1 .. Deadline(date) : row' = [row EXCEPT ![s].next = u]
    /\ UNCHANGED runs

RunNews(s, t) ==
    /\ fixed[s].kind = "news"
    /\ ~NewsIsOpen
    /\ Create(s, "scheduled", row[s].next, Day(t), Day(t), TRUE, "open")
    /\ Leave(s, t)

\* A due time without a run: its probe had one that day, there is nothing left
\* to cover, or the kind of schedule looks at its inputs.
Skip(s, t) ==
    /\ \/ fixed[s].mode = "schedule_probe_fallback" /\ ProbedOn(s, Day(t))
       \/ fixed[s].kind = "since" /\ CoveredBefore(s, Day(row[s].next))
       \/ fixed[s].kind \in {"heat", "news"}
    /\ Leave(s, t)
    /\ UNCHANGED runs

Serve(s) == /\ IsDue(s)
            /\ \E t \in row[s].next .. clock :
                  \/ RunDataset(s, t) \/ RunWindow(s, t) \/ RunHeat(s, t) \/ AwaitHeat(s, t)
                  \/ RunNews(s, t) \/ Skip(s, t)
            /\ UNCHANGED <<fixed, asked, clock>>

Ask(q, s) == /\ asked[q] = None
             /\ asked' = [asked EXCEPT ![q] = s]
             /\ UNCHANGED <<fixed, row, runs, clock>>
Answer(q) == asked' = [asked EXCEPT ![q] = None]

\* An operator deletes a schedule, or pauses, resumes or changes it: a due time
\* may be set, and is not lost.
Change(q) ==
    LET s == asked[q] IN
    /\ s # None
    /\ row[s].status # "deleted"
    /\ \/ row'[s] = [status |-> "deleted", next |-> None]
       \/ row'[s] \in [status : {"active", "paused"}, next : Nat \cup {row[s].next}]
    /\ row' = [row EXCEPT ![s] = row'[s]]
    /\ Answer(q)
    /\ UNCHANGED <<fixed, runs, clock>>

\* The schedule is gone.
Reject(q) == /\ asked[q] # None
             /\ row[asked[q]].status = "deleted"
             /\ Answer(q)
             /\ UNCHANGED <<fixed, row, runs, clock>>

SubmitNews == /\ ~NewsIsOpen
              /\ Create(None, "manual", None, Day(clock), Day(clock), TRUE, "open")
              /\ UNCHANGED <<fixed, row, asked, clock>>

\* The probe of a schedule creates a task run.
Probe == /\ Len(runs') = Len(runs) + 1
         /\ LET new == runs'[Len(runs')] IN
            /\ runs' = Append(runs, new)
            /\ new.source = "probe" /\ new.sched \in Schedules
            /\ new.status = "open" /\ new.ever = {} /\ ~new.news /\ new.day = Day(clock)
         /\ UNCHANGED <<fixed, row, asked, clock>>

\* An operator repeats a run of a schedule.
Retry(s) == /\ \E i \in WindowsOf(s) :
                  /\ ~runs[i].news
                  /\ Create(s, "retry", None, runs[i].first, runs[i].last, FALSE, "open")
            /\ UNCHANGED <<fixed, row, asked, clock>>

\* A run ends, and nothing it says is final: it may end once more in another
\* way, or be open again.  What was created as failed stays so.
Tell(i) == /\ runs[i].status = "open" \/ runs[i].ever # {}
           /\ \E status \in {"open", "success", "partial", "failed"} :
                 runs' = [runs EXCEPT ![i].status = status, ![i].ever = @ \cup ({status} \ {"open"})]
           /\ UNCHANGED <<fixed, row, asked, clock>>

Wait == clock' = clock + 1 /\ UNCHANGED <<fixed, row, runs, asked>>

Init == /\ row \in [Schedules -> [status : {"active", "paused", "deleted"}, next : Nat \cup {None}]]
        /\ runs = <<>>
        /\ asked = [q \in Requests |-> None]
        /\ clock = 0

Next == \/ \E s \in Schedules : Serve(s)
        \/ \E q \in Requests : Change(q) \/ Reject(q) \/ \E s \in Schedules : Ask(q, s)
        \/ \E s \in Schedules : Retry(s)
        \/ \E i \in DOMAIN runs : Tell(i)
        \/ SubmitNews \/ Probe \/ Wait

Spec == Init /\ [][Next]_vars
=============================================================================
