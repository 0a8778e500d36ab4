--------------------------- MODULE MCOperationsTick ---------------------------
(* Small instances of a tick: configurations of two schedules and instances *)
(* of a trade date with two codes.                                          *)
EXTENDS OperationsTick

CONSTANTS p1, p2, q1, q2, w1, k1, k2, c1, c2

Plain == [kind |-> "dataset", type |-> "cron", mode |-> "schedule", valid |-> TRUE,
          status |-> "active", next |-> 1]
Absent == [Plain EXCEPT !.status = "deleted", !.next = None]
Once(s) == [s EXCEPT !.type = "once"]
Fallback == [Plain EXCEPT !.mode = "schedule_probe_fallback"]
Invalid == [Plain EXCEPT !.valid = FALSE]
Since == [Plain EXCEPT !.kind = "since"]
Heat == [Plain EXCEPT !.kind = "heat"]
News == [Plain EXCEPT !.kind = "news"]

Config(processes, requests, operations, first, second, horizon, endings, mortal) ==
    [processes |-> processes, requests |-> requests, operations |-> operations,
     of |-> <<first, second>>, horizon |-> horizon, endings |-> endings, rewritten |-> FALSE,
     deaths |-> mortal]
Rewritten(c) == [c EXCEPT !.rewritten = TRUE]

TwoSchedulers == Config({p1, p2}, {q1}, {"reschedule", "pause"}, Plain, Once(Plain), 2, {}, 0)
TwoRequests == Config({p1}, {q1, q2}, {"edit", "delete"}, Plain, Absent, 1, {}, 0)
ProbedCron == Config({p1}, {q1}, {"edit"}, Fallback, Absent, 2, {"failed"}, 1)
ProbedOnce == Rewritten(Config({p1}, {q1}, {"edit"}, Once(Fallback), Absent, 1, {"failed"}, 1))
WindowBehindInvalid == Rewritten(Config({p1}, {q1}, {"pause", "delete", "retry"}, Since, Invalid, 5,
                                        Endings, 0))
HeatTwice == Config({p1, p2}, {q1}, {"reschedule"}, Heat, Absent, 2, {}, 0)
NewsTwice == Rewritten(Config({p1, p2}, {q1}, {"news", "resume"}, News, Absent, 2, {"success"}, 1))

OneTick == Config({p1}, {}, {}, Absent, Absent, 0, {}, 0)
BlockedTick == Config({p1}, {q1}, {"pause"}, [Invalid EXCEPT !.next = 0], Absent, 0, {}, 0)

Nothing == [what \in Spendings |-> 0]
Instance(codes, limits) == [active |-> codes, limits |-> limits]
Quiet == Instance({}, Nothing)
TwoCompletions == Instance({c1, c2}, [Nothing EXCEPT !.maintains = 2, !.hours = 1])
LateSource == Instance({c1}, [Nothing EXCEPT !.maintains = 1, !.hours = 4])
NextMorning == Instance({c1}, [Nothing EXCEPT !.maintains = 1, !.hours = 2])
Deaths == Instance({c1}, [Nothing EXCEPT !.maintains = 1, !.hours = 2, !.deaths = 1])
Errors == Instance({c1}, [Nothing EXCEPT !.maintains = 1, !.hours = 2, !.errors = 1])
Reopened == Instance({c1}, [Nothing EXCEPT !.maintains = 1, !.hours = 2, !.rewrites = 1])
ByHand == Instance({c1}, [Nothing EXCEPT !.maintains = 1, !.manual = 1, !.cancels = 1, !.retries = 1,
                                        !.rewrites = 1])
Activated == Instance({c2}, [Nothing EXCEPT !.maintains = 1, !.pool = 2])

AllStarts ==
    ({TwoSchedulers, TwoRequests, ProbedCron, ProbedOnce, WindowBehindInvalid, HeatTwice, NewsTwice}
        \X {Quiet})
    \cup {<<OneTick, TwoCompletions>>, <<OneTick, LateSource>>, <<OneTick, Deaths>>, <<OneTick, Errors>>,
          <<OneTick, Reopened>>, <<OneTick, ByHand>>, <<OneTick, Activated>>, <<BlockedTick, NextMorning>>}
AllConfigs == {start[1] : start \in AllStarts}
AllInstances == {start[2] : start \in AllStarts}
=============================================================================
