\* Two processes, seven configurations of schedules and eight trade dates of
\* index_daily.  A day has two units, a cron expression falls due in the second.
SPECIFICATION FairSpec
CONSTANTS
    p1 = p1
    p2 = p2
    q1 = q1
    q2 = q2
    w1 = w1
    k1 = k1
    k2 = k2
    c1 = c1
    c2 = c2
    None = None
    Schedules = {1, 2}
    Schedulers = {p1, p2}
    Requests = {q1, q2}
    Starts <- AllStarts
    Configs <- AllConfigs
    Instances <- AllInstances
    DayLength = 2
    DueTime = 1
    DeadlineTime = 0
    MaxWindow = 1
    MaxTime = 5
    MaxDeaths = 1
    Deduplicated = {1}
    ProbeTimes = {0, 1}
    ProbeInterval = 1
    MaxTriggers = 1
    Codes = {c1, c2}
    Recent = {c1, c2}
    Workers = {w1}
    Completers = {k1, k2}
    BatchSize = 1
    MaxBatches = 2
INVARIANTS
    OperationsTypeOK
    OneRunPerDueTime
    NoDayLost
    OneNewsRun
    HeatOncePerDate
    ProbeOncePerTarget
    DailyLimit
    NoConcurrentRepair
PROPERTIES
    RunsOfActiveRowsOnly
    DueSchedulesSpec
    DueIsServed
    DelayedIsRetried
