-------------------------- MODULE SchedulerProcesses --------------------------
(* What the steps of a scheduler's tick share (OperationsScheduler).         *)
CONSTANTS
    Schedulers,   \* processes that tick (ops-scheduler-serve, ops-scheduler-tick)
    None          \* no value
=============================================================================
