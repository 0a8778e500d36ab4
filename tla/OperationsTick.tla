---------------------------- MODULE OperationsTick ----------------------------
(***************************************************************************)
(* A whole tick (OperationsScheduler.run_once): the due schedules          *)
(* (ScheduleTick), the probes (ProbeTick) and, last, the look at the       *)
(* audits of index_daily (IndexDailyRepair), in one session of a scheduler *)
(* process.  An exception in one of them ends the tick: what comes later   *)
(* in it waits for a tick that gets that far.                              *)
(*                                                                         *)
(* The hours of the trade date pass on their own: nothing of the other     *)
(* parts depends on them.  The audit schedules of the completeness center, *)
(* which the tick serves as well, are not modelled.                        *)
(***************************************************************************)
EXTENDS ProbeTick, IndexDailyRepair

CONSTANT Starts \* pairs of a configuration and an instance a behaviour may start with

ASSUME StartsAssumption == Starts \subseteq Configs \X Instances

operationsVars == <<vars, repairVars>>

OperationsInit == /\ SchedulerInit
                  /\ RepairInit
                  /\ \E start \in Starts : /\ config = start[1]
                                           /\ active = start[2].active /\ left = start[2].limits

\* enqueue_due_audits, once the rules of the tick are through.
LookLast(p) == /\ probe[p].pc = "loop"
               /\ probe[p].todo = {}
               /\ LookStep(p)
               /\ UNCHANGED vars

EndOperationsTick(p) == /\ look[p].pc = "done"
                        /\ FinishProbes(p)
                        /\ EndLook(p)

OperationsStep(p) == \/ SchedulerStep(p) /\ UNCHANGED repairVars
                     \/ LookLast(p)
                     \/ EndOperationsTick(p)

OperationsNext ==
    \/ \E p \in Schedulers : OperationsStep(p) \/ (DieInTick(p) /\ EndLook(p))
    \/ WebAndWorkers /\ UNCHANGED repairVars
    \/ (WorkStep \/ OtherStep) /\ UNCHANGED vars

OperationsSpec == OperationsInit /\ [][OperationsNext]_operationsVars

(* Each scheduler process is served by the processor and the database, and *)
(* so goes on with its tick; a request that holds the lock of news linking *)
(* ends; the audits, their repairs and the completions get done in some    *)
(* order.  Nobody has to make a request, no task run has to end, the       *)
(* source need not deliver, no hour has to pass and no process dies for    *)
(* ever.                                                                   *)
Fairness ==
    /\ \A p \in Schedulers : WF_operationsVars(OperationsStep(p))
    /\ WF_operationsVars(\E q \in Requests : CommitNews(q) /\ UNCHANGED <<probeVars, repairVars>>)
    /\ WF_operationsVars(WorkStep /\ UNCHANGED vars)
FairSpec == OperationsSpec /\ Fairness

-----------------------------------------------------------------------------
(* Type correctness of the whole tick. *)
OperationsTypeOK == SchedulerTypeOK /\ RepairTypeOK

(* A schedule that does not validate raises out of every tick. *)
Blocks(b) == ~config.of[b].valid /\ IsDue(b, clock)

(* The clock of a configuration stops, so that what is not served at that  *)
(* point stays: no due schedule is left unserved for ever - not run, not   *)
(* skipped, paused or set to a later time - unless one that does not       *)
(* validate stands before it.                                              *)
DueIsServed ==
    []<>(\A s \in Schedules :
            IsDue(s, clock) => \E b \in Schedules : Blocks(b) /\ Before(b, s))

(* The hours may stop as well: a code that is late at the source and has   *)
(* not used up the slot of the hour is looked at again.  The slot gets     *)
(* used up, or the code arrives or leaves the pool.  What can keep it from *)
(* that is an audit that an error or a death ended, and a schedule that    *)
(* does not validate any more, although it may be of another dataset.      *)
DelayedIsRetried ==
    []<>(\/ config.processes = {} \/ phase \notin ReauditSlots \/ ~LatestAudit("failed")
         \/ \A c \in Codes : ~SlotAvailable(c, phase)
         \/ GivenUp
         \/ \E b \in Schedules : Blocks(b))
=============================================================================
