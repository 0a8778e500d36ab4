------------------------- MODULE MCTaskRunLifecycle -------------------------
(***************************************************************************)
(* Small instances of TaskRunLifecycle.                                    *)
(***************************************************************************)
EXTENDS TaskRunLifecycle, TLC

CONSTANTS g1, s1, s2, x1, u1

\* Two runs of a minute dataset, the second a retry of the first, two workers
\* of its lane and a general worker, which must leave the runs alone and
\* reconciles them.
MinuteKind == [type |-> "dataset_action", key |-> "stk_mins"]
MinuteKindOf == 1 :> MinuteKind @@ 2 :> MinuteKind
MinuteLaneOf == g1 :> "general" @@ s1 :> "stk_mins" @@ s2 :> "stk_mins"
MinuteSymmetry == Permutations({s1, s2})

\* A workflow (resource_key NULL) and an experiment of the external executor.
MixedKindOf ==
    1 :> [type |-> "workflow", key |-> NULL]
      @@ 2 :> [type |-> "qtf_experiment", key |-> "sector"]
MixedLaneOf == g1 :> "general" @@ x1 :> "qtf"
=============================================================================
