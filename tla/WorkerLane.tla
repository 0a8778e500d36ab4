----------------------------- MODULE WorkerLane -----------------------------
(***************************************************************************)
(* Which worker process may execute which TaskRun                          *)
(* (src/ops/runtime/worker_lane.py).  The code decides this twice: once in *)
(* Python, on the values of a loaded row (lane_matches_values), and once   *)
(* in SQL, in the WHERE clause of every select and every conditional       *)
(* update of the worker (lane_task_filter).  The SQL side is evaluated in  *)
(* three-valued logic, because resource_key may be NULL.                   *)
(***************************************************************************)

CONSTANT OtherKeys      \* the resource keys that are not minute datasets

NULL == "NULL"          \* a column without a value

MINUTE_DATASET_KEYS == {"stk_mins", "index_mins"}

ASSUME OtherKeysAssumption ==
    OtherKeys \cap (MINUTE_DATASET_KEYS \cup {NULL}) = {}

Lanes == {"general", "stk_mins", "index_mins", "qtf"}

TaskTypes == {"dataset_action", "workflow", "maintenance_action",
              "qtf_experiment"}

\* What the lane of a row depends on: task_type (NOT NULL) and resource_key.
Kinds == [type : TaskTypes,
          key  : MINUTE_DATASET_KEYS \cup OtherKeys \cup {NULL}]

-----------------------------------------------------------------------------
(***************************************************************************)
(* The Python predicate.                                                   *)
(***************************************************************************)
lane_matches_values(lane, k) ==
    CASE lane = "general" ->
            /\ k.type # "qtf_experiment"
            /\ ~ (k.type = "dataset_action" /\ k.key \in MINUTE_DATASET_KEYS)
      [] lane = "stk_mins" ->
            k.type = "dataset_action" /\ k.key = "stk_mins"
      [] lane = "index_mins" ->
            k.type = "dataset_action" /\ k.key = "index_mins"
      [] lane = "qtf" -> k.type = "qtf_experiment"

-----------------------------------------------------------------------------
(***************************************************************************)
(* The SQL predicate.  A comparison with NULL is unknown, a row is         *)
(* selected only when the whole condition is true.                         *)
(***************************************************************************)
SqlValues == {"true", "false", "unknown"}

SqlBool(b) == IF b THEN "true" ELSE "false"

SqlIn(column, values) ==
    IF column = NULL THEN "unknown" ELSE SqlBool(column \in values)

SqlIsNull(column) == SqlBool(column = NULL)

SqlNot(p) == CASE p = "true"    -> "false"
               [] p = "false"   -> "true"
               [] p = "unknown" -> "unknown"

SqlAnd(p, q) == IF p = "false" \/ q = "false" THEN "false"
                ELSE IF p = "unknown" \/ q = "unknown" THEN "unknown"
                ELSE "true"

SqlOr(p, q) == SqlNot(SqlAnd(SqlNot(p), SqlNot(q)))

minute_task(k) == SqlAnd(SqlIn(k.type, {"dataset_action"}),
                         SqlIn(k.key, MINUTE_DATASET_KEYS))

\* Mutant: the general lane does not exclude the minute datasets.
lane_task_filter_with_minutes(lane, k) ==
    CASE lane = "general" ->
            SqlNot(SqlIn(k.type, {"qtf_experiment"}))
      [] lane = "stk_mins" ->
            SqlAnd(SqlIn(k.type, {"dataset_action"}), SqlIn(k.key, {"stk_mins"}))
      [] lane = "index_mins" ->
            SqlAnd(SqlIn(k.type, {"dataset_action"}), SqlIn(k.key, {"index_mins"}))
      [] lane = "qtf" -> SqlIn(k.type, {"qtf_experiment"})

lane_task_filter(lane, k) ==
    CASE lane = "general" ->
            SqlAnd(SqlNot(SqlIn(k.type, {"qtf_experiment"})),
                   SqlOr(SqlOr(SqlNot(SqlIn(k.type, {"dataset_action"})),
                               SqlIsNull(k.type)),
                         SqlOr(SqlIsNull(k.key), SqlNot(minute_task(k)))))
      [] lane = "stk_mins" ->
            SqlAnd(SqlIn(k.type, {"dataset_action"}), SqlIn(k.key, {"stk_mins"}))
      [] lane = "index_mins" ->
            SqlAnd(SqlIn(k.type, {"dataset_action"}), SqlIn(k.key, {"index_mins"}))
      [] lane = "qtf" -> SqlIn(k.type, {"qtf_experiment"})

\* The rows a worker's statement touches.
SqlSelects(lane, k) == lane_task_filter(lane, k) = "true"
=============================================================================
