----------------------- MODULE TaskRunLifecycleProofs -----------------------
(***************************************************************************)
(* Proofs about WorkerLane and TaskRunLifecycle, for every set of runs,    *)
(* workers, users and resource keys.                                       *)
(***************************************************************************)
EXTENDS TaskRunLifecycle, TLAPS

\* The truth tables of three-valued logic, as far as WHERE clauses need them:
\* the connectives of worker_lane.py stay within the three values, and this is
\* when they are true and when they are false.
LEMMA SqlTables ==
    ASSUME NEW p \in SqlValues, NEW q \in SqlValues
    PROVE  /\ SqlNot(p) \in SqlValues
           /\ SqlAnd(p, q) \in SqlValues
           /\ SqlOr(p, q) \in SqlValues
           /\ SqlNot(p) = "true" <=> p = "false"
           /\ SqlAnd(p, q) = "true" <=> p = "true" /\ q = "true"
           /\ SqlAnd(p, q) = "false" <=> p = "false" \/ q = "false"
           /\ SqlOr(p, q) = "true" <=> p = "true" \/ q = "true"
<1>1. p \in {"true", "false", "unknown"} /\ q \in {"true", "false", "unknown"}
    BY DEF SqlValues
<1>2. /\ SqlNot(p) \in SqlValues
      /\ SqlNot(p) = "true" <=> p = "false"
      /\ SqlNot(p) = "false" <=> p = "true"
      /\ SqlNot(q) \in SqlValues
      /\ SqlNot(q) = "true" <=> q = "false"
      /\ SqlNot(q) = "false" <=> q = "true"
    BY <1>1 DEF SqlNot, SqlValues
<1>3. \A x, y \in SqlValues :
         /\ SqlAnd(x, y) \in SqlValues
         /\ SqlAnd(x, y) = "true" <=> x = "true" /\ y = "true"
         /\ SqlAnd(x, y) = "false" <=> x = "false" \/ y = "false"
    BY DEF SqlAnd, SqlValues
<1>4. \A x \in SqlValues : SqlNot(x) \in SqlValues /\ (SqlNot(x) = "true" <=> x = "false")
    BY DEF SqlNot, SqlValues
<1>5. SqlOr(p, q) \in SqlValues /\ (SqlOr(p, q) = "true" <=> p = "true" \/ q = "true")
    BY <1>2, <1>3, <1>4 DEF SqlOr
<1> QED
    BY <1>2, <1>3, <1>5

\* The comparisons of worker_lane.py: with a column that may be NULL they are
\* true or false when it has a value, and unknown when it has none.
LEMMA SqlComparisons ==
    ASSUME NEW column, NEW values
    PROVE  /\ SqlIn(column, values) \in SqlValues
           /\ SqlIsNull(column) \in SqlValues
           /\ SqlIn(column, values) = "true" <=> column # NULL /\ column \in values
           /\ SqlIn(column, values) = "false" <=> column # NULL /\ column \notin values
           /\ SqlIsNull(column) = "true" <=> column = NULL
    BY DEF SqlIn, SqlIsNull, SqlBool, SqlValues

\* The WHERE clause of a lane selects exactly the rows that the Python
\* predicate accepts, rows with a NULL resource_key included.
THEOREM FilterMatchesPython ==
    \A lane \in Lanes, k \in Kinds : SqlSelects(lane, k) <=> lane_matches_values(lane, k)
<1> SUFFICES ASSUME NEW lane \in Lanes, NEW k \in Kinds
             PROVE  SqlSelects(lane, k) <=> lane_matches_values(lane, k)
    OBVIOUS
<1>1. k.type # NULL
    BY DEF Kinds, TaskTypes, NULL
<1>2. CASE lane = "general"
    <2> DEFINE qtf    == SqlIn(k.type, {"qtf_experiment"})
               action == SqlIn(k.type, {"dataset_action"})
               noType == SqlIsNull(k.type)
               noKey  == SqlIsNull(k.key)
               minute == SqlIn(k.key, MINUTE_DATASET_KEYS)
    <2>1. /\ {qtf, action, noType, noKey, minute} \subseteq SqlValues
          /\ qtf = "false" <=> k.type # "qtf_experiment"
          /\ action = "true" <=> k.type = "dataset_action"
          /\ action = "false" <=> k.type # "dataset_action"
          /\ noType # "true"
          /\ noKey = "true" <=> k.key = NULL
          /\ minute = "false" <=> k.key # NULL /\ k.key \notin MINUTE_DATASET_KEYS
        BY <1>1, SqlComparisons
    <2> HIDE DEF qtf, action, noType, noKey, minute
    <2>2. SqlAnd(SqlNot(qtf), SqlOr(SqlOr(SqlNot(action), noType),
                                    SqlOr(noKey, SqlNot(SqlAnd(action, minute))))) = "true"
            <=> /\ qtf = "false"
                /\ \/ action = "false"
                   \/ noType = "true"
                   \/ noKey = "true"
                   \/ minute = "false"
        BY <2>1, SqlTables
    <2>3. lane_task_filter(lane, k)
            = SqlAnd(SqlNot(qtf), SqlOr(SqlOr(SqlNot(action), noType),
                                        SqlOr(noKey, SqlNot(SqlAnd(action, minute)))))
        BY <1>2 DEF lane_task_filter, minute_task, qtf, action, noType, noKey, minute
    <2>4. NULL \notin MINUTE_DATASET_KEYS
        BY DEF NULL, MINUTE_DATASET_KEYS
    <2> QED
        BY <1>2, <2>1, <2>2, <2>3, <2>4 DEF SqlSelects, lane_matches_values
<1>3. CASE lane \in {"stk_mins", "index_mins"}
    <2>1. lane_task_filter(lane, k)
            = SqlAnd(SqlIn(k.type, {"dataset_action"}), SqlIn(k.key, {lane}))
        BY <1>3 DEF lane_task_filter
    <2>2. lane_task_filter(lane, k) = "true"
            <=> k.type = "dataset_action" /\ k.key # NULL /\ k.key = lane
        BY <1>1, <2>1, SqlComparisons, SqlTables
    <2> QED
        BY <1>3, <2>2 DEF SqlSelects, lane_matches_values, NULL
<1>4. CASE lane = "qtf"
    <2>1. lane_task_filter(lane, k) = "true" <=> k.type = "qtf_experiment"
        BY <1>1, <1>4, SqlComparisons DEF lane_task_filter
    <2> QED
        BY <1>4, <2>1 DEF SqlSelects, lane_matches_values
<1> QED
    BY <1>2, <1>3, <1>4 DEF Lanes

\* Every row belongs to exactly one lane: no row is left without a worker that
\* may run it, none is offered to two lanes.
THEOREM LanesPartition ==
    \A k \in Kinds : \E lane \in Lanes :
        /\ SqlSelects(lane, k)
        /\ \A other \in Lanes : SqlSelects(other, k) => other = lane
<1> SUFFICES ASSUME NEW k \in Kinds
             PROVE  \E lane \in Lanes :
                        /\ lane_matches_values(lane, k)
                        /\ \A other \in Lanes : lane_matches_values(other, k) => other = lane
    BY FilterMatchesPython
<1> DEFINE Only(lane) ==
        /\ lane_matches_values(lane, k)
        /\ \A other \in Lanes : lane_matches_values(other, k) => other = lane
<1>1. k.type = "qtf_experiment" => Only("qtf")
    BY DEF lane_matches_values, Lanes
<1>2. k.type = "dataset_action" /\ k.key = "stk_mins" => Only("stk_mins")
    BY DEF lane_matches_values, Lanes, MINUTE_DATASET_KEYS
<1>3. k.type = "dataset_action" /\ k.key = "index_mins" => Only("index_mins")
    BY DEF lane_matches_values, Lanes, MINUTE_DATASET_KEYS
<1>4. /\ k.type # "qtf_experiment"
      /\ ~ (k.type = "dataset_action" /\ k.key \in {"stk_mins", "index_mins"})
      => Only("general")
    BY DEF lane_matches_values, Lanes, MINUTE_DATASET_KEYS
<1> HIDE DEF Only
<1>5. \E lane \in Lanes : Only(lane)
    BY <1>1, <1>2, <1>3, <1>4 DEF Lanes
<1> QED
    BY <1>5 DEF Only

-----------------------------------------------------------------------------
(***************************************************************************)
(* The types of the variables.  A worker that is on its way with a run     *)
(* holds the id of a run, and one that is about to write a final status    *)
(* holds an outcome: without these two facts the types are not inductive.  *)
(***************************************************************************)
JobKnown ==
    \A w \in Workers :
        pc[w] \in PCs \ {"idle", "reconcile", "poll", "select"} => job[w] \in Runs

OutcomeKnown ==
    \A w \in Workers : pc[w] \in {"finalize", "write"} => outcome[w] \in Terminal

TypeInv == TypeOK /\ JobKnown /\ OutcomeKnown

\* Counting up at one place of a function of naturals.
LEMMA CountUp ==
    ASSUME NEW S, NEW f \in [S -> Nat], NEW x \in S
    PROVE  [f EXCEPT ![x] = @ + 1] \in [S -> Nat]
    OBVIOUS

\* The type invariant holds of the rows and processes the system starts with.
LEMMA TypeInvInit == Init => TypeInv
<1> SUFFICES ASSUME Init PROVE TypeInv
    OBVIOUS
<1>1. TypeOK
    BY LifecycleAssumption DEF Init, TypeOK, Status, Open, Terminal, PCs
<1>2. JobKnown /\ OutcomeKnown
    BY DEF Init, JobKnown, OutcomeKnown, PCs
<1> QED
    BY <1>1, <1>2 DEF TypeInv

\* No step of a worker, a web request or a crash breaks the type invariant.
LEMMA TypeInvStep == TypeInv /\ [Next]_vars => TypeInv'
<1> SUFFICES ASSUME TypeInv, [Next]_vars PROVE TypeInv'
    OBVIOUS
<1> USE LifecycleAssumption
        DEF TypeInv, TypeOK, JobKnown, OutcomeKnown, Status, Open, Terminal, PCs,
            rows, loaded, ending, users, history, Goto, Touch, Take
<1>1. ASSUME NEW r \in Runs, Submit(r) PROVE TypeInv'
    BY <1>1 DEF Submit
<1>2. ASSUME NEW r \in Runs, GoQuiet(r) PROVE TypeInv'
    BY <1>2 DEF GoQuiet
<1>3. ASSUME NEW u \in Users, NEW r \in Runs, CancelRead(u, r) PROVE TypeInv'
    BY <1>3 DEF CancelRead
<1>4. ASSUME NEW u \in Users, CancelWrite(u) PROVE TypeInv'
    BY <1>4 DEF CancelWrite
<1>5. ASSUME NEW u \in Users, CancelLost(u) PROVE TypeInv'
    BY <1>5 DEF CancelLost
<1>6. ASSUME NEW w \in Workers, ReconcileRead(w) PROVE TypeInv'
    BY <1>6 DEF ReconcileRead, ReconciledStatus
<1>7. ASSUME NEW w \in Workers, ReconcileCommit(w) PROVE TypeInv'
    BY <1>7 DEF ReconcileCommit
<1>8. ASSUME NEW w \in Workers, BeginLaneCycle(w) PROVE TypeInv'
    BY <1>8 DEF BeginLaneCycle
<1>9. ASSUME NEW w \in Workers, PickCanceled(w) PROVE TypeInv'
    <2>1. UNCHANGED <<rows, ending, plan, users, crashes, history>>
        BY <1>9 DEF PickCanceled
    <2>2. CASE Goto(w, "select") /\ UNCHANGED job
        BY <2>1, <2>2
    <2>3. ASSUME NEW r \in Runs, Take(w, r, "cancel") PROVE TypeInv'
        BY <2>1, <2>3
    <2> QED BY <1>9, <2>2, <2>3 DEF PickCanceled, QueuedIn
<1>10. ASSUME NEW w \in Workers, CancelQueued(w) PROVE TypeInv'
    <2>1. CASE Cancelable(w, job[w])
        <3>1. /\ status' = [status EXCEPT ![job[w]] = "canceled"]
              /\ Touch(job[w])
              /\ job' = [job EXCEPT ![w] = NoRun]
              /\ pc' \in {[pc EXCEPT ![w] = "poll"], [pc EXCEPT ![w] = "idle"]}
              /\ UNCHANGED <<cancelRequested, ending, plan, users, crashes, history>>
            BY <1>10, <2>1 DEF CancelQueued, EndRunNext
        <3>2. job[w] \in Runs
            BY <1>10 DEF CancelQueued
        <3>3. status' \in [Runs -> Status] /\ quiet' \in [Runs -> BOOLEAN]
            BY <3>1, <3>2
        <3>4. pc' \in [Workers -> PCs] /\ job' \in [Workers -> Runs \cup {NoRun}]
            BY <3>1
        <3>5. TypeOK'
            BY <3>1, <3>3, <3>4
        <3>6. JobKnown' /\ OutcomeKnown'
            BY <3>1
        <3> QED BY <3>5, <3>6
    <2>2. CASE ~ Cancelable(w, job[w])
        BY <1>10, <2>2 DEF CancelQueued, EndRunNext
    <2> QED BY <2>1, <2>2
<1>11. ASSUME NEW w \in Workers, PickQueued(w) PROVE TypeInv'
    BY <1>11 DEF PickQueued, Oldest, QueuedIn
<1>12. ASSUME NEW w \in Workers, Claim(w) PROVE TypeInv'
    <2>1. CASE Claimable(w, job[w])
        <3>1. /\ status' = [status EXCEPT ![job[w]] = "running"]
              /\ Touch(job[w])
              /\ claims' = [claims EXCEPT ![job[w]] = @ + 1]
              /\ Goto(w, "load")
              /\ UNCHANGED <<cancelRequested, job, ending, plan, users, crashes,
                             cancelInTime>>
              /\ job[w] \in Runs
            BY <1>12, <2>1 DEF Claim
        <3>2. claims' \in [Runs -> Nat]
            BY <3>1, CountUp
        <3>3. status' \in [Runs -> Status]
            BY <3>1
        <3>4. quiet' \in [Runs -> BOOLEAN]
            BY <3>1
        <3>5. pc' \in [Workers -> PCs]
            BY <3>1
        <3> QED BY <3>1, <3>2, <3>3, <3>4, <3>5
    <2>2. CASE ~ Claimable(w, job[w])
        BY <1>12, <2>2 DEF Claim
    <2> QED BY <2>1, <2>2
<1>13. ASSUME NEW w \in Workers, NEW r \in Runs, RunExplicitly(w, r) PROVE TypeInv'
    BY <1>13 DEF RunExplicitly
<1>14. ASSUME NEW w \in Workers, StartRun(w) PROVE TypeInv'
    <2>1. CASE External(job[w])
        <3>1. LoadRow(w) /\ job[w] \in Runs
            BY <1>14, <2>1 DEF StartRun
        <3>2. rowStatus' \in [Workers -> Status] /\ rowCancel' \in [Workers -> BOOLEAN]
            BY <3>1 DEF LoadRow
        <3>3. /\ Goto(w, "executing") /\ pc[w] = "load"
              /\ UNCHANGED <<rows, job, outcome, retrying, plan, users, crashes, history>>
            BY <1>14 DEF StartRun
        <3> QED BY <3>1, <3>2, <3>3
    <2>2. CASE ~ External(job[w])
        BY <1>14, <2>2 DEF StartRun
    <2> QED BY <2>1, <2>2
<1>15. ASSUME NEW w \in Workers, Progress(w) PROVE TypeInv'
    BY <1>15 DEF Progress
<1>16. ASSUME NEW w \in Workers, NEW result \in Terminal, DispatchEnd(w, result)
       PROVE TypeInv'
    <2>1. CASE External(job[w])
        BY <1>16, <2>1 DEF DispatchEnd
    <2>2. CASE ~ External(job[w])
        BY <1>16, <2>2 DEF DispatchEnd
    <2> QED BY <2>1, <2>2
<1>17. ASSUME NEW w \in Workers, DispatchRaises(w) PROVE TypeInv'
    BY <1>17 DEF DispatchRaises, RecordIssue, ForgetRow
<1>18. ASSUME NEW w \in Workers, FinalizeRead(w) PROVE TypeInv'
    BY <1>18 DEF FinalizeRead, LoadRow
<1>19. ASSUME NEW w \in Workers, FinalizeWrite(w) PROVE TypeInv'
    <2>1. FinalStatus(w) \in Status
        BY <1>19 DEF FinalizeWrite, FinalStatus
    <2>2. status' \in [Runs -> Status]
        BY <1>19, <2>1 DEF FinalizeWrite
    <2>3. /\ UNCHANGED <<cancelRequested, job, retrying, plan, users, crashes, history>>
          /\ outcome' = [outcome EXCEPT ![w] = "none"]
          /\ ForgetRow(w)
          /\ Goto(w, "refresh")
          /\ Touch(job[w])
          /\ job[w] \in Runs
        BY <1>19 DEF FinalizeWrite
    <2>4. TypeOK'
        BY <2>2, <2>3 DEF ForgetRow
    <2>5. JobKnown' /\ OutcomeKnown'
        BY <2>3
    <2> QED BY <2>4, <2>5
<1>20. ASSUME NEW w \in Workers, FinalizeFault(w) PROVE TypeInv'
    BY <1>20 DEF FinalizeFault, RecordIssue, ForgetRow
<1>21. ASSUME NEW w \in Workers, FinishRun(w) PROVE TypeInv'
    BY <1>21 DEF FinishRun, EndRunNext
<1>22. ASSUME NEW w \in Workers, Crash(w) PROVE TypeInv'
    BY <1>22 DEF Crash, ForgetRow
<1>23. CASE UNCHANGED vars
    BY <1>23 DEF vars
<1> HIDE DEF TypeInv
<1> QED
    BY <1>1, <1>2, <1>3, <1>4, <1>5, <1>6, <1>7, <1>8, <1>9, <1>10, <1>11, <1>12,
       <1>13, <1>14, <1>15, <1>16, <1>17, <1>18, <1>19, <1>20, <1>21, <1>22, <1>23
       DEF Next, WorkerStep, Retry

\* Every variable keeps its type: rows, loaded copies, plans and requests hold
\* only what the columns and the code can hold.
THEOREM TypeCorrect == Spec => []TypeOK
<1>1. Init => TypeInv
    BY TypeInvInit
<1>2. TypeInv /\ [Next]_vars => TypeInv'
    BY TypeInvStep
<1>3. TypeInv => TypeOK
    BY DEF TypeInv
<1> QED
    BY <1>1, <1>2, <1>3, PTL DEF Spec

-----------------------------------------------------------------------------
(***************************************************************************)
(* Ownership.  A claim is the only step that makes a worker busy; it takes *)
(* a queued row, and no step puts a row back into the queue.  So a row     *)
(* that is still in the queue was never claimed, and a busy worker is the  *)
(* one that made the only claim of its run.                                *)
(***************************************************************************)
Owned ==
    /\ \A r \in Runs : status[r] \in {"absent", "queued"} => claims[r] = 0
    /\ \A r \in Runs : claims[r] <= 1
    /\ \A w \in Workers : Busy(w) => claims[job[w]] = 1
    /\ \A v, w \in Workers : Busy(v) /\ Busy(w) /\ job[v] = job[w] => v = w

\* What every step but a successful claim leaves alone.
NoClaim ==
    /\ claims' = claims
    /\ \A r \in Runs : status'[r] \in {"absent", "queued"} => status[r] \in {"absent", "queued"}
    /\ \A w \in Workers : Busy(w)' => Busy(w) /\ job'[w] = job[w]

Claims(w) == Claim(w) /\ Claimable(w, job[w])

\* A step either claims a run (_claim_task_run found the row queued), or claims
\* nothing, puts no row back into the queue and starts no execution.
LEMMA ClaimOrNoClaim ==
    TypeInv /\ [Next]_vars => NoClaim \/ \E w \in Workers : Claims(w)
<1> SUFFICES ASSUME TypeInv, [Next]_vars, ~ \E w \in Workers : Claims(w)
             PROVE  NoClaim
    OBVIOUS
<1> USE DEF TypeInv, TypeOK, JobKnown, OutcomeKnown, PCs, NoClaim, Busy,
            rows, loaded, ending, users, history, Goto, Touch, Take
<1>1. ASSUME NEW r \in Runs, Submit(r) PROVE NoClaim
    BY <1>1 DEF Submit
<1>2. ASSUME NEW r \in Runs, GoQuiet(r) PROVE NoClaim
    BY <1>2 DEF GoQuiet
<1>3. ASSUME NEW u \in Users, NEW r \in Runs, CancelRead(u, r) PROVE NoClaim
    BY <1>3 DEF CancelRead
<1>4. ASSUME NEW u \in Users, CancelWrite(u) PROVE NoClaim
    BY <1>4 DEF CancelWrite
<1>5. ASSUME NEW u \in Users, CancelLost(u) PROVE NoClaim
    BY <1>5 DEF CancelLost
<1>6. ASSUME NEW w \in Workers, ReconcileRead(w) PROVE NoClaim
    BY <1>6 DEF ReconcileRead
<1>7. ASSUME NEW w \in Workers, ReconcileCommit(w) PROVE NoClaim
    BY <1>7 DEF ReconcileCommit
<1>8. ASSUME NEW w \in Workers, BeginLaneCycle(w) PROVE NoClaim
    BY <1>8 DEF BeginLaneCycle
<1>9. ASSUME NEW w \in Workers, PickCanceled(w) PROVE NoClaim
    BY <1>9 DEF PickCanceled
<1>10. ASSUME NEW w \in Workers, CancelQueued(w) PROVE NoClaim
    BY <1>10 DEF CancelQueued, EndRunNext
<1>11. ASSUME NEW w \in Workers, PickQueued(w) PROVE NoClaim
    BY <1>11 DEF PickQueued
<1>12. ASSUME NEW w \in Workers, Claim(w) PROVE NoClaim
    <2>1. ~ Claimable(w, job[w])
        BY <1>12 DEF Claims
    <2> QED BY <1>12, <2>1 DEF Claim
<1>13. ASSUME NEW w \in Workers, NEW r \in Runs, RunExplicitly(w, r) PROVE NoClaim
    BY <1>13 DEF RunExplicitly
<1>14. ASSUME NEW w \in Workers, StartRun(w) PROVE NoClaim
    BY <1>14 DEF StartRun
<1>15. ASSUME NEW w \in Workers, Progress(w) PROVE NoClaim
    BY <1>15 DEF Progress
<1>16. ASSUME NEW w \in Workers, NEW result \in Terminal, DispatchEnd(w, result)
       PROVE NoClaim
    BY <1>16 DEF DispatchEnd
<1>17. ASSUME NEW w \in Workers, DispatchRaises(w) PROVE NoClaim
    BY <1>17 DEF DispatchRaises, RecordIssue
<1>18. ASSUME NEW w \in Workers, FinalizeRead(w) PROVE NoClaim
    BY <1>18 DEF FinalizeRead
<1>19. ASSUME NEW w \in Workers, FinalizeWrite(w) PROVE NoClaim
    <2>1. FinalStatus(w) \notin {"absent", "queued"}
        BY <1>19 DEF FinalizeWrite, FinalStatus, Terminal
    <2> QED BY <1>19, <2>1 DEF FinalizeWrite
<1>20. ASSUME NEW w \in Workers, FinalizeFault(w) PROVE NoClaim
    BY <1>20 DEF FinalizeFault, RecordIssue
<1>21. ASSUME NEW w \in Workers, FinishRun(w) PROVE NoClaim
    BY <1>21 DEF FinishRun, EndRunNext
<1>22. ASSUME NEW w \in Workers, Crash(w) PROVE NoClaim
    BY <1>22 DEF Crash
<1>23. CASE UNCHANGED vars
    BY <1>23 DEF vars
<1> HIDE DEF NoClaim
<1> QED
    BY <1>1, <1>2, <1>3, <1>4, <1>5, <1>6, <1>7, <1>8, <1>9, <1>10, <1>11, <1>12,
       <1>13, <1>14, <1>15, <1>16, <1>17, <1>18, <1>19, <1>20, <1>21, <1>22, <1>23
       DEF Next, WorkerStep, Retry

\* Nothing is claimed and nothing executes at the start.
LEMMA OwnedInit == Init => Owned
    BY DEF Init, Owned, Busy

\* Ownership is kept by every step: a claim needs a queued row, and a queued row
\* was never claimed.
LEMMA OwnedStep == TypeInv /\ Owned /\ [Next]_vars => Owned'
<1> SUFFICES ASSUME TypeInv, Owned, [Next]_vars PROVE Owned'
    OBVIOUS
<1>1. CASE NoClaim
    <2>1. \A w \in Workers : Busy(w)' => Busy(w) /\ job'[w] = job[w]
        BY <1>1 DEF NoClaim
    <2>2. claims' = claims
        BY <1>1 DEF NoClaim
    <2>3. \A r \in Runs : status'[r] \in {"absent", "queued"} => claims'[r] = 0
        BY <1>1, <2>2 DEF NoClaim, Owned
    <2> QED
        BY <2>1, <2>2, <2>3 DEF Owned
<1>2. CASE \E w \in Workers : Claims(w)
    <2>1. PICK w \in Workers : Claims(w)
        BY <1>2
    <2>2. job[w] \in Runs /\ status[job[w]] = "queued" /\ claims[job[w]] = 0
        BY <2>1 DEF Claims, Claim, Claimable, Owned, TypeInv, JobKnown, PCs
    <2>3. /\ status' = [status EXCEPT ![job[w]] = "running"]
          /\ claims' = [claims EXCEPT ![job[w]] = @ + 1]
          /\ pc' = [pc EXCEPT ![w] = "load"]
          /\ job' = job
        BY <2>1 DEF Claims, Claim, Goto
    <2>4. \A r \in Runs : claims'[r] = IF r = job[w] THEN 1 ELSE claims[r]
        BY <2>2, <2>3 DEF TypeInv, TypeOK
    <2>5. \A v \in Workers \ {w} : (Busy(v)' <=> Busy(v)) /\ (Busy(v) => job[v] # job[w])
        BY <2>2, <2>3 DEF Busy, Owned, TypeInv, TypeOK
    <2>6. \A v \in Workers : Busy(v)' => job[v] \in Runs
        BY <2>2, <2>5 DEF Busy, TypeInv, JobKnown, PCs
    <2>7. \A r \in Runs : status'[r] \in {"absent", "queued"} => claims'[r] = 0
        BY <2>2, <2>3, <2>4 DEF Owned, TypeInv, TypeOK
    <2>8. \A r \in Runs : claims'[r] <= 1
        BY <2>4 DEF Owned
    <2>9. \A v \in Workers : Busy(v)' => claims'[job'[v]] = 1
        BY <2>3, <2>4, <2>5, <2>6 DEF Owned
    <2>10. \A u, v \in Workers : Busy(u)' /\ Busy(v)' /\ job'[u] = job'[v] => u = v
        BY <2>3, <2>5 DEF Owned
    <2> QED
        BY <2>7, <2>8, <2>9, <2>10 DEF Owned
<1> QED
    BY <1>1, <1>2, ClaimOrNoClaim

\* No run is executed twice and no two workers execute the same run.
THEOREM OneExecution == Spec => []ExecutedAtMostOnce
<1>1. Init => TypeInv /\ Owned
    BY TypeInvInit, OwnedInit
<1>2. TypeInv /\ Owned /\ [Next]_vars => (TypeInv /\ Owned)'
    BY TypeInvStep, OwnedStep
<1>3. Owned => ExecutedAtMostOnce
    BY DEF Owned, ExecutedAtMostOnce
<1> QED
    BY <1>1, <1>2, <1>3, PTL DEF Spec

\* A claim gives a worker only a run its SQL filter selects, which is one the
\* Python predicate accepts; no other step starts an execution.
LEMMA LaneIsolationStep == TypeInv /\ LaneIsolation /\ [Next]_vars => LaneIsolation'
<1> SUFFICES ASSUME TypeInv, LaneIsolation, [Next]_vars PROVE LaneIsolation'
    OBVIOUS
<1>1. CASE NoClaim
    BY <1>1 DEF NoClaim, LaneIsolation
<1>2. CASE \E w \in Workers : Claims(w)
    <2>1. PICK w \in Workers : Claims(w)
        BY <1>2
    <2>2. SqlSelects(LaneOf[w], KindOf[job[w]]) /\ job[w] \in Runs
        BY <2>1 DEF Claims, Claim, Claimable, TypeInv, JobKnown, PCs
    <2>3. lane_matches_values(LaneOf[w], KindOf[job[w]])
        BY <2>2, FilterMatchesPython, LifecycleAssumption
    <2>4. job' = job /\ \A v \in Workers \ {w} : Busy(v)' <=> Busy(v)
        BY <2>1 DEF Claims, Claim, Goto, Busy, TypeInv, TypeOK
    <2> QED
        BY <2>3, <2>4 DEF LaneIsolation
<1> QED
    BY <1>1, <1>2, ClaimOrNoClaim

\* A worker executes only the runs of its lane.
THEOREM LanesAreIsolated == Spec => []LaneIsolation
<1>1. Init => TypeInv /\ LaneIsolation
    BY TypeInvInit DEF Init, LaneIsolation, Busy
<1>2. TypeInv /\ LaneIsolation /\ [Next]_vars => (TypeInv /\ LaneIsolation)'
    BY TypeInvStep, LaneIsolationStep
<1> QED
    BY <1>1, <1>2, PTL DEF Spec

-----------------------------------------------------------------------------
(***************************************************************************)
(* Cancellation.  The request stays in the row for good, and the worker    *)
(* that is about to write the final status has loaded the row after every  *)
(* request that came in time.                                              *)
(***************************************************************************)
Success == {"success", "partial_success"}

CancelKept ==
    /\ \A r \in Runs : cancelInTime[r] => cancelRequested[r]
    /\ \A w \in Workers :
          pc[w] = "write" /\ ~ External(job[w]) /\ cancelInTime[job[w]] => rowCancel[w]
    /\ CancelInTimeIsNotSuccess

\* What the steps do that neither request a cancel nor read or write a final
\* status.
NoEnding ==
    /\ \A r \in Runs : cancelRequested[r] => cancelRequested'[r]
    /\ cancelInTime' = cancelInTime
    /\ \A r \in Runs : status'[r] \in Success => status[r] \in Success
    /\ \A w \in Workers : pc'[w] = "write" /\ ~ External(job'[w]) =>
          pc[w] = "write" /\ job'[w] = job[w] /\ rowCancel'[w] = rowCancel[w]

\* A step either is one of the few that cancel, claim or end a run, or leaves
\* cancels, successes and loaded rows as they are.
LEMMA EndingOrNoEnding ==
    TypeInv /\ [Next]_vars =>
        \/ NoEnding
        \/ \E u \in Users : CancelWrite(u)
        \/ \E w \in Workers : FinalizeRead(w) \/ FinalizeWrite(w)
<1> SUFFICES ASSUME TypeInv, [Next]_vars,
                    ~ \E u \in Users : CancelWrite(u),
                    ~ \E w \in Workers : FinalizeRead(w) \/ FinalizeWrite(w)
             PROVE  NoEnding
    OBVIOUS
<1> USE DEF TypeInv, TypeOK, NoEnding, Success,
            rows, loaded, ending, users, history, Goto, Touch, Take
<1>1. ASSUME NEW r \in Runs, Submit(r) PROVE NoEnding
    BY <1>1 DEF Submit
<1>2. ASSUME NEW r \in Runs, GoQuiet(r) PROVE NoEnding
    BY <1>2 DEF GoQuiet
<1>3. ASSUME NEW u \in Users, NEW r \in Runs, CancelRead(u, r) PROVE NoEnding
    BY <1>3 DEF CancelRead
<1>4. ASSUME NEW u \in Users, CancelLost(u) PROVE NoEnding
    BY <1>4 DEF CancelLost
<1>5. ASSUME NEW w \in Workers, ReconcileRead(w) PROVE NoEnding
    BY <1>5 DEF ReconcileRead
<1>6. ASSUME NEW w \in Workers, ReconcileCommit(w) PROVE NoEnding
    BY <1>6 DEF ReconcileCommit
<1>7. ASSUME NEW w \in Workers, BeginLaneCycle(w) PROVE NoEnding
    BY <1>7 DEF BeginLaneCycle
<1>8. ASSUME NEW w \in Workers, PickCanceled(w) PROVE NoEnding
    BY <1>8 DEF PickCanceled
<1>9. ASSUME NEW w \in Workers, CancelQueued(w) PROVE NoEnding
    BY <1>9 DEF CancelQueued, EndRunNext
<1>10. ASSUME NEW w \in Workers, PickQueued(w) PROVE NoEnding
    BY <1>10 DEF PickQueued
<1>11. ASSUME NEW w \in Workers, Claim(w) PROVE NoEnding
    BY <1>11 DEF Claim
<1>12. ASSUME NEW w \in Workers, NEW r \in Runs, RunExplicitly(w, r) PROVE NoEnding
    BY <1>12 DEF RunExplicitly
<1>13. ASSUME NEW w \in Workers, StartRun(w) PROVE NoEnding
    BY <1>13 DEF StartRun, LoadRow
<1>14. ASSUME NEW w \in Workers, Progress(w) PROVE NoEnding
    BY <1>14 DEF Progress
<1>15. ASSUME NEW w \in Workers, NEW result \in Terminal, DispatchEnd(w, result)
       PROVE NoEnding
    BY <1>15 DEF DispatchEnd
<1>16. ASSUME NEW w \in Workers, DispatchRaises(w) PROVE NoEnding
    BY <1>16 DEF DispatchRaises, RecordIssue, ForgetRow
<1>17. ASSUME NEW w \in Workers, FinalizeFault(w) PROVE NoEnding
    BY <1>17 DEF FinalizeFault, RecordIssue, ForgetRow
<1>18. ASSUME NEW w \in Workers, FinishRun(w) PROVE NoEnding
    BY <1>18 DEF FinishRun, EndRunNext
<1>19. ASSUME NEW w \in Workers, Crash(w) PROVE NoEnding
    BY <1>19 DEF Crash, ForgetRow
<1>20. CASE UNCHANGED vars
    BY <1>20 DEF vars
<1> HIDE DEF NoEnding
<1> QED
    BY <1>1, <1>2, <1>3, <1>4, <1>5, <1>6, <1>7, <1>8, <1>9, <1>10, <1>11, <1>12,
       <1>13, <1>14, <1>15, <1>16, <1>17, <1>18, <1>19, <1>20
       DEF Next, WorkerStep, Retry

\* A cancel that came in time is kept by every step up to the final write.
LEMMA CancelKeptStep == TypeInv /\ Owned /\ CancelKept /\ [Next]_vars => CancelKept'
<1> SUFFICES ASSUME TypeInv, Owned, CancelKept, [Next]_vars PROVE CancelKept'
    OBVIOUS
<1>1. CASE NoEnding
    <2>1. \A r \in Runs : cancelInTime'[r] => cancelRequested'[r]
        BY <1>1 DEF NoEnding, CancelKept
    <2>2. \A w \in Workers :
             pc'[w] = "write" /\ ~ External(job'[w]) /\ cancelInTime'[job'[w]] => rowCancel'[w]
        BY <1>1 DEF NoEnding, CancelKept
    <2>3. CancelInTimeIsNotSuccess'
        BY <1>1 DEF NoEnding, CancelKept, CancelInTimeIsNotSuccess, Success
    <2> QED
        BY <2>1, <2>2, <2>3 DEF CancelKept, External
<1>2. ASSUME NEW u \in Users, CancelWrite(u) PROVE CancelKept'
    <2> DEFINE r == target[u]
    <2>1. /\ r \in Runs
          /\ pc' = pc /\ job' = job /\ rowCancel' = rowCancel
          /\ cancelRequested' = [cancelRequested EXCEPT ![r] = TRUE]
          /\ status'[r] \in {"canceled", "canceling"}
          /\ \A s \in Runs \ {r} : status'[s] = status[s] /\ cancelInTime'[s] = cancelInTime[s]
          /\ cancelInTime'[r] => cancelInTime[r] \/ \E w \in Workers :
                job[w] = r /\ pc[w] \in {"load", "executing", "finalize"}
        BY <1>2 DEF CancelWrite, ending, loaded, TypeInv, TypeOK
    <2> HIDE DEF r
    <2>2. \A s \in Runs : cancelInTime'[s] => cancelRequested'[s]
        BY <2>1 DEF CancelKept, TypeInv, TypeOK
    <2>3. ASSUME NEW w \in Workers, pc'[w] = "write", ~ External(job'[w]), cancelInTime'[job'[w]]
          PROVE  rowCancel'[w]
        <3>1. job[w] \in Runs /\ Busy(w)
            BY <2>1, <2>3 DEF Busy, TypeInv, JobKnown, PCs
        <3>2. cancelInTime[job[w]]
            <4>1. SUFFICES ASSUME job[w] = r, ~ cancelInTime[r] PROVE FALSE
                BY <2>1, <2>3, <3>1
            <4>2. PICK v \in Workers : job[v] = r /\ pc[v] \in {"load", "executing", "finalize"}
                BY <2>1, <2>3, <4>1
            <4>3. v = w
                BY <3>1, <4>1, <4>2 DEF Busy, Owned
            <4> QED
                BY <2>1, <2>3, <4>2, <4>3
        <3> QED
            BY <2>1, <2>3, <3>2 DEF CancelKept
    <2>4. CancelInTimeIsNotSuccess'
        BY <2>1 DEF CancelKept, CancelInTimeIsNotSuccess, External
    <2> QED
        BY <2>2, <2>3, <2>4 DEF CancelKept, External
<1>3. ASSUME NEW w \in Workers, FinalizeRead(w) PROVE CancelKept'
    <2>1. /\ UNCHANGED <<status, cancelRequested, cancelInTime, job>>
          /\ pc' = [pc EXCEPT ![w] = "write"]
          /\ rowCancel' = [rowCancel EXCEPT ![w] = cancelRequested[job[w]]]
          /\ job[w] \in Runs
        BY <1>3 DEF FinalizeRead, LoadRow, Goto, rows, history, TypeInv, JobKnown, PCs
    <2>2. \A v \in Workers :
             pc'[v] = "write" /\ ~ External(job'[v]) /\ cancelInTime'[job'[v]] => rowCancel'[v]
        BY <2>1 DEF CancelKept, TypeInv, TypeOK
    <2> QED
        BY <2>1, <2>2 DEF CancelKept, CancelInTimeIsNotSuccess, External
<1>4. ASSUME NEW w \in Workers, FinalizeWrite(w) PROVE CancelKept'
    <2> DEFINE r == job[w]
    <2>1. /\ UNCHANGED <<cancelRequested, cancelInTime, job>>
          /\ pc[w] = "write"
          /\ pc' = [pc EXCEPT ![w] = "refresh"]
          /\ rowCancel' = [rowCancel EXCEPT ![w] = FALSE]
          /\ r \in Runs
          /\ \A s \in Runs \ {r} : status'[s] = status[s]
          /\ status'[r] \in {status[r], FinalStatus(w)}
        BY <1>4 DEF FinalizeWrite, ForgetRow, Goto, history, TypeInv, TypeOK, JobKnown, PCs
    <2>2. \A v \in Workers :
             pc'[v] = "write" /\ ~ External(job'[v]) /\ cancelInTime'[job'[v]] => rowCancel'[v]
        BY <2>1 DEF CancelKept, TypeInv, TypeOK
    <2>3. cancelInTime[r] /\ ~ External(r) => FinalStatus(w) \notin Success
        BY <2>1 DEF CancelKept, FinalStatus, Success
    <2>4. CancelInTimeIsNotSuccess'
        BY <2>1, <2>3 DEF CancelKept, CancelInTimeIsNotSuccess, External, Success
    <2> QED
        BY <2>1, <2>2, <2>4 DEF CancelKept, External
<1> QED
    BY <1>1, <1>2, <1>3, <1>4, EndingOrNoEnding

\* A cancel that came in time is never answered with a success.
THEOREM CancelIsHonoured == Spec => []CancelInTimeIsNotSuccess
<1>1. Init => TypeInv /\ Owned /\ CancelKept
    BY TypeInvInit, OwnedInit DEF Init, CancelKept, CancelInTimeIsNotSuccess
<1>2. TypeInv /\ Owned /\ CancelKept /\ [Next]_vars => (TypeInv /\ Owned /\ CancelKept)'
    BY TypeInvStep, OwnedStep, CancelKeptStep
<1>3. CancelKept => CancelInTimeIsNotSuccess
    BY DEF CancelKept
<1> QED
    BY <1>1, <1>2, <1>3, PTL DEF Spec

-----------------------------------------------------------------------------
(* The abstract queue *)


\* What a reconciliation or a cancel request has read about a row is out of
\* date only in one direction: a row that was open is not in the queue, and a
\* row that was there still exists.
Remembered ==
    /\ \A w \in Workers : \A p \in plan[w] : status[p[1]] \notin {"absent", "queued"}
    /\ \A u \in Users : target[u] # NoRun => status[target[u]] # "absent"

\* What a step keeps of a row and of a worker, as far as the queue is concerned.
SameRow(r) == /\ status'[r] = "absent" <=> status[r] = "absent"
              /\ status'[r] = "queued" <=> status[r] = "queued"

SameWorker(w) == (Busy(w)' <=> Busy(w)) /\ (Busy(w) => job'[w] = job[w])

Same == /\ claims' = claims
        /\ \A r \in Runs : SameRow(r)
        /\ \A w \in Workers : SameWorker(w)

Enters(r) == /\ claims' = claims
             /\ status[r] = "absent" /\ status'[r] = "queued"
             /\ \A s \in Runs \ {r} : SameRow(s)
             /\ \A w \in Workers : SameWorker(w)

Withdraws(r) == /\ claims' = claims
                /\ status[r] = "queued" /\ status'[r] \notin {"absent", "queued"}
                /\ \A s \in Runs \ {r} : SameRow(s)
                /\ \A w \in Workers : SameWorker(w)

Ends(w) == /\ claims' = claims
           /\ \A r \in Runs : SameRow(r)
           /\ Busy(w) /\ ~ Busy(w)'
           /\ \A v \in Workers \ {w} : SameWorker(v)

\* What a step of the lifecycle is for the queue.
QueueStep == \/ Same
             \/ \E r \in Runs : Enters(r) \/ Withdraws(r)
             \/ \E w \in Workers : Claims(w) \/ Ends(w)

\* Every step of the lifecycle is one for the queue: nothing, a run enters or is
\* withdrawn, a worker takes a run or is done with it.
LEMMA StepIsQueueStep ==
    TypeInv /\ Owned /\ Remembered /\ [Next]_vars => QueueStep
<1> SUFFICES ASSUME TypeInv, Owned, Remembered, [Next]_vars PROVE QueueStep
    OBVIOUS
<1> USE DEF TypeInv, TypeOK, JobKnown, OutcomeKnown, PCs, Busy, SameRow, SameWorker,
            rows, loaded, ending, users, history, Goto, Touch, Take
<1>1. ASSUME NEW r \in Runs, Submit(r) PROVE Enters(r)
    BY <1>1 DEF Submit, Enters
<1>2. ASSUME NEW r \in Runs, GoQuiet(r) PROVE Same
    BY <1>2 DEF GoQuiet, Same
<1>3. ASSUME NEW u \in Users, NEW r \in Runs, CancelRead(u, r) PROVE Same
    BY <1>3 DEF CancelRead, Same
<1>4. ASSUME NEW u \in Users, CancelWrite(u) PROVE Same \/ Withdraws(target[u])
    <2>1. target[u] \in Runs /\ status[target[u]] # "absent"
        BY <1>4 DEF CancelWrite, Remembered
    <2>2. status'[target[u]] \in {"canceled", "canceling"}
        BY <1>4, <2>1 DEF CancelWrite
    <2>3. /\ \A r \in Runs \ {target[u]} : SameRow(r)
          /\ \A w \in Workers : SameWorker(w)
          /\ claims' = claims
        BY <1>4 DEF CancelWrite
    <2>4. status[target[u]] # "queued" => SameRow(target[u])
        BY <2>1, <2>2
    <2> QED
        BY <2>1, <2>2, <2>3, <2>4 DEF Same, Withdraws
<1>5. ASSUME NEW u \in Users, CancelLost(u) PROVE Same
    BY <1>5 DEF CancelLost, Same
<1>6. ASSUME NEW w \in Workers, ReconcileRead(w) PROVE Same
    BY <1>6 DEF ReconcileRead, Same
<1>7. ASSUME NEW w \in Workers, ReconcileCommit(w) PROVE Same
    <2>1. \A r \in Runs : SameRow(r)
        BY <1>7 DEF ReconcileCommit, Remembered
    <2>2. (\A v \in Workers : SameWorker(v)) /\ claims' = claims
        BY <1>7 DEF ReconcileCommit
    <2> QED BY <2>1, <2>2 DEF Same
<1>8. ASSUME NEW w \in Workers, BeginLaneCycle(w) PROVE Same
    BY <1>8 DEF BeginLaneCycle, Same
<1>9. ASSUME NEW w \in Workers, PickCanceled(w) PROVE Same
    BY <1>9 DEF PickCanceled, Same
<1>10. ASSUME NEW w \in Workers, CancelQueued(w) PROVE Same \/ Withdraws(job[w])
    <2>1. CASE Cancelable(w, job[w])
        BY <1>10, <2>1 DEF CancelQueued, EndRunNext, Cancelable, Withdraws
    <2>2. CASE ~ Cancelable(w, job[w])
        BY <1>10, <2>2 DEF CancelQueued, Same
    <2> QED BY <2>1, <2>2
<1>11. ASSUME NEW w \in Workers, PickQueued(w) PROVE Same
    BY <1>11 DEF PickQueued, Same
<1>12. ASSUME NEW w \in Workers, Claim(w) PROVE Same \/ Claims(w)
    <2>1. CASE ~ Claimable(w, job[w])
        BY <1>12, <2>1 DEF Claim, Same
    <2> QED BY <1>12, <2>1 DEF Claims
<1>13. ASSUME NEW w \in Workers, NEW r \in Runs, RunExplicitly(w, r) PROVE Same
    BY <1>13 DEF RunExplicitly, Same
<1>14. ASSUME NEW w \in Workers, StartRun(w) PROVE Same
    BY <1>14 DEF StartRun, Same
<1>15. ASSUME NEW w \in Workers, Progress(w) PROVE Same
    BY <1>15 DEF Progress, Same
<1>16. ASSUME NEW w \in Workers, NEW result \in Terminal, DispatchEnd(w, result)
       PROVE Same
    BY <1>16 DEF DispatchEnd, Same
<1>17. ASSUME NEW w \in Workers, DispatchRaises(w) PROVE Same
    BY <1>17 DEF DispatchRaises, RecordIssue, Same
<1>18. ASSUME NEW w \in Workers, FinalizeRead(w) PROVE Same
    BY <1>18 DEF FinalizeRead, Same
<1>19. ASSUME NEW w \in Workers, FinalizeWrite(w) PROVE Same
    <2>1. FinalStatus(w) \notin {"absent", "queued"}
        BY <1>19 DEF FinalizeWrite, FinalStatus, Terminal
    <2>2. job[w] \in Runs /\ status[job[w]] \notin {"absent", "queued"}
        BY <1>19 DEF FinalizeWrite, Owned
    <2>3. \A r \in Runs : SameRow(r)
        BY <1>19, <2>1, <2>2 DEF FinalizeWrite
    <2>4. (\A v \in Workers : SameWorker(v)) /\ claims' = claims
        BY <1>19 DEF FinalizeWrite
    <2> QED BY <2>3, <2>4 DEF Same
<1>20. ASSUME NEW w \in Workers, FinalizeFault(w) PROVE Same
    BY <1>20 DEF FinalizeFault, RecordIssue, Same
<1>21. ASSUME NEW w \in Workers, FinishRun(w) PROVE Ends(w)
    BY <1>21 DEF FinishRun, EndRunNext, Ends
<1>22. ASSUME NEW w \in Workers, Crash(w) PROVE Same \/ Ends(w)
    BY <1>22 DEF Crash, Same, Ends
<1>23. CASE UNCHANGED vars
    BY <1>23 DEF vars, Same, QueueStep
<1>24. \A w \in Workers : job[w] \in Runs \/ ~ CancelQueued(w)
    BY DEF CancelQueued
<1>25. \A u \in Users : target[u] \in Runs \/ ~ CancelWrite(u)
    BY DEF CancelWrite
<1> HIDE DEF SameRow, SameWorker, TypeInv, Busy
<1>26. ASSUME NEW w \in Workers, WorkerStep(w) PROVE QueueStep
    BY <1>6, <1>7, <1>8, <1>9, <1>10, <1>11, <1>12, <1>14, <1>16, <1>17, <1>18, <1>19,
       <1>21, <1>24, <1>26
       DEF WorkerStep, QueueStep
<1>27. ASSUME NEW w \in Workers, Progress(w) \/ FinalizeFault(w) \/ Crash(w)
       PROVE  QueueStep
    BY <1>15, <1>20, <1>22, <1>27 DEF QueueStep
<1>28. ASSUME NEW r \in Runs, Submit(r) \/ GoQuiet(r) PROVE QueueStep
    BY <1>1, <1>2, <1>28 DEF QueueStep
<1>29. ASSUME NEW u \in Users, CancelWrite(u) \/ CancelLost(u) PROVE QueueStep
    BY <1>4, <1>5, <1>25, <1>29 DEF QueueStep
<1>30. ASSUME Same PROVE QueueStep
    BY <1>30 DEF QueueStep
<1> HIDE DEF QueueStep
<1> QED
    BY <1>3, <1>13, <1>23, <1>26, <1>27, <1>28, <1>29, <1>30 DEF Next, Retry

\* At the start no row has been read.
LEMMA RememberedInit == Init => Remembered
    BY DEF Init, Remembered

\* No step makes what was read about a row wrong in the other direction: rows are
\* not deleted and open rows do not return to the queue.
LEMMA RememberedStep ==
    TypeInv /\ Owned /\ Remembered /\ [Next]_vars => Remembered'
<1> SUFFICES ASSUME TypeInv, Owned, Remembered, [Next]_vars PROVE Remembered'
    OBVIOUS
<1>1. \A r \in Runs :
         /\ status'[r] = "absent" => status[r] = "absent"
         /\ status'[r] = "queued" => status[r] \in {"absent", "queued"}
    <2>1. QueueStep
        BY StepIsQueueStep
    <2>2. ASSUME NEW w \in Workers, Claims(w) PROVE \A r \in Runs :
             /\ status'[r] = "absent" => status[r] = "absent"
             /\ status'[r] = "queued" => status[r] \in {"absent", "queued"}
        BY <2>2 DEF Claims, Claim, TypeInv, TypeOK
    <2> QED
        BY <2>1, <2>2 DEF QueueStep, Same, Enters, Withdraws, Ends, SameRow
<1>2. \A w \in Workers : \A p \in plan'[w] :
         p \in plan[w] \/ status[p[1]] \in Open
    <2>1. ASSUME NEW w \in Workers, ReconcileRead(w) PROVE \A v \in Workers : \A p \in plan'[v] :
             p \in plan[v] \/ status[p[1]] \in Open
        BY <2>1 DEF ReconcileRead, TypeInv, TypeOK
    <2>2. (\E w \in Workers : ReconcileRead(w)) \/ \A v \in Workers : plan'[v] \subseteq plan[v]
        <3>1. ASSUME plan' = plan PROVE \A v \in Workers : plan'[v] \subseteq plan[v]
            BY <3>1
        <3>2. ASSUME NEW w \in Workers, ReconcileCommit(w) \/ Crash(w)
              PROVE  \A v \in Workers : plan'[v] \subseteq plan[v]
            BY <3>2 DEF ReconcileCommit, Crash, TypeInv, TypeOK
        <3>3. CASE UNCHANGED vars \/ \E r \in Runs : \/ Submit(r) \/ GoQuiet(r)
                                                     \/ \E existing \in Runs : Retry(existing, r)
            BY <3>1, <3>3 DEF Retry, vars, Submit, GoQuiet
        <3>4. CASE \E u \in Users : (\E r \in Runs : CancelRead(u, r)) \/ CancelWrite(u) \/ CancelLost(u)
            BY <3>1, <3>4 DEF CancelRead, CancelWrite, CancelLost
        <3>5. ASSUME NEW w \in Workers, WorkerStep(w)
              PROVE  ReconcileRead(w) \/ \A v \in Workers : plan'[v] \subseteq plan[v]
            <4>1. plan' = plan \/ ReconcileRead(w) \/ ReconcileCommit(w)
                BY <3>5 DEF WorkerStep, BeginLaneCycle, PickCanceled, CancelQueued, PickQueued,
                            Claim, StartRun, DispatchEnd, DispatchRaises, FinalizeRead,
                            FinalizeWrite, FinishRun
            <4> QED BY <3>1, <3>2, <4>1
        <3>6. CASE \E w \in Workers : \/ Progress(w) \/ FinalizeFault(w)
                                     \/ \E r \in Runs : RunExplicitly(w, r)
            BY <3>1, <3>6 DEF Progress, FinalizeFault, RunExplicitly
        <3> QED BY <3>2, <3>3, <3>4, <3>5, <3>6 DEF Next
    <2> QED
        BY <2>1, <2>2
<1>3. \A w \in Workers : \A p \in plan'[w] : status'[p[1]] \notin {"absent", "queued"}
    <2> SUFFICES ASSUME NEW w \in Workers, NEW p \in plan'[w]
                 PROVE  status'[p[1]] \notin {"absent", "queued"}
        OBVIOUS
    <2>1. p[1] \in Runs
        BY TypeInvStep DEF TypeInv, TypeOK
    <2>2. status[p[1]] \notin {"absent", "queued"}
        BY <1>2 DEF Remembered, Open
    <2> QED
        BY <1>1, <2>1, <2>2
<1>4. \A u \in Users : target'[u] # NoRun => status'[target'[u]] # "absent"
    <2>1. \A u \in Users : target'[u] # NoRun =>
             target'[u] = target[u] \/ (target'[u] \in Runs /\ status[target'[u]] # "absent")
        BY DEF Next, WorkerStep, Retry, vars, users, TypeInv, TypeOK, Submit, GoQuiet,
               CancelRead, CancelWrite, CancelLost, ReconcileRead, ReconcileCommit,
               BeginLaneCycle, PickCanceled, CancelQueued, PickQueued, Claim,
               RunExplicitly, StartRun, Progress, DispatchEnd, DispatchRaises,
               FinalizeRead, FinalizeWrite, FinalizeFault, FinishRun, Crash
    <2> QED
        BY <1>1, <2>1 DEF Remembered, TypeInv, TypeOK
<1> QED
    BY <1>3, <1>4 DEF Remembered

-----------------------------------------------------------------------------
QInv == TypeInv /\ Owned /\ Remembered

\* The rows at the start are those of an initial queue.
LEMMA QueueInit == Init => Queue!Init
<1> SUFFICES ASSUME Init PROVE Queue!Init
    OBVIOUS
<1>1. \A r \in Runs : Phase(r) \in {"new", "waiting"}
    BY DEF Init, Phase, Busy
<1>2. \A w \in Workers : ~ Busy(w)
    BY DEF Init, Busy
<1> QED
    BY <1>1, <1>2 DEF Queue!Init

\* The phase of a run by cases, before and after a step.
Executing(r) == \E w \in Workers : Busy(w) /\ job[w] = r

LEMMA PhaseCases ==
    ASSUME NEW r \in Runs
    PROVE  /\ Executing(r) => Phase(r) = "executing"
           /\ ~ Executing(r) =>
                 /\ claims[r] = 0 /\ status[r] = "absent" => Phase(r) = "new"
                 /\ claims[r] = 0 /\ status[r] = "queued" => Phase(r) = "waiting"
                 /\ claims[r] # 0 \/ status[r] \notin {"absent", "queued"} => Phase(r) = "over"
    BY DEF Phase, Executing

\* The same after a step.
LEMMA NextPhaseCases ==
    ASSUME NEW r \in Runs
    PROVE  /\ Executing(r)' => Phase(r)' = "executing"
           /\ ~ Executing(r)' =>
                 /\ claims'[r] = 0 /\ status'[r] = "queued" => Phase(r)' = "waiting"
                 /\ claims'[r] # 0 \/ status'[r] \notin {"absent", "queued"} => Phase(r)' = "over"
    BY DEF Phase, Executing

\* A row and a set of workers that stay the same for the queue keep the phase.
LEMMA SamePhase ==
    ASSUME NEW r \in Runs, claims' = claims, SameRow(r),
           \A w \in Workers : Busy(w)' /\ job'[w] = r <=> Busy(w) /\ job[w] = r
    PROVE  Phase(r)' = Phase(r)
    BY DEF Phase, SameRow

\* Every step of the lifecycle is a step of the queue or leaves it alone.
LEMMA QueueNext == QInv /\ [Next]_vars => [Queue!Next]_(Queue!vars)
<1> SUFFICES ASSUME QInv, [Next]_vars PROVE [Queue!Next]_(Queue!vars)
    OBVIOUS
<1> DEFINE Holder(w) == IF Busy(w) THEN job[w] ELSE NoRun
           phase  == [r \in Runs |-> Phase(r)]
           holder == [w \in Workers |-> Holder(w)]
<1>1. QueueStep
    BY StepIsQueueStep DEF QInv
<1>2. ASSUME NEW w \in Workers, SameWorker(w)
      PROVE  /\ Holder(w)' = Holder(w)
             /\ \A r : Busy(w)' /\ job'[w] = r <=> Busy(w) /\ job[w] = r
    BY <1>2 DEF SameWorker
<1>3. \A w \in Workers : Busy(w) => job[w] \in Runs /\ job[w] # NoRun
    BY LifecycleAssumption DEF QInv, TypeInv, JobKnown, Busy, PCs
<1>4. CASE Same
    <2>1. \A r \in Runs : Phase(r)' = Phase(r)
        BY <1>2, <1>4, SamePhase DEF Same
    <2>2. \A w \in Workers : Holder(w)' = Holder(w)
        BY <1>2, <1>4 DEF Same
    <2>3. phase' = phase /\ holder' = holder
        BY <2>1, <2>2
    <2> QED
        BY <2>3 DEF Queue!vars
<1>5. ASSUME NEW r \in Runs, Enters(r) \/ Withdraws(r)
      PROVE  Queue!Enter(r) \/ Queue!Withdraw(r)
    <2>1. \A w \in Workers : ~ (Busy(w) /\ job[w] = r)
        BY <1>5 DEF Enters, Withdraws, QInv, Owned
    <2>2. \A s \in Runs \ {r} : Phase(s)' = Phase(s)
        BY <1>2, <1>5, SamePhase DEF Enters, Withdraws
    <2>3. holder' = holder
        BY <1>2, <1>5 DEF Enters, Withdraws
    <2>4. \A w \in Workers : ~ (Busy(w)' /\ job'[w] = r)
        BY <1>2, <1>5, <2>1 DEF Enters, Withdraws
    <2>5. claims[r] = 0 /\ claims'[r] = 0
        BY <1>5 DEF Enters, Withdraws, QInv, Owned
    <2>6. CASE Enters(r)
        <3>1. Phase(r) = "new" /\ Phase(r)' = "waiting"
            BY <2>1, <2>4, <2>5, <2>6, PhaseCases, NextPhaseCases DEF Enters, Executing
        <3>2. phase' = [phase EXCEPT ![r] = "waiting"]
            BY <2>2, <3>1
        <3> QED
            BY <2>3, <3>1, <3>2 DEF Queue!Enter
    <2>7. CASE Withdraws(r)
        <3>1. Phase(r) = "waiting" /\ Phase(r)' = "over"
            BY <2>1, <2>4, <2>5, <2>7, PhaseCases, NextPhaseCases DEF Withdraws, Executing
        <3>2. phase' = [phase EXCEPT ![r] = "over"]
            BY <2>2, <3>1
        <3> QED
            BY <2>3, <3>1, <3>2 DEF Queue!Withdraw
    <2> QED
        BY <1>5, <2>6, <2>7
<1>6. ASSUME NEW w \in Workers, Claims(w) PROVE \E r \in Runs : Queue!Begin(w, r)
    <2>0. PICK r \in Runs : r = job[w]
        BY <1>6 DEF Claims, Claim, QInv, TypeInv, JobKnown, PCs
    <2>1. /\ status[r] = "queued" /\ claims[r] = 0 /\ claims'[r] = 1
          /\ ~ Busy(w) /\ Busy(w)' /\ job' = job
          /\ \A s \in Runs \ {r} : status'[s] = status[s] /\ claims'[s] = claims[s]
          /\ \A v \in Workers \ {w} : Busy(v)' <=> Busy(v)
        BY <1>6, <2>0 DEF Claims, Claim, Claimable, Goto, Busy, QInv, Owned, TypeInv,
                          TypeOK, JobKnown, PCs
    <2>2. \A v \in Workers : ~ (Busy(v) /\ job[v] = r)
        BY <2>1 DEF QInv, Owned
    <2>3. Phase(r) = "waiting" /\ Phase(r)' = "executing"
        BY <2>0, <2>1, <2>2, PhaseCases, NextPhaseCases DEF Executing
    <2>4. \A s \in Runs \ {r} : Phase(s)' = Phase(s)
        BY <2>0, <2>1 DEF Phase
    <2>5. phase' = [phase EXCEPT ![r] = "executing"]
        BY <2>1, <2>3, <2>4
    <2>6. Holder(w) = NoRun /\ holder' = [holder EXCEPT ![w] = r]
        BY <2>0, <2>1
    <2> QED
        BY <2>1, <2>3, <2>5, <2>6 DEF Queue!Begin
<1>7. ASSUME NEW w \in Workers, Ends(w) PROVE Queue!End(w)
    <2>0. PICK r \in Runs : r = job[w]
        BY <1>3, <1>7 DEF Ends
    <2>1. r # NoRun /\ claims[r] = 1 /\ claims' = claims
        BY <1>3, <1>7, <2>0 DEF Ends, QInv, Owned
    <2>2. \A v \in Workers : ~ (Busy(v)' /\ job'[v] = r)
        BY <1>2, <1>7, <2>0 DEF Ends, QInv, Owned
    <2>3. Phase(r)' = "over"
        BY <2>1, <2>2, NextPhaseCases DEF Executing
    <2>4. \A s \in Runs \ {r} : Phase(s)' = Phase(s)
        BY <1>2, <1>7, <2>0, SamePhase DEF Ends
    <2>5. Holder(w) = r /\ holder' = [holder EXCEPT ![w] = NoRun]
        BY <1>2, <1>7, <2>0 DEF Ends
    <2>6. phase' = [phase EXCEPT ![r] = "over"]
        BY <2>3, <2>4
    <2> QED
        BY <2>1, <2>5, <2>6 DEF Queue!End
<1>8. ASSUME NEW r \in Runs, Enters(r) \/ Withdraws(r) PROVE Queue!Next
    BY <1>5, <1>8 DEF Queue!Next
<1>9. ASSUME NEW w \in Workers, Claims(w) PROVE Queue!Next
    BY <1>6, <1>9 DEF Queue!Next
<1>10. ASSUME NEW w \in Workers, Ends(w) PROVE Queue!Next
    BY <1>7, <1>10 DEF Queue!Next
<1> QED
    BY <1>1, <1>4, <1>8, <1>9, <1>10 DEF QueueStep

\* The table of task runs is an implementation of the queue.
THEOREM ImplementsQueue == Spec => QueueSpec
<1>1. Init => QInv
    BY TypeInvInit, OwnedInit, RememberedInit DEF QInv
<1>2. QInv /\ [Next]_vars => QInv'
    BY TypeInvStep, OwnedStep, RememberedStep DEF QInv
<1> QED
    BY <1>1, <1>2, QueueInit, QueueNext, PTL DEF Spec, QueueSpec, Queue!Spec

-----------------------------------------------------------------------------
(***************************************************************************)
(* What is left of finality.  A terminal status may be written over (the   *)
(* finding TerminalIsFinal), but only by a writer that was on its way      *)
(* before the row ended.                                                   *)
(***************************************************************************)

\* The run ended, and nobody has anything more to say about it: no worker runs
\* or finalizes it, no reconciliation that read it stale is still to commit, and
\* no cancel request that read it open is still to write.
Settled(r) ==
    /\ status[r] \in Terminal
    /\ \A w \in Workers : /\ Busy(w) => job[w] # r
                          /\ \A p \in plan[w] : p[1] # r
    /\ \A u \in Users : target[u] # r

\* A step leaves a settled run as it is.
StaysSettled(r) == Settled(r)' /\ status'[r] = status[r]

\* A settled run keeps its status, and stays settled: no process begins anything
\* with an ended row, so that only those that loaded it before it ended can write
\* over it (_finalize_task_run, request_cancel, the reconciliation).
SettledIsFinal == [][\A r \in Runs : Settled(r) => StaysSettled(r)]_vars

\* No step of anybody unsettles a run.
LEMMA SettledStep ==
    ASSUME TypeInv, [Next]_vars, NEW r \in Runs, Settled(r)
    PROVE  StaysSettled(r)
<1> USE DEF TypeInv, TypeOK, JobKnown, PCs, Busy, Settled, Terminal, Open,
            StaysSettled, rows, loaded, ending, users, history, Goto, Touch, Take
<1>1. ASSUME NEW s \in Runs, Submit(s) PROVE StaysSettled(r)
    BY <1>1 DEF Submit
<1>2. ASSUME NEW s \in Runs, GoQuiet(s) PROVE StaysSettled(r)
    BY <1>2 DEF GoQuiet
<1>3. ASSUME NEW u \in Users, NEW s \in Runs, CancelRead(u, s) PROVE StaysSettled(r)
    BY <1>3 DEF CancelRead
<1>4. ASSUME NEW u \in Users, CancelWrite(u) PROVE StaysSettled(r)
    BY <1>4, LifecycleAssumption DEF CancelWrite, NoRun
<1>5. ASSUME NEW u \in Users, CancelLost(u) PROVE StaysSettled(r)
    BY <1>5, LifecycleAssumption DEF CancelLost, NoRun
<1>6. ASSUME NEW w \in Workers, ReconcileRead(w) PROVE StaysSettled(r)
    BY <1>6 DEF ReconcileRead
<1>7. ASSUME NEW w \in Workers, ReconcileCommit(w) PROVE StaysSettled(r)
    BY <1>7 DEF ReconcileCommit
<1>8. ASSUME NEW w \in Workers, BeginLaneCycle(w) PROVE StaysSettled(r)
    BY <1>8 DEF BeginLaneCycle
<1>9. ASSUME NEW w \in Workers, PickCanceled(w) PROVE StaysSettled(r)
    BY <1>9 DEF PickCanceled
<1>10. ASSUME NEW w \in Workers, CancelQueued(w) PROVE StaysSettled(r)
    BY <1>10 DEF CancelQueued, Cancelable, EndRunNext
<1>11. ASSUME NEW w \in Workers, PickQueued(w) PROVE StaysSettled(r)
    BY <1>11 DEF PickQueued
<1>12. ASSUME NEW w \in Workers, Claim(w) PROVE StaysSettled(r)
    BY <1>12 DEF Claim, Claimable
<1>13. ASSUME NEW w \in Workers, NEW s \in Runs, RunExplicitly(w, s) PROVE StaysSettled(r)
    BY <1>13 DEF RunExplicitly
<1>14. ASSUME NEW w \in Workers, StartRun(w) PROVE StaysSettled(r)
    BY <1>14 DEF StartRun, LoadRow
<1>15. ASSUME NEW w \in Workers, Progress(w) PROVE StaysSettled(r)
    BY <1>15 DEF Progress
<1>16. ASSUME NEW w \in Workers, NEW result \in Terminal, DispatchEnd(w, result) PROVE StaysSettled(r)
    BY <1>16 DEF DispatchEnd
<1>17. ASSUME NEW w \in Workers, DispatchRaises(w) PROVE StaysSettled(r)
    BY <1>17 DEF DispatchRaises, RecordIssue
<1>18. ASSUME NEW w \in Workers, FinalizeRead(w) PROVE StaysSettled(r)
    BY <1>18 DEF FinalizeRead
<1>19. ASSUME NEW w \in Workers, FinalizeWrite(w) PROVE StaysSettled(r)
    BY <1>19 DEF FinalizeWrite
<1>20. ASSUME NEW w \in Workers, FinalizeFault(w) PROVE StaysSettled(r)
    BY <1>20 DEF FinalizeFault, RecordIssue
<1>21. ASSUME NEW w \in Workers, FinishRun(w) PROVE StaysSettled(r)
    BY <1>21 DEF FinishRun, EndRunNext
<1>22. ASSUME NEW w \in Workers, Crash(w) PROVE StaysSettled(r)
    BY <1>22 DEF Crash
<1>23. CASE UNCHANGED vars
    BY <1>23 DEF vars
<1> HIDE DEF StaysSettled, TypeInv, Settled, Terminal, rows, loaded, ending, users, history
<1> QED
    BY <1>1, <1>2, <1>3, <1>4, <1>5, <1>6, <1>7, <1>8, <1>9, <1>10, <1>11, <1>12,
       <1>13, <1>14, <1>15, <1>16, <1>17, <1>18, <1>19, <1>20, <1>21, <1>22, <1>23
       DEF Next, WorkerStep, Retry

\* Once every writer that knew the run open is through, its status is final.
THEOREM SettledRunsStaySettled == Spec => SettledIsFinal
<1>1. TypeInv /\ [Next]_vars => [\A r \in Runs : Settled(r) => StaysSettled(r)]_vars
    BY SettledStep
<1> QED BY <1>1, TypeInvInit, TypeInvStep, PTL DEF Spec, SettledIsFinal

\* A run with a committed cancel request is never claimed afterwards, and the
\* request is never forgotten.  So a run that is reported as canceled before it
\* started and that executes all the same (the finding
\* CanceledBeforeStartIsNotExecuted) was claimed before the cancel was committed.
NoClaimAfterCancel ==
    [][\A r \in Runs : cancelRequested[r] => cancelRequested'[r] /\ claims'[r] = claims[r]]_vars

\* Only request_cancel writes cancel_requested_at, and it sets it.
LEMMA CancelRequestStays ==
    ASSUME TypeInv, [Next]_vars, NEW r \in Runs, cancelRequested[r]
    PROVE  cancelRequested'[r]
<1> USE DEF TypeInv, TypeOK, rows, history
<1>1. ASSUME NEW s \in Runs, Submit(s) PROVE cancelRequested'[r]
    BY <1>1 DEF Submit
<1>2. ASSUME NEW s \in Runs, GoQuiet(s) PROVE cancelRequested'[r]
    BY <1>2 DEF GoQuiet
<1>3. ASSUME NEW u \in Users, NEW s \in Runs, CancelRead(u, s) PROVE cancelRequested'[r]
    BY <1>3 DEF CancelRead
<1>4. ASSUME NEW u \in Users, CancelWrite(u) PROVE cancelRequested'[r]
    BY <1>4 DEF CancelWrite
<1>5. ASSUME NEW u \in Users, CancelLost(u) PROVE cancelRequested'[r]
    BY <1>5 DEF CancelLost
<1>6. ASSUME NEW w \in Workers, ReconcileRead(w) PROVE cancelRequested'[r]
    BY <1>6 DEF ReconcileRead
<1>7. ASSUME NEW w \in Workers, ReconcileCommit(w) PROVE cancelRequested'[r]
    BY <1>7 DEF ReconcileCommit
<1>8. ASSUME NEW w \in Workers, BeginLaneCycle(w) PROVE cancelRequested'[r]
    BY <1>8 DEF BeginLaneCycle
<1>9. ASSUME NEW w \in Workers, PickCanceled(w) PROVE cancelRequested'[r]
    BY <1>9 DEF PickCanceled
<1>10. ASSUME NEW w \in Workers, CancelQueued(w) PROVE cancelRequested'[r]
    BY <1>10 DEF CancelQueued, Cancelable, EndRunNext
<1>11. ASSUME NEW w \in Workers, PickQueued(w) PROVE cancelRequested'[r]
    BY <1>11 DEF PickQueued
<1>12. ASSUME NEW w \in Workers, Claim(w) PROVE cancelRequested'[r]
    BY <1>12 DEF Claim, Claimable
<1>13. ASSUME NEW w \in Workers, NEW s \in Runs, RunExplicitly(w, s) PROVE cancelRequested'[r]
    BY <1>13 DEF RunExplicitly
<1>14. ASSUME NEW w \in Workers, StartRun(w) PROVE cancelRequested'[r]
    BY <1>14 DEF StartRun, LoadRow
<1>15. ASSUME NEW w \in Workers, Progress(w) PROVE cancelRequested'[r]
    BY <1>15 DEF Progress
<1>16. ASSUME NEW w \in Workers, NEW result \in Terminal, DispatchEnd(w, result) PROVE cancelRequested'[r]
    BY <1>16 DEF DispatchEnd
<1>17. ASSUME NEW w \in Workers, DispatchRaises(w) PROVE cancelRequested'[r]
    BY <1>17 DEF DispatchRaises, RecordIssue
<1>18. ASSUME NEW w \in Workers, FinalizeRead(w) PROVE cancelRequested'[r]
    BY <1>18 DEF FinalizeRead
<1>19. ASSUME NEW w \in Workers, FinalizeWrite(w) PROVE cancelRequested'[r]
    BY <1>19 DEF FinalizeWrite
<1>20. ASSUME NEW w \in Workers, FinalizeFault(w) PROVE cancelRequested'[r]
    BY <1>20 DEF FinalizeFault, RecordIssue
<1>21. ASSUME NEW w \in Workers, FinishRun(w) PROVE cancelRequested'[r]
    BY <1>21 DEF FinishRun, EndRunNext
<1>22. ASSUME NEW w \in Workers, Crash(w) PROVE cancelRequested'[r]
    BY <1>22 DEF Crash
<1>23. CASE UNCHANGED vars
    BY <1>23 DEF vars
<1> QED
    BY <1>1, <1>2, <1>3, <1>4, <1>5, <1>6, <1>7, <1>8, <1>9, <1>10, <1>11, <1>12,
       <1>13, <1>14, <1>15, <1>16, <1>17, <1>18, <1>19, <1>20, <1>21, <1>22, <1>23
       DEF Next, WorkerStep, Retry

\* The condition of the claim and the finality of the request keep it from starting.
THEOREM CanceledRunsDoNotStart == Spec => NoClaimAfterCancel
<1>1. ASSUME TypeInv, [Next]_vars, NEW r \in Runs, cancelRequested[r]
      PROVE  cancelRequested'[r] /\ claims'[r] = claims[r]
    <2>1. cancelRequested'[r]
        BY <1>1, CancelRequestStays
    <2>2. CASE NoClaim
        BY <2>1, <2>2 DEF NoClaim
    <2>3. ASSUME NEW w \in Workers, Claims(w) PROVE claims'[r] = claims[r]
        <3>1. job[w] # r /\ claims' = [claims EXCEPT ![job[w]] = @ + 1]
            BY <1>1, <2>3 DEF Claims, Claim, Claimable
        <3> QED BY <1>1, <3>1 DEF TypeInv, TypeOK
    <2> QED BY <1>1, <2>1, <2>2, <2>3, ClaimOrNoClaim
<1>2. TypeInv /\ [Next]_vars =>
          [\A r \in Runs : cancelRequested[r] => cancelRequested'[r] /\ claims'[r] = claims[r]]_vars
    BY <1>1
<1> QED BY <1>2, TypeInvInit, TypeInvStep, PTL DEF Spec, NoClaimAfterCancel
=============================================================================
