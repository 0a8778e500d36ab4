---------------------------- MODULE TaskCompletion ----------------------------
(***************************************************************************)
(* The side effects of a finished TaskRun (snapshot refresh, index_daily   *)
(* audit, notification), done by a process of its own                      *)
(* (src/ops/runtime/task_completion_worker.py).  Nothing tells it that a   *)
(* run ended: it polls ops.task_run and keeps, in memory only, a cursor    *)
(* into the endings in the order (ended_at, id).                           *)
(*                                                                         *)
(* Every writer of an ending (finalization, cancellation, reconciliation)  *)
(* takes the time first and commits later, so endings may be committed in  *)
(* another order than that of the cursor; and TaskRunLifecycle shows that  *)
(* an ended row may be written again.                                      *)
(***************************************************************************)
EXTENDS Naturals, FiniteSets

CONSTANTS Runs,         \* ids of the task runs
          BatchSize,    \* --batch-size of the worker
          MaxTime,      \* bound: the clock stops here
          MaxWrites,    \* bound: how many endings are written
          MaxCrashes    \* bound: how often the process dies

ASSUME CompletionAssumption ==
    /\ Runs \subseteq Nat \ {0}
    /\ {BatchSize, MaxTime, MaxWrites, MaxCrashes} \subseteq Nat
    /\ BatchSize > 0 /\ MaxTime > 0

VARIABLES
    now,        \* the clock of the writers
    \* the rows of ops.task_run
    endedAt,    \* TaskRun.ended_at, 0 for NULL
    terminal,   \* the status is a terminal one
    writing,    \* endings that have their time and are not committed yet
    writes,     \* bound: endings begun so far
    \* the completion worker
    pc,         \* where its cycle is; "start" while it has no cursor
    cursor,     \* the ending it handled last
    batch,      \* the loaded endings it has still to handle
    view,       \* ended_at as its session holds it, 0 once expired
    crashes,    \* bound: how often it died
    \* history: what the properties speak of
    handled,    \* endings whose side effects were started
    again,      \* endings whose side effects were started twice
    watched,    \* endings committed while the worker had a cursor
    late,       \* endings committed behind one that was there already
    rewritten   \* a row that had ended was written again

table   == <<endedAt, terminal>>
writers == <<writing, writes>>
worker  == <<pc, cursor, batch, view>>
history == <<handled, again, watched, late, rewritten>>
vars == <<now, table, writers, worker, crashes, history>>

-----------------------------------------------------------------------------
Times == 1 .. MaxTime

\* An ending is the pair (ended_at, id); endings are ordered like pairs.
Endings == Times \X Runs

Before(p, q) == \/ p[1] < q[1]
                \/ p[1] = q[1] /\ p[2] < q[2]

RunOf(p) == p[2]

EndingOf(r) == <<endedAt[r], r>>

\* The endings a select over the terminal rows sees.
Ended == {EndingOf(r) : r \in {x \in Runs : terminal[x] /\ endedAt[x] # 0}}

\* The cursor before the first ending (ended_at None).
Beginning == <<0, 0>>

\* What is still of use to a submitter: handled, about to be, or ahead.
Kept(p) == p \in handled \/ p \in batch \/ Before(cursor, p)

Init ==
    /\ now = 1
    /\ \E ended \in SUBSET Runs :
          /\ endedAt = [r \in Runs |-> IF r \in ended THEN 1 ELSE 0]
          /\ terminal = [r \in Runs |-> r \in ended]
    /\ writing = {}
    /\ writes = 0
    /\ pc = "start"
    /\ cursor = Beginning
    /\ batch = {}
    /\ view = [r \in Runs |-> 0]
    /\ crashes = 0
    /\ handled = {}
    /\ again = {}
    /\ watched = {}
    /\ late = {}
    /\ rewritten = FALSE

-----------------------------------------------------------------------------
(***************************************************************************)
(* The writers of ops.task_run.                                            *)
(***************************************************************************)

Tick ==
    /\ now < MaxTime
    /\ now' = now + 1
    /\ UNCHANGED <<table, writers, worker, crashes, history>>

\* A writer takes the time: now = datetime.now(timezone.utc).
BeginEnding(r) ==
    /\ writes < MaxWrites
    /\ writes' = writes + 1
    /\ writing' = writing \cup {<<now, r>>}
    /\ UNCHANGED <<now, table, worker, crashes, history>>

\* Its commit makes the terminal status and ended_at visible.
CommitEnding(p) ==
    /\ p \in writing
    /\ writing' = writing \ {p}
    /\ endedAt' = [endedAt EXCEPT ![RunOf(p)] = p[1]]
    /\ terminal' = [terminal EXCEPT ![RunOf(p)] = TRUE]
    /\ rewritten' = (rewritten \/ endedAt[RunOf(p)] # 0)
    /\ watched' = {q \in watched : RunOf(q) # RunOf(p)}
                    \cup (IF pc # "start" THEN {p} ELSE {})
    /\ late' = IF \E q \in Ended : Before(p, q) THEN late \cup {p} ELSE late
    /\ UNCHANGED <<now, writes, worker, crashes, handled, again>>

\* A cancel request that read the row before it ended commits now: the row is
\* canceling and keeps its ended_at.
LateCancel(r) ==
    /\ terminal[r]
    /\ writes < MaxWrites
    /\ writes' = writes + 1
    /\ terminal' = [terminal EXCEPT ![r] = FALSE]
    /\ rewritten' = TRUE
    /\ watched' = {q \in watched : RunOf(q) # r}
    /\ UNCHANGED <<now, endedAt, writing, worker, crashes, handled, again, late>>

-----------------------------------------------------------------------------
(***************************************************************************)
(* TaskRunCompletionWorker.run_cycle.                                      *)
(***************************************************************************)

\* Mutant: the cursor starts before the history.
InitializeCursorAtBeginning ==
    /\ pc = "start"
    /\ cursor' = Beginning
    /\ pc' = "poll"
    /\ UNCHANGED <<now, table, writers, batch, view, crashes, history>>

\* The first cycle only puts the cursor on the newest ending.
InitializeCursor ==
    /\ pc = "start"
    /\ \/ cursor' \in {p \in Ended : \A q \in Ended : ~ Before(p, q)}
       \/ Ended = {} /\ cursor' = Beginning
    /\ pc' = "poll"
    /\ UNCHANGED <<now, table, writers, batch, view, crashes, history>>

\* Mutant: endings of the same time are not told apart by the id.
AfterCursorByTime(p) == cursor[1] < p[1]

\* The WHERE clause of load_completed_after.
AfterCursor(p) == Before(cursor, p)

\* load_completed_after: the first BatchSize endings behind the cursor.
LoadBatch ==
    /\ pc = "poll"
    /\ LET new == {p \in Ended : AfterCursor(p)}
       IN  \E S \in SUBSET new :
              /\ \A p \in S, q \in new \ S : Before(p, q)
              /\ Cardinality(S) <= BatchSize
              /\ S = new \/ Cardinality(S) = BatchSize
              /\ batch' = S
              /\ view' = [r \in Runs |-> IF EndingOf(r) \in S THEN endedAt[r] ELSE 0]
              /\ pc' = IF S = {} THEN "poll" ELSE "summary"
    /\ UNCHANGED <<now, table, writers, cursor, crashes, history>>

\* The row of the batch whose turn it is.
Current(p) == p \in batch /\ \A q \in batch : p = q \/ Before(p, q)

\* ended_at as an access to the attribute finds it: an expired row is loaded
\* again.
EndedAtSeen(r) == IF view[r] = 0 THEN endedAt[r] ELSE view[r]

\* Mutant: an expired attribute is used as it is.
AccessExpired(r) == UNCHANGED view

Access(r) == view' = [view EXCEPT ![r] = EndedAtSeen(r)]

\* build_completion_summary reads the row.
BuildSummary(p) ==
    /\ pc = "summary"
    /\ Current(p)
    /\ Access(RunOf(p))
    /\ pc' = "effects"
    /\ UNCHANGED <<now, table, writers, cursor, batch, crashes, history>>

\* The side effects, each of which may fail without consequences.  The audit
\* of index_daily is committed on the worker's own session, or rolled back:
\* either expires every row of the batch.
SideEffects(p) ==
    /\ pc = "effects"
    /\ Current(p)
    /\ LET done == <<view[RunOf(p)], RunOf(p)>>
       IN  /\ handled' = handled \cup {done}
           /\ again' = again \cup (handled \cap {done})
    /\ \/ view' = [r \in Runs |-> 0]
       \/ UNCHANGED view
    /\ pc' = "advance"
    /\ UNCHANGED <<now, table, writers, cursor, batch, crashes, watched, late,
                   rewritten>>

\* The cursor takes the attributes of the row as they are by now.
CursorAfter(p) == <<EndedAtSeen(RunOf(p)), RunOf(p)>>

AdvanceCursor(p) ==
    /\ pc = "advance"
    /\ Current(p)
    /\ cursor' = CursorAfter(p)
    /\ Access(RunOf(p))
    /\ batch' = batch \ {p}
    /\ pc' = IF batch = {p} THEN "poll" ELSE "summary"
    /\ UNCHANGED <<now, table, writers, crashes, history>>

\* The process dies, or build_completion_summary raises, which nothing
\* catches; systemd starts it again, without a cursor.
Crash ==
    /\ pc # "start"
    /\ crashes < MaxCrashes
    /\ crashes' = crashes + 1
    /\ pc' = "start"
    /\ cursor' = Beginning
    /\ batch' = {}
    /\ view' = [r \in Runs |-> 0]
    /\ watched' = {}
    /\ UNCHANGED <<now, table, writers, handled, again, late, rewritten>>

-----------------------------------------------------------------------------
WorkerStep ==
    \/ InitializeCursor
    \/ LoadBatch
    \/ \E p \in Endings : BuildSummary(p) \/ SideEffects(p) \/ AdvanceCursor(p)

Next ==
    \/ Tick
    \/ \E r \in Runs : BeginEnding(r) \/ LateCancel(r)
    \/ \E p \in Endings : CommitEnding(p)
    \/ WorkerStep
    \/ Crash

Spec == Init /\ [][Next]_vars

\* The serve loop goes on for ever.
FairSpec == Spec /\ WF_vars(WorkerStep)

-----------------------------------------------------------------------------
(***************************************************************************)
(* Properties.                                                             *)
(***************************************************************************)

\* The types of the variables.
TypeOK ==
    /\ now \in Times
    /\ endedAt \in [Runs -> {0} \cup Times]
    /\ terminal \in [Runs -> BOOLEAN]
    /\ writing \subseteq Endings
    /\ writes \in 0 .. MaxWrites
    /\ pc \in {"start", "poll", "summary", "effects", "advance"}
    /\ cursor \in ({0} \cup Times) \X ({0} \cup Runs)
    /\ batch \subseteq Endings
    /\ view \in [Runs -> {0} \cup Times]
    /\ crashes \in 0 .. MaxCrashes
    /\ handled \subseteq Endings
    /\ again \subseteq Endings
    /\ watched \subseteq Endings
    /\ late \subseteq Endings
    /\ rewritten \in BOOLEAN

\* While every row ends once, no ending is handled twice: neither equal times
\* and batches that end between them, nor the restart of the process, which
\* puts the cursor on the newest ending, repeat a notification.
HandledAtMostOnce == ~ rewritten => again = {}

\* While every row ends once, an ending that the worker was there to see and
\* that was committed in the order of the endings is never passed over by the
\* cursor.
OrderlyEndingIsNotMissed ==
    ~ rewritten => \A p \in watched \ late : Kept(p)

\* Such an ending is handled in the end, unless the process dies.
OrderlyEndingIsHandled ==
    \A p \in Endings :
        (p \in watched \ late /\ ~ rewritten) ~>
            (p \in handled \/ p \notin watched \/ rewritten)

\* What the plan of the worker says of every order of commits: a run that ends
\* while the worker runs normally is handled.
EndingIsNotMissed == ~ rewritten => \A p \in watched : Kept(p)
=============================================================================
