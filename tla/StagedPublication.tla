--------------------------- MODULE StagedPublication ---------------------------
(***************************************************************************)
(* The staged stream path of the ingestion executor (fund_portfolio):      *)
(* the pages of a report period are committed one by one to a shared stage *)
(* table and published to the serving table in one transaction.            *)
(* Executions of several processes share the stage table, and the session- *)
(* level advisory lock of PostgreSQL keeps them apart; the lock belongs to *)
(* a connection, and connections come from and go back to a pool.          *)
(*                                                                         *)
(* A row is a pair <<identity, content hash>>.  Planning, connecting and   *)
(* every transaction are steps of their own; a commit that fails may have  *)
(* been durable.                                                           *)
(***************************************************************************)
EXTENDS Integers, FiniteSets

CONSTANTS Executions,   \* calls of _run_staged_units_serially
          Conns,        \* slots of the connection pools
          Host,         \* the process an execution runs in
          Home,         \* the process a pool slot belongs to
          NumPeriods,   \* report periods, in order
          Ids,          \* identities of facts within a period
          FundOf,       \* the fund (ts_code) of an identity
          Hashes,       \* source_content_hash
          All,          \* instead of a fund: the whole market
          NoConn,       \* instead of a slot: no connection
          MaxPages,     \* bound: pages of a unit
          MaxPageRows,  \* bound: rows of a page
          MaxFaults     \* bound: crashes and lost connections

ASSUME PublicationAssumption ==
    /\ {NumPeriods, MaxPages, MaxPageRows, MaxFaults} \subseteq Nat
    /\ DOMAIN Host = Executions /\ DOMAIN Home = Conns
    /\ NoConn \notin Conns
    /\ DOMAIN FundOf = Ids
    /\ \A i \in Ids : FundOf[i] # All

VARIABLES
    \* an execution
    pc,         \* where it is
    outcome,    \* how it ended, "none" before
    repair,     \* the fund of a repair, or All
    cur,        \* the period of its current unit
    last,       \* the period of its last unit
    pages,      \* bound: pages taken of the current unit so far
    unit_done,  \* _RunState.unit_done
    conn,       \* the slot of StagedStreamPublisher.connection
    \* PostgreSQL and the pools
    locks,      \* how often a connection holds the advisory lock
    broken,     \* connections in use whose server side is gone
    stage,      \* stage rows <<execution, period, row>>
    serving,    \* rows of core_serving.fund_portfolio by period
    faults,     \* bound: crashes and lost connections so far
    \* history: what the properties speak of
    delivered,  \* the rows of the accepted pages of the current unit
    published   \* the periods whose publication is durable

execution == <<pc, outcome, repair, cur, last, pages, unit_done, conn>>
database  == <<locks, broken, stage, serving>>
history   == <<delivered, published>>
vars == <<execution, database, faults, history>>

-----------------------------------------------------------------------------
Periods == 1 .. NumPeriods
Funds == {FundOf[i] : i \in Ids}
Rows == Ids \X Hashes

\* Before and in __enter__, in the body, in __exit__, and after it.
Places == {"idle", "planned", "connected", "locked"}
          \cup {"between", "paging", "publishing"}
          \cup {"exiting", "unlocking", "ended"}

InUse(c) == \E e \in Executions : conn[e] = c
Connected(e) == conn[e] # NoConn /\ conn[e] \notin broken

\* Mutant: the lock is not asked for.
NoLock(c) == TRUE

\* pg_try_advisory_lock succeeds: no other session holds the lock, which is
\* reentrant within one session.
LockFree(c) == \A d \in Conns \ {c} : locks[d] = 0

\* The rows with one stage_run_id: begin_unit makes a fresh one for each unit.
StagedBy(e, p) == {r \in Rows : <<e, p, r>> \in stage}

OneContentEach(S) == \A r, s \in S : r[1] = s[1] => r = s
OfFund(S, k) == {r \in S : k = All \/ FundOf[r[1]] = k}

\* stage_page takes the rows: all belong to the requested fund, and no
\* identity comes with two contents, in this page or across pages.
Stageable(e, page) == /\ OfFund(page, repair[e]) = page
                      /\ OneContentEach(StagedBy(e, cur[e]) \cup page)

\* What finalize_scope inserts: the identities that are not there.
NewFacts(staged, facts) == {s \in staged : \A r \in facts : r[1] # s[1]}

Regression(staged, facts) == \E r \in facts : \A s \in staged : s[1] # r[1]

\* Mutant: a published fact may come with another content.
ConflictIgnored(staged, facts) == FALSE

Conflict(staged, facts) == \E r \in facts, s \in staged : r[1] = s[1] /\ r # s

\* finalize_scope commits: the stage is not empty, no published fact is
\* missing in it or has another content, and the counts agree in the end.
Publishable(e) ==
    LET staged == StagedBy(e, cur[e])
        facts  == OfFund(serving[cur[e]], repair[e])
    IN  /\ staged # {}
        /\ ~ Regression(staged, facts)
        /\ ~ Conflict(staged, serving[cur[e]])
        /\ LET final == facts \cup NewFacts(staged, serving[cur[e]])
           IN  Cardinality(final) = Cardinality(staged)

\* Mutant: the period is deleted and inserted again.
Replaced(e) == [serving EXCEPT ![cur[e]] = StagedBy(e, cur[e])]

Finalized(e) ==
    [serving EXCEPT ![cur[e]] = @ \cup NewFacts(StagedBy(e, cur[e]), @)]

-----------------------------------------------------------------------------
Init ==
    /\ pc = [e \in Executions |-> "idle"]
    /\ outcome = [e \in Executions |-> "none"]
    /\ repair = [e \in Executions |-> All]
    /\ cur = [e \in Executions |-> 1] /\ last = [e \in Executions |-> 1]
    /\ pages = [e \in Executions |-> 0]
    /\ unit_done = [e \in Executions |-> 0]
    /\ conn = [e \in Executions |-> NoConn]
    /\ locks = [c \in Conns |-> 0]
    /\ broken = {} /\ stage = {}
    /\ serving = [p \in Periods |-> {}]
    /\ faults = 0
    /\ delivered = [e \in Executions |-> {}]
    /\ published = [e \in Executions |-> {}]

Goto(e, from, to) == pc[e] = from /\ pc' = [pc EXCEPT ![e] = to]

\* The execution leaves the body of the with statement for __exit__.
Leave(e, from, result) == /\ Goto(e, from, "exiting")
                          /\ outcome' = [outcome EXCEPT ![e] = result]
                          /\ pages' = [pages EXCEPT ![e] = 0]
                          /\ delivered' = [delivered EXCEPT ![e] = {}]

\* The connection goes back to the pool, which replaces a broken one.
GiveBack(e) == /\ conn' = [conn EXCEPT ![e] = NoConn]
               /\ broken' = broken \ {conn[e]}

\* The planner checks that the period of a repair exists.
RepairAllowed(p) == serving[p] # {}

\* The planner: the quarters of a range, or one fund of a period.
Plan(e) == /\ Goto(e, "idle", "planned")
           /\ \E p, q \in Periods, k \in Funds \cup {All} :
                 /\ p <= q
                 /\ k # All => p = q /\ RepairAllowed(p)
                 /\ cur' = [cur EXCEPT ![e] = p]
                 /\ last' = [last EXCEPT ![e] = q]
                 /\ repair' = [repair EXCEPT ![e] = k]
           /\ UNCHANGED <<outcome, pages, unit_done, conn>>
           /\ UNCHANGED <<database, faults, history>>

\* __enter__: a dedicated connection from the pool of the process.
Connect(e) == /\ Goto(e, "planned", "connected")
              /\ \E c \in Conns : /\ Home[c] = Host[e]
                                  /\ ~ InUse(c)
                                  /\ conn' = [conn EXCEPT ![e] = c]
              /\ UNCHANGED <<outcome, repair, cur, last, pages, unit_done>>
              /\ UNCHANGED <<database, faults, history>>

\* __enter__ raises: the body and __exit__ are not run.
EnterRaises(e, from) == /\ Goto(e, from, "ended")
                        /\ outcome' = [outcome EXCEPT ![e] = "failed"]
                        /\ GiveBack(e)
                        /\ UNCHANGED <<repair, cur, last, pages, unit_done>>
                        /\ UNCHANGED <<locks, serving, faults, history>>

\* engine.connect() raises: no slot becomes free in time, or the database is down.
ConnectFails(e) == /\ EnterRaises(e, "planned")
                   /\ UNCHANGED stage

AcquireLock(e) == /\ Goto(e, "connected", "locked")
                  /\ Connected(e)
                  /\ LockFree(conn[e])
                  /\ locks' = [locks EXCEPT ![conn[e]] = @ + 1]
                  /\ UNCHANGED <<outcome, repair, cur, last, pages, unit_done>>
                  /\ UNCHANGED <<conn, broken, stage, serving, faults, history>>

\* Mutant: pg_advisory_lock, which waits for the lock.
WaitsForLock(e) == /\ ~ Connected(e)
                   /\ EnterRaises(e, "connected")
                   /\ UNCHANGED stage

\* staged_scope_busy, or the statement fails: nobody waits for the lock.
LockBusy(e) == /\ ~ (Connected(e) /\ LockFree(conn[e]))
               /\ EnterRaises(e, "connected")
               /\ UNCHANGED stage

\* clear_stage: whatever is there was left behind by a dead execution.
ClearStage(e) == /\ Goto(e, "locked", "between")
                 /\ Connected(e)
                 /\ stage' = {}
                 /\ UNCHANGED <<outcome, repair, cur, last, pages, unit_done>>
                 /\ UNCHANGED <<conn, locks, broken, serving, faults, history>>

\* clear_stage or its commit fails: rollback and close, without unlocking.
ClearStageFails(e) == /\ EnterRaises(e, "locked")
                      /\ \/ UNCHANGED stage
                         \/ Connected(e) /\ stage' = {}

\* Mutant: the loop over the units does not stop.
BeginAnyUnit(e) == /\ Goto(e, "between", "paging")
                   /\ UNCHANGED <<outcome, repair, cur, last, pages, unit_done, conn>>
                   /\ UNCHANGED <<database, faults, history>>

BeginUnit(e) == /\ cur[e] <= last[e]
                /\ Goto(e, "between", "paging")
                /\ UNCHANGED <<outcome, repair, cur, last, pages, unit_done, conn>>
                /\ UNCHANGED <<database, faults, history>>

AllUnitsDone(e) == /\ cur[e] > last[e]
                   /\ Leave(e, "between", "success")
                   /\ UNCHANGED <<repair, cur, last, unit_done, conn>>
                   /\ UNCHANGED <<database, faults, published>>

Pages == {page \in SUBSET Rows : Cardinality(page) <= MaxPageRows}

Staged(e, page) == stage \cup {<<e, cur[e], r>> : r \in page}

\* A page is fetched, normalized and committed to the stage; the short page
\* is the last one.
TakePage(e) ==
    /\ pc[e] = "paging"
    /\ Connected(e)
    /\ pages[e] < MaxPages
    /\ \E page \in Pages, short \in BOOLEAN :
          /\ short \/ (page # {} /\ pages[e] + 1 < MaxPages)
          /\ Stageable(e, page)
          /\ stage' = Staged(e, page)
          /\ delivered' = [delivered EXCEPT ![e] = @ \cup page]
          /\ pc' = [pc EXCEPT ![e] = IF short THEN "publishing" ELSE @]
          /\ pages' = [pages EXCEPT ![e] = IF short THEN 0 ELSE @ + 1]
    /\ UNCHANGED <<outcome, repair, cur, last, unit_done, conn>>
    /\ UNCHANGED <<locks, broken, serving, faults, published>>

\* The source, a rejected row, a conflict or the database stops the unit; a
\* page may be staged although its commit raised.
PageFails(e) ==
    /\ Leave(e, "paging", "failed")
    /\ \/ UNCHANGED stage
       \/ /\ Connected(e)
          /\ \E page \in Pages : Stageable(e, page) /\ stage' = Staged(e, page)
    /\ UNCHANGED <<repair, cur, last, unit_done, conn>>
    /\ UNCHANGED <<locks, broken, serving, faults, published>>

\* A stop request is looked for before every page, and not after the last.
Cancel(e) == /\ Leave(e, "paging", "canceled")
             /\ UNCHANGED <<repair, cur, last, unit_done, conn>>
             /\ UNCHANGED <<database, faults, published>>

\* finalize_unit commits and the unit is counted.
Publish(e) ==
    /\ Goto(e, "publishing", "between")
    /\ Connected(e)
    /\ Publishable(e)
    /\ serving' = Finalized(e)
    /\ published' = [published EXCEPT ![e] = @ \cup {cur[e]}]
    /\ unit_done' = [unit_done EXCEPT ![e] = @ + 1]
    /\ cur' = [cur EXCEPT ![e] = @ + 1]
    /\ delivered' = [delivered EXCEPT ![e] = {}]
    /\ UNCHANGED <<outcome, repair, last, pages, conn>>
    /\ UNCHANGED <<locks, broken, stage, faults>>

\* Mutant: the unit is counted in the finally clause.
PublishFailsCounted(e) ==
    /\ Leave(e, "publishing", "failed")
    /\ unit_done' = [unit_done EXCEPT ![e] = @ + 1]
    /\ UNCHANGED <<serving, published>>
    /\ UNCHANGED <<repair, cur, last, conn>>
    /\ UNCHANGED <<locks, broken, stage, faults>>

\* finalize_unit raises; the transaction may be durable all the same.
PublishFails(e) ==
    /\ Leave(e, "publishing", "failed")
    /\ \/ UNCHANGED <<serving, published>>
       \/ /\ Connected(e)
          /\ Publishable(e)
          /\ serving' = Finalized(e)
          /\ published' = [published EXCEPT ![e] = @ \cup {cur[e]}]
    /\ UNCHANGED <<repair, cur, last, unit_done, conn>>
    /\ UNCHANGED <<locks, broken, stage, faults>>

\* __exit__ deletes the rows of its units, each in a transaction of its own
\* that may fail.  A broken connection is replaced: by a new one in the same
\* slot, or by another one of the pool.
Cleanup(e) ==
    /\ Goto(e, "exiting", "unlocking")
    /\ \E cleaned \in SUBSET Periods :
          stage' = {s \in stage : ~ (s[1] = e /\ s[2] \in cleaned)}
    /\ \E c \in Conns :
          /\ \/ c = conn[e]
             \/ ~ Connected(e) /\ Home[c] = Host[e] /\ ~ InUse(c)
          /\ conn' = [conn EXCEPT ![e] = c]
    /\ broken' = broken \ {conn[e]}
    /\ UNCHANGED <<outcome, repair, cur, last, pages, unit_done>>
    /\ UNCHANGED <<locks, serving, faults, history>>

Ends(e) == /\ Goto(e, "unlocking", "ended")
           /\ GiveBack(e)
           /\ UNCHANGED <<outcome, repair, cur, last, pages, unit_done>>
           /\ UNCHANGED <<stage, serving, faults, history>>

\* pg_advisory_unlock takes back one of the session's acquisitions.
Unlock(e) == /\ Ends(e)
             /\ locks' = [locks EXCEPT ![conn[e]] = IF @ > 0 THEN @ - 1 ELSE 0]

\* The unlock raises; the error is only noted and the connection given back.
UnlockFails(e) == Ends(e) /\ UNCHANGED locks

\* Faults.  PostgreSQL frees the lock of a session that ends; stage rows stay.
Without(lost) == [c \in Conns |-> IF c \in lost THEN 0 ELSE locks[c]]

Fault == faults < MaxFaults /\ faults' = faults + 1

\* A process is killed, and its pool with it.
ProcessDies(h) ==
    LET victims == {e \in Executions : Host[e] = h /\ pc[e] \notin {"idle", "ended"}}
        lost    == {c \in Conns : Home[c] = h}
    IN  /\ Fault
        /\ victims # {}
        /\ pc' = [e \in Executions |-> IF e \in victims THEN "ended" ELSE pc[e]]
        /\ outcome' = [e \in Executions |->
                         IF e \in victims /\ outcome[e] = "none" THEN "crashed" ELSE outcome[e]]
        /\ conn' = [e \in Executions |-> IF e \in victims THEN NoConn ELSE conn[e]]
        /\ locks' = Without(lost)
        /\ broken' = broken \ lost
        /\ pages' = [e \in Executions |-> IF e \in victims THEN 0 ELSE pages[e]]
        /\ delivered' = [e \in Executions |-> IF e \in victims THEN {} ELSE delivered[e]]
        /\ UNCHANGED <<repair, cur, last, unit_done, stage, serving, published>>

\* The server side of a connection in use is gone; the execution learns of it
\* with its next statement.
ConnectionLost(c) == /\ Fault
                     /\ InUse(c)
                     /\ broken' = broken \cup {c}
                     /\ locks' = Without({c})
                     /\ UNCHANGED <<execution, stage, serving, history>>

\* The database restarts: the stage table is UNLOGGED and comes back empty.
DatabaseCrash == /\ Fault
                 /\ broken' = {c \in Conns : InUse(c)}
                 /\ locks' = Without(Conns)
                 /\ stage' = {}
                 /\ UNCHANGED <<execution, serving, history>>

\* pool_recycle: an old idle connection is replaced at its next checkout.
Recycle(c) == /\ ~ InUse(c)
              /\ locks[c] > 0
              /\ locks' = Without({c})
              /\ UNCHANGED <<execution, broken, stage, serving, faults, history>>

Step(e) == \/ Plan(e) \/ Connect(e) \/ ConnectFails(e)
           \/ AcquireLock(e) \/ LockBusy(e)
           \/ ClearStage(e) \/ ClearStageFails(e)
           \/ BeginUnit(e) \/ AllUnitsDone(e)
           \/ TakePage(e) \/ PageFails(e) \/ Cancel(e)
           \/ Publish(e) \/ PublishFails(e)
           \/ Cleanup(e) \/ Unlock(e) \/ UnlockFails(e)

Next == \/ \E e \in Executions : Step(e)
        \/ \E e \in Executions : ProcessDies(Host[e])
        \/ \E c \in Conns : ConnectionLost(c) \/ Recycle(c)
        \/ DatabaseCrash

Spec == Init /\ [][Next]_vars

\* A process that was given an execution goes on with it.  Connect waits for a
\* free slot of the pool, but not for ever; nothing waits for the lock.
FairSpec == Spec /\ \A e \in Executions : WF_vars(Step(e))

-----------------------------------------------------------------------------
\* Types, and the bounds of the counters.
TypeOK ==
    /\ pc \in [Executions -> Places]
    /\ outcome \in [Executions -> {"none", "success", "failed", "canceled", "crashed"}]
    /\ repair \in [Executions -> Funds \cup {All}]
    /\ cur \in [Executions -> 1 .. NumPeriods + 1]
    /\ last \in [Executions -> Nat]
    /\ pages \in [Executions -> 0 .. MaxPages]
    /\ unit_done \in [Executions -> Nat]
    /\ conn \in [Executions -> Conns \cup {NoConn}]
    /\ locks \in [Conns -> Nat]
    /\ broken \subseteq Conns
    /\ stage \subseteq Executions \X Periods \X Rows
    /\ serving \in [Periods -> SUBSET Rows]
    /\ faults \in 0 .. MaxFaults
    /\ delivered \in [Executions -> SUBSET Rows]
    /\ published \in [Executions -> SUBSET Periods]

\* The stage table belongs to one execution at a time: as long as a unit's
\* connection lives, the stage holds exactly the rows of the pages that were
\* accepted for the unit, and no row of another execution
\* (StagedStreamPublisher: lock, clear_stage, stage_page; the stage is shared,
\* and clear_stage deletes the rows of every execution).
StageBelongsToPublisher ==
    \A e \in Executions :
        pc[e] \in {"paging", "publishing"} /\ Connected(e) =>
            /\ StagedBy(e, cur[e]) = delivered[e]
            /\ \A s \in stage : s[1] = e

\* A period changes only when a unit of it was read up to its short page, and
\* then the requested scope is what the source delivered, all of it and nothing
\* else: no crash, lost connection or other execution makes a part of it
\* visible or mixes two deliveries, and a repair adds to a period that is there
\* (IngestionExecutor._run_staged_units_serially
\* and FundPortfolioDAO.finalize_scope).
WholeScopesOnly ==
    [][\A p \in Periods : serving'[p] # serving[p] =>
          \E e \in Executions :
              /\ pc[e] = "publishing" /\ cur[e] = p
              /\ OfFund(serving'[p], repair[e]) = delivered[e]
              /\ serving'[p] \ delivered[e] \subseteq serving[p]
              /\ repair[e] # All => serving[p] # {}]_vars

\* unit_done and rows_committed speak of durable units only, and an execution
\* succeeds only when every unit of its plan is published; what was published
\* but not counted is at most the unit whose commit raised
\* (executor.py: state.unit_done += 1 after finalize_unit).
CountedIsPublished ==
    \A e \in Executions :
        /\ unit_done[e] <= Cardinality(published[e])
        /\ Cardinality(published[e]) <= unit_done[e] + 1
        /\ outcome[e] = "success" => /\ last[e] \in published[e]
                                     /\ unit_done[e] = Cardinality(published[e])

\* The published facts are an ImmutableScopes: a fact stays as it was published,
\* a period has one content per identity, and a repair leaves the facts of other
\* funds alone (FundPortfolioDAO.finalize_scope inserts and never deletes).
Scopes == INSTANCE ImmutableScopes
ImmutableScopesSpec == Scopes!Spec

\* An execution comes to an end, whoever holds the connections of the pool and
\* the lock, and however often connections are lost
\* (StagedStreamPublisher.__enter__ uses pg_try_advisory_lock).
ExecutionEnds ==
    \A e \in Executions : pc[e] = "planned" ~> pc[e] = "ended"

\* "advisory lock must be released explicitly in finally before the dedicated
\* connection is closed, so that no lock leaks into the connection pool"
\* (docs/datasets/public-fund-b7-fund-portfolio-low-level-design-v1.md:320).
NoLockInPool == \A c \in Conns : ~ InUse(c) => locks[c] = 0
=============================================================================
