------------------------- MODULE TaskCompletionProofs -------------------------
(***************************************************************************)
(* Proofs about TaskCompletion, for all runs, batch sizes and bounds: the  *)
(* types, and the two promises the worker keeps as long as every row ends  *)
(* once.                                                                   *)
(***************************************************************************)
EXTENDS TaskCompletion, TLAPS

Positions == Nat \X Nat

\* The order of the endings is a strict total order.
LEMMA BeforeIsTotalOrder ==
    ASSUME NEW p \in Positions, NEW q \in Positions, NEW s \in Positions
    PROVE  /\ ~ Before(p, p)
           /\ p = q \/ Before(p, q) \/ Before(q, p)
           /\ Before(p, q) => ~ Before(q, p)
           /\ Before(p, q) /\ Before(q, s) => Before(p, s)
           /\ Before(p, q) /\ ~ Before(p, s) => ~ Before(q, s)
BY DEF Before, Positions

\* Endings are positions, and none is the beginning.
LEMMA EndingsArePositions ==
    /\ Endings \subseteq Positions
    /\ Beginning \in Positions
    /\ \A p \in Endings : Before(Beginning, p)
    /\ \A p \in Endings : p[1] \in Times /\ p[2] \in Runs /\ p = <<p[1], p[2]>>
<1>1. Times \subseteq Nat \ {0} /\ Runs \subseteq Nat
    BY CompletionAssumption DEF Times
<1>2. \A p \in Endings : p[1] \in Times /\ p[2] \in Runs /\ p = <<p[1], p[2]>>
    BY DEF Endings
<1>3. Endings \subseteq Positions /\ Beginning \in Positions
    BY <1>1 DEF Endings, Positions, Beginning
<1>4. \A p \in Endings : Before(Beginning, p)
    BY <1>1, <1>2 DEF Beginning, Before
<1> QED BY <1>2, <1>3, <1>4

-----------------------------------------------------------------------------
\* What the types depend on: a row of the batch has ended, and the session
\* holds the ended_at of the row it works on.
RowsOfBatchEnded ==
    /\ \A p \in batch : endedAt[p[2]] # 0
    /\ pc = "effects" => \A p \in batch : Current(p) => view[p[2]] # 0

TypeInv == TypeOK /\ RowsOfBatchEnded

\* The invariant holds of a table with any rows ended and a worker without a cursor.
LEMMA TypeInvInit == Init => TypeInv
<1> SUFFICES ASSUME Init PROVE TypeInv
    OBVIOUS
<1>1. 1 \in Times /\ MaxWrites \in Nat /\ MaxCrashes \in Nat
    BY CompletionAssumption DEF Times
<1>2. endedAt \in [Runs -> {0} \cup Times] /\ terminal \in [Runs -> BOOLEAN]
    BY <1>1 DEF Init
<1>3. cursor \in ({0} \cup Times) \X ({0} \cup Runs)
    BY DEF Init, Beginning
<1>4. view \in [Runs -> {0} \cup Times]
    BY DEF Init
<1>5. /\ now \in Times /\ pc = "start" /\ rewritten \in BOOLEAN
      /\ writes \in 0 .. MaxWrites /\ crashes \in 0 .. MaxCrashes
      /\ writing = {} /\ batch = {}
      /\ handled = {} /\ again = {} /\ watched = {} /\ late = {}
  <2>1. rewritten \in BOOLEAN
      BY DEF Init
  <2>2. writes = 0 /\ crashes = 0
      BY DEF Init
  <2>3. writes \in 0 .. MaxWrites /\ crashes \in 0 .. MaxCrashes
      BY <1>1, <2>2
  <2> QED BY <1>1, <2>1, <2>3 DEF Init
<1>6. TypeOK
    BY <1>1, <1>2, <1>3, <1>4, <1>5 DEF TypeOK
<1> QED BY <1>5, <1>6 DEF TypeInv, RowsOfBatchEnded

\* No writer and no step of the worker breaks the type invariant.
LEMMA TypeInvStep == TypeInv /\ [Next]_vars => TypeInv'
<1> SUFFICES ASSUME TypeInv, [Next]_vars PROVE TypeInv'
    OBVIOUS
<1> USE CompletionAssumption, EndingsArePositions DEF TypeInv, TypeOK
<1>1. CASE Tick
    BY <1>1 DEF Tick, table, writers, worker, history, RowsOfBatchEnded,
                Current, Times
<1>2. ASSUME NEW r \in Runs, BeginEnding(r) PROVE TypeInv'
    BY <1>2 DEF BeginEnding, table, worker, history, RowsOfBatchEnded,
                Current, Endings
<1>3. ASSUME NEW r \in Runs, LateCancel(r) PROVE TypeInv'
    BY <1>3 DEF LateCancel, worker, RowsOfBatchEnded, Current
<1>4. ASSUME NEW p \in Endings, CommitEnding(p) PROVE TypeInv'
  <2>1. p[1] \in Times /\ p[1] # 0 /\ RunOf(p) \in Runs
      BY DEF RunOf, Times
  <2>2. TypeOK'
      BY <1>4, <2>1 DEF CommitEnding, worker
  <2>3. RowsOfBatchEnded'
      BY <1>4, <2>1 DEF CommitEnding, worker, RowsOfBatchEnded, Current, Endings
  <2> QED BY <2>2, <2>3
<1>5. CASE InitializeCursor
  <2>1. cursor' \in ({0} \cup Times) \X ({0} \cup Runs)
      BY <1>5 DEF InitializeCursor, Ended, EndingOf, Beginning
  <2> QED
      BY <1>5, <2>1 DEF InitializeCursor, table, writers, history, RowsOfBatchEnded,
                        Current
<1>6. CASE LoadBatch
  <2>1. Ended \subseteq Endings
    <3>1. \A r \in Runs : endedAt[r] # 0 => <<endedAt[r], r>> \in Times \X Runs
        OBVIOUS
    <3> QED BY <3>1 DEF Ended, EndingOf, Endings
  <2>2. \A p \in Ended : endedAt[p[2]] # 0
      BY DEF Ended, EndingOf
  <2>3. batch' \subseteq Ended
      BY <1>6 DEF LoadBatch
  <2>4. view' \in [Runs -> {0} \cup Times]
      BY <1>6 DEF LoadBatch
  <2>5. pc' \in {"poll", "summary"}
      BY <1>6 DEF LoadBatch
  <2>6. UNCHANGED <<now, table, writers, cursor, crashes, history>>
      BY <1>6 DEF LoadBatch
  <2> QED
      BY <2>1, <2>2, <2>3, <2>4, <2>5, <2>6
         DEF table, writers, history, RowsOfBatchEnded
<1>7. ASSUME NEW p \in Endings, BuildSummary(p) PROVE TypeInv'
  <2>1. p \in batch /\ RunOf(p) = p[2] /\ endedAt[p[2]] # 0
      BY <1>7 DEF BuildSummary, Current, RunOf, RowsOfBatchEnded
  <2>2. view' = [view EXCEPT ![p[2]] = EndedAtSeen(p[2])]
      BY <1>7, <2>1 DEF BuildSummary, Access
  <2>3. view' \in [Runs -> {0} \cup Times] /\ view'[p[2]] # 0
      BY <2>1, <2>2 DEF EndedAtSeen
  <2>4. \A q \in batch : Current(q) => q = p
      BY <1>7, BeforeIsTotalOrder DEF BuildSummary, Current
  <2>5. \A q \in batch' : Current(q)' => view'[q[2]] # 0
      BY <1>7, <2>3, <2>4 DEF BuildSummary, Current
  <2> QED
      BY <1>7, <2>3, <2>5
         DEF BuildSummary, table, writers, history, RowsOfBatchEnded
<1>8. ASSUME NEW p \in Endings, SideEffects(p) PROVE TypeInv'
  <2>1. <<view[RunOf(p)], RunOf(p)>> \in Endings
      BY <1>8 DEF SideEffects, Current, RunOf, RowsOfBatchEnded, Endings
  <2>2. handled' \subseteq Endings /\ again' \subseteq Endings
      BY <1>8, <2>1 DEF SideEffects
  <2>3. view' \in [Runs -> {0} \cup Times]
      BY <1>8 DEF SideEffects
  <2> QED
      BY <1>8, <2>2, <2>3 DEF SideEffects, table, writers, RowsOfBatchEnded
<1>9. ASSUME NEW p \in Endings, AdvanceCursor(p) PROVE TypeInv'
  <2>1. EndedAtSeen(RunOf(p)) \in {0} \cup Times /\ RunOf(p) \in Runs
      BY DEF EndedAtSeen, RunOf
  <2>2. cursor' \in ({0} \cup Times) \X ({0} \cup Runs)
      BY <1>9, <2>1 DEF AdvanceCursor, CursorAfter
  <2>3. view' \in [Runs -> {0} \cup Times]
      BY <1>9, <2>1 DEF AdvanceCursor, Access
  <2>4. pc' \in {"poll", "summary"} /\ batch' \subseteq batch
      BY <1>9 DEF AdvanceCursor
  <2> QED
      BY <1>9, <2>2, <2>3, <2>4
         DEF AdvanceCursor, table, writers, history, RowsOfBatchEnded
<1>10. CASE Crash
    BY <1>10 DEF Crash, table, writers, RowsOfBatchEnded, Beginning
<1>11. CASE UNCHANGED vars
    BY <1>11 DEF vars, table, writers, worker, history, RowsOfBatchEnded, Current
<1> QED
    BY <1>1, <1>2, <1>3, <1>4, <1>5, <1>6, <1>7, <1>8, <1>9, <1>10, <1>11
       DEF Next, WorkerStep

\* Every state of the worker and its table has the declared types; in
\* particular no side effect is started for a row whose ended_at the session
\* does not hold.
THEOREM TypeCorrect == Spec => []TypeOK
<1>1. Spec => []TypeInv
    BY TypeInvInit, TypeInvStep, PTL DEF Spec
<1> QED BY <1>1, PTL DEF TypeInv

-----------------------------------------------------------------------------
(***************************************************************************)
(* The worker's promises while every row ends once.                        *)
(***************************************************************************)

\* A position of the table: the ending a row has.
InTable(p) == p[1] = endedAt[p[2]] /\ p[1] # 0

\* The copies the worker and the history hold agree with the table.
CopiesAgree ==
    /\ \A r \in Runs : view[r] = 0 \/ view[r] = endedAt[r]
    /\ \A r \in Runs : endedAt[r] # 0 => terminal[r]
    /\ \A p \in batch \cup handled \cup watched : InTable(p)
    /\ cursor = Beginning \/ (cursor \in Endings /\ InTable(cursor))
    /\ pc = "start" => batch = {} /\ watched = {}

\* The cursor separates what was handled from what will be.
CursorSeparates ==
    /\ \A p \in batch : Before(cursor, p)
    /\ pc \notin {"start", "advance"} => \A p \in handled : ~ Before(cursor, p)
    /\ pc = "advance" =>
          /\ \A p \in handled : Before(cursor, p) => Current(p)
          /\ \A p \in batch : Current(p) => p \in handled

\* An orderly ending is behind the batch when it is not in it.
OrderlyEndingsAhead ==
    \A p \in watched \ late :
        \/ p \in handled
        \/ p \in batch
        \/ Before(cursor, p) /\ \A q \in batch : Before(q, p)

Promises == CopiesAgree /\ CursorSeparates /\ OrderlyEndingsAhead /\ again = {}

WhileRowsEndOnce == ~ rewritten => Promises

\* At the start the worker has promised nothing.
LEMMA PromisesInit == Init => WhileRowsEndOnce
BY DEF Init, WhileRowsEndOnce, Promises, CopiesAgree, CursorSeparates,
       OrderlyEndingsAhead

\* What the table says of a position.
LEMMA EndedIsInTable ==
    ASSUME TypeInv, CopiesAgree
    PROVE  /\ Ended \subseteq Endings
           /\ \A p \in Endings : p \in Ended <=> InTable(p)
<1>1. \A r \in Runs : endedAt[r] # 0 => <<endedAt[r], r>> \in Times \X Runs
    BY DEF TypeInv, TypeOK
<1>2. Ended \subseteq Endings
    BY <1>1 DEF Ended, EndingOf, Endings
<1>3. \A p \in Endings : p \in Ended => InTable(p)
    BY DEF Ended, EndingOf, InTable
<1>4. ASSUME NEW p \in Endings, InTable(p) PROVE p \in Ended
  <2>1. p[2] \in Runs /\ p = <<endedAt[p[2]], p[2]>> /\ endedAt[p[2]] # 0
      BY <1>4, EndingsArePositions DEF InTable
  <2>2. terminal[p[2]]
      BY <2>1 DEF CopiesAgree
  <2> QED BY <2>1, <2>2 DEF Ended, EndingOf
<1> QED BY <1>2, <1>3, <1>4

\* As long as every row ends once, the promises of the cursor are kept by every
\* step: commits that overtake each other, batches, expired rows and restarts.
LEMMA PromisesStep ==
    TypeInv /\ WhileRowsEndOnce /\ [Next]_vars => WhileRowsEndOnce'
<1> SUFFICES ASSUME TypeInv, WhileRowsEndOnce, [Next]_vars, ~ rewritten'
             PROVE  Promises'
    BY DEF WhileRowsEndOnce
<1> USE EndingsArePositions
<1>a. /\ batch \subseteq Endings /\ handled \subseteq Endings
      /\ watched \subseteq Endings /\ late \subseteq Endings
      /\ writing \subseteq Endings /\ cursor \in Positions
      /\ endedAt \in [Runs -> {0} \cup Times] /\ view \in [Runs -> {0} \cup Times]
      /\ terminal \in [Runs -> BOOLEAN]
  <2>1. Times \subseteq Nat /\ Runs \subseteq Nat
      BY CompletionAssumption DEF Times
  <2>2. cursor \in Positions
    <3>1. PICK at \in {0} \cup Times, r \in {0} \cup Runs : cursor = <<at, r>>
        BY DEF TypeInv, TypeOK
    <3>2. at \in Nat /\ r \in Nat
        BY <2>1
    <3> QED BY <3>1, <3>2 DEF Positions
  <2> QED BY <2>2 DEF TypeInv, TypeOK
<1>b. ~ rewritten => Promises
    BY DEF WhileRowsEndOnce
<1>1. CASE Tick \/ \E r \in Runs : BeginEnding(r)
  <2>1. UNCHANGED <<table, worker, history>>
      BY <1>1 DEF Tick, BeginEnding
  <2> QED
      BY <1>b, <2>1 DEF table, worker, history, Promises, CopiesAgree, InTable,
                        CursorSeparates, OrderlyEndingsAhead, Current
<1>2. ASSUME NEW r \in Runs, LateCancel(r) PROVE Promises'
    BY <1>2 DEF LateCancel
<1>3. ASSUME NEW p \in Endings, CommitEnding(p) PROVE Promises'
  <2>1. Promises /\ endedAt[p[2]] = 0 /\ RunOf(p) = p[2]
      BY <1>3, <1>b DEF CommitEnding, RunOf
  <2>2. /\ UNCHANGED <<pc, cursor, batch, view, handled, again>>
        /\ endedAt' = [endedAt EXCEPT ![p[2]] = p[1]]
        /\ terminal' = [terminal EXCEPT ![p[2]] = TRUE]
        /\ watched' = {q \in watched : q[2] # p[2]}
                         \cup (IF pc # "start" THEN {p} ELSE {})
        /\ late' = IF \E q \in Ended : Before(p, q) THEN late \cup {p} ELSE late
      BY <1>3, <2>1 DEF CommitEnding, worker, RunOf
  <2>3. p[1] # 0 /\ p[2] \in Runs
      BY DEF Times
  <2>4. \A q \in Endings : InTable(q) => q[2] # p[2] /\ InTable(q)'
      BY <1>a, <2>1, <2>2 DEF InTable
  <2>5. InTable(p)'
      BY <1>a, <2>2, <2>3 DEF InTable
  <2>6. CopiesAgree'
    <3>1. \A r \in Runs : view'[r] = 0 \/ view'[r] = endedAt'[r]
        BY <1>a, <2>1, <2>2 DEF Promises, CopiesAgree
    <3>2. \A r \in Runs : endedAt'[r] # 0 => terminal'[r]
        BY <1>a, <2>1, <2>2 DEF Promises, CopiesAgree
    <3>3. \A q \in batch' \cup handled' \cup watched' : InTable(q)'
        BY <1>a, <2>1, <2>2, <2>4, <2>5 DEF Promises, CopiesAgree
    <3>4. cursor' = Beginning \/ (cursor' \in Endings /\ InTable(cursor)')
        BY <2>1, <2>2, <2>4 DEF Promises, CopiesAgree
    <3>5. pc' = "start" => batch' = {} /\ watched' = {}
        BY <2>1, <2>2 DEF Promises, CopiesAgree
    <3> QED BY <3>1, <3>2, <3>3, <3>4, <3>5 DEF CopiesAgree
  <2>7. CursorSeparates'
      BY <2>1, <2>2 DEF Promises, CursorSeparates, Current
  <2>8. OrderlyEndingsAhead'
    <3> SUFFICES ASSUME NEW q \in watched' \ late'
                 PROVE  \/ q \in handled'
                        \/ q \in batch'
                        \/ Before(cursor', q) /\ \A s \in batch' : Before(s, q)
        BY DEF OrderlyEndingsAhead
    <3>1. CASE q # p
        BY <2>1, <2>2, <3>1 DEF Promises, OrderlyEndingsAhead
    <3>2. CASE q = p
      <4>1. \A s \in Ended : ~ Before(p, s)
          BY <2>2, <3>2
      <4>2. \A s \in Endings : InTable(s) => Before(s, p)
          BY <2>1, <2>4, <4>1, EndedIsInTable, BeforeIsTotalOrder DEF Promises
      <4>3. \A s \in batch : Before(s, p)
          BY <1>a, <2>1, <4>2 DEF Promises, CopiesAgree
      <4>4. Before(cursor, p)
          BY <2>1, <4>2 DEF Promises, CopiesAgree
      <4> QED BY <2>2, <3>2, <4>3, <4>4
    <3> QED BY <3>1, <3>2
  <2> QED BY <2>1, <2>2, <2>6, <2>7, <2>8 DEF Promises
<1>4. CASE InitializeCursor
  <2>1. Promises /\ pc = "start"
      BY <1>4, <1>b DEF InitializeCursor, history
  <2>2. /\ UNCHANGED <<endedAt, terminal, batch, view, handled, again, watched, late>>
        /\ pc' = "poll"
        /\ batch = {} /\ watched = {}
      BY <1>4, <2>1 DEF InitializeCursor, table, history, Promises, CopiesAgree
  <2>3. \/ cursor' \in Ended /\ \A q \in Ended : ~ Before(cursor', q)
        \/ Ended = {} /\ cursor' = Beginning
      BY <1>4 DEF InitializeCursor
  <2>4. handled \subseteq Ended
      BY <1>a, <2>1, EndedIsInTable DEF Promises, CopiesAgree
  <2>5. cursor' = Beginning \/ (cursor' \in Endings /\ InTable(cursor'))
      BY <2>1, <2>3, EndedIsInTable DEF Promises
  <2>6. CopiesAgree'
    <3>1. cursor' = Beginning \/ (cursor' \in Endings /\ InTable(cursor)')
        BY <2>2, <2>5 DEF InTable
    <3> QED BY <2>1, <2>2, <3>1 DEF Promises, CopiesAgree, InTable
  <2>7. CursorSeparates'
      BY <2>2, <2>3, <2>4 DEF CursorSeparates
  <2>8. OrderlyEndingsAhead'
      BY <2>2 DEF OrderlyEndingsAhead
  <2> QED BY <2>1, <2>2, <2>6, <2>7, <2>8 DEF Promises
<1>5. CASE LoadBatch
  <2>1. Promises /\ pc = "poll"
      BY <1>5, <1>b DEF LoadBatch, history
  <2>2. UNCHANGED <<endedAt, terminal, cursor, handled, again, watched, late>>
      BY <1>5 DEF LoadBatch, table, history
  <2>3. /\ batch' \subseteq Ended
        /\ \A q \in batch' : Before(cursor, q)
        /\ \A q \in Ended : Before(cursor, q) =>
              q \in batch' \/ \A s \in batch' : Before(s, q)
        /\ \A r \in Runs : view'[r] \in {0, endedAt[r]}
        /\ pc' \in {"poll", "summary"}
      BY <1>5 DEF LoadBatch, AfterCursor
  <2>4. \A q \in batch' : InTable(q)
      BY <2>1, <2>3, EndedIsInTable DEF Promises
  <2>5. CopiesAgree'
      BY <2>1, <2>2, <2>3, <2>4 DEF Promises, CopiesAgree, InTable
  <2>6. CursorSeparates'
      BY <2>1, <2>2, <2>3 DEF Promises, CursorSeparates
  <2>7. OrderlyEndingsAhead'
    <3> SUFFICES ASSUME NEW q \in watched \ late, q \notin handled
                 PROVE  q \in batch' \/ (Before(cursor, q) /\ \A s \in batch' : Before(s, q))
        BY <2>2 DEF OrderlyEndingsAhead
    <3>1. Before(cursor, q)
        BY <2>1 DEF Promises, OrderlyEndingsAhead, CursorSeparates
    <3>2. q \in Ended
        BY <1>a, <2>1, EndedIsInTable DEF Promises, CopiesAgree
    <3> QED BY <2>3, <3>1, <3>2
  <2> QED BY <2>1, <2>2, <2>5, <2>6, <2>7 DEF Promises
<1>6. ASSUME NEW p \in Endings, BuildSummary(p) PROVE Promises'
  <2>1. Promises /\ pc = "summary"
      BY <1>6, <1>b DEF BuildSummary, history
  <2>2. /\ UNCHANGED <<endedAt, terminal, cursor, batch, handled, again, watched, late>>
        /\ pc' = "effects"
        /\ view' = [view EXCEPT ![RunOf(p)] = EndedAtSeen(RunOf(p))]
      BY <1>6 DEF BuildSummary, table, history, Access
  <2>3. \A r \in Runs : view'[r] = 0 \/ view'[r] = endedAt[r]
      BY <1>a, <2>1, <2>2 DEF Promises, CopiesAgree, EndedAtSeen
  <2> QED
      BY <2>1, <2>2, <2>3 DEF Promises, CopiesAgree, InTable, CursorSeparates,
                              OrderlyEndingsAhead
<1>7. ASSUME NEW p \in Endings, SideEffects(p) PROVE Promises'
  <2>1. Promises /\ pc = "effects" /\ p \in batch /\ Current(p)
      BY <1>7, <1>b DEF SideEffects, Current
  <2>2. <<view[RunOf(p)], RunOf(p)>> = p
    <3>1. view[p[2]] # 0 /\ p[1] = endedAt[p[2]]
        BY <1>a, <2>1 DEF TypeInv, RowsOfBatchEnded, Promises, CopiesAgree, InTable
    <3>2. view[p[2]] = p[1]
        BY <2>1, <3>1 DEF Promises, CopiesAgree
    <3> QED BY <3>2 DEF RunOf
  <2>3. /\ UNCHANGED <<endedAt, terminal, cursor, batch, watched, late>>
        /\ pc' = "advance"
        /\ handled' = handled \cup {p}
        /\ again' = again \cup (handled \cap {p})
        /\ \A r \in Runs : view'[r] \in {0, view[r]}
      BY <1>7, <2>2 DEF SideEffects, table
  <2>4. p \notin handled
      BY <2>1 DEF Promises, CursorSeparates
  <2>5. CopiesAgree'
      BY <2>1, <2>3 DEF Promises, CopiesAgree, InTable
  <2>6. CursorSeparates'
    <3>1. \A q \in batch : Current(q) => q = p
        BY <1>a, <2>1, BeforeIsTotalOrder DEF Current
    <3>2. \A q \in handled' : Before(cursor, q) => Current(q)
        BY <2>1, <2>3 DEF Promises, CursorSeparates
    <3>3. \A q \in batch : Current(q) => q \in handled'
        BY <2>3, <3>1
    <3> QED BY <2>1, <2>3, <3>2, <3>3 DEF Promises, CursorSeparates, Current
  <2>7. OrderlyEndingsAhead'
      BY <2>1, <2>3 DEF Promises, OrderlyEndingsAhead
  <2> QED BY <2>1, <2>3, <2>4, <2>5, <2>6, <2>7 DEF Promises
<1>8. ASSUME NEW p \in Endings, AdvanceCursor(p) PROVE Promises'
  <2>1. Promises /\ pc = "advance" /\ p \in batch /\ Current(p)
      BY <1>8, <1>b DEF AdvanceCursor, Current, history
  <2>2. InTable(p)
      BY <2>1 DEF Promises, CopiesAgree
  <2>3. CursorAfter(p) = p
      BY <2>1, <2>2 DEF CursorAfter, EndedAtSeen, RunOf, Promises, CopiesAgree, InTable
  <2>4. /\ UNCHANGED <<endedAt, terminal, handled, again, watched, late>>
        /\ cursor' = p
        /\ batch' = batch \ {p}
        /\ view' = [view EXCEPT ![p[2]] = EndedAtSeen(p[2])]
        /\ pc' \in {"poll", "summary"}
      BY <1>8, <2>3 DEF AdvanceCursor, table, history, Access, RunOf
  <2>5. \A r \in Runs : view'[r] = 0 \/ view'[r] = endedAt[r]
      BY <1>a, <2>1, <2>4 DEF Promises, CopiesAgree, EndedAtSeen
  <2>6. CopiesAgree'
      BY <2>1, <2>2, <2>4, <2>5 DEF Promises, CopiesAgree, InTable
  <2>7. \A q \in batch' : Before(p, q)
      BY <2>1, <2>4 DEF Current
  <2>8. \A q \in handled : ~ Before(p, q)
    <3> SUFFICES ASSUME NEW q \in handled PROVE ~ Before(p, q)
        OBVIOUS
    <3>1. CASE Before(cursor, q)
      <4>1. Current(q)
          BY <2>1, <3>1 DEF Promises, CursorSeparates
      <4> QED BY <1>a, <2>1, <4>1, BeforeIsTotalOrder DEF Current
    <3>2. CASE ~ Before(cursor, q)
      <4>1. Before(cursor, p)
          BY <2>1 DEF Promises, CursorSeparates
      <4> QED BY <1>a, <3>2, <4>1, BeforeIsTotalOrder
    <3> QED BY <3>1, <3>2
  <2>9. CursorSeparates'
      BY <2>4, <2>7, <2>8 DEF CursorSeparates
  <2>10. OrderlyEndingsAhead'
    <3>1. p \in handled
        BY <2>1 DEF Promises, CursorSeparates
    <3> QED BY <2>1, <2>4, <3>1 DEF Promises, OrderlyEndingsAhead
  <2> QED BY <2>1, <2>4, <2>6, <2>9, <2>10 DEF Promises
<1>9. CASE Crash
  <2>1. Promises
      BY <1>9, <1>b DEF Crash
  <2>2. /\ UNCHANGED <<endedAt, terminal, handled, again>>
        /\ pc' = "start" /\ cursor' = Beginning /\ batch' = {} /\ watched' = {}
        /\ \A r \in Runs : view'[r] = 0
      BY <1>9 DEF Crash, table
  <2> QED
      BY <2>1, <2>2 DEF Promises, CopiesAgree, InTable, CursorSeparates,
                        OrderlyEndingsAhead
<1>10. CASE UNCHANGED vars
  <2>1. UNCHANGED <<table, worker, history>>
      BY <1>10 DEF vars
  <2> QED
      BY <1>b, <2>1 DEF table, worker, history, Promises, CopiesAgree, InTable,
                        CursorSeparates, OrderlyEndingsAhead, Current
<1> QED
    BY <1>1, <1>2, <1>3, <1>4, <1>5, <1>6, <1>7, <1>8, <1>9, <1>10
       DEF Next, WorkerStep

\* The promises of the cursor hold in every state in which no row ended twice.
LEMMA PromisesKept == Spec => []WhileRowsEndOnce
<1>1. Spec => []TypeInv
    BY TypeInvInit, TypeInvStep, PTL DEF Spec
<1> QED BY <1>1, PromisesInit, PromisesStep, PTL DEF Spec

\* While every row ends once, no ending is handled twice, whatever the batch
\* size, the ties of ended_at and the restarts of the worker.
THEOREM NoEndingTwice == Spec => []HandledAtMostOnce
<1>1. WhileRowsEndOnce => HandledAtMostOnce
    BY DEF WhileRowsEndOnce, Promises, HandledAtMostOnce
<1> QED BY <1>1, PromisesKept, PTL

\* While every row ends once, the cursor passes over no ending that was
\* committed in order while the worker had a cursor.
THEOREM NoOrderlyEndingMissed == Spec => []OrderlyEndingIsNotMissed
<1>1. WhileRowsEndOnce => OrderlyEndingIsNotMissed
    BY DEF WhileRowsEndOnce, Promises, OrderlyEndingsAhead,
           OrderlyEndingIsNotMissed, Kept
<1> QED BY <1>1, PromisesKept, PTL
=============================================================================
