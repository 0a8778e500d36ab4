------------------------ MODULE StagedPublicationProofs ------------------------
(***************************************************************************)
(* Proofs about StagedPublication, for all executions, pools, periods,     *)
(* facts and bounds: the types, that the stage table belongs to one        *)
(* execution at a time, that only whole scopes become visible, that the    *)
(* published facts are an ImmutableScopes, that what is counted is         *)
(* durable, where connections and locks stay, and that an execution is     *)
(* over after a bounded number of its steps.                               *)
(***************************************************************************)
EXTENDS StagedPublication, FiniteSetTheorems, TLAPS

Streaming == {"paging", "publishing"}

\* What the types depend on: a plan ends at a period, a unit is one of it.
UnitsInPlan ==
    \A e \in Executions :
        /\ pc[e] # "idle" => last[e] \in Periods
        /\ pc[e] \in Streaming => cur[e] <= last[e]

TypeInv == TypeOK /\ UnitsInPlan

USE PublicationAssumption

\* The invariant holds before any execution has begun.
LEMMA TypeInvInit == Init => TypeInv
<1> SUFFICES ASSUME Init PROVE TypeInv
    OBVIOUS
<1>1. 1 \in 1 .. NumPeriods + 1 /\ 0 \in 0 .. MaxPages /\ 0 \in 0 .. MaxFaults
    BY PublicationAssumption
<1>2. UnitsInPlan
    BY DEF Init, UnitsInPlan, Streaming
<1>3. TypeOK
    BY <1>1 DEF Init, TypeOK, Places
<1> QED BY <1>2, <1>3 DEF TypeInv

\* The period of a unit in progress.
LEMMA CurrentPeriod ==
    ASSUME TypeInv, NEW e \in Executions, pc[e] \in Streaming
    PROVE  cur[e] \in Periods /\ cur[e] + 1 \in 1 .. NumPeriods + 1
<1>1. /\ cur[e] \in 1 .. NumPeriods + 1
      /\ last[e] \in 1 .. NumPeriods
      /\ cur[e] <= last[e]
    BY DEF TypeInv, TypeOK, UnitsInPlan, Streaming, Periods
<1> QED BY <1>1, PublicationAssumption DEF Periods

\* Every operation and every fault keeps the types and the units in the plan.
LEMMA TypeInvNext == TypeInv /\ [Next]_vars => TypeInv'
<1> SUFFICES ASSUME TypeInv, [Next]_vars PROVE TypeInv'
    OBVIOUS
<1> USE DEF TypeInv, TypeOK, UnitsInPlan, Streaming, Goto, Leave, GiveBack, Places
<1> USE DEF execution, database, history
<1>1. ASSUME NEW e \in Executions, Plan(e) PROVE TypeInv'
    <2>1. PICK p \in Periods, q \in Periods, k \in Funds \cup {All} :
             /\ p <= q
             /\ cur' = [cur EXCEPT ![e] = p]
             /\ last' = [last EXCEPT ![e] = q]
             /\ repair' = [repair EXCEPT ![e] = k]
        BY <1>1 DEF Plan
    <2>2. q \in Nat /\ p \in 1 .. NumPeriods + 1
        BY DEF Periods
    <2> QED BY <1>1, <2>1, <2>2 DEF Plan
<1>2. ASSUME NEW e \in Executions, Connect(e) PROVE TypeInv'
    BY <1>2 DEF Connect
<1>3. ASSUME NEW e \in Executions, AcquireLock(e) PROVE TypeInv'
    <2>1. locks' \in [Conns -> Nat]
        <3>1. locks' = [locks EXCEPT ![conn[e]] = locks[conn[e]] + 1] /\ conn[e] \in Conns
            BY <1>3 DEF AcquireLock, Connected
        <3>2. locks[conn[e]] + 1 \in Nat
            BY <3>1
        <3> QED BY <3>1, <3>2
    <2> QED BY <1>3, <2>1 DEF AcquireLock
<1>4. ASSUME NEW e \in Executions, LockBusy(e) \/ ConnectFails(e) PROVE TypeInv'
    BY <1>4 DEF LockBusy, ConnectFails, EnterRaises
<1>5. ASSUME NEW e \in Executions, ClearStage(e) PROVE TypeInv'
    BY <1>5 DEF ClearStage
<1>6. ASSUME NEW e \in Executions, ClearStageFails(e) PROVE TypeInv'
    BY <1>6 DEF ClearStageFails, EnterRaises
<1>7. ASSUME NEW e \in Executions, BeginUnit(e) PROVE TypeInv'
    BY <1>7 DEF BeginUnit
<1>8. ASSUME NEW e \in Executions, AllUnitsDone(e) PROVE TypeInv'
    BY <1>8 DEF AllUnitsDone
<1>9. ASSUME NEW e \in Executions, pc[e] \in Streaming, NEW page \in Pages
      PROVE  Staged(e, page) \subseteq Executions \X Periods \X Rows
    <2>1. cur[e] \in Periods
        BY <1>9, CurrentPeriod
    <2>2. page \subseteq Rows
        BY DEF Pages
    <2> QED BY <2>1, <2>2 DEF Staged
<1>10. ASSUME NEW e \in Executions, TakePage(e) PROVE TypeInv'
    <2>1. PICK page \in Pages, short \in BOOLEAN :
             /\ stage' = Staged(e, page)
             /\ delivered' = [delivered EXCEPT ![e] = @ \cup page]
             /\ pc' = [pc EXCEPT ![e] = IF short THEN "publishing" ELSE @]
             /\ pages' = [pages EXCEPT ![e] = IF short THEN 0 ELSE @ + 1]
        BY <1>10 DEF TakePage
    <2>2. /\ pc[e] = "paging" /\ pages[e] < MaxPages
          /\ UNCHANGED <<outcome, repair, cur, last, unit_done, conn>>
          /\ UNCHANGED <<locks, broken, serving, faults, published>>
        BY <1>10 DEF TakePage
    <2>3. stage' \subseteq Executions \X Periods \X Rows
        BY <1>9, <2>1, <2>2
    <2>4. page \subseteq Rows
        BY DEF Pages
    <2>5. delivered' \in [Executions -> SUBSET Rows]
        BY <2>1, <2>4
    <2>6. pages' \in [Executions -> 0 .. MaxPages]
        <3>1. (IF short THEN 0 ELSE pages[e] + 1) \in 0 .. MaxPages
            BY <2>2
        <3> QED BY <2>1, <3>1
    <2>7. pc' \in [Executions -> Places]
          /\ pc'[e] \in {"paging", "publishing"}
          /\ \A f \in Executions : f # e => pc'[f] = pc[f]
        <3>1. CASE short
            BY <2>1, <2>2, <3>1
        <3>2. CASE ~ short
            BY <2>1, <2>2, <3>2
        <3> QED BY <3>1, <3>2
    <2>8. UnitsInPlan'
        BY <2>2, <2>7
    <2> QED BY <2>2, <2>3, <2>5, <2>6, <2>7, <2>8
<1>11. ASSUME NEW e \in Executions, PageFails(e) PROVE TypeInv'
    <2>1. stage' \subseteq Executions \X Periods \X Rows
        BY <1>9, <1>11 DEF PageFails
    <2> QED BY <1>11, <2>1 DEF PageFails
<1>12. ASSUME NEW e \in Executions, Cancel(e) PROVE TypeInv'
    BY <1>12 DEF Cancel
<1>13. ASSUME NEW e \in Executions, pc[e] \in Streaming
       PROVE  /\ Finalized(e) \in [Periods -> SUBSET Rows]
              /\ [published EXCEPT ![e] = @ \cup {cur[e]}] \in [Executions -> SUBSET Periods]
    <2>1. cur[e] \in Periods
        BY <1>13, CurrentPeriod
    <2>2. NewFacts(StagedBy(e, cur[e]), serving[cur[e]]) \subseteq Rows
        BY DEF NewFacts, StagedBy
    <2> QED BY <2>1, <2>2 DEF Finalized
<1>14. ASSUME NEW e \in Executions, Publish(e) PROVE TypeInv'
    <2>1. serving' \in [Periods -> SUBSET Rows] /\ published' \in [Executions -> SUBSET Periods]
        BY <1>13, <1>14 DEF Publish
    <2>2. cur[e] + 1 \in 1 .. NumPeriods + 1
        BY <1>14, CurrentPeriod DEF Publish
    <2> QED BY <1>14, <2>1, <2>2 DEF Publish
<1>15. ASSUME NEW e \in Executions, PublishFails(e) PROVE TypeInv'
    <2>1. serving' \in [Periods -> SUBSET Rows] /\ published' \in [Executions -> SUBSET Periods]
        <3>1. \/ UNCHANGED <<serving, published>>
              \/ /\ serving' = Finalized(e)
                 /\ published' = [published EXCEPT ![e] = @ \cup {cur[e]}]
            BY <1>15 DEF PublishFails
        <3>2. pc[e] \in Streaming
            BY <1>15 DEF PublishFails
        <3>3. /\ Finalized(e) \in [Periods -> SUBSET Rows]
              /\ [published EXCEPT ![e] = @ \cup {cur[e]}] \in [Executions -> SUBSET Periods]
            BY <1>13, <3>2
        <3>4. serving' = serving \/ serving' = Finalized(e)
            BY <3>1
        <3>5. published' = published \/ published' = [published EXCEPT ![e] = @ \cup {cur[e]}]
            BY <3>1
        <3>6. serving' \in [Periods -> SUBSET Rows]
            BY <3>3, <3>4
        <3>7. published' \in [Executions -> SUBSET Periods]
            BY <3>3, <3>5
        <3> QED BY <3>6, <3>7
    <2>2. /\ pc[e] = "publishing" /\ pc' = [pc EXCEPT ![e] = "exiting"]
          /\ outcome' = [outcome EXCEPT ![e] = "failed"]
          /\ pages' = [pages EXCEPT ![e] = 0]
          /\ delivered' = [delivered EXCEPT ![e] = {}]
          /\ UNCHANGED <<repair, cur, last, unit_done, conn, locks, broken, stage, faults>>
        BY <1>15 DEF PublishFails
    <2>3. UnitsInPlan'
        BY <2>2
    <2> QED BY <2>1, <2>2, <2>3
<1>16. ASSUME NEW e \in Executions, Cleanup(e) PROVE TypeInv'
    BY <1>16 DEF Cleanup
<1>17. ASSUME NEW e \in Executions, Unlock(e) PROVE TypeInv'
    <2>1. locks' \in [Conns -> Nat]
        <3> DEFINE rest == IF locks[conn[e]] > 0 THEN locks[conn[e]] - 1 ELSE 0
        <3>1. locks' = [locks EXCEPT ![conn[e]] = rest]
            BY <1>17 DEF Unlock
        <3>2. conn[e] \in Conns => rest \in Nat
            OBVIOUS
        <3> HIDE DEF rest
        <3> QED BY <3>1, <3>2
    <2> QED BY <1>17, <2>1 DEF Unlock, Ends
<1>18. ASSUME NEW e \in Executions, UnlockFails(e) PROVE TypeInv'
    BY <1>18 DEF UnlockFails, Ends
<1>19. ASSUME NEW e \in Executions, ProcessDies(Host[e]) PROVE TypeInv'
    BY <1>19 DEF ProcessDies, Fault, Without
<1>20. ASSUME NEW c \in Conns, ConnectionLost(c) PROVE TypeInv'
    BY <1>20 DEF ConnectionLost, Fault, Without
<1>21. ASSUME NEW c \in Conns, Recycle(c) PROVE TypeInv'
    BY <1>21 DEF Recycle, Without
<1>22. ASSUME DatabaseCrash PROVE TypeInv'
    BY <1>22 DEF DatabaseCrash, Fault, Without
<1>23. CASE UNCHANGED vars
    BY <1>23 DEF vars
<1> QED BY <1>1, <1>2, <1>3, <1>4, <1>5, <1>6, <1>7, <1>8, <1>10, <1>11, <1>12, <1>14,
           <1>15, <1>16, <1>17, <1>18, <1>19, <1>20, <1>21, <1>22, <1>23 DEF Next, Step

\* Every state has the types of TypeOK.
THEOREM TypeCorrect == Spec => []TypeOK
<1>1. TypeInv => TypeOK
    BY DEF TypeInv
<1> QED BY <1>1, TypeInvInit, TypeInvNext, PTL DEF Spec

-----------------------------------------------------------------------------
\* The lock.  Where __exit__ has not begun, the connection holds it if it lives.
Publisher == {"locked", "between"} \cup Streaming

ConnExclusive == \A e, f \in Executions : conn[e] = conn[f] /\ conn[e] # NoConn => e = f
OwnPool == \A e \in Executions : conn[e] # NoConn => Home[conn[e]] = Host[e]
OneHolder == \A c, d \in Conns : locks[c] > 0 /\ locks[d] > 0 => c = d
BrokenHoldsNothing == \A c \in broken : locks[c] = 0
PublisherHolds ==
    \A e \in Executions : pc[e] \in Publisher /\ Connected(e) => locks[conn[e]] > 0

LockInv == ConnExclusive /\ OwnPool /\ OneHolder /\ BrokenHoldsNothing /\ PublisherHolds

\* At most one execution is a publisher with a living connection.
LEMMA OnePublisher ==
    ASSUME TypeInv, LockInv,
           NEW e \in Executions, pc[e] \in Publisher, Connected(e),
           NEW f \in Executions, pc[f] \in Publisher, Connected(f)
    PROVE  e = f
<1>1. conn[e] \in Conns /\ conn[f] \in Conns
    BY DEF TypeInv, TypeOK, Connected
<1>2. locks[conn[e]] > 0 /\ locks[conn[f]] > 0
    BY DEF LockInv, PublisherHolds
<1>3. conn[e] = conn[f] /\ conn[e] # NoConn
    BY <1>1, <1>2 DEF LockInv, OneHolder, Connected
<1> QED BY <1>3 DEF LockInv, ConnExclusive

\* A step that leaves connections and locks alone, and makes no publisher.
LEMMA LockQuiet ==
    ASSUME LockInv, UNCHANGED <<conn, locks, broken>>,
           \A f \in Executions : pc'[f] \in Publisher => pc[f] \in Publisher
    PROVE  LockInv'
BY DEF LockInv, ConnExclusive, OwnPool, OneHolder, BrokenHoldsNothing, PublisherHolds,
       Connected

\* A step in which one execution gives its connection back.
LEMMA LockGiveBack ==
    ASSUME TypeInv, LockInv, NEW e \in Executions, GiveBack(e),
           \A f \in Executions \ {e} : pc'[f] = pc[f],
           \A c \in Conns \ {conn[e]} : locks'[c] = locks[c],
           \A c \in Conns : locks'[c] \in Nat /\ locks'[c] <= locks[c]
    PROVE  LockInv'
<1>1. /\ locks \in [Conns -> Nat] /\ broken \subseteq Conns
      /\ conn \in [Executions -> Conns \cup {NoConn}]
    BY DEF TypeInv, TypeOK
<1>2. /\ conn' = [conn EXCEPT ![e] = NoConn]
      /\ broken' = broken \ {conn[e]}
    BY DEF GiveBack
<1>3. ConnExclusive'
    BY <1>1, <1>2 DEF LockInv, ConnExclusive
<1>4. OneHolder'
    BY <1>1 DEF LockInv, OneHolder
<1>5. BrokenHoldsNothing'
    <2> SUFFICES ASSUME NEW c \in broken' PROVE locks'[c] = 0
        BY DEF BrokenHoldsNothing
    <2>1. c \in broken /\ c \in Conns
        BY <1>1, <1>2
    <2>2. locks[c] = 0 /\ locks'[c] <= 0 /\ locks'[c] \in Nat
        BY <2>1 DEF LockInv, BrokenHoldsNothing
    <2> QED BY <2>2
<1>6. PublisherHolds'
    <2> SUFFICES ASSUME NEW f \in Executions, pc'[f] \in Publisher, Connected(f)'
                 PROVE  locks'[conn'[f]] > 0
        BY DEF PublisherHolds
    <2>1. f # e /\ pc[f] = pc'[f] /\ conn'[f] = conn[f] /\ conn[f] \in Conns
        BY <1>1, <1>2 DEF Connected
    <2>2. conn[f] # conn[e]
        BY <2>1 DEF LockInv, ConnExclusive
    <2>3. Connected(f)
        BY <1>2, <2>1, <2>2 DEF Connected
    <2> QED BY <2>1, <2>2, <2>3 DEF LockInv, PublisherHolds
<1>7. OwnPool'
    BY <1>1, <1>2 DEF LockInv, OwnPool
<1> QED BY <1>3, <1>4, <1>5, <1>6, <1>7 DEF LockInv

\* Nobody holds the lock before anybody has connected.
LEMMA LockInvInit == Init => LockInv
BY DEF Init, LockInv, ConnExclusive, OwnPool, OneHolder, BrokenHoldsNothing, PublisherHolds,
       Connected, Publisher, Streaming

\* Connections stay exclusive, and two sessions never hold the lock at once.
LEMMA LockInvNext == TypeInv /\ LockInv /\ [Next]_vars => LockInv'
<1> SUFFICES ASSUME TypeInv, LockInv, [Next]_vars PROVE LockInv'
    OBVIOUS
<1> USE DEF execution, database, history
<1>t. /\ pc \in [Executions -> Places]
      /\ locks \in [Conns -> Nat] /\ broken \subseteq Conns
      /\ conn \in [Executions -> Conns \cup {NoConn}]
    BY DEF TypeInv, TypeOK
<1>1. ASSUME NEW e \in Executions, Plan(e) PROVE LockInv'
    BY <1>t, <1>1, LockQuiet DEF Plan, Goto, Publisher, Streaming
<1>2. ASSUME NEW e \in Executions, Connect(e) PROVE LockInv'
    <2>1. PICK c \in Conns : /\ Home[c] = Host[e] /\ ~ InUse(c)
                             /\ conn' = [conn EXCEPT ![e] = c]
        BY <1>2 DEF Connect
    <2>2. pc' = [pc EXCEPT ![e] = "connected"] /\ UNCHANGED <<locks, broken>>
        BY <1>2 DEF Connect, Goto
    <2>3. ConnExclusive'
        BY <1>t, <2>1 DEF LockInv, ConnExclusive, InUse
    <2>4. PublisherHolds'
        BY <1>t, <2>1, <2>2 DEF LockInv, PublisherHolds, Connected, Publisher, Streaming
    <2>5. OwnPool'
        BY <1>t, <2>1 DEF LockInv, OwnPool
    <2> QED BY <2>2, <2>3, <2>4, <2>5 DEF LockInv, OneHolder, BrokenHoldsNothing
<1>3. ASSUME NEW e \in Executions, AcquireLock(e) PROVE LockInv'
    <2>1. /\ Connected(e) /\ LockFree(conn[e])
          /\ pc' = [pc EXCEPT ![e] = "locked"]
          /\ locks' = [locks EXCEPT ![conn[e]] = locks[conn[e]] + 1]
          /\ UNCHANGED <<conn, broken>>
        BY <1>3 DEF AcquireLock, Goto
    <2>2. conn[e] \in Conns /\ conn[e] \notin broken
        BY <1>t, <2>1 DEF Connected
    <2>3. /\ locks'[conn[e]] > 0
          /\ \A d \in Conns \ {conn[e]} : locks'[d] = 0 /\ locks[d] = 0
        BY <1>t, <2>1, <2>2 DEF LockFree
    <2>4. OneHolder'
        BY <2>3 DEF OneHolder
    <2>5. BrokenHoldsNothing'
        BY <1>t, <2>1, <2>2, <2>3 DEF BrokenHoldsNothing
    <2>6. PublisherHolds'
        <3> SUFFICES ASSUME NEW f \in Executions, pc'[f] \in Publisher, Connected(f)'
                     PROVE  locks'[conn'[f]] > 0
            BY DEF PublisherHolds
        <3>1. CASE f = e
            BY <2>1, <2>3, <3>1
        <3>2. CASE f # e
            <4>1. pc[f] \in Publisher /\ Connected(f) /\ conn[f] \in Conns
                BY <1>t, <2>1, <3>2 DEF Connected
            <4>2. conn[f] # conn[e]
                BY <2>1, <3>2, <4>1 DEF LockInv, ConnExclusive, Connected
            <4>3. locks[conn[f]] > 0
                BY <4>1 DEF LockInv, PublisherHolds
            <4> QED BY <2>3, <4>1, <4>2, <4>3
        <3> QED BY <3>1, <3>2
    <2> QED BY <2>1, <2>4, <2>5, <2>6 DEF LockInv, ConnExclusive, OwnPool
<1>4. ASSUME NEW e \in Executions, LockBusy(e) \/ ConnectFails(e) \/ ClearStageFails(e) PROVE LockInv'
    <2>1. GiveBack(e) /\ UNCHANGED locks
        BY <1>4 DEF LockBusy, ConnectFails, ClearStageFails, EnterRaises
    <2>2. \A f \in Executions \ {e} : pc'[f] = pc[f]
        BY <1>t, <1>4 DEF LockBusy, ConnectFails, ClearStageFails, EnterRaises, Goto
    <2> QED BY <1>t, <2>1, <2>2, LockGiveBack
<1>5. ASSUME NEW e \in Executions,
             \/ ClearStage(e) \/ BeginUnit(e) \/ AllUnitsDone(e) \/ TakePage(e)
             \/ PageFails(e) \/ Cancel(e) \/ Publish(e) \/ PublishFails(e)
      PROVE  LockInv'
    <2>1. UNCHANGED <<conn, locks, broken>> /\ pc[e] \in Publisher
        BY <1>5 DEF ClearStage, BeginUnit, AllUnitsDone, TakePage, PageFails, Cancel,
                    Publish, PublishFails, Goto, Leave, Publisher, Streaming
    <2>2. \A f \in Executions \ {e} : pc'[f] = pc[f]
        BY <1>t, <1>5 DEF ClearStage, BeginUnit, AllUnitsDone, TakePage, PageFails, Cancel,
                    Publish, PublishFails, Goto, Leave
    <2> QED BY <2>1, <2>2, LockQuiet
<1>6. ASSUME NEW e \in Executions, Cleanup(e) PROVE LockInv'
    <2>1. PICK c \in Conns : /\ \/ c = conn[e]
                                \/ ~ Connected(e) /\ Home[c] = Host[e] /\ ~ InUse(c)
                             /\ conn' = [conn EXCEPT ![e] = c]
        BY <1>6 DEF Cleanup
    <2>2. /\ pc' = [pc EXCEPT ![e] = "unlocking"]
          /\ broken' = broken \ {conn[e]} /\ UNCHANGED locks
        BY <1>6 DEF Cleanup, Goto
    <2>3. ConnExclusive'
        BY <1>t, <2>1 DEF LockInv, ConnExclusive, InUse
    <2>4. PublisherHolds'
        <3> SUFFICES ASSUME NEW f \in Executions, pc'[f] \in Publisher, Connected(f)'
                     PROVE  locks'[conn'[f]] > 0
            BY DEF PublisherHolds
        <3>1. f # e /\ pc[f] = pc'[f] /\ conn'[f] = conn[f]
            BY <1>t, <2>1, <2>2 DEF Publisher, Streaming
        <3>2. conn[f] # NoConn /\ (conn[f] # conn[e] => conn[f] \notin broken)
            BY <2>2, <3>1 DEF Connected
        <3>3. conn[f] # conn[e]
            BY <3>1, <3>2 DEF LockInv, ConnExclusive
        <3> QED BY <2>2, <3>1, <3>2, <3>3 DEF LockInv, PublisherHolds, Connected
    <2>5. OwnPool'
        BY <1>t, <2>1 DEF LockInv, OwnPool
    <2> QED BY <2>2, <2>3, <2>4, <2>5 DEF LockInv, OneHolder, BrokenHoldsNothing
<1>7. ASSUME NEW e \in Executions, Unlock(e) \/ UnlockFails(e) PROVE LockInv'
    <2>1. GiveBack(e)
        BY <1>7 DEF Unlock, UnlockFails, Ends
    <2>2. \A f \in Executions \ {e} : pc'[f] = pc[f]
        BY <1>t, <1>7 DEF Unlock, UnlockFails, Ends, Goto
    <2>3. /\ \A c \in Conns \ {conn[e]} : locks'[c] = locks[c]
          /\ \A c \in Conns : locks'[c] \in Nat /\ locks'[c] <= locks[c]
        BY <1>t, <1>7 DEF Unlock, UnlockFails
    <2> QED BY <2>1, <2>2, <2>3, LockGiveBack
<1>8. ASSUME NEW e \in Executions, ProcessDies(Host[e]) PROVE LockInv'
    <2> DEFINE lost == {c \in Conns : Home[c] = Host[e]}
    <2>1. /\ \A f \in Executions : \/ pc'[f] = "ended" /\ conn'[f] = NoConn
                                   \/ pc'[f] = pc[f] /\ conn'[f] = conn[f]
          /\ locks' = Without(lost) /\ broken' = broken \ lost
        BY <1>t, <1>8 DEF ProcessDies
    <2>2. \A f \in Executions : pc[f] \in Publisher /\ conn[f] \in lost => pc'[f] = "ended"
        <3> SUFFICES ASSUME NEW f \in Executions, pc[f] \in Publisher, conn[f] \in lost
                     PROVE  pc'[f] = "ended"
            OBVIOUS
        <3>1. Host[f] = Host[e]
            BY DEF LockInv, OwnPool
        <3>2. pc[f] \notin {"idle", "ended"}
            BY DEF Publisher, Streaming
        <3> QED BY <1>8, <3>1, <3>2 DEF ProcessDies
    <2>3. \A c \in Conns : locks'[c] = IF c \in lost THEN 0 ELSE locks[c]
        BY <2>1 DEF Without
    <2> HIDE DEF lost
    <2>4. ConnExclusive' /\ OwnPool'
        BY <2>1 DEF LockInv, ConnExclusive, OwnPool
    <2>5. OneHolder' /\ BrokenHoldsNothing'
        BY <1>t, <2>1, <2>3 DEF LockInv, OneHolder, BrokenHoldsNothing
    <2>6. PublisherHolds'
        <3> SUFFICES ASSUME NEW f \in Executions, pc'[f] \in Publisher, Connected(f)'
                     PROVE  locks'[conn'[f]] > 0
            BY DEF PublisherHolds
        <3>1. pc'[f] = pc[f] /\ conn'[f] = conn[f] /\ conn[f] \in Conns
            BY <1>t, <2>1 DEF Connected
        <3>2. conn[f] \notin lost
            BY <2>2, <3>1 DEF Publisher, Streaming
        <3>3. Connected(f)
            BY <2>1, <3>1, <3>2 DEF Connected
        <3> QED BY <2>3, <3>1, <3>2, <3>3 DEF LockInv, PublisherHolds
    <2> QED BY <2>4, <2>5, <2>6 DEF LockInv
<1>9. ASSUME NEW c \in Conns, ConnectionLost(c) PROVE LockInv'
    <2>1. broken' = broken \cup {c} /\ locks' = Without({c}) /\ UNCHANGED <<pc, conn>>
        BY <1>9 DEF ConnectionLost
    <2> QED BY <1>t, <2>1 DEF Without, LockInv, ConnExclusive, OwnPool, OneHolder,
                              BrokenHoldsNothing, PublisherHolds, Connected
<1>10. ASSUME NEW c \in Conns, Recycle(c) PROVE LockInv'
    <2>1. ~ InUse(c) /\ locks' = Without({c}) /\ UNCHANGED <<pc, conn, broken>>
        BY <1>10 DEF Recycle
    <2> QED BY <1>t, <2>1 DEF Without, LockInv, ConnExclusive, OwnPool, OneHolder,
                              BrokenHoldsNothing, PublisherHolds, Connected, InUse
<1>11. ASSUME DatabaseCrash PROVE LockInv'
    <2>1. /\ broken' = {c \in Conns : InUse(c)} /\ locks' = Without(Conns)
          /\ UNCHANGED <<pc, conn>>
        BY <1>11 DEF DatabaseCrash
    <2> QED BY <1>t, <2>1 DEF Without, LockInv, ConnExclusive, OwnPool, OneHolder,
                              BrokenHoldsNothing, PublisherHolds, Connected, InUse
<1>12. CASE UNCHANGED vars
    BY <1>12, LockQuiet DEF vars
<1> QED BY <1>1, <1>2, <1>3, <1>4, <1>5, <1>6, <1>7, <1>8, <1>9, <1>10, <1>11, <1>12
        DEF Next, Step

-----------------------------------------------------------------------------
\* The stage.  What an execution knows of it between clear_stage and __exit__,
\* as long as its connection lives: there are only rows of its own units so far,
\* and those of the current unit are what was delivered for it.
Owner == {"between"} \cup Streaming

StageOf(e) ==
    /\ pc[e] \notin Streaming => delivered[e] = {}
    /\ pc[e] \in Streaming => /\ OneContentEach(delivered[e])
                              /\ OfFund(delivered[e], repair[e]) = delivered[e]
    /\ pc[e] = "between" /\ Connected(e) => \A s \in stage : s[1] = e /\ s[2] < cur[e]
    /\ pc[e] \in Streaming /\ Connected(e) => /\ \A s \in stage : s[1] = e /\ s[2] <= cur[e]
                                             /\ StagedBy(e, cur[e]) = delivered[e]

StageInv == \A e \in Executions : StageOf(e)

\* A step of another execution or of the environment.
LEMMA StageUnaffected ==
    ASSUME NEW f \in Executions, StageOf(f),
           pc'[f] = pc[f], cur'[f] = cur[f], repair'[f] = repair[f], delivered'[f] = delivered[f],
           Connected(f)' /\ pc[f] \in Owner => Connected(f) /\ stage' = stage
    PROVE  StageOf(f)'
<1>1. stage' = stage => \A p : StagedBy(f, p)' = StagedBy(f, p)
    BY DEF StagedBy
<1>2. CASE pc[f] \in Streaming
    BY <1>1, <1>2 DEF StageOf, Owner, Streaming, OneContentEach, OfFund
<1>3. CASE pc[f] \notin Streaming
    BY <1>3 DEF StageOf, Owner, Streaming
<1> QED BY <1>2, <1>3

\* A step after which the execution does not rely on the stage.
LEMMA StageLeft ==
    ASSUME NEW e \in Executions, pc'[e] \notin Owner, delivered'[e] = {}
    PROVE  StageOf(e)'
BY DEF StageOf, Owner, Streaming

\* Nothing is delivered before the first page.
LEMMA StageInvInit == Init => StageInv
BY DEF Init, StageInv, StageOf, Streaming

\* A step of one execution leaves the others what they know of the stage.
LEMMA StageOfOthers ==
    ASSUME TypeInv, LockInv, StageInv, NEW e \in Executions, Step(e),
           NEW f \in Executions, f # e
    PROVE  StageOf(f)'
<1> USE DEF execution, database, history
<1>t. /\ pc \in [Executions -> Places] /\ cur \in [Executions -> 1 .. NumPeriods + 1]
      /\ repair \in [Executions -> Funds \cup {All}]
      /\ delivered \in [Executions -> SUBSET Rows]
      /\ conn \in [Executions -> Conns \cup {NoConn}]
    BY DEF TypeInv, TypeOK
<1>1. pc'[f] = pc[f]
    BY <1>t DEF Step, Plan, Connect, AcquireLock, LockBusy, ConnectFails, EnterRaises, ClearStage,
        ClearStageFails, BeginUnit, AllUnitsDone, TakePage, PageFails, Cancel, Publish,
        PublishFails, Cleanup, Unlock, UnlockFails, Ends, Goto, Leave
<1>2. cur'[f] = cur[f]
    BY <1>t DEF Step, Plan, Connect, AcquireLock, LockBusy, ConnectFails, EnterRaises, ClearStage,
        ClearStageFails, BeginUnit, AllUnitsDone, TakePage, PageFails, Cancel, Publish,
        PublishFails, Cleanup, Unlock, UnlockFails, Ends
<1>3. repair'[f] = repair[f]
    BY <1>t DEF Step, Plan, Connect, AcquireLock, LockBusy, ConnectFails, EnterRaises, ClearStage,
        ClearStageFails, BeginUnit, AllUnitsDone, TakePage, PageFails, Cancel, Publish,
        PublishFails, Cleanup, Unlock, UnlockFails, Ends
<1>4. delivered'[f] = delivered[f]
    BY <1>t DEF Step, Plan, Connect, AcquireLock, LockBusy, ConnectFails, EnterRaises, ClearStage,
        ClearStageFails, BeginUnit, AllUnitsDone, TakePage, PageFails, Cancel, Publish,
        PublishFails, Cleanup, Unlock, UnlockFails, Ends, Leave
<1>5. conn'[f] = conn[f]
    BY <1>t DEF Step, Plan, Connect, AcquireLock, LockBusy, ConnectFails, EnterRaises, ClearStage,
        ClearStageFails, BeginUnit, AllUnitsDone, TakePage, PageFails, Cancel, Publish,
        PublishFails, Cleanup, Unlock, UnlockFails, Ends, GiveBack
<1>6. broken' = broken \/ broken' = broken \ {conn[e]}
    BY <1>t DEF Step, Plan, Connect, AcquireLock, LockBusy, ConnectFails, EnterRaises, ClearStage,
        ClearStageFails, BeginUnit, AllUnitsDone, TakePage, PageFails, Cancel, Publish,
        PublishFails, Cleanup, Unlock, UnlockFails, Ends, GiveBack
<1>7. Connected(f)' => Connected(f)
    BY <1>5, <1>6 DEF Connected, LockInv, ConnExclusive
<1>8. ASSUME pc[f] \in Owner, Connected(f) PROVE stage' = stage
    <2>1. \/ stage' = stage
          \/ pc[e] \in Publisher /\ Connected(e)
          \/ Cleanup(e)
        BY DEF Step, Plan, Connect, AcquireLock, LockBusy, ConnectFails, EnterRaises, ClearStage,
            ClearStageFails, BeginUnit, AllUnitsDone, TakePage, PageFails, Cancel, Publish,
            PublishFails, Unlock, UnlockFails, Ends, Goto, Leave, Publisher, Streaming
    <2>2. CASE pc[e] \in Publisher /\ Connected(e)
        <3>1. pc[f] \in Publisher
            BY <1>8 DEF Owner, Publisher
        <3> QED BY <1>8, <2>2, <3>1, OnePublisher
    <2>3. CASE Cleanup(e)
        <3>1. \A s \in stage : s[1] # e
            BY <1>8 DEF StageInv, StageOf, Owner, Streaming
        <3>2. PICK cleaned \in SUBSET Periods :
                 stage' = {s \in stage : ~ (s[1] = e /\ s[2] \in cleaned)}
            BY <2>3 DEF Cleanup
        <3> QED BY <3>1, <3>2
    <2> QED BY <2>1, <2>2, <2>3
<1>9. StageOf(f)
    BY DEF StageInv
<1> QED BY <1>1, <1>2, <1>3, <1>4, <1>7, <1>8, <1>9, StageUnaffected

\* A step of an execution keeps what it knows of the stage itself.
LEMMA StageOfStepper ==
    ASSUME TypeInv, LockInv, StageInv, NEW e \in Executions, Step(e)
    PROVE  StageOf(e)'
<1> USE DEF execution, database, history
<1>t. /\ pc \in [Executions -> Places] /\ cur \in [Executions -> 1 .. NumPeriods + 1]
      /\ repair \in [Executions -> Funds \cup {All}]
      /\ delivered \in [Executions -> SUBSET Rows]
      /\ stage \subseteq Executions \X Periods \X Rows
    BY DEF TypeInv, TypeOK
<1>s. StageOf(e)
    BY DEF StageInv
<1>1. CASE \/ Plan(e) \/ Connect(e) \/ AcquireLock(e) \/ LockBusy(e) \/ ConnectFails(e) \/ ClearStageFails(e)
           \/ Cleanup(e) \/ Unlock(e) \/ UnlockFails(e)
    <2>1. pc'[e] \notin Owner /\ delivered'[e] = delivered[e] /\ pc[e] \notin Streaming
        BY <1>t, <1>1 DEF Plan, Connect, AcquireLock, LockBusy, ConnectFails, ClearStageFails, EnterRaises,
            Cleanup, Unlock, UnlockFails, Ends, Goto, Owner, Streaming
    <2>2. delivered'[e] = {}
        BY <1>s, <2>1 DEF StageOf
    <2> QED BY <2>1, <2>2, StageLeft
<1>2. CASE AllUnitsDone(e) \/ PageFails(e) \/ Cancel(e) \/ PublishFails(e)
    <2>1. pc'[e] \notin Owner /\ delivered'[e] = {}
        BY <1>t, <1>2 DEF AllUnitsDone, PageFails, Cancel, PublishFails, Leave, Goto,
            Owner, Streaming
    <2> QED BY <2>1, StageLeft
<1>3. CASE ClearStage(e)
    <2>1. pc[e] = "locked" /\ pc'[e] = "between" /\ stage' = {} /\ delivered'[e] = delivered[e]
        BY <1>t, <1>3 DEF ClearStage, Goto
    <2>2. delivered'[e] = {}
        BY <1>s, <2>1 DEF StageOf, Streaming
    <2> QED BY <2>1, <2>2 DEF StageOf, Streaming
<1>4. CASE BeginUnit(e)
    <2>1. /\ pc[e] = "between" /\ pc'[e] = "paging"
          /\ UNCHANGED <<cur, repair, conn, broken, stage, delivered>>
        BY <1>t, <1>4 DEF BeginUnit, Goto
    <2>2. delivered[e] = {}
        BY <1>s, <2>1 DEF StageOf, Streaming
    <2>3. Connected(e) => \A s \in stage : s[1] = e /\ s[2] < cur[e]
        BY <1>s, <2>1 DEF StageOf
    <2>4. cur[e] \in Int /\ \A s \in stage : s[2] \in Int
        BY <1>t DEF Periods
    <2>5. Connected(e) => StagedBy(e, cur[e]) = {}
        <3> SUFFICES ASSUME Connected(e), NEW r \in Rows, <<e, cur[e], r>> \in stage PROVE FALSE
            BY DEF StagedBy
        <3>1. cur[e] < cur[e]
            BY <2>3
        <3> QED BY <2>4, <3>1
    <2>6. Connected(e)' = Connected(e) /\ StagedBy(e, cur[e])' = StagedBy(e, cur[e])
        BY <2>1 DEF Connected, StagedBy
    <2>7. Connected(e) => \A s \in stage : s[1] = e /\ s[2] <= cur[e]
        BY <2>3, <2>4
    <2> QED BY <2>1, <2>2, <2>5, <2>6, <2>7 DEF StageOf, Streaming, OneContentEach, OfFund
<1>5. CASE TakePage(e)
    <2>1. PICK page \in Pages, short \in BOOLEAN :
             /\ Stageable(e, page)
             /\ stage' = Staged(e, page)
             /\ delivered' = [delivered EXCEPT ![e] = @ \cup page]
             /\ pc' = [pc EXCEPT ![e] = IF short THEN "publishing" ELSE @]
        BY <1>5 DEF TakePage
    <2>2. pc[e] = "paging" /\ Connected(e) /\ UNCHANGED <<cur, repair, conn, broken>>
        BY <1>5 DEF TakePage
    <2>3. pc'[e] \in Streaming
        BY <1>t, <2>1, <2>2 DEF Streaming
    <2>4. page \subseteq Rows
        BY DEF Pages
    <2>5. delivered'[e] = delivered[e] \cup page
        BY <1>t, <2>1
    <2>6. /\ StagedBy(e, cur[e]) = delivered[e]
          /\ OfFund(delivered[e], repair[e]) = delivered[e]
          /\ \A s \in stage : s[1] = e /\ s[2] <= cur[e]
        BY <1>s, <2>2 DEF StageOf, Streaming
    <2>7. OneContentEach(delivered'[e])
        BY <2>1, <2>5, <2>6 DEF Stageable
    <2>8. OfFund(delivered'[e], repair'[e]) = delivered'[e]
        <3>1. OfFund(page, repair[e]) = page
            BY <2>1 DEF Stageable
        <3> QED BY <2>2, <2>5, <2>6, <3>1 DEF OfFund
    <2>9. StagedBy(e, cur[e])' = delivered'[e]
        <3>1. StagedBy(e, cur[e])' = StagedBy(e, cur[e]) \cup page
            BY <2>1, <2>2, <2>4 DEF StagedBy, Staged
        <3> QED BY <2>5, <2>6, <3>1
    <2>10. \A s \in stage' : s[1] = e /\ s[2] <= cur'[e]
        <3>1. \A s \in stage' : s \in stage \/ (s[1] = e /\ s[2] = cur[e])
            BY <2>1 DEF Staged
        <3>2. cur[e] <= cur[e]
            BY <1>t
        <3> QED BY <2>2, <2>6, <3>1, <3>2
    <2> QED BY <2>3, <2>7, <2>8, <2>9, <2>10 DEF StageOf, Streaming
<1>6. CASE Publish(e)
    <2>1. /\ pc[e] = "publishing" /\ pc'[e] = "between" /\ Connected(e)
          /\ cur'[e] = cur[e] + 1 /\ delivered'[e] = {}
          /\ stage' = stage
        BY <1>t, <1>6 DEF Publish, Goto
    <2>2. \A s \in stage : s[1] = e /\ s[2] <= cur[e]
        BY <1>s, <2>1 DEF StageOf, Streaming
    <2>3. cur[e] \in Int /\ \A s \in stage : s[2] \in Int
        BY <1>t DEF Periods
    <2>4. \A s \in stage' : s[1] = e /\ s[2] < cur'[e]
        BY <2>1, <2>2, <2>3
    <2> QED BY <2>1, <2>4 DEF StageOf, Streaming
<1> QED BY <1>1, <1>2, <1>3, <1>4, <1>5, <1>6 DEF Step

\* Faults take connections and locks away, and never stage rows of a publisher
\* that stays connected.
LEMMA StageInvNext == TypeInv /\ LockInv /\ StageInv /\ [Next]_vars => StageInv'
<1> SUFFICES ASSUME TypeInv, LockInv, StageInv, [Next]_vars PROVE StageInv'
    OBVIOUS
<1> USE DEF execution, database, history
<1>t. /\ pc \in [Executions -> Places] /\ delivered \in [Executions -> SUBSET Rows]
      /\ conn \in [Executions -> Conns \cup {NoConn}] /\ broken \subseteq Conns
    BY DEF TypeInv, TypeOK
<1>1. ASSUME NEW e \in Executions, Step(e) PROVE StageInv'
    BY <1>1, StageOfOthers, StageOfStepper DEF StageInv
<1>2. ASSUME NEW e \in Executions, ProcessDies(Host[e]) PROVE StageInv'
    <2> SUFFICES ASSUME NEW f \in Executions PROVE StageOf(f)'
        BY DEF StageInv
    <2>1. /\ UNCHANGED <<repair, cur, stage>>
          /\ broken' = broken \ {c \in Conns : Home[c] = Host[e]}
        BY <1>2 DEF ProcessDies
    <2>2. CASE Host[f] = Host[e] /\ pc[f] \notin {"idle", "ended"}
        <3>1. pc'[f] = "ended" /\ delivered'[f] = {}
            BY <1>2, <2>2 DEF ProcessDies
        <3> QED BY <3>1, StageLeft DEF Owner, Streaming
    <2>3. CASE ~ (Host[f] = Host[e] /\ pc[f] \notin {"idle", "ended"})
        <3>1. pc'[f] = pc[f] /\ delivered'[f] = delivered[f] /\ conn'[f] = conn[f]
            BY <1>2, <2>3 DEF ProcessDies
        <3>2. Connected(f)' /\ pc[f] \in Owner => Connected(f)
            <4> SUFFICES ASSUME Connected(f)', pc[f] \in Owner PROVE Connected(f)
                OBVIOUS
            <4>1. Host[f] # Host[e]
                BY <2>3 DEF Owner, Streaming
            <4>2. conn[f] # NoConn /\ Home[conn[f]] = Host[f]
                BY <3>1 DEF Connected, LockInv, OwnPool
            <4> QED BY <2>1, <3>1, <4>1, <4>2 DEF Connected
        <3>3. StageOf(f)
            BY DEF StageInv
        <3> QED BY <2>1, <3>1, <3>2, <3>3, StageUnaffected
    <2> QED BY <2>2, <2>3
<1>3. ASSUME NEW c \in Conns, ConnectionLost(c) \/ Recycle(c) PROVE StageInv'
    <2> SUFFICES ASSUME NEW f \in Executions PROVE StageOf(f)'
        BY DEF StageInv
    <2>1. UNCHANGED <<pc, cur, repair, conn, stage, delivered>> /\ broken \subseteq broken'
        BY <1>3 DEF ConnectionLost, Recycle
    <2>2. Connected(f)' => Connected(f)
        BY <2>1 DEF Connected
    <2>3. StageOf(f)
        BY DEF StageInv
    <2> QED BY <2>1, <2>2, <2>3, StageUnaffected
<1>4. ASSUME DatabaseCrash PROVE StageInv'
    <2> SUFFICES ASSUME NEW f \in Executions PROVE StageOf(f)'
        BY DEF StageInv
    <2>1. /\ UNCHANGED <<pc, cur, repair, conn, delivered>>
          /\ broken' = {c \in Conns : InUse(c)}
        BY <1>4 DEF DatabaseCrash
    <2>2. ~ Connected(f)'
        BY <1>t, <2>1 DEF Connected, InUse
    <2>3. StageOf(f)
        BY DEF StageInv
    <2> QED BY <2>1, <2>2, <2>3, StageUnaffected
<1>5. CASE UNCHANGED vars
    <2> SUFFICES ASSUME NEW f \in Executions PROVE StageOf(f)'
        BY DEF StageInv
    <2>1. StageOf(f) /\ UNCHANGED <<pc, cur, repair, conn, broken, stage, delivered>>
        BY <1>5 DEF StageInv, vars
    <2>2. Connected(f)' = Connected(f)
        BY <2>1 DEF Connected
    <2> QED BY <2>1, <2>2, StageUnaffected
<1> QED BY <1>1, <1>2, <1>3, <1>4, <1>5 DEF Next

Inv == TypeInv /\ LockInv /\ StageInv

\* The stage table belongs to one execution at a time, for any number of
\* executions, processes, crashes and lost connections.
THEOREM StageIsExclusive == Spec => []StageBelongsToPublisher
<1>1. Init => Inv
    BY TypeInvInit, LockInvInit, StageInvInit DEF Inv
<1>2. Inv /\ [Next]_vars => Inv'
    BY TypeInvNext, LockInvNext, StageInvNext DEF Inv
<1>3. Inv => StageBelongsToPublisher
    BY DEF Inv, StageInv, StageOf, StageBelongsToPublisher, Streaming
<1> QED BY <1>1, <1>2, <1>3, PTL DEF Spec

-----------------------------------------------------------------------------
\* The published facts: one content per identity, and a repair that was planned
\* is about a period that is there, its only one.
ServingInv ==
    /\ \A p \in Periods : OneContentEach(serving[p])
    /\ \A e \in Executions :
          repair[e] # All => serving[last[e]] # {} /\ last[e] <= cur[e]

\* What a finalization that commits makes of the period: the delivery is added,
\* and is afterwards all there is of its scope.
LEMMA PublicationEffect ==
    ASSUME TypeInv, LockInv, StageInv, ServingInv, NEW e \in Executions,
           pc[e] = "publishing", Connected(e), Publishable(e), serving' = Finalized(e)
    PROVE  LET p == cur[e] S == delivered[e]
           IN  /\ p \in Periods
               /\ S # {} /\ S \subseteq Rows /\ OneContentEach(S)
               /\ OfFund(S, repair[e]) = S
               /\ OfFund(serving[p], repair[e]) \subseteq S
               /\ serving' = [serving EXCEPT ![p] = serving[p] \cup S]
               /\ OneContentEach(serving[p] \cup S)
<1> DEFINE p == cur[e]
           S == delivered[e]
           facts == OfFund(serving[p], repair[e])
<1>1. p \in Periods
    BY CurrentPeriod DEF Streaming
<1>2. S = StagedBy(e, p) /\ OneContentEach(S) /\ OfFund(S, repair[e]) = S
    BY DEF StageInv, StageOf, Streaming
<1>3. S # {} /\ ~ Regression(S, facts) /\ ~ Conflict(S, serving[p])
    BY <1>2 DEF Publishable
<1>4. S \subseteq Rows
    BY <1>2 DEF StagedBy
<1>5. facts \subseteq S
    <2> SUFFICES ASSUME NEW r \in facts PROVE r \in S
        OBVIOUS
    <2>1. r \in serving[p]
        BY DEF OfFund
    <2>2. PICK s \in S : s[1] = r[1]
        BY <1>3 DEF Regression
    <2>3. r = s
        BY <1>3, <2>1, <2>2 DEF Conflict
    <2> QED BY <2>3
<1>6. serving[p] \cup NewFacts(S, serving[p]) = serving[p] \cup S
    BY <1>3 DEF Conflict, NewFacts
<1>7. serving' = [serving EXCEPT ![p] = serving[p] \cup S]
    BY <1>2, <1>6 DEF Finalized
<1>8. OneContentEach(serving[p] \cup S)
    <2>1. OneContentEach(serving[p])
        BY <1>1 DEF ServingInv
    <2>2. \A r \in serving[p], s \in S : r[1] = s[1] => r = s
        BY <1>3 DEF Conflict
    <2> HIDE DEF S, p
    <2> QED BY <1>2, <2>1, <2>2 DEF OneContentEach
<1> QED BY <1>1, <1>2, <1>3, <1>4, <1>5, <1>7, <1>8

\* The facts change only when a finalization commits.
LEMMA ServingChanges ==
    ASSUME [Next]_vars, serving' # serving
    PROVE  \E e \in Executions : /\ pc[e] = "publishing" /\ Connected(e)
                                /\ Publishable(e) /\ serving' = Finalized(e)
<1>1. PICK e \in Executions : Publish(e) \/ PublishFails(e)
    BY DEF Next, Step, vars, execution, database, history, Plan, Connect, AcquireLock, LockBusy, ConnectFails,
        EnterRaises, ClearStage, ClearStageFails, BeginUnit, AllUnitsDone, TakePage, PageFails,
        Cancel, Cleanup, Unlock, UnlockFails, Ends, ProcessDies, ConnectionLost, Recycle,
        DatabaseCrash
<1> QED BY <1>1 DEF Publish, PublishFails, Goto, Leave

\* A step leaves the plan of an execution alone, or is its planning.
LEMMA PlanChanges ==
    ASSUME TypeInv, [Next]_vars, NEW f \in Executions
    PROVE  \/ repair'[f] = repair[f] /\ last'[f] = last[f] /\ cur'[f] \in {cur[f], cur[f] + 1}
           \/ /\ serving' = serving
              /\ \/ repair'[f] = All
                 \/ last'[f] \in Periods /\ serving[last'[f]] # {} /\ last'[f] = cur'[f]
<1> USE DEF execution, database, history
<1>t. /\ cur \in [Executions -> 1 .. NumPeriods + 1] /\ last \in [Executions -> Nat]
      /\ repair \in [Executions -> Funds \cup {All}]
    BY DEF TypeInv, TypeOK
<1>1. ASSUME NEW e \in Executions, Plan(e), e = f
      PROVE  /\ serving' = serving
             /\ \/ repair'[f] = All
                \/ last'[f] \in Periods /\ serving[last'[f]] # {} /\ last'[f] = cur'[f]
    BY <1>t, <1>1 DEF Plan, RepairAllowed
<1>2. ASSUME NEW e \in Executions, Plan(e), e # f
      PROVE  repair'[f] = repair[f] /\ last'[f] = last[f] /\ cur'[f] = cur[f]
    BY <1>t, <1>2 DEF Plan
<1>3. ASSUME NEW e \in Executions, Publish(e)
      PROVE  repair'[f] = repair[f] /\ last'[f] = last[f] /\ cur'[f] \in {cur[f], cur[f] + 1}
    BY <1>t, <1>3 DEF Publish
<1>4. ASSUME NEW e \in Executions, Step(e), ~ Plan(e), ~ Publish(e)
      PROVE  repair' = repair /\ last' = last /\ cur' = cur
    BY <1>4 DEF Step, Connect, AcquireLock, LockBusy, ConnectFails, EnterRaises, ClearStage, ClearStageFails,
        BeginUnit, AllUnitsDone, TakePage, PageFails, Cancel, PublishFails, Cleanup, Unlock,
        UnlockFails, Ends
<1>5. \/ \E e \in Executions : Step(e)
      \/ repair' = repair /\ last' = last /\ cur' = cur
    BY DEF Next, vars, ProcessDies, ConnectionLost, Recycle, DatabaseCrash
<1> QED BY <1>1, <1>2, <1>3, <1>4, <1>5

\* No fact has two contents, and the period of a planned repair stays.
LEMMA ServingInvNext ==
    TypeInv /\ LockInv /\ StageInv /\ ServingInv /\ [Next]_vars => ServingInv'
<1> SUFFICES ASSUME TypeInv, LockInv, StageInv, ServingInv, [Next]_vars PROVE ServingInv'
    OBVIOUS
<1>t. /\ serving \in [Periods -> SUBSET Rows]
      /\ cur \in [Executions -> 1 .. NumPeriods + 1] /\ last \in [Executions -> Nat]
    BY DEF TypeInv, TypeOK
<1>1. \A p \in Periods : OneContentEach(serving'[p]) /\ serving[p] \subseteq serving'[p]
    <2>1. CASE serving' = serving
        BY <2>1 DEF ServingInv
    <2>2. CASE serving' # serving
        <3>1. PICK e \in Executions : /\ pc[e] = "publishing" /\ Connected(e)
                                      /\ Publishable(e) /\ serving' = Finalized(e)
            BY <2>2, ServingChanges
        <3>2. /\ cur[e] \in Periods
              /\ serving' = [serving EXCEPT ![cur[e]] = serving[cur[e]] \cup delivered[e]]
              /\ OneContentEach(serving[cur[e]] \cup delivered[e])
            BY <3>1, PublicationEffect
        <3> QED BY <1>t, <3>2 DEF ServingInv
    <2> QED BY <2>1, <2>2
<1>2. ASSUME NEW f \in Executions, repair'[f] # All
      PROVE  serving'[last'[f]] # {} /\ last'[f] <= cur'[f]
    <2>1. CASE repair'[f] = repair[f] /\ last'[f] = last[f] /\ cur'[f] \in {cur[f], cur[f] + 1}
        <3>1. serving[last[f]] # {} /\ last[f] <= cur[f]
            BY <1>2, <2>1 DEF ServingInv
        <3>2. last[f] <= cur'[f]
            BY <1>t, <2>1, <3>1
        <3>3. serving'[last[f]] # {}
            <4>1. CASE serving' = serving
                BY <3>1, <4>1
            <4>2. CASE last[f] \in Periods
                BY <1>1, <3>1, <4>2
            <4>3. CASE serving' # serving /\ last[f] \notin Periods
                <5>1. PICK e \in Executions : /\ pc[e] = "publishing" /\ Connected(e)
                                              /\ Publishable(e) /\ serving' = Finalized(e)
                    BY <4>3, ServingChanges
                <5>2. /\ cur[e] \in Periods
                      /\ serving' = [serving EXCEPT ![cur[e]] = serving[cur[e]] \cup delivered[e]]
                    BY <5>1, PublicationEffect
                <5> QED BY <1>t, <3>1, <4>3, <5>2
            <4> QED BY <4>1, <4>2, <4>3
        <3> QED BY <2>1, <3>2, <3>3
    <2>2. CASE /\ serving' = serving
               /\ last'[f] \in Periods /\ serving[last'[f]] # {} /\ last'[f] = cur'[f]
        BY <2>2 DEF Periods
    <2> QED BY <1>2, <2>1, <2>2, PlanChanges
<1> QED BY <1>1, <1>2 DEF ServingInv

\* Before the first publication there is no fact.
LEMMA ServingInvInit == Init => ServingInv
BY DEF Init, ServingInv, OneContentEach

FullInv == TypeInv /\ LockInv /\ StageInv /\ ServingInv

\* The four invariants hold together in every state.
LEMMA FullInvariant == Spec => []FullInv
<1>1. Init => FullInv
    BY TypeInvInit, LockInvInit, StageInvInit, ServingInvInit DEF FullInv
<1>2. FullInv /\ [Next]_vars => FullInv'
    BY TypeInvNext, LockInvNext, StageInvNext, ServingInvNext DEF FullInv
<1> QED BY <1>1, <1>2, PTL DEF Spec

\* A period is published by an execution that read it up to the short page, as
\* the whole of what was delivered, and a repair finds the period there.
LEMMA OnlyWholeScopes ==
    ASSUME FullInv, [Next]_vars, NEW p \in Periods, serving'[p] # serving[p]
    PROVE  \E e \in Executions :
              /\ pc[e] = "publishing" /\ cur[e] = p
              /\ OfFund(serving'[p], repair[e]) = delivered[e]
              /\ serving'[p] \ delivered[e] \subseteq serving[p]
              /\ repair[e] # All => serving[p] # {}
<1>1. PICK e \in Executions : /\ pc[e] = "publishing" /\ Connected(e)
                              /\ Publishable(e) /\ serving' = Finalized(e)
    BY ServingChanges
<1>2. /\ cur[e] \in Periods
      /\ OfFund(delivered[e], repair[e]) = delivered[e]
      /\ OfFund(serving[cur[e]], repair[e]) \subseteq delivered[e]
      /\ serving' = [serving EXCEPT ![cur[e]] = serving[cur[e]] \cup delivered[e]]
    BY <1>1, PublicationEffect DEF FullInv
<1>3. cur[e] = p /\ serving'[p] = serving[p] \cup delivered[e]
    BY <1>2 DEF FullInv, TypeInv, TypeOK
<1>4. OfFund(serving'[p], repair[e]) = delivered[e]
    BY <1>2, <1>3 DEF OfFund
<1>5. ASSUME repair[e] # All PROVE serving[p] # {}
    <2>1. serving[last[e]] # {} /\ last[e] <= cur[e]
        BY <1>5 DEF FullInv, ServingInv
    <2>2. cur[e] <= last[e] /\ last[e] \in Nat /\ cur[e] \in Int
        BY <1>1, <1>2 DEF FullInv, TypeInv, TypeOK, UnitsInPlan, Streaming, Periods
    <2>3. cur[e] = last[e]
        BY <2>1, <2>2
    <2> QED BY <1>3, <2>1, <2>3
<1> QED BY <1>1, <1>3, <1>4, <1>5

\* No crash, lost connection or other execution makes a part of a scope visible.
THEOREM PublishesWholeScopes == Spec => WholeScopesOnly
<1>1. FullInv /\ [Next]_vars =>
        [\A p \in Periods : serving'[p] # serving[p] =>
          \E e \in Executions :
              /\ pc[e] = "publishing" /\ cur[e] = p
              /\ OfFund(serving'[p], repair[e]) = delivered[e]
              /\ serving'[p] \ delivered[e] \subseteq serving[p]
              /\ repair[e] # All => serving[p] # {}]_vars
    BY OnlyWholeScopes
<1> QED BY <1>1, FullInvariant, PTL DEF Spec, WholeScopesOnly

\* The detailed publication, with its pages, stage rows, locks and faults,
\* implements the abstract one.
THEOREM ImplementsImmutableScopes == Spec => ImmutableScopesSpec
<1>1. Init => Scopes!Init
    BY DEF Init, Scopes!Init, Periods
<1>2. FullInv /\ [Next]_vars => [Scopes!Next]_serving
    <2> SUFFICES ASSUME FullInv, [Next]_vars, serving' # serving PROVE Scopes!Next
        OBVIOUS
    <2>1. PICK e \in Executions : /\ pc[e] = "publishing" /\ Connected(e)
                                  /\ Publishable(e) /\ serving' = Finalized(e)
        BY ServingChanges
    <2> DEFINE p == cur[e]
               S == delivered[e]
               k == repair[e]
    <2>2. /\ p \in Periods
          /\ S # {} /\ S \subseteq Rows /\ OneContentEach(S)
          /\ OfFund(S, k) = S
          /\ OfFund(serving[p], k) \subseteq S
          /\ serving' = [serving EXCEPT ![p] = serving[p] \cup S]
        BY <2>1, PublicationEffect DEF FullInv
    <2>3. Scopes!OneContentEach(S)
        BY <2>2 DEF OneContentEach, Scopes!OneContentEach
    <2>4. CASE k = All
        <3>1. serving[p] \subseteq S
            BY <2>2, <2>4 DEF OfFund
        <3>2. Scopes!PublishPeriod(p, S)
            BY <2>2, <3>1 DEF Scopes!PublishPeriod
        <3> QED BY <2>2, <2>3, <3>2 DEF Scopes!Next, Periods, Rows
    <2>5. CASE k # All
        <3>1. serving[p] # {}
            <4>1. serving[last[e]] # {} /\ last[e] <= cur[e]
                BY <2>5 DEF FullInv, ServingInv
            <4>2. cur[e] <= last[e] /\ last[e] \in Nat /\ cur[e] \in Int
                BY <2>1, <2>2 DEF FullInv, TypeInv, TypeOK, UnitsInPlan, Streaming, Periods
            <4>3. cur[e] = last[e]
                BY <4>1, <4>2
            <4> QED BY <4>1, <4>3
        <3>2. k \in {FundOf[i] : i \in Ids}
            BY <2>5 DEF FullInv, TypeInv, TypeOK, Funds
        <3>3. /\ \A s \in S : FundOf[s[1]] = k
              /\ {r \in serving[p] : FundOf[r[1]] = k} \subseteq S
            BY <2>2, <2>5 DEF OfFund
        <3>4. Scopes!RepairFund(p, k, S)
            BY <2>2, <3>1, <3>3 DEF Scopes!RepairFund
        <3> QED BY <2>2, <2>3, <3>2, <3>4 DEF Scopes!Next, Periods, Rows
    <2> QED BY <2>4, <2>5
<1> QED BY <1>1, <1>2, FullInvariant, PTL DEF Spec, ImmutableScopesSpec, Scopes!Spec
-----------------------------------------------------------------------------
\* The counters.  Until __exit__, exactly the durable units are counted, and
\* all of them lie before the current one; a plan that is through has its last
\* unit behind it.
Inside == {"planned", "connected"} \cup Publisher

Counted(e) ==
    /\ pc[e] = "idle" => published[e] = {}
    /\ pc[e] \in Inside => (cur[e] <= last[e] \/ last[e] \in published[e])
    /\ pc[e] \in Inside \cup {"idle"} =>
          /\ outcome[e] = "none"
          /\ unit_done[e] = Cardinality(published[e])
          /\ \A p \in published[e] : p < cur[e]
    /\ unit_done[e] <= Cardinality(published[e])
    /\ Cardinality(published[e]) <= unit_done[e] + 1
    /\ outcome[e] = "success" => /\ last[e] \in published[e]
                                 /\ unit_done[e] = Cardinality(published[e])

CountInv == \A e \in Executions : Counted(e)

\* An execution that goes on without a publication, or ends in another way
\* than with a success.
LEMMA CountStays ==
    ASSUME NEW f \in Executions, Counted(f),
           cur'[f] = cur[f], last'[f] = last[f],
           unit_done'[f] = unit_done[f], published'[f] = published[f],
           outcome'[f] = outcome[f] \/ outcome'[f] \in {"failed", "canceled", "crashed"},
           pc'[f] \in Inside \cup {"idle"} => /\ pc[f] \in Inside \cup {"idle"}
                                              /\ pc'[f] = "idle" <=> pc[f] = "idle"
                                              /\ outcome'[f] = outcome[f]
    PROVE  Counted(f)'
BY DEF Counted, Inside, Publisher, Streaming

\* A publication adds one period to those that are durable.
LEMMA OneMorePeriod ==
    ASSUME TypeInv, NEW e \in Executions, pc[e] = "publishing", Counted(e)
    PROVE  /\ cur[e] \in Periods /\ unit_done[e] \in Nat
           /\ Cardinality(published[e]) = unit_done[e]
           /\ Cardinality(published[e] \cup {cur[e]}) = unit_done[e] + 1
<1>1. cur[e] \in Periods /\ unit_done[e] \in Nat /\ published[e] \subseteq Periods
    BY CurrentPeriod DEF TypeInv, TypeOK, Streaming
<1>2. IsFiniteSet(published[e])
    <2>1. IsFiniteSet(Periods)
        BY FS_Interval, PublicationAssumption DEF Periods
    <2> QED BY <1>1, <2>1, FS_Subset
<1>3. /\ Cardinality(published[e]) = unit_done[e]
      /\ \A p \in published[e] : p < cur[e]
    BY DEF Counted, Inside, Publisher, Streaming
<1>4. cur[e] \notin published[e]
    BY <1>1, <1>3 DEF Periods
<1> QED BY <1>1, <1>2, <1>3, <1>4, FS_AddElement

\* Nothing is counted before any execution has begun.
LEMMA CountInvInit == Init => CountInv
BY FS_EmptySet DEF Init, CountInv, Counted, Inside, Publisher, Streaming

\* Every operation and every fault keeps the counters in step.
LEMMA CountInvNext == TypeInv /\ CountInv /\ [Next]_vars => CountInv'
<1> SUFFICES ASSUME TypeInv, CountInv, [Next]_vars, NEW f \in Executions
             PROVE  Counted(f)'
    BY DEF CountInv
<1> USE DEF execution, database, history, Goto
<1>f. Counted(f)
    BY DEF CountInv
<1>t. /\ pc \in [Executions -> Places]
      /\ outcome \in [Executions -> {"none", "success", "failed", "canceled", "crashed"}]
      /\ cur \in [Executions -> 1 .. NumPeriods + 1] /\ last \in [Executions -> Nat]
      /\ unit_done \in [Executions -> Nat] /\ published \in [Executions -> SUBSET Periods]
    BY DEF TypeInv, TypeOK
<1> USE DEF Inside, Publisher, Streaming
<1>1. ASSUME NEW e \in Executions, Plan(e) PROVE Counted(f)'
    <2>1. CASE f = e
        <3>1. pc[f] = "idle" /\ pc'[f] = "planned" /\ cur'[f] <= last'[f]
              /\ UNCHANGED <<outcome, unit_done, published>>
            BY <1>t, <1>1, <2>1 DEF Plan, Periods
        <3>2. published[f] = {} /\ published'[f] = {} /\ unit_done'[f] = unit_done[f]
              /\ outcome'[f] = outcome[f]
            BY <1>f, <3>1 DEF Counted
        <3> QED BY <1>f, <3>1, <3>2 DEF Counted
    <2>2. CASE f # e
        BY <1>t, <1>f, <1>1, <2>2, CountStays DEF Plan
    <2> QED BY <2>1, <2>2
<1>2. ASSUME NEW e \in Executions, Connect(e) PROVE Counted(f)'
    BY <1>t, <1>f, <1>2, CountStays DEF Connect
<1>3. ASSUME NEW e \in Executions, AcquireLock(e) PROVE Counted(f)'
    BY <1>t, <1>f, <1>3, CountStays DEF AcquireLock
<1>4. ASSUME NEW e \in Executions, LockBusy(e) \/ ConnectFails(e) PROVE Counted(f)'
    BY <1>t, <1>f, <1>4, CountStays DEF LockBusy, ConnectFails, EnterRaises
<1>5. ASSUME NEW e \in Executions, ClearStage(e) PROVE Counted(f)'
    BY <1>t, <1>f, <1>5, CountStays DEF ClearStage
<1>6. ASSUME NEW e \in Executions, ClearStageFails(e) PROVE Counted(f)'
    BY <1>t, <1>f, <1>6, CountStays DEF ClearStageFails, EnterRaises
<1>7. ASSUME NEW e \in Executions, BeginUnit(e) PROVE Counted(f)'
    BY <1>t, <1>f, <1>7, CountStays DEF BeginUnit
<1>8. ASSUME NEW e \in Executions, AllUnitsDone(e) PROVE Counted(f)'
    <2>1. CASE f = e
        <3>1. /\ pc[f] = "between" /\ pc'[f] = "exiting" /\ cur[f] > last[f]
              /\ outcome'[f] = "success"
              /\ UNCHANGED <<cur, last, unit_done, published>>
            BY <1>t, <1>8, <2>1 DEF AllUnitsDone, Leave
        <3>2. /\ last[f] \in published[f] /\ unit_done[f] = Cardinality(published[f])
              /\ unit_done[f] \in Nat
            BY <1>t, <1>f, <3>1 DEF Counted
        <3>3. last'[f] = last[f] /\ unit_done'[f] = unit_done[f] /\ published'[f] = published[f]
            BY <3>1
        <3> QED BY <3>1, <3>2, <3>3 DEF Counted
    <2>2. CASE f # e
        BY <1>t, <1>f, <1>8, <2>2, CountStays DEF AllUnitsDone, Leave
    <2> QED BY <2>1, <2>2
<1>9. ASSUME NEW e \in Executions, TakePage(e) PROVE Counted(f)'
    BY <1>t, <1>f, <1>9, CountStays DEF TakePage
<1>10. ASSUME NEW e \in Executions, PageFails(e) PROVE Counted(f)'
    BY <1>t, <1>f, <1>10, CountStays DEF PageFails, Leave
<1>11. ASSUME NEW e \in Executions, Cancel(e) PROVE Counted(f)'
    BY <1>t, <1>f, <1>11, CountStays DEF Cancel, Leave
<1>12. ASSUME NEW e \in Executions, Publish(e) PROVE Counted(f)'
    <2>1. CASE f = e
        <3>1. /\ pc[f] = "publishing" /\ pc'[f] = "between"
              /\ published'[f] = published[f] \cup {cur[f]}
              /\ unit_done'[f] = unit_done[f] + 1 /\ cur'[f] = cur[f] + 1
              /\ last'[f] = last[f] /\ outcome'[f] = outcome[f]
            BY <1>t, <1>12, <2>1 DEF Publish
        <3>2. unit_done[f] \in Nat /\ Cardinality(published'[f]) = unit_done'[f]
            <4>1. unit_done[f] \in Nat /\ Cardinality(published[f] \cup {cur[f]}) = unit_done[f] + 1
                BY <1>f, <3>1, OneMorePeriod
            <4> QED BY <3>1, <4>1
        <3>3. cur[f] <= last[f] /\ cur[f] \in Int /\ last[f] \in Int
            BY <1>t, <3>1 DEF TypeInv, UnitsInPlan
        <3>4. cur'[f] <= last'[f] \/ last'[f] \in published'[f]
            BY <3>1, <3>3
        <3>5. outcome'[f] = "none" /\ \A p \in published[f] : p < cur[f]
            BY <1>f, <3>1 DEF Counted
        <3>6. \A p \in published'[f] : p < cur'[f]
            BY <1>t, <3>1, <3>3, <3>5 DEF Periods
        <3> QED BY <3>1, <3>2, <3>4, <3>5, <3>6 DEF Counted
    <2>2. CASE f # e
        BY <1>t, <1>f, <1>12, <2>2, CountStays DEF Publish
    <2> QED BY <2>1, <2>2
<1>13. ASSUME NEW e \in Executions, PublishFails(e) PROVE Counted(f)'
    <2>1. CASE f = e
        <3>1. /\ pc[f] = "publishing" /\ pc'[f] = "exiting" /\ outcome'[f] = "failed"
              /\ unit_done'[f] = unit_done[f]
            BY <1>t, <1>13, <2>1 DEF PublishFails, Leave
        <3>2. published'[f] = published[f] \/ published'[f] = published[f] \cup {cur[f]}
            BY <1>t, <1>13, <2>1 DEF PublishFails
        <3>3. /\ unit_done[f] \in Nat /\ Cardinality(published[f]) = unit_done[f]
              /\ Cardinality(published[f] \cup {cur[f]}) = unit_done[f] + 1
            BY <1>f, <3>1, OneMorePeriod
        <3>4. /\ unit_done'[f] <= Cardinality(published'[f])
              /\ Cardinality(published'[f]) <= unit_done'[f] + 1
            <4>1. Cardinality(published'[f]) \in {unit_done[f], unit_done[f] + 1}
                BY <3>2, <3>3
            <4> QED BY <3>1, <3>3, <4>1
        <3> QED BY <3>1, <3>4 DEF Counted
    <2>2. CASE f # e
        BY <1>t, <1>f, <1>13, <2>2, CountStays DEF PublishFails, Leave
    <2> QED BY <2>1, <2>2
<1>14. ASSUME NEW e \in Executions, Cleanup(e) PROVE Counted(f)'
    BY <1>t, <1>f, <1>14, CountStays DEF Cleanup
<1>15. ASSUME NEW e \in Executions, Unlock(e) PROVE Counted(f)'
    BY <1>t, <1>f, <1>15, CountStays DEF Unlock, Ends
<1>16. ASSUME NEW e \in Executions, UnlockFails(e) PROVE Counted(f)'
    BY <1>t, <1>f, <1>16, CountStays DEF UnlockFails, Ends
<1>17. ASSUME NEW e \in Executions, ProcessDies(Host[e]) PROVE Counted(f)'
    BY <1>t, <1>f, <1>17, CountStays DEF ProcessDies
<1>18. ASSUME NEW c \in Conns, ConnectionLost(c) \/ Recycle(c) PROVE Counted(f)'
    BY <1>f, <1>18, CountStays DEF ConnectionLost, Recycle
<1>19. ASSUME DatabaseCrash PROVE Counted(f)'
    BY <1>f, <1>19, CountStays DEF DatabaseCrash
<1>20. CASE UNCHANGED vars
    BY <1>f, <1>20, CountStays DEF vars
<1> QED BY <1>1, <1>2, <1>3, <1>4, <1>5, <1>6, <1>7, <1>8, <1>9, <1>10, <1>11, <1>12, <1>13,
           <1>14, <1>15, <1>16, <1>17, <1>18, <1>19, <1>20 DEF Next, Step

\* What is counted is durable, what is durable is counted but for a unit whose
\* commit raised, and a success has published its whole plan.
THEOREM CountsAreDurable == Spec => []CountedIsPublished
<1>1. CountInv => CountedIsPublished
    BY DEF CountInv, Counted, CountedIsPublished
<1> QED BY <1>1, TypeInvInit, TypeInvNext, CountInvInit, CountInvNext, PTL DEF Spec
-----------------------------------------------------------------------------
\* An execution has a connection between __enter__ and the end of __exit__ and
\* at no other time, from the pool of its own process, and shares it with
\* nobody: nothing is checked out for ever, and __exit__ always finds one.
ConnectionsAreGivenBack ==
    \A e \in Executions :
        /\ conn[e] = NoConn <=> pc[e] \in {"idle", "planned", "ended"}
        /\ conn[e] # NoConn => /\ Home[conn[e]] = Host[e]
                               /\ \A f \in Executions : conn[f] = conn[e] => f = e

ConnInv == \A e \in Executions : conn[e] = NoConn <=> pc[e] \in {"idle", "planned", "ended"}

\* Nobody is connected at first.
LEMMA ConnInvInit == Init => ConnInv
BY DEF Init, ConnInv

\* The only ways out of __enter__ and __exit__ give the connection back.
LEMMA ConnInvNext == TypeInv /\ ConnInv /\ [Next]_vars => ConnInv'
<1> SUFFICES ASSUME TypeInv, ConnInv, [Next]_vars PROVE ConnInv'
    OBVIOUS
<1>t. /\ pc \in [Executions -> Places]
      /\ conn \in [Executions -> Conns \cup {NoConn}]
    BY DEF TypeInv, TypeOK
<1> USE DEF execution, database, history, ConnInv, Goto, Leave
<1>1. ASSUME NEW e \in Executions, Plan(e) PROVE ConnInv'
    BY <1>t, <1>1 DEF Plan
<1>2. ASSUME NEW e \in Executions, Connect(e) PROVE ConnInv'
    BY <1>t, <1>2 DEF Connect
<1>3. ASSUME NEW e \in Executions,
             LockBusy(e) \/ ConnectFails(e) \/ ClearStageFails(e) \/ Unlock(e) \/ UnlockFails(e)
      PROVE  ConnInv'
    BY <1>t, <1>3 DEF LockBusy, ConnectFails, ClearStageFails, Unlock, UnlockFails, EnterRaises, Ends, GiveBack
<1>4. ASSUME NEW e \in Executions,
             \/ AcquireLock(e) \/ ClearStage(e) \/ BeginUnit(e) \/ AllUnitsDone(e)
             \/ PageFails(e) \/ Cancel(e) \/ Publish(e) \/ PublishFails(e)
      PROVE  ConnInv'
    BY <1>t, <1>4 DEF AcquireLock, ClearStage, BeginUnit, AllUnitsDone, PageFails, Cancel,
                      Publish, PublishFails
<1>5. ASSUME NEW e \in Executions, TakePage(e) PROVE ConnInv'
    <2>1. PICK short \in BOOLEAN : pc' = [pc EXCEPT ![e] = IF short THEN "publishing" ELSE @]
        BY <1>5 DEF TakePage
    <2>2. pc[e] = "paging" /\ conn' = conn
        BY <1>5 DEF TakePage
    <2>3. \/ pc' = [pc EXCEPT ![e] = "publishing"]
          \/ pc' = pc
        BY <1>t, <2>1, <2>2
    <2> QED BY <1>t, <2>2, <2>3
<1>6. ASSUME NEW e \in Executions, Cleanup(e) PROVE ConnInv'
    BY <1>t, <1>6 DEF Cleanup
<1>7. ASSUME NEW e \in Executions, ProcessDies(Host[e]) PROVE ConnInv'
    BY <1>t, <1>7 DEF ProcessDies
<1>8. ASSUME NEW c \in Conns, ConnectionLost(c) \/ Recycle(c) PROVE ConnInv'
    BY <1>8 DEF ConnectionLost, Recycle
<1>9. CASE DatabaseCrash \/ UNCHANGED vars
    BY <1>9 DEF DatabaseCrash, vars
<1> QED BY <1>1, <1>2, <1>3, <1>4, <1>5, <1>6, <1>7, <1>8, <1>9 DEF Next, Step

\* Every way out of __enter__ and __exit__ gives the connection back.
THEOREM NoConnectionIsLost == Spec => []ConnectionsAreGivenBack
<1>1. LockInv /\ ConnInv => ConnectionsAreGivenBack
    BY DEF LockInv, ConnExclusive, OwnPool, ConnInv, ConnectionsAreGivenBack
<1> QED BY <1>1, TypeInvInit, TypeInvNext, LockInvInit, LockInvNext, ConnInvInit, ConnInvNext,
           PTL DEF Spec

-----------------------------------------------------------------------------
\* The lock gets into the pool in two ways only: clear_stage or its commit raises
\* in __enter__, or the unlock raises in __exit__.  Otherwise a connection in the
\* pool that holds it had it there before, or came out of the pool with it and
\* held it twice.  No fault, no lost race for the lock and no broken connection
\* leaks it.
LeaksByFailureOnly ==
    [][\A c \in Conns : (~ InUse(c) /\ locks[c] > 0)' =>
           \/ ~ InUse(c) /\ locks[c] > 0
           \/ InUse(c) /\ locks[c] > 1
           \/ \E e \in Executions : conn[e] = c /\ (ClearStageFails(e) \/ UnlockFails(e))]_vars

\* The lock stays behind with a pooled connection in the ways that clear_stage and
\* the unlock can fail, and in no other.
THEOREM LeaksAreByFailure == Spec => LeaksByFailureOnly
<1> DEFINE Leaks ==
        \A c \in Conns : (~ InUse(c) /\ locks[c] > 0)' =>
           \/ ~ InUse(c) /\ locks[c] > 0
           \/ InUse(c) /\ locks[c] > 1
           \/ \E e \in Executions : conn[e] = c /\ (ClearStageFails(e) \/ UnlockFails(e))
<1>1. ASSUME TypeInv, LockInv, ConnInv, [Next]_vars PROVE Leaks
    <2> SUFFICES ASSUME NEW c \in Conns, ~ InUse(c)', locks'[c] > 0
                 PROVE  \/ ~ InUse(c) /\ locks[c] > 0
                        \/ InUse(c) /\ locks[c] > 1
                        \/ \E e \in Executions : conn[e] = c /\ (ClearStageFails(e) \/ UnlockFails(e))
        OBVIOUS
    <2>t. /\ locks \in [Conns -> Nat] /\ broken \subseteq Conns
          /\ conn \in [Executions -> Conns \cup {NoConn}]
        BY <1>1 DEF TypeInv, TypeOK
    <2> USE DEF execution, database, history
    <2>1. CASE UNCHANGED <<conn, locks>>
        BY <2>1 DEF InUse
    <2>2. ASSUME NEW e \in Executions, Connect(e) PROVE ~ InUse(c) /\ locks[c] > 0
        <3>1. PICK d \in Conns : conn' = [conn EXCEPT ![e] = d] /\ UNCHANGED locks
            BY <2>2 DEF Connect
        <3>2. conn[e] = NoConn
            BY <1>1, <2>2 DEF Connect, Goto, ConnInv
        <3> QED BY <2>t, <3>1, <3>2 DEF InUse
    <2>3. ASSUME NEW e \in Executions, AcquireLock(e) PROVE ~ InUse(c) /\ locks[c] > 0
        <3>1. conn[e] \in Conns /\ conn' = conn /\ locks' = [locks EXCEPT ![conn[e]] = @ + 1]
            BY <2>t, <2>3 DEF AcquireLock, Connected
        <3>2. ~ InUse(c) /\ c # conn[e]
            BY <3>1 DEF InUse
        <3> QED BY <2>t, <3>1, <3>2
    <2>4. ASSUME NEW e \in Executions, GiveBack(e), c # conn[e] PROVE ~ InUse(c)
        BY <2>t, <2>4 DEF GiveBack, InUse
    <2>5. ASSUME NEW e \in Executions, LockBusy(e) \/ ConnectFails(e) PROVE ~ InUse(c) /\ locks[c] > 0
        <3>1. GiveBack(e) /\ locks' = locks
            BY <2>5 DEF LockBusy, ConnectFails, EnterRaises
        <3>2. c # conn[e]
            <4> SUFFICES ASSUME c = conn[e] PROVE FALSE
                OBVIOUS
            <4>1. CASE ~ Connected(e)
                BY <1>1, <3>1, <4>1 DEF Connected, LockInv, BrokenHoldsNothing
            <4>2. CASE ~ LockFree(conn[e])
                BY <1>1, <2>t, <3>1, <4>2 DEF LockFree, LockInv, OneHolder
            <4>3. CASE ConnectFails(e)
                BY <1>1, <2>t, <4>3 DEF ConnectFails, EnterRaises, Goto, ConnInv
            <4> QED BY <2>5, <4>1, <4>2, <4>3 DEF LockBusy
        <3> QED BY <2>4, <3>1, <3>2
    <2>6. ASSUME NEW e \in Executions, ClearStageFails(e)
          PROVE  (~ InUse(c) /\ locks[c] > 0) \/ conn[e] = c
        <3>1. GiveBack(e) /\ locks' = locks
            BY <2>6 DEF ClearStageFails, EnterRaises
        <3> QED BY <2>4, <3>1
    <2>7. ASSUME NEW e \in Executions, UnlockFails(e)
          PROVE  (~ InUse(c) /\ locks[c] > 0) \/ conn[e] = c
        <3>1. GiveBack(e) /\ locks' = locks
            BY <2>7 DEF UnlockFails, Ends
        <3> QED BY <2>4, <3>1
    <2>8. ASSUME NEW e \in Executions, Unlock(e)
          PROVE  \/ ~ InUse(c) /\ locks[c] > 0
                 \/ InUse(c) /\ locks[c] > 1
        <3>1. GiveBack(e) /\ locks' = [locks EXCEPT ![conn[e]] = IF @ > 0 THEN @ - 1 ELSE 0]
            BY <2>8 DEF Unlock, Ends
        <3>2. CASE c # conn[e]
            BY <2>t, <2>4, <3>1, <3>2
        <3>3. CASE c = conn[e]
            <4>1. InUse(c)
                BY <3>3 DEF InUse
            <4>2. locks'[c] = IF locks[c] > 0 THEN locks[c] - 1 ELSE 0
                BY <2>t, <3>1, <3>3
            <4> QED BY <2>t, <4>1, <4>2
        <3> QED BY <3>2, <3>3
    <2>9. ASSUME NEW e \in Executions, Cleanup(e) PROVE ~ InUse(c) /\ locks[c] > 0
        <3>1. PICK d \in Conns : /\ d = conn[e] \/ ~ Connected(e)
                                 /\ conn' = [conn EXCEPT ![e] = d] /\ UNCHANGED locks
            BY <2>9 DEF Cleanup
        <3>2. CASE c # conn[e]
            BY <2>t, <3>1, <3>2 DEF InUse
        <3>3. CASE c = conn[e]
            <4>1. d # c
                BY <2>t, <3>1 DEF InUse
            <4>2. conn[e] \in broken
                BY <3>1, <3>3, <4>1 DEF Connected
            <4> QED BY <1>1, <3>1, <3>3, <4>2 DEF LockInv, BrokenHoldsNothing
        <3> QED BY <3>2, <3>3
    <2>10. ASSUME NEW e \in Executions, ProcessDies(Host[e]) PROVE ~ InUse(c) /\ locks[c] > 0
        <3>1. /\ locks' = Without({d \in Conns : Home[d] = Host[e]})
              /\ \A f \in Executions : conn'[f] = conn[f] \/ Host[f] = Host[e]
            BY <2>t, <2>10 DEF ProcessDies
        <3>2. locks[c] > 0 /\ Home[c] # Host[e]
            BY <2>t, <3>1 DEF Without
        <3>3. \A f \in Executions : conn[f] # c
            <4> SUFFICES ASSUME NEW f \in Executions, conn[f] = c PROVE FALSE
                OBVIOUS
            <4>1. Host[f] = Home[c]
                BY <1>1, <2>t DEF LockInv, OwnPool
            <4>2. conn'[f] = c
                BY <3>1, <3>2, <4>1
            <4> QED BY <4>2 DEF InUse
        <3> QED BY <3>2, <3>3 DEF InUse
    <2>11. ASSUME NEW d \in Conns, ConnectionLost(d) \/ Recycle(d) PROVE ~ InUse(c) /\ locks[c] > 0
        <3>1. conn' = conn /\ locks' = Without({d})
            BY <2>11 DEF ConnectionLost, Recycle
        <3> QED BY <2>t, <3>1 DEF Without, InUse
    <2>12. CASE DatabaseCrash
        <3>1. locks' = Without(Conns)
            BY <2>12 DEF DatabaseCrash
        <3> QED BY <3>1 DEF Without
    <2>13. ASSUME NEW e \in Executions,
                  \/ Plan(e) \/ ClearStage(e) \/ BeginUnit(e) \/ AllUnitsDone(e) \/ TakePage(e)
                  \/ PageFails(e) \/ Cancel(e) \/ Publish(e) \/ PublishFails(e)
           PROVE  UNCHANGED <<conn, locks>>
        BY <2>13 DEF Plan, ClearStage, BeginUnit, AllUnitsDone, TakePage, PageFails, Cancel,
                     Publish, PublishFails, Leave
    <2>14. CASE UNCHANGED vars
        BY <2>1, <2>14 DEF vars
    <2> QED BY <1>1, <2>1, <2>2, <2>3, <2>5, <2>6, <2>7, <2>8, <2>9, <2>10, <2>11, <2>12, <2>13, <2>14
            DEF Next, Step
<1>2. TypeInv /\ LockInv /\ ConnInv /\ [Next]_vars => [Leaks]_vars
    BY <1>1
<1> QED BY <1>2, TypeInvInit, TypeInvNext, LockInvInit, LockInvNext, ConnInvInit, ConnInvNext,
           PTL DEF Spec, LeaksByFailureOnly
-----------------------------------------------------------------------------
\* What is left of an execution: its units, and its way through the places.
Left(e) == IF pc[e] = "idle" THEN NumPeriods ELSE NumPeriods + 1 - cur[e]

PlaceRank(e) ==
    CASE pc[e] = "idle"       -> MaxPages + 10
      [] pc[e] = "planned"    -> MaxPages + 9
      [] pc[e] = "connected"  -> MaxPages + 8
      [] pc[e] = "locked"     -> MaxPages + 7
      [] pc[e] = "between"    -> MaxPages + 6
      [] pc[e] = "paging"     -> MaxPages + 5 - pages[e]
      [] pc[e] = "publishing" -> 4
      [] pc[e] = "exiting"    -> 3
      [] pc[e] = "unlocking"  -> 2
      [] pc[e] = "ended"      -> 0

Rank(e) == (MaxPages + 3) * Left(e) + PlaceRank(e)

\* Both parts are natural numbers.
LEMMA RankParts ==
    ASSUME TypeInv, NEW e \in Executions
    PROVE  Left(e) \in Nat /\ PlaceRank(e) \in Nat
<1>1. /\ pc[e] \in Places /\ cur[e] \in 1 .. NumPeriods + 1 /\ pages[e] \in 0 .. MaxPages
      /\ NumPeriods \in Nat /\ MaxPages \in Nat
    BY DEF TypeInv, TypeOK
<1>2. Left(e) \in Nat
    BY <1>1 DEF Left
<1>3. PlaceRank(e) \in Nat
    BY <1>1 DEF PlaceRank, Places
<1> QED BY <1>2, <1>3

\* Fewer units are worth no more, and one unit less is worth one unit's steps.
LEMMA UnitWorth ==
    ASSUME NEW k \in Nat, NEW n \in Nat, NEW m \in Nat, m <= n
    PROVE  /\ k * n \in Nat /\ k * m \in Nat
           /\ k * m <= k * n
           /\ m + 1 = n => k * n = k * m + k
<1>1. PICK d \in Nat : n = m + d
    <2>1. n - m \in Nat /\ n = m + (n - m)
        OBVIOUS
    <2> QED BY <2>1
<1>2. k * m \in Nat /\ k * d \in Nat /\ k * n = k * m + k * d
    BY <1>1
<1> QED BY <1>1, <1>2

\* An execution that moves on comes nearer to its end.
LEMMA MovesCount ==
    ASSUME TypeInv, TypeInv', NEW e \in Executions,
           \/ Left(e)' <= Left(e) /\ PlaceRank(e)' < PlaceRank(e)
           \/ Left(e)' + 1 = Left(e) /\ PlaceRank(e)' = PlaceRank(e) + MaxPages + 2
    PROVE  Rank(e)' < Rank(e) /\ Rank(e)' <= Rank(e)
<1>1. /\ Left(e) \in Nat /\ PlaceRank(e) \in Nat
      /\ Left(e)' \in Nat /\ PlaceRank(e)' \in Nat
      /\ MaxPages \in Nat /\ MaxPages + 3 \in Nat
    <2>1. /\ pc'[e] \in Places /\ cur'[e] \in 1 .. NumPeriods + 1 /\ pages'[e] \in 0 .. MaxPages
          /\ NumPeriods \in Nat /\ MaxPages \in Nat
        BY DEF TypeInv, TypeOK
    <2>2. Left(e)' \in Nat
        BY <2>1 DEF Left
    <2>3. PlaceRank(e)' \in Nat
        BY <2>1 DEF PlaceRank, Places
    <2> QED BY RankParts, <2>2, <2>3
<1>2. Left(e)' <= Left(e)
    BY <1>1
<1> DEFINE k == MaxPages + 3
           n == Left(e)
           m == Left(e)'
           r == PlaceRank(e)
           q == PlaceRank(e)'
<1>3. Rank(e) = k * n + r /\ Rank(e)' = k * m + q
    BY DEF Rank
<1>4. /\ k * n \in Nat /\ k * m \in Nat
      /\ k * m <= k * n
      /\ m + 1 = n => k * n = k * m + k
    BY <1>1, <1>2, UnitWorth
<1>5. /\ r \in Nat /\ q \in Nat /\ k = MaxPages + 3 /\ MaxPages \in Nat
      /\ q < r \/ (m + 1 = n /\ q = r + MaxPages + 2)
    BY <1>1
<1>6. \A x, y \in Nat : x = k * n /\ y = k * m => y + q < x + r /\ y + q <= x + r
    <2> HIDE DEF k, n, m, r, q
    <2> QED BY <1>4, <1>5
<1> QED BY <1>3, <1>4, <1>6

\* The place and the unit of an execution, and its pages, tell its rank.
LEMMA RankStays ==
    ASSUME NEW e \in Executions, pc'[e] = pc[e], cur'[e] = cur[e], pages'[e] = pages[e]
    PROVE  Rank(e)' = Rank(e)
BY DEF Rank, Left, PlaceRank

\* Every step of an execution leaves less of it and all of the others; no fault
\* gives it more to do.
LEMMA RankFalls ==
    ASSUME TypeInv, TypeInv', [Next]_vars, NEW e \in Executions
    PROVE  /\ Step(e) => Rank(e)' < Rank(e)
           /\ Rank(e)' <= Rank(e)
<1>t. /\ pc \in [Executions -> Places] /\ cur \in [Executions -> 1 .. NumPeriods + 1]
      /\ pages \in [Executions -> 0 .. MaxPages]
      /\ NumPeriods \in Nat /\ MaxPages \in Nat
      /\ cur'[e] \in 1 .. NumPeriods + 1
    BY DEF TypeInv, TypeOK
<1> USE DEF execution, database, history, Goto, Leave
<1> DEFINE Fell == Rank(e)' < Rank(e) /\ Rank(e)' <= Rank(e)
<1>1. ASSUME NEW f \in Executions, Step(f), f # e PROVE Rank(e)' = Rank(e)
    <2>1. pc'[e] = pc[e] /\ cur'[e] = cur[e] /\ pages'[e] = pages[e]
        BY <1>t, <1>1 DEF Step, Plan, Connect, AcquireLock, LockBusy, ConnectFails, ClearStage, ClearStageFails,
           BeginUnit, AllUnitsDone, TakePage, PageFails, Cancel, Publish, PublishFails, Cleanup,
           Unlock, UnlockFails, Ends, EnterRaises
    <2> QED BY <2>1, RankStays
<1>2. ASSUME Step(e) PROVE Fell
    <2>1. ASSUME Plan(e) PROVE Fell
        <3>1. pc[e] = "idle" /\ pc'[e] = "planned"
            BY <1>t, <2>1 DEF Plan
        <3>2. Left(e)' <= Left(e)
            BY <1>t, <3>1 DEF Left
        <3>3. PlaceRank(e)' < PlaceRank(e)
            BY <1>t, <3>1 DEF PlaceRank
        <3> QED BY <3>2, <3>3, MovesCount
    <2>2. ASSUME Publish(e) PROVE Fell
        <3>1. /\ pc[e] = "publishing" /\ pc'[e] = "between"
              /\ cur'[e] = cur[e] + 1
            BY <1>t, <2>2 DEF Publish
        <3>2. Left(e)' + 1 = Left(e)
            BY <1>t, <3>1 DEF Left
        <3>3. PlaceRank(e)' = PlaceRank(e) + MaxPages + 2
            BY <1>t, <3>1 DEF PlaceRank
        <3> QED BY <3>2, <3>3, MovesCount
    <2>3. ASSUME TakePage(e) PROVE Fell
        <3>1. PICK short \in BOOLEAN :
                 /\ pc' = [pc EXCEPT ![e] = IF short THEN "publishing" ELSE @]
                 /\ pages' = [pages EXCEPT ![e] = IF short THEN 0 ELSE @ + 1]
            BY <2>3 DEF TakePage
        <3>2. pc[e] = "paging" /\ pages[e] \in 0 .. MaxPages /\ cur'[e] = cur[e]
            BY <1>t, <2>3 DEF TakePage
        <3>3. \/ pc'[e] = "publishing"
              \/ pc'[e] = "paging" /\ pages'[e] = pages[e] + 1
            BY <1>t, <3>1, <3>2
        <3>4. Left(e)' = Left(e)
            BY <3>2, <3>3 DEF Left
        <3>5. PlaceRank(e)' < PlaceRank(e)
            BY <1>t, <3>2, <3>3 DEF PlaceRank
        <3> QED BY <1>t, <3>2, <3>4, <3>5, MovesCount DEF Left
    <2>4. ASSUME ~ Plan(e), ~ Publish(e), ~ TakePage(e) PROVE Fell
        <3>1. /\ cur'[e] = cur[e] /\ pc[e] # "idle"
              /\ \/ pc[e] = "planned" /\ pc'[e] \in {"connected", "ended"}
                 \/ pc[e] = "connected" /\ pc'[e] \in {"locked", "ended"}
                 \/ pc[e] = "locked" /\ pc'[e] \in {"between", "ended"}
                 \/ pc[e] = "between" /\ pc'[e] = "paging" /\ pages'[e] = pages[e]
                 \/ pc[e] \in {"between", "paging", "publishing"} /\ pc'[e] = "exiting"
                 \/ pc[e] = "exiting" /\ pc'[e] = "unlocking"
                 \/ pc[e] = "unlocking" /\ pc'[e] = "ended"
            BY <1>t, <1>2, <2>4 DEF Step, Connect, AcquireLock, LockBusy, ConnectFails, ClearStage,
               ClearStageFails, BeginUnit, AllUnitsDone, PageFails, Cancel, PublishFails, Cleanup,
               Unlock, UnlockFails, Ends, EnterRaises
        <3>2. pages[e] \in 0 .. MaxPages
            BY <1>t
        <3>3. Left(e)' = Left(e) /\ Left(e) \in Int
            BY <1>t, <3>1 DEF Left
        <3>4. PlaceRank(e)' < PlaceRank(e)
            BY <1>t, <3>1, <3>2 DEF PlaceRank
        <3> QED BY <3>3, <3>4, MovesCount
    <2> QED BY <2>1, <2>2, <2>3, <2>4
<1>3. ASSUME NEW f \in Executions, ProcessDies(Host[f])
      PROVE  Rank(e)' = Rank(e) \/ Fell
    <2>1. CASE Host[e] = Host[f] /\ pc[e] \notin {"idle", "ended"}
        <3>1. pc'[e] = "ended" /\ cur'[e] = cur[e]
            BY <1>3, <2>1 DEF ProcessDies
        <3>2. Left(e)' = Left(e) /\ Left(e) \in Int
            BY <1>t, <2>1, <3>1 DEF Left
        <3>3. pages[e] \in 0 .. MaxPages /\ pc[e] \in Places
            BY <1>t
        <3>4. PlaceRank(e)' < PlaceRank(e)
            BY <1>t, <2>1, <3>1, <3>3 DEF PlaceRank, Places
        <3> QED BY <3>2, <3>4, MovesCount
    <2>2. CASE ~ (Host[e] = Host[f] /\ pc[e] \notin {"idle", "ended"})
        <3>1. pc'[e] = pc[e] /\ cur'[e] = cur[e] /\ pages'[e] = pages[e]
            BY <1>3, <2>2 DEF ProcessDies
        <3> QED BY <3>1, RankStays
    <2> QED BY <2>1, <2>2
<1>4. ASSUME \/ \E c \in Conns : ConnectionLost(c) \/ Recycle(c)
             \/ DatabaseCrash
             \/ UNCHANGED vars
      PROVE  Rank(e)' = Rank(e)
    <2>1. UNCHANGED execution
        BY <1>4 DEF ConnectionLost, Recycle, DatabaseCrash, vars
    <2> QED BY <2>1, RankStays
<1>5. Rank(e) \in Nat
    <2>1. MaxPages + 3 \in Nat /\ Left(e) \in Nat /\ PlaceRank(e) \in Nat
        BY RankParts, <1>t
    <2> QED BY <2>1, UnitWorth DEF Rank
<1> QED BY <1>1, <1>2, <1>3, <1>4, <1>5 DEF Next

\* An execution has a bounded number of steps to take, whatever the others do
\* and however often processes, connections or the database fail: each of its
\* steps leaves less of a natural number, and nothing else adds to it.  Nobody
\* retries a unit, a page or the lock.
THEOREM StagedExecutionsAreFinite ==
    Spec => /\ \A e \in Executions : Rank(e) = (MaxPages + 3) * NumPeriods + MaxPages + 10
            /\ [](\A e \in Executions : Rank(e) \in Nat)
            /\ [][\A e \in Executions : /\ Step(e) => Rank(e)' < Rank(e)
                                        /\ Rank(e)' <= Rank(e)]_vars
<1> DEFINE First == \A e \in Executions : Rank(e) = (MaxPages + 3) * NumPeriods + MaxPages + 10
           Natural == \A e \in Executions : Rank(e) \in Nat
           Falls == \A e \in Executions : /\ Step(e) => Rank(e)' < Rank(e)
                                          /\ Rank(e)' <= Rank(e)
<1>1. Init => First
    <2> SUFFICES ASSUME Init, NEW e \in Executions
                 PROVE  Rank(e) = (MaxPages + 3) * NumPeriods + MaxPages + 10
        OBVIOUS
    <2>1. Left(e) = NumPeriods
        BY DEF Init, Left
    <2>2. PlaceRank(e) = MaxPages + 10 /\ MaxPages \in Nat /\ NumPeriods \in Nat
        BY DEF Init, PlaceRank
    <2>3. (MaxPages + 3) * NumPeriods \in Nat
        BY <2>2, UnitWorth
    <2> QED BY <2>1, <2>2, <2>3 DEF Rank
<1>2. TypeInv => Natural
    <2> SUFFICES ASSUME TypeInv, NEW e \in Executions PROVE Rank(e) \in Nat
        OBVIOUS
    <2>1. MaxPages + 3 \in Nat /\ Left(e) \in Nat /\ PlaceRank(e) \in Nat
        BY RankParts
    <2> QED BY <2>1, UnitWorth DEF Rank
<1>3. TypeInv /\ TypeInv' /\ [Next]_vars => [Falls]_vars
    BY RankFalls
<1> HIDE DEF First, Natural, Falls
<1>4. Spec => First /\ []Natural /\ [][Falls]_vars
    BY <1>1, <1>2, <1>3, TypeInvInit, TypeInvNext, PTL DEF Spec
<1> QED BY <1>4 DEF First, Natural, Falls
=============================================================================
