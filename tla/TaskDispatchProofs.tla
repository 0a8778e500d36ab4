------------------------- MODULE TaskDispatchProofs -------------------------
(***************************************************************************)
(* Proofs about TaskDispatch, for any workflow, plan and failure policies: *)
(* its safety properties, that it is over after a bounded number of steps, *)
(* and that its dataset steps are DatasetSteps.                            *)
(***************************************************************************)
EXTENDS TaskDispatch, TLAPS

USE DispatchAssumption

-----------------------------------------------------------------------------
\* A final status is written of a known outcome.
OutcomeKnown == pc \in {"finalizing", "refinalizing"} => outcome # "none"

TypeInv == TypeOK /\ OutcomeKnown

\* The first state has the types.
LEMMA TypesInit == Init => TypeInv
BY DEF Init, TypeInv, OutcomeKnown, TypeOK, Steps, Places


\* Every step keeps the types.
LEMMA TypesNext == TypeInv /\ [Next]_vars => TypeInv'
<1> SUFFICES ASSUME TypeInv, [Next]_vars PROVE TypeInv'
    OBVIOUS
<1> USE DEF TypeInv, OutcomeKnown, TypeOK, Steps, Places, Goto, run, counts, data
<1>1. CASE Start
    BY <1>1 DEF Start
<1>2. CASE StartFails
    BY <1>2 DEF StartFails
<1>3. CASE CreateNode
    BY <1>3 DEF CreateNode
<1>4. CASE CreateNodeFails
    BY <1>4 DEF CreateNodeFails, MaybeNode
<1>5. CASE CreateUnitNodeFails
    <2>1. step + 1 \in Steps
        BY <1>5 DEF CreateUnitNodeFails
    <2>2. node' \in [Steps -> {"absent", "running", "success", "failed"}]
        BY <1>5, <2>1 DEF CreateUnitNodeFails, MaybeNode
    <2>3. current_node_id' \in 0 .. last
        BY <1>5, <2>1 DEF CreateUnitNodeFails
    <2> QED BY <1>5, <2>1, <2>2, <2>3 DEF CreateUnitNodeFails
<1>6. CASE SkipClosedDay
    BY <1>6 DEF SkipClosedDay
<1>7. CASE BeginStep
    BY <1>7 DEF BeginStep
<1>8. CASE CommitUnit
    <2>1. step \in Steps /\ left[step] - 1 \in 0 .. NumUnits
        BY <1>8 DEF CommitUnit
    <2> QED BY <1>8, <2>1 DEF CommitUnit, Commit
<1>9. CASE StepDone
    BY <1>9 DEF StepDone
<1>10. CASE RunAction
    <2>1. step \in Steps /\ left[step] - left[step] = 0
        BY <1>10 DEF RunAction
    <2> QED BY <1>10, <2>1 DEF RunAction, Commit
<1>11. CASE StepRaises
    <2>1. step \in Steps
        BY <1>11 DEF StepRaises
    <2>2. CASE UNCHANGED <<left, late>>
        BY <1>11, <2>2 DEF StepRaises
    <2>3. CASE \E n \in 1 .. NumUnits : n <= left[step] /\ Commit(n)
        <3>1. PICK n \in 1 .. NumUnits : n <= left[step] /\ Commit(n)
            BY <2>3
        <3>2. left[step] - n \in 0 .. NumUnits
            BY <2>1, <3>1
        <3> QED BY <1>11, <2>1, <3>1, <3>2 DEF StepRaises, Commit
    <2> QED BY <1>11, <2>2, <2>3 DEF StepRaises
<1>12. CASE FinishStep
    BY <1>12 DEF FinishStep
<1>13. CASE FinishStepFails
    BY <1>13 DEF FinishStepFails, MaybeNode
<1>14. CASE StepFails
    BY <1>14 DEF StepFails, NodeFails, BlamedNodes
<1>15. CASE ActionFails
    BY <1>15 DEF ActionFails, NodeFails, BlamedNodes
<1>16. CASE HandlerFails
    BY <1>16 DEF HandlerFails, NodeFails, BlamedNodes
<1>17. CASE LoopEnds
    BY <1>17 DEF LoopEnds
<1>18. CASE DispatchEnds
    BY <1>18 DEF DispatchEnds, WorkflowStatus
<1>19. CASE Finalize
    <2>1. FinalStatus \in {"none", "success", "partial_success", "failed", "canceled"}
        BY DEF FinalStatus
    <2>2. outcome # "none"
        BY <1>19 DEF OutcomeKnown, Finalize
    <2>3. row' = row \/ row' = [row EXCEPT !.status = FinalStatus]
        BY <1>19 DEF Finalize
    <2>4. row' \in [status : {"running", "canceling", "success", "partial_success", "failed", "canceled"},
                    cancel : BOOLEAN]
        BY <2>1, <2>2, <2>3 DEF FinalStatus
    <2> QED BY <1>19, <2>4 DEF Finalize
<1>20. CASE FinalizeRaises
    <2>1. FinalStatus \in {"none", "success", "partial_success", "failed", "canceled"}
        BY DEF FinalStatus
    <2>2. outcome # "none"
        BY <1>20 DEF OutcomeKnown, FinalizeRaises
    <2>3. row' = row \/ row' = [row EXCEPT !.status = FinalStatus]
        BY <1>20 DEF FinalizeRaises
    <2>4. row' \in [status : {"running", "canceling", "success", "partial_success", "failed", "canceled"},
                    cancel : BOOLEAN]
        BY <2>1, <2>2, <2>3 DEF FinalStatus
    <2> QED BY <1>20, <2>4 DEF FinalizeRaises
<1>21. CASE RequestCancel
    BY <1>21 DEF RequestCancel
<1>22. CASE Crash
    BY <1>22 DEF Crash
<1>23. CASE Reconcile
    BY <1>23 DEF Reconcile
<1>24. CASE UNCHANGED vars
    BY <1>24 DEF vars
<1> QED BY <1>1, <1>2, <1>3, <1>4, <1>5, <1>6, <1>7, <1>8, <1>9, <1>10,
            <1>11, <1>12, <1>13, <1>14, <1>15, <1>16, <1>17, <1>18, <1>19, <1>20,
            <1>21, <1>22, <1>23, <1>24 DEF Next, Dispatch


\* Every variable keeps its type, in every reachable state.
THEOREM TypeCorrect == Spec => []TypeOK
<1>1. TypeInv => TypeOK
    BY DEF TypeInv
<1> QED BY TypesInit, TypesNext, <1>1, PTL DEF Spec

-----------------------------------------------------------------------------
\* Where the thread is, its node and what it blames for an exception.
AtWork == {"beginning", "working", "finishing"}

NodeOfStep ==
    /\ pc \in {"created", "between"} \cup AtWork => current_node_id = step
    /\ pc \in AtWork => node[step] = "running"
    /\ pc = "created" => step = 0
    /\ \A t \in Steps : t > step => node[t] = "absent"

\* A registered action may blame the node before, when its own is not there.
BlamedNode ==
    pc = "failing" =>
        \/ current_node_id = step /\ (kind = "workflow" => step # 0 /\ node[step] # "absent")
        \/ /\ kind = "registered" /\ current_node_id = step - 1
           /\ step \in Steps /\ node[step] = "absent"

PlaceInv == NodeOfStep /\ BlamedNode

\* The invariant about the places holds at first.
LEMMA PlaceInit == Init => PlaceInv
BY DEF Init, PlaceInv, NodeOfStep, BlamedNode, AtWork, Steps

\* Every step keeps the invariant about the places.
LEMMA PlaceNext == TypeInv /\ PlaceInv /\ [Next]_vars => PlaceInv'
<1> SUFFICES ASSUME TypeInv /\ PlaceInv, [Next]_vars PROVE PlaceInv'
    OBVIOUS
<1> USE DEF PlaceInv, NodeOfStep, BlamedNode, AtWork, TypeInv, TypeOK, Steps, Goto, run, counts, data
<1>1. CASE Start
    BY <1>1 DEF Start
<1>2. CASE StartFails
    BY <1>2 DEF StartFails
<1>3. CASE CreateNode
    BY <1>3 DEF CreateNode
<1>4. CASE CreateNodeFails
    BY <1>4 DEF CreateNodeFails, MaybeNode
<1>5. CASE CreateUnitNodeFails
    BY <1>5 DEF CreateUnitNodeFails, MaybeNode
<1>6. CASE SkipClosedDay
    BY <1>6 DEF SkipClosedDay
<1>7. CASE BeginStep
    BY <1>7 DEF BeginStep
<1>8. CASE CommitUnit
    BY <1>8 DEF CommitUnit, Commit
<1>9. CASE StepDone
    BY <1>9 DEF StepDone
<1>10. CASE RunAction
    BY <1>10 DEF RunAction, Commit
<1>11. CASE StepRaises
    BY <1>11 DEF StepRaises, Commit
<1>12. CASE FinishStep
    BY <1>12 DEF FinishStep
<1>13. CASE FinishStepFails
    BY <1>13 DEF FinishStepFails, MaybeNode
<1>14. CASE StepFails
    BY <1>14 DEF StepFails, NodeFails, BlamedNodes
<1>15. CASE ActionFails
    BY <1>15 DEF ActionFails, NodeFails, BlamedNodes
<1>16. CASE HandlerFails
    BY <1>16 DEF HandlerFails, NodeFails, BlamedNodes
<1>17. CASE LoopEnds
    BY <1>17 DEF LoopEnds
<1>18. CASE DispatchEnds
    BY <1>18 DEF DispatchEnds, WorkflowStatus
<1>19. CASE Finalize
    BY <1>19 DEF Finalize, FinalStatus
<1>20. CASE FinalizeRaises
    BY <1>20 DEF FinalizeRaises, FinalStatus
<1>21. CASE RequestCancel
    BY <1>21 DEF RequestCancel
<1>22. CASE Crash
    BY <1>22 DEF Crash
<1>23. CASE Reconcile
    BY <1>23 DEF Reconcile
<1>24. CASE UNCHANGED vars
    BY <1>24 DEF vars
<1> QED BY <1>1, <1>2, <1>3, <1>4, <1>5, <1>6, <1>7, <1>8, <1>9, <1>10,
            <1>11, <1>12, <1>13, <1>14, <1>15, <1>16, <1>17, <1>18, <1>19, <1>20,
            <1>21, <1>22, <1>23, <1>24 DEF Next, Dispatch

-----------------------------------------------------------------------------
\* A node is finished only after all of the step's work is durable.
EvidenceInv == EvidenceIsDurable /\ (pc = "finishing" => left[step] = 0)

\* No work of the first state is claimed to be durable.
LEMMA EvidenceInit == Init => EvidenceInv
BY DEF Init, EvidenceInv, EvidenceIsDurable, Steps

\* Every step keeps it: work that is durable stays so.
LEMMA EvidenceNext == TypeInv /\ PlaceInv /\ EvidenceInv /\ [Next]_vars => EvidenceInv'
<1> SUFFICES ASSUME TypeInv /\ PlaceInv /\ EvidenceInv, [Next]_vars PROVE EvidenceInv'
    OBVIOUS
<1> USE DEF EvidenceInv, EvidenceIsDurable, PlaceInv, NodeOfStep, BlamedNode, AtWork, TypeInv, TypeOK, Steps, Goto, run, counts, data
<1>1. CASE Start
    BY <1>1 DEF Start
<1>2. CASE StartFails
    BY <1>2 DEF StartFails
<1>3. CASE CreateNode
    BY <1>3 DEF CreateNode
<1>4. CASE CreateNodeFails
    BY <1>4 DEF CreateNodeFails, MaybeNode
<1>5. CASE CreateUnitNodeFails
    BY <1>5 DEF CreateUnitNodeFails, MaybeNode
<1>6. CASE SkipClosedDay
    BY <1>6 DEF SkipClosedDay
<1>7. CASE BeginStep
    BY <1>7 DEF BeginStep
<1>8. CASE CommitUnit
    BY <1>8 DEF CommitUnit, Commit
<1>9. CASE StepDone
    BY <1>9 DEF StepDone
<1>10. CASE RunAction
    <2>1. /\ pc = "beginning" /\ step \in Steps /\ node[step] = "running"
          /\ step' = step /\ node' = node /\ UNCHANGED row /\ pc' = "finishing"
        BY <1>10 DEF RunAction
    <2>2. /\ left \in [Steps -> Nat] /\ left[step] - left[step] = 0
          /\ left' = [left EXCEPT ![step] = left[step] - left[step]]
        BY <1>10, <2>1 DEF RunAction, Commit
    <2> QED BY <2>1, <2>2
<1>11. CASE StepRaises
    BY <1>11 DEF StepRaises, Commit
<1>12. CASE FinishStep
    BY <1>12 DEF FinishStep
<1>13. CASE FinishStepFails
    BY <1>13 DEF FinishStepFails, MaybeNode
<1>14. CASE StepFails
    BY <1>14 DEF StepFails, NodeFails, BlamedNodes
<1>15. CASE ActionFails
    BY <1>15 DEF ActionFails, NodeFails, BlamedNodes
<1>16. CASE HandlerFails
    BY <1>16 DEF HandlerFails, NodeFails, BlamedNodes
<1>17. CASE LoopEnds
    BY <1>17 DEF LoopEnds
<1>18. CASE DispatchEnds
    BY <1>18 DEF DispatchEnds, WorkflowStatus
<1>19. CASE Finalize
    BY <1>19 DEF Finalize, FinalStatus
<1>20. CASE FinalizeRaises
    BY <1>20 DEF FinalizeRaises, FinalStatus
<1>21. CASE RequestCancel
    BY <1>21 DEF RequestCancel
<1>22. CASE Crash
    BY <1>22 DEF Crash
<1>23. CASE Reconcile
    BY <1>23 DEF Reconcile
<1>24. CASE UNCHANGED vars
    BY <1>24 DEF vars
<1> QED BY <1>1, <1>2, <1>3, <1>4, <1>5, <1>6, <1>7, <1>8, <1>9, <1>10,
            <1>11, <1>12, <1>13, <1>14, <1>15, <1>16, <1>17, <1>18, <1>19, <1>20,
            <1>21, <1>22, <1>23, <1>24 DEF Next, Dispatch


\* A node in success is evidence of durable work, whatever fails or dies
\* (_finish_node after _run_dataset_action_plan and before the commit).
THEOREM SuccessNodesAreEvidence == Spec => []EvidenceIsDurable
<1>1. EvidenceInv => EvidenceIsDurable
    BY DEF EvidenceInv
<1> QED BY TypesInit, TypesNext, PlaceInit, PlaceNext, EvidenceInit, EvidenceNext, <1>1, PTL DEF Spec

-----------------------------------------------------------------------------
\* The steps before the one at work are done with, one way or the other.
Settled(s) == \/ node[s] = "success"
              \/ node[s] = "failed" /\ s \in ContinueOnError /\ kind = "workflow"

OrderInv ==
    /\ pc = "between" => \A s \in 1 .. step : Settled(s)
    /\ pc \in AtWork \cup {"failing"} => \A s \in 1 .. step - 1 : Settled(s)
    /\ StepsInOrder

\* There is no node at first.
LEMMA OrderInit == Init => OrderInv
BY DEF Init, OrderInv, StepsInOrder, AtWork, Steps

\* Every step keeps the order: a failure ends the loop or is tolerated.
LEMMA OrderNext == TypeInv /\ PlaceInv /\ OrderInv /\ [Next]_vars => OrderInv'
<1> SUFFICES ASSUME TypeInv /\ PlaceInv /\ OrderInv, [Next]_vars PROVE OrderInv'
    OBVIOUS
<1> USE DEF OrderInv, StepsInOrder, Settled, PlaceInv, NodeOfStep, BlamedNode, AtWork, TypeInv, TypeOK, Steps, Goto, run, counts, data
<1>1. CASE Start
    BY <1>1 DEF Start
<1>2. CASE StartFails
    BY <1>2 DEF StartFails
<1>3. CASE CreateNode
    BY <1>3 DEF CreateNode
<1>4. CASE CreateNodeFails
    BY <1>4 DEF CreateNodeFails, MaybeNode
<1>5. CASE CreateUnitNodeFails
    BY <1>5 DEF CreateUnitNodeFails, MaybeNode
<1>6. CASE SkipClosedDay
    BY <1>6 DEF SkipClosedDay
<1>7. CASE BeginStep
    BY <1>7 DEF BeginStep
<1>8. CASE CommitUnit
    BY <1>8 DEF CommitUnit, Commit
<1>9. CASE StepDone
    BY <1>9 DEF StepDone
<1>10. CASE RunAction
    BY <1>10 DEF RunAction, Commit
<1>11. CASE StepRaises
    BY <1>11 DEF StepRaises, Commit
<1>12. CASE FinishStep
    BY <1>12 DEF FinishStep
<1>13. CASE FinishStepFails
    <2>1. /\ pc' = "failing" /\ step' = step /\ kind' = kind /\ step \in Steps
          /\ pc \in AtWork /\ node[step] = "running"
        BY <1>13 DEF FinishStepFails
    <2>2. node' = node \/ node' = [node EXCEPT ![step] = "success"]
        BY <1>13 DEF FinishStepFails, MaybeNode
    <2>3. \A s \in Steps : s # step => node'[s] = node[s]
        BY <2>1, <2>2
    <2>4. \A s \in 1 .. step - 1 : s \in Steps /\ s # step
        BY <2>1
    <2>5. \A s \in 1 .. step - 1 : Settled(s)'
        BY <2>1, <2>3, <2>4
    <2>6. StepsInOrder'
        BY <2>1, <2>2, <2>3
    <2> QED BY <2>1, <2>5, <2>6
<1>14. CASE StepFails
    BY <1>14 DEF StepFails, NodeFails, BlamedNodes
<1>15. CASE ActionFails
    BY <1>15 DEF ActionFails, NodeFails, BlamedNodes
<1>16. CASE HandlerFails
    BY <1>16 DEF HandlerFails, NodeFails, BlamedNodes
<1>17. CASE LoopEnds
    BY <1>17 DEF LoopEnds
<1>18. CASE DispatchEnds
    BY <1>18 DEF DispatchEnds, WorkflowStatus
<1>19. CASE Finalize
    BY <1>19 DEF Finalize, FinalStatus
<1>20. CASE FinalizeRaises
    BY <1>20 DEF FinalizeRaises, FinalStatus
<1>21. CASE RequestCancel
    BY <1>21 DEF RequestCancel
<1>22. CASE Crash
    BY <1>22 DEF Crash
<1>23. CASE Reconcile
    BY <1>23 DEF Reconcile
<1>24. CASE UNCHANGED vars
    BY <1>24 DEF vars
<1> QED BY <1>1, <1>2, <1>3, <1>4, <1>5, <1>6, <1>7, <1>8, <1>9, <1>10,
            <1>11, <1>12, <1>13, <1>14, <1>15, <1>16, <1>17, <1>18, <1>19, <1>20,
            <1>21, <1>22, <1>23, <1>24 DEF Next, Dispatch


\* fail_fast: no step begins after one that failed, unless that one's policy is
\* continue_on_error (_dispatch_workflow).
THEOREM StepsBeginInOrder == Spec => []StepsInOrder
<1>1. OrderInv => StepsInOrder
    BY DEF OrderInv
<1> QED BY TypesInit, TypesNext, PlaceInit, PlaceNext, OrderInit, OrderNext, <1>1, PTL DEF Spec

-----------------------------------------------------------------------------
\* What the counters of failures and the outcome say of the nodes.
Frozen == {"finalizing", "refinalizing", "finished", "dead"}

CountInv ==
    /\ failed > 0 => \E s \in 1 .. step : node[s] = "failed"
    /\ failed = 0 =>
          /\ pc = "between" => \A s \in 1 .. step : node[s] = "success"
          /\ pc \in AtWork \cup {"failing"} => \A s \in 1 .. step - 1 : node[s] = "success"
          /\ pc = "ended" => step = last /\ \A s \in 1 .. last : node[s] = "success"
    /\ pc = "ended" => \A s \in Steps : node[s] # "running"

Agrees(status) ==
    /\ status = "success" => \A s \in 1 .. last : node[s] = "success"
    /\ status = "partial_success" => /\ \E s \in 1 .. last : node[s] = "failed"
                                     /\ \A s \in Steps : node[s] # "running"

OutcomeInv ==
    /\ outcome # "none" => pc \in Frozen
    /\ row.status \in {"success", "partial_success"} => pc \in Frozen
    /\ Agrees(outcome) /\ Agrees(row.status)

\* No failure is counted at first, and the outcome is not known.
LEMMA OutcomeInit == Init => CountInv /\ OutcomeInv
BY DEF Init, CountInv, OutcomeInv, Agrees, AtWork, Steps

\* Every step keeps the counters in agreement with the nodes.
LEMMA CountNext == TypeInv /\ PlaceInv /\ OrderInv /\ CountInv /\ [Next]_vars => CountInv'
<1> SUFFICES ASSUME TypeInv /\ PlaceInv /\ OrderInv /\ CountInv, [Next]_vars PROVE CountInv'
    OBVIOUS
<1> USE DEF CountInv, OrderInv, Settled, PlaceInv, NodeOfStep, BlamedNode, AtWork, TypeInv, TypeOK, Steps, Goto, run, counts, data
<1>1. CASE Start
    BY <1>1 DEF Start
<1>2. CASE StartFails
    BY <1>2 DEF StartFails
<1>3. CASE CreateNode
    BY <1>3 DEF CreateNode
<1>4. CASE CreateNodeFails
    BY <1>4 DEF CreateNodeFails, MaybeNode
<1>5. CASE CreateUnitNodeFails
    BY <1>5 DEF CreateUnitNodeFails, MaybeNode
<1>6. CASE SkipClosedDay
    BY <1>6 DEF SkipClosedDay
<1>7. CASE BeginStep
    BY <1>7 DEF BeginStep
<1>8. CASE CommitUnit
    BY <1>8 DEF CommitUnit, Commit
<1>9. CASE StepDone
    BY <1>9 DEF StepDone
<1>10. CASE RunAction
    BY <1>10 DEF RunAction, Commit
<1>11. CASE StepRaises
    BY <1>11 DEF StepRaises, Commit
<1>12. CASE FinishStep
    BY <1>12 DEF FinishStep
<1>13. CASE FinishStepFails
    BY <1>13 DEF FinishStepFails, MaybeNode
<1>14. CASE StepFails
    BY <1>14 DEF StepFails, NodeFails, BlamedNodes
<1>15. CASE ActionFails
    BY <1>15 DEF ActionFails, NodeFails, BlamedNodes
<1>16. CASE HandlerFails
    BY <1>16 DEF HandlerFails, NodeFails, BlamedNodes
<1>17. CASE LoopEnds
    BY <1>17 DEF LoopEnds
<1>18. CASE DispatchEnds
    BY <1>18 DEF DispatchEnds, WorkflowStatus
<1>19. CASE Finalize
    BY <1>19 DEF Finalize, FinalStatus
<1>20. CASE FinalizeRaises
    BY <1>20 DEF FinalizeRaises, FinalStatus
<1>21. CASE RequestCancel
    BY <1>21 DEF RequestCancel
<1>22. CASE Crash
    BY <1>22 DEF Crash
<1>23. CASE Reconcile
    BY <1>23 DEF Reconcile
<1>24. CASE UNCHANGED vars
    BY <1>24 DEF vars
<1> QED BY <1>1, <1>2, <1>3, <1>4, <1>5, <1>6, <1>7, <1>8, <1>9, <1>10,
            <1>11, <1>12, <1>13, <1>14, <1>15, <1>16, <1>17, <1>18, <1>19, <1>20,
            <1>21, <1>22, <1>23, <1>24 DEF Next, Dispatch

\* Every step keeps the outcome and the status in agreement with the nodes.
LEMMA OutcomeNext == TypeInv /\ PlaceInv /\ CountInv /\ OutcomeInv /\ [Next]_vars => OutcomeInv'
<1> SUFFICES ASSUME TypeInv /\ PlaceInv /\ CountInv /\ OutcomeInv, [Next]_vars PROVE OutcomeInv'
    OBVIOUS
<1> USE DEF OutcomeInv, Agrees, CountInv, Frozen, PlaceInv, NodeOfStep, BlamedNode, AtWork, TypeInv, TypeOK, Steps, Goto, run, counts, data
<1>1. CASE Start
    BY <1>1 DEF Start
<1>2. CASE StartFails
    BY <1>2 DEF StartFails
<1>3. CASE CreateNode
    BY <1>3 DEF CreateNode
<1>4. CASE CreateNodeFails
    BY <1>4 DEF CreateNodeFails, MaybeNode
<1>5. CASE CreateUnitNodeFails
    BY <1>5 DEF CreateUnitNodeFails, MaybeNode
<1>6. CASE SkipClosedDay
    BY <1>6 DEF SkipClosedDay
<1>7. CASE BeginStep
    BY <1>7 DEF BeginStep
<1>8. CASE CommitUnit
    BY <1>8 DEF CommitUnit, Commit
<1>9. CASE StepDone
    BY <1>9 DEF StepDone
<1>10. CASE RunAction
    BY <1>10 DEF RunAction, Commit
<1>11. CASE StepRaises
    BY <1>11 DEF StepRaises, Commit
<1>12. CASE FinishStep
    BY <1>12 DEF FinishStep
<1>13. CASE FinishStepFails
    BY <1>13 DEF FinishStepFails, MaybeNode
<1>14. CASE StepFails
    BY <1>14 DEF StepFails, NodeFails, BlamedNodes
<1>15. CASE ActionFails
    BY <1>15 DEF ActionFails, NodeFails, BlamedNodes
<1>16. CASE HandlerFails
    BY <1>16 DEF HandlerFails, NodeFails, BlamedNodes
<1>17. CASE LoopEnds
    BY <1>17 DEF LoopEnds
<1>18. CASE DispatchEnds
    BY <1>18 DEF DispatchEnds, WorkflowStatus
<1>19. CASE Finalize
    BY <1>19 DEF Finalize, FinalStatus
<1>20. CASE FinalizeRaises
    BY <1>20 DEF FinalizeRaises, FinalStatus
<1>21. CASE RequestCancel
    BY <1>21 DEF RequestCancel
<1>22. CASE Crash
    BY <1>22 DEF Crash
<1>23. CASE Reconcile
    BY <1>23 DEF Reconcile
<1>24. CASE UNCHANGED vars
    BY <1>24 DEF vars
<1> QED BY <1>1, <1>2, <1>3, <1>4, <1>5, <1>6, <1>7, <1>8, <1>9, <1>10,
            <1>11, <1>12, <1>13, <1>14, <1>15, <1>16, <1>17, <1>18, <1>19, <1>20,
            <1>21, <1>22, <1>23, <1>24 DEF Next, Dispatch


\* The final status agrees with the nodes that a reader of the run finds
\* (the counters of _dispatch_workflow and _finalize_task_run).
THEOREM StatusAgreesWithNodes == Spec => []OutcomeAgreesWithNodes
<1>1. OutcomeInv => OutcomeAgreesWithNodes
    BY DEF OutcomeInv, Agrees, OutcomeAgreesWithNodes
<1> QED BY TypesInit, TypesNext, PlaceInit, PlaceNext, OrderInit, OrderNext,
           OutcomeInit, CountNext, OutcomeNext, <1>1, PTL DEF Spec

-----------------------------------------------------------------------------
\* A commit after the stop request is one of the dataset step at work.
LateInv ==
    /\ late # {} => row.cancel
    /\ pc = "working" => IsDataset(step) /\ late \subseteq {step}
    /\ LateWorkInOneStep

\* Nothing is late at first.
LEMMA LateInit == Init => LateInv
BY DEF Init, LateInv, LateWorkInOneStep

\* Every step keeps it: no dataset step begins after the request.
LEMMA LateNext == TypeInv /\ LateInv /\ [Next]_vars => LateInv'
<1> SUFFICES ASSUME TypeInv /\ LateInv, [Next]_vars PROVE LateInv'
    OBVIOUS
<1> USE DEF LateInv, LateWorkInOneStep, IsDataset, TypeInv, TypeOK, Steps, Goto, run, counts, data
<1>1. CASE Start
    BY <1>1 DEF Start
<1>2. CASE StartFails
    BY <1>2 DEF StartFails
<1>3. CASE CreateNode
    BY <1>3 DEF CreateNode
<1>4. CASE CreateNodeFails
    BY <1>4 DEF CreateNodeFails, MaybeNode
<1>5. CASE CreateUnitNodeFails
    BY <1>5 DEF CreateUnitNodeFails, MaybeNode
<1>6. CASE SkipClosedDay
    BY <1>6 DEF SkipClosedDay
<1>7. CASE BeginStep
    BY <1>7 DEF BeginStep
<1>8. CASE CommitUnit
    BY <1>8 DEF CommitUnit, Commit
<1>9. CASE StepDone
    BY <1>9 DEF StepDone
<1>10. CASE RunAction
    BY <1>10 DEF RunAction, Commit
<1>11. CASE StepRaises
    BY <1>11 DEF StepRaises, Commit
<1>12. CASE FinishStep
    BY <1>12 DEF FinishStep
<1>13. CASE FinishStepFails
    BY <1>13 DEF FinishStepFails, MaybeNode
<1>14. CASE StepFails
    BY <1>14 DEF StepFails, NodeFails, BlamedNodes
<1>15. CASE ActionFails
    BY <1>15 DEF ActionFails, NodeFails, BlamedNodes
<1>16. CASE HandlerFails
    BY <1>16 DEF HandlerFails, NodeFails, BlamedNodes
<1>17. CASE LoopEnds
    BY <1>17 DEF LoopEnds
<1>18. CASE DispatchEnds
    BY <1>18 DEF DispatchEnds, WorkflowStatus
<1>19. CASE Finalize
    BY <1>19 DEF Finalize, FinalStatus
<1>20. CASE FinalizeRaises
    BY <1>20 DEF FinalizeRaises, FinalStatus
<1>21. CASE RequestCancel
    BY <1>21 DEF RequestCancel
<1>22. CASE Crash
    BY <1>22 DEF Crash
<1>23. CASE Reconcile
    BY <1>23 DEF Reconcile
<1>24. CASE UNCHANGED vars
    BY <1>24 DEF vars
<1> QED BY <1>1, <1>2, <1>3, <1>4, <1>5, <1>6, <1>7, <1>8, <1>9, <1>10,
            <1>11, <1>12, <1>13, <1>14, <1>15, <1>16, <1>17, <1>18, <1>19, <1>20,
            <1>21, <1>22, <1>23, <1>24 DEF Next, Dispatch


\* After a stop request at most one dataset step of a workflow still commits
\* (ensure_not_canceled before the executor).
THEOREM LateWorkIsOfOneStep == Spec => []LateWorkInOneStep
<1>1. LateInv => LateWorkInOneStep
    BY DEF LateInv
<1> QED BY TypesInit, TypesNext, LateInit, LateNext, <1>1, PTL DEF Spec
-----------------------------------------------------------------------------
\* What is left to do, as a number: the steps that were not begun, what is not
\* durable of the one at work, the way from where the thread is to the end, and
\* the writes of the status that may still come.
PlaceRank ==
    CASE pc = "created" -> 10
      [] pc = "beginning" -> 9
      [] pc = "working" -> 8
      [] pc = "finishing" -> 7
      [] pc = "failing" -> 6
      [] pc = "between" -> 5
      [] pc = "ended" -> 4
      [] pc = "finalizing" -> 3
      [] pc = "refinalizing" -> 2
      [] pc = "finished" -> 1
      [] OTHER -> 0

StatusRank == IF row.status = "running" THEN 2 ELSE IF row.status = "canceling" THEN 1 ELSE 0

StepRank == IF pc \in AtWork THEN left[step] ELSE 0

Rank == (NumUnits + 5) * (last - step) + StepRank + PlaceRank + StatusRank

\* The parts of the number are natural numbers.
LEMMA RankParts ==
    ASSUME TypeInv
    PROVE  /\ PlaceRank \in 0 .. 10 /\ StatusRank \in 0 .. 2 /\ StepRank \in 0 .. NumUnits
           /\ last - step \in Nat /\ last \in Nat /\ step \in Nat /\ NumUnits \in Nat
           /\ (NumUnits + 5) * (last - step) \in Nat
<1>1. PlaceRank \in 0 .. 10 /\ StatusRank \in 0 .. 2
    BY DEF TypeInv, TypeOK, Places, PlaceRank, StatusRank
<1>2. StepRank \in 0 .. NumUnits
    BY DEF TypeInv, TypeOK, StepRank, AtWork
<1>3. last - step \in Nat /\ last \in Nat /\ step \in Nat /\ NumUnits \in Nat
    BY DEF TypeInv, TypeOK, Steps
<1>4. \A k, n \in Nat : k * n \in Nat
    OBVIOUS
<1>5. NumUnits + 5 \in Nat
    BY <1>3
<1> QED BY <1>1, <1>2, <1>3, <1>4, <1>5

\* A step that is begun is worth all that may happen in it.
LEMMA StepWorth ==
    ASSUME NEW k \in Nat, NEW n \in Nat, NEW m \in Nat, m + 1 = n
    PROVE  k * n = k * m + k
OBVIOUS

\* A step of the thread that begins no step of the run comes nearer to the end.
LEMMA MovesCount ==
    ASSUME TypeInv, TypeInv', UNCHANGED <<run, step>>,
           \/ StepRank' < StepRank /\ PlaceRank' = PlaceRank /\ StatusRank' = StatusRank
           \/ StepRank' <= StepRank /\ PlaceRank' < PlaceRank /\ StatusRank' = StatusRank
           \/ StepRank' <= StepRank /\ PlaceRank' < PlaceRank /\ StatusRank' < StatusRank
           \/ StepRank' = StepRank /\ PlaceRank' = PlaceRank /\ StatusRank' < StatusRank
    PROVE  Rank' < Rank
<1>1. (NumUnits + 5) * (last' - step') = (NumUnits + 5) * (last - step)
    BY DEF run
<1>2. PlaceRank' \in 0 .. 10 /\ StatusRank' \in 0 .. 2 /\ StepRank' \in 0 .. NumUnits
    <2>1. PlaceRank' \in 0 .. 10 /\ StatusRank' \in 0 .. 2
        BY DEF TypeInv, TypeOK, Places, PlaceRank, StatusRank
    <2>2. StepRank' \in 0 .. NumUnits
        BY DEF TypeInv, TypeOK, StepRank, AtWork
    <2> QED BY <2>1, <2>2
<1> QED BY <1>1, <1>2, RankParts DEF Rank

\* A step of the thread that begins a step of the run has one less to begin.
LEMMA BeginsCount ==
    ASSUME TypeInv, TypeInv', step < last, step' = step + 1, last' = last,
           StepRank = 0, PlaceRank = 5, PlaceRank' <= 9, StatusRank' = StatusRank
    PROVE  Rank' < Rank
<1>1. /\ last - step \in Nat /\ last' - step' \in Nat /\ (last' - step') + 1 = last - step
      /\ NumUnits + 5 \in Nat
    BY RankParts
<1>2. (NumUnits + 5) * (last - step) = (NumUnits + 5) * (last' - step') + (NumUnits + 5)
    BY <1>1, StepWorth
<1>3. PlaceRank' \in 0 .. 10 /\ StatusRank \in 0 .. 2 /\ StepRank' \in 0 .. NumUnits
    <2>1. PlaceRank' \in 0 .. 10 /\ StatusRank \in 0 .. 2
        BY DEF TypeInv, TypeOK, Places, PlaceRank, StatusRank
    <2>2. StepRank' \in 0 .. NumUnits
        BY DEF TypeInv, TypeOK, StepRank, AtWork
    <2> QED BY <2>1, <2>2
<1>4. (NumUnits + 5) * (last' - step') \in Nat
    <2>1. \A k, n \in Nat : k * n \in Nat
        OBVIOUS
    <2> QED BY <1>1, <2>1
<1> HIDE DEF StepRank, PlaceRank, StatusRank
<1>5. Rank = (NumUnits + 5) * (last - step) + 5 + StatusRank
    BY <1>1, <1>2, <1>3, <1>4 DEF Rank
<1>6. Rank' = (NumUnits + 5) * (last' - step') + StepRank' + PlaceRank' + StatusRank
    BY DEF Rank
<1>7. StepRank' + PlaceRank' < (NumUnits + 5) + 5
    BY <1>1, <1>3
<1> QED BY <1>1, <1>2, <1>3, <1>4, <1>5, <1>6, <1>7

\* Every step leaves less to do.
LEMMA RankFalls ==
    ASSUME TypeInv, [Next]_vars
    PROVE  Rank' < Rank \/ UNCHANGED vars
<1>0. TypeInv'
    BY TypesNext
<1>1. /\ left \in [Steps -> 0 .. NumUnits] /\ NumUnits \in Nat
      /\ pc \in AtWork => step \in Steps /\ left[step] \in 0 .. NumUnits
      /\ row \in [status : {"running", "canceling", "success", "partial_success", "failed", "canceled"},
                  cancel : BOOLEAN]
      /\ step \in Nat /\ last \in Nat
    BY DEF TypeInv, TypeOK, AtWork, Steps
<1>2. StepRank \in Nat
    BY RankParts
<1> USE DEF Goto, run, counts, data
<1>3. ASSUME UNCHANGED <<run, step, row>>, PlaceRank' < PlaceRank, pc' \notin AtWork
      PROVE  Rank' < Rank
    <2>1. StatusRank' = StatusRank /\ StepRank' = 0
        BY <1>3 DEF StatusRank, StepRank
    <2> QED BY <1>0, <1>2, <1>3, <2>1, MovesCount
<1>4. CASE Start \/ StartFails \/ FinishStep \/ FinishStepFails
    BY <1>3, <1>4 DEF Start, StartFails, FinishStep, FinishStepFails, PlaceRank, AtWork
<1>5. CASE StepFails \/ ActionFails \/ HandlerFails \/ LoopEnds \/ DispatchEnds
    BY <1>3, <1>5 DEF StepFails, ActionFails, HandlerFails, LoopEnds, DispatchEnds, PlaceRank, AtWork
<1>6. CASE StepRaises
    <2>1. UNCHANGED <<run, step, row>> /\ pc' \notin AtWork
        BY <1>6 DEF StepRaises, AtWork
    <2>2. PlaceRank' < PlaceRank
        BY <1>6 DEF StepRaises, PlaceRank
    <2> QED BY <1>3, <2>1, <2>2
<1>7. CASE Crash
    <2>1. UNCHANGED <<run, step, row>> /\ pc' \notin AtWork
        BY <1>7 DEF Crash, AtWork
    <2>2. PlaceRank' < PlaceRank
        BY <1>7 DEF Crash, PlaceRank, TypeInv, TypeOK, Places
    <2> QED BY <1>3, <2>1, <2>2
<1>8. CASE CreateNode \/ CreateNodeFails \/ CreateUnitNodeFails
    <2>1. step < last /\ step' = step + 1 /\ last' = last /\ StepRank = 0 /\ StatusRank' = StatusRank
        BY <1>8 DEF CreateNode, CreateNodeFails, CreateUnitNodeFails, StepRank, AtWork, StatusRank
    <2>2. PlaceRank = 5 /\ PlaceRank' <= 9
        BY <1>8 DEF CreateNode, CreateNodeFails, CreateUnitNodeFails, PlaceRank
    <2> QED BY <1>0, <2>1, <2>2, BeginsCount
<1>9. CASE SkipClosedDay \/ RunAction
    <2>1. /\ UNCHANGED <<run, step, row>> /\ pc = "beginning" /\ pc' = "finishing"
          /\ left' = [left EXCEPT ![step] = 0] \/ left' = [left EXCEPT ![step] = left[step] - left[step]]
        BY <1>9 DEF SkipClosedDay, RunAction, Commit
    <2>2. left'[step] = 0
        BY <1>1, <2>1 DEF AtWork
    <2>3. StepRank' <= StepRank /\ StatusRank' = StatusRank
        BY <1>2, <2>1, <2>2 DEF StepRank, AtWork, StatusRank
    <2>4. PlaceRank' < PlaceRank
        BY <2>1 DEF PlaceRank
    <2> QED BY <1>0, <2>1, <2>3, <2>4, MovesCount
<1>10. CASE BeginStep \/ StepDone
    <2>1. UNCHANGED <<run, step, row, left>> /\ pc \in AtWork /\ pc' \in AtWork /\ PlaceRank' < PlaceRank
        BY <1>10 DEF BeginStep, StepDone, PlaceRank, AtWork
    <2>2. StepRank' = StepRank /\ StatusRank' = StatusRank
        BY <2>1 DEF StepRank, StatusRank
    <2> QED BY <1>0, <1>2, <2>1, <2>2, MovesCount
<1>11. CASE CommitUnit
    <2>1. /\ UNCHANGED <<run, step, row, pc>> /\ pc \in AtWork /\ left'[step] = left[step] - 1
        BY <1>1, <1>11 DEF CommitUnit, Commit, AtWork
    <2>2. StepRank' < StepRank /\ PlaceRank' = PlaceRank /\ StatusRank' = StatusRank
        BY <1>1, <2>1 DEF StepRank, PlaceRank, StatusRank
    <2> QED BY <1>0, <2>1, <2>2, MovesCount
<1>12. CASE Finalize \/ FinalizeRaises
    <2>1. FinalStatus \in {"success", "partial_success", "failed", "canceled"}
        BY <1>12 DEF Finalize, FinalizeRaises, FinalStatus, TypeInv, OutcomeKnown, TypeOK
    <2>2. row'.status \in {row.status, FinalStatus}
        BY <1>1, <1>12 DEF Finalize, FinalizeRaises
    <2>3. StatusRank' = StatusRank \/ StatusRank' < StatusRank
        BY <2>1, <2>2 DEF StatusRank
    <2>4. UNCHANGED <<run, step>> /\ pc \notin AtWork /\ pc' \notin AtWork /\ PlaceRank' < PlaceRank
        BY <1>12 DEF Finalize, FinalizeRaises, PlaceRank, AtWork
    <2>5. StepRank' <= StepRank
        BY <2>4 DEF StepRank
    <2> QED BY <1>0, <2>3, <2>4, <2>5, MovesCount
<1>13. CASE RequestCancel \/ Reconcile
    <2>1. \/ row.status = "running" /\ row'.status = "canceling"
          \/ row.status \in {"running", "canceling"} /\ row'.status \in {"canceled", "failed"}
        BY <1>1, <1>13 DEF RequestCancel, Reconcile
    <2>2. StatusRank' < StatusRank
        BY <2>1 DEF StatusRank
    <2>3. UNCHANGED <<run, step>> /\ PlaceRank' = PlaceRank /\ StepRank' = StepRank
        BY <1>13 DEF RequestCancel, Reconcile, PlaceRank, StepRank
    <2> QED BY <1>0, <2>2, <2>3, MovesCount
<1> QED BY <1>4, <1>5, <1>6, <1>7, <1>8, <1>9, <1>10, <1>11, <1>12, <1>13 DEF Next, Dispatch

\* What there is to do at the beginning.
LEMMA RankInit == Init => Rank <= (NumUnits + 5) * last + 12
<1> SUFFICES ASSUME Init PROVE Rank <= (NumUnits + 5) * last + 12
    OBVIOUS
<1>1. StepRank = 0 /\ PlaceRank = 10 /\ StatusRank = 2
    BY DEF Init, StepRank, PlaceRank, StatusRank, AtWork
<1>2. last - step = last /\ last \in Nat /\ NumUnits \in Nat
    BY DEF Init, Steps
<1>3. (NumUnits + 5) * last \in Nat
    <2>1. \A k, n \in Nat : k * n \in Nat
        OBVIOUS
    <2>2. NumUnits + 5 \in Nat
        BY <1>2
    <2> QED BY <1>2, <2>1, <2>2
<1> QED BY <1>1, <1>2, <1>3 DEF Rank

\* A dispatch is over after a bounded number of steps, whatever fails: each step
\* of the thread, of a request or of the reconciliation leaves less of a natural
\* number.  No failure policy makes a step begin a second time.
THEOREM DispatchesAreFinite == Spec => /\ Rank <= (NumUnits + 5) * last + 12
                                       /\ [](Rank \in Nat)
                                       /\ [][Rank' < Rank]_vars
<1>1. TypeInv => Rank \in Nat
    <2> SUFFICES ASSUME TypeInv PROVE Rank \in Nat
        OBVIOUS
    <2> QED BY RankParts DEF Rank
<1>2. TypeInv /\ [Next]_vars => [Rank' < Rank]_vars
    BY RankFalls
<1> QED BY <1>1, <1>2, RankInit, TypesInit, TypesNext, PTL DEF Spec
-----------------------------------------------------------------------------
\* A node is written by its own step only, or by the handler of a registered
\* action that still blames it for the next one; it never leaves the state
\* failed, and from success only an exception takes it to failed (the commit of
\* _finish_node that raised although it was durable, or that handler).  So the
\* nodes of a workflow's past steps stand: what reads them as evidence, while
\* the run goes on, reads what they will be at its end.
NodesGoForward ==
    [][\A s \in Steps : node'[s] # node[s] =>
           /\ s = step' \/ (kind = "registered" /\ s = step' - 1 /\ pc = "failing")
           /\ node[s] # "failed" /\ node'[s] # "absent"
           /\ node[s] = "success" => node'[s] = "failed" /\ pc = "failing"]_vars

\* Nodes are written in order, and once written they stand.
THEOREM PastNodesStand == Spec => NodesGoForward
<1> DEFINE Forward ==
        \A s \in Steps : node'[s] # node[s] =>
           /\ s = step' \/ (kind = "registered" /\ s = step' - 1 /\ pc = "failing")
           /\ node[s] # "failed" /\ node'[s] # "absent"
           /\ node[s] = "success" => node'[s] = "failed" /\ pc = "failing"
<1>1. ASSUME TypeInv, PlaceInv, [Next]_vars PROVE Forward
    <2>1. /\ node \in [Steps -> {"absent", "running", "success", "failed"}]
          /\ step \in 0 .. last /\ last \in Steps /\ NumSteps \in Nat
        BY <1>1 DEF TypeInv, TypeOK
    <2> USE DEF Goto, run, counts, data
    <2>2. CASE UNCHANGED node
        BY <2>2
    <2>3. CASE CreateNode \/ CreateNodeFails \/ CreateUnitNodeFails
        <3>1. step + 1 \in Steps /\ step' = step + 1 /\ node[step + 1] = "absent"
            BY <1>1, <2>1, <2>3 DEF CreateNode, CreateNodeFails, CreateUnitNodeFails, PlaceInv,
                                    NodeOfStep, Steps
        <3>2. node' = node \/ node' = [node EXCEPT ![step + 1] = "running"]
            BY <2>3 DEF CreateNode, CreateNodeFails, CreateUnitNodeFails, MaybeNode
        <3> QED BY <2>1, <3>1, <3>2
    <2>4. CASE FinishStep \/ FinishStepFails
        <3>1. step' = step /\ step \in Steps /\ node[step] = "running"
            BY <1>1, <2>4 DEF FinishStep, FinishStepFails, PlaceInv, NodeOfStep, AtWork, TypeInv, TypeOK
        <3>2. node' = node \/ node' = [node EXCEPT ![step] = "success"]
            BY <2>4 DEF FinishStep, FinishStepFails, MaybeNode
        <3> QED BY <2>1, <3>1, <3>2
    <2>5. CASE StepFails \/ ActionFails \/ HandlerFails
        <3>1. step' = step /\ pc = "failing" /\ (NodeFails \/ UNCHANGED node)
            BY <2>5 DEF StepFails, ActionFails, HandlerFails
        <3>2. \A s \in BlamedNodes : /\ s = step \/ (kind = "registered" /\ s = step - 1)
                                     /\ node[s] # "absent"
            BY <1>1, <3>1 DEF BlamedNodes, PlaceInv, BlamedNode
        <3>3. \A s \in Steps : node'[s] # node[s] => s \in BlamedNodes /\ node'[s] = "failed"
            BY <3>1 DEF NodeFails
        <3> QED BY <3>1, <3>2, <3>3
    <2>6. CASE Start \/ StartFails \/ SkipClosedDay \/ BeginStep \/ CommitUnit \/ StepDone \/ RunAction
        BY <2>2, <2>6 DEF Start, StartFails, SkipClosedDay, BeginStep, CommitUnit, StepDone, RunAction
    <2>7. CASE StepRaises \/ LoopEnds \/ DispatchEnds \/ Finalize \/ FinalizeRaises
        BY <2>2, <2>7 DEF StepRaises, LoopEnds, DispatchEnds, Finalize, FinalizeRaises
    <2>8. CASE RequestCancel \/ Crash \/ Reconcile \/ UNCHANGED vars
        BY <2>2, <2>8 DEF RequestCancel, Crash, Reconcile, vars
    <2> QED BY <1>1, <2>3, <2>4, <2>5, <2>6, <2>7, <2>8 DEF Next, Dispatch
<1>2. TypeInv /\ PlaceInv /\ [Next]_vars => [Forward]_vars
    BY <1>1
<1> QED BY <1>2, TypesInit, TypesNext, PlaceInit, PlaceNext, PTL DEF Spec, NodesGoForward
-----------------------------------------------------------------------------
(***************************************************************************)
(* Every dataset step of a workflow is a DatasetStep.                      *)
(***************************************************************************)

\* A task run stays what it is.
LEMMA KindStays == [Next]_vars => kind' = kind
BY DEF Next, Dispatch, vars, run, Start, StartFails, CreateNode, CreateNodeFails,
       CreateUnitNodeFails, SkipClosedDay, BeginStep, CommitUnit, StepDone, RunAction, StepRaises,
       FinishStep, FinishStepFails, StepFails, ActionFails, HandlerFails, LoopEnds, DispatchEnds,
       Finalize, FinalizeRaises, RequestCancel, Crash, Reconcile

\* At first a step has all its work before it.
LEMMA WorkInit == ASSUME Init, NEW s \in DatasetSteps PROVE Work(s)!Init
<1>1. s \in Steps /\ step < s /\ NumSteps \in Nat
    BY DEF Init, Steps
<1> QED BY <1>1 DEF Init, Work!Init, Phase

\* A step of the contract, or none.
WorkStep(s) == Work(s)!Next \/ UNCHANGED Work(s)!vars

\* Every step of the task run is one of the contract or none, for each of its
\* dataset steps.
LEMMA WorkNext ==
    ASSUME TypeInv, PlaceInv, EvidenceInv, kind = "workflow", [Next]_vars, NEW s \in DatasetSteps
    PROVE  WorkStep(s)
<1>0. /\ node \in [Steps -> {"absent", "running", "success", "failed"}]
      /\ left \in [Steps -> 0 .. NumUnits] /\ NumUnits \in Nat
      /\ step \in 0 .. last /\ last \in Steps /\ NumSteps \in Nat
      /\ row \in [status : {"running", "canceling", "success", "partial_success", "failed", "canceled"},
                  cancel : BOOLEAN]
      /\ s \in Steps
    BY DEF TypeInv, TypeOK, Steps
<1>s. s \in Nat /\ step \in Nat
    BY <1>0 DEF Steps
<1>1. ASSUME Phase(s)' = Phase(s) \/ Phase(s)' = "over", left'[s] = left[s],
             row'.cancel = row.cancel, node'[s] = "success" <=> node[s] = "success"
      PROVE  WorkStep(s)
    BY <1>1 DEF WorkStep, Work!Next, Work!Leave, Work!vars
<1>2. ASSUME Phase(s)' = Phase(s), left'[s] = left[s], row'.cancel = row.cancel,
             node'[s] \in {node[s], "failed"}
      PROVE  WorkStep(s)
    BY <1>2 DEF WorkStep, Work!Next, Work!Retract, Work!vars
<1> USE DEF Goto, run, counts, data
<1>3. ASSUME s # step, step' = step PROVE Phase(s)' = Phase(s)
    BY <1>3 DEF Phase
<1>4. CASE Start \/ StartFails \/ LoopEnds \/ DispatchEnds
    <2>1. Phase(s)' = Phase(s)
        BY <1>4 DEF Start, StartFails, LoopEnds, DispatchEnds, Phase
    <2>2. row' = row /\ UNCHANGED data
        BY <1>4 DEF Start, StartFails, LoopEnds, DispatchEnds
    <2> QED BY <1>1, <2>1, <2>2
<1>5. CASE CreateNode \/ CreateNodeFails
    <2>1. /\ step' = step + 1 /\ pc = "between" /\ pc' \in {"beginning", "finalizing"}
          /\ node' = node \/ node' = [node EXCEPT ![step + 1] = "running"]
          /\ row' = row /\ left' = left
        BY <1>5 DEF CreateNode, CreateNodeFails, MaybeNode
    <2>2. Phase(s)' = Phase(s) \/ Phase(s)' = "over"
        BY <1>s, <2>1 DEF Phase
    <2>3. node'[s] = "success" <=> node[s] = "success"
        BY <1>0, <1>s, <2>1 DEF PlaceInv, NodeOfStep
    <2> QED BY <1>1, <2>1, <2>2, <2>3
<1>6. CASE CreateUnitNodeFails
    BY <1>6 DEF CreateUnitNodeFails
<1>7. CASE SkipClosedDay
    <2>1. left' = [left EXCEPT ![step] = 0] /\ row' = row /\ node' = node /\ step' = step
        BY <1>7 DEF SkipClosedDay
    <2>2. CASE s # step
        BY <1>0, <1>1, <1>3, <2>1, <2>2
    <2>3. CASE s = step
        <3>1. Phase(s) = "waiting" /\ Phase(s)' = "over"
            BY <1>s, <1>7, <2>1, <2>3 DEF SkipClosedDay, Phase
        <3>2. Work(s)!Skip
            BY <1>0, <2>1, <2>3, <3>1 DEF Work!Skip
        <3> QED BY <3>2 DEF WorkStep, Work!Next
    <2> QED BY <2>2, <2>3
<1>8. CASE BeginStep
    <2>1. UNCHANGED <<step, row, node, left>> /\ ~ row.cancel
        BY <1>8 DEF BeginStep
    <2>2. CASE s # step
        BY <1>1, <1>3, <2>1, <2>2
    <2>3. CASE s = step
        <3>1. Phase(s) = "waiting" /\ Phase(s)' = "working"
            BY <1>s, <1>8, <2>1, <2>3 DEF BeginStep, Phase
        <3>2. Work(s)!Begin
            BY <2>1, <3>1 DEF Work!Begin
        <3> QED BY <3>2 DEF WorkStep, Work!Next
    <2> QED BY <2>2, <2>3
<1>9. ASSUME s = step, pc = "working", pc' \in {"working", "failing"}, left[s] > 0,
             left' = [left EXCEPT ![step] = @ - 1], UNCHANGED <<step, row, node>>
      PROVE  WorkStep(s)
    <2>1. Phase(s) = "working" /\ Phase(s)' \in {"working", "over"}
        BY <1>s, <1>9 DEF Phase
    <2>2. Work(s)!Commit
        BY <1>0, <1>9, <2>1 DEF Work!Commit
    <2> QED BY <2>2 DEF WorkStep, Work!Next
<1>10. ASSUME s # step, step' = step, UNCHANGED <<row, node>>,
              \E n \in Int : left' = [left EXCEPT ![step] = @ - n]
       PROVE  WorkStep(s)
    BY <1>0, <1>1, <1>3, <1>10
<1>11. CASE CommitUnit
    <2>1. /\ pc = "working" /\ pc' = pc /\ left[step] > 0 /\ UNCHANGED <<step, row, node>>
          /\ left' = [left EXCEPT ![step] = @ - 1]
        BY <1>11 DEF CommitUnit, Commit
    <2>2. CASE s # step
        <3>1. 1 \in Int /\ left' = [left EXCEPT ![step] = @ - 1]
            BY <2>1
        <3> QED BY <1>10, <2>1, <2>2, <3>1
    <2>3. CASE s = step
        BY <1>9, <2>1, <2>3
    <2> QED BY <2>2, <2>3
<1>12. CASE StepDone
    <2>1. UNCHANGED <<step, row, node, left>> /\ pc' = "finishing"
        BY <1>12 DEF StepDone
    <2>2. Phase(s)' = Phase(s) \/ Phase(s)' = "over"
        BY <1>s, <1>3, <2>1 DEF Phase
    <2> QED BY <1>1, <2>1, <2>2
<1>13. CASE RunAction
    <2>1. s # step /\ UNCHANGED <<step, row, node>> /\ step \in Steps
        BY <1>13 DEF RunAction, IsDataset, TypeInv, TypeOK
    <2>2. left[step] \in Int /\ left' = [left EXCEPT ![step] = @ - left[step]]
        BY <1>0, <1>13, <2>1 DEF RunAction, Commit
    <2> QED BY <1>10, <2>1, <2>2
<1>14. CASE StepRaises
    <2>1. UNCHANGED <<step, row, node>> /\ pc' = "failing"
        BY <1>14 DEF StepRaises
    <2>2. CASE left' = left
        <3>1. Phase(s)' = Phase(s) \/ Phase(s)' = "over"
            BY <1>s, <1>3, <2>1 DEF Phase
        <3> QED BY <1>1, <2>1, <2>2, <3>1
    <2>3. CASE left' # left
        <3>1. PICK n \in 1 .. NumUnits :
                 /\ n <= left[step]
                 /\ IsDataset(step) => (pc = "working" /\ n = 1)
                 /\ left' = [left EXCEPT ![step] = @ - n]
            BY <1>14, <2>3 DEF StepRaises, Commit
        <3>2. CASE s # step
            <4>1. n \in Int
                OBVIOUS
            <4> QED BY <1>10, <2>1, <3>1, <3>2, <4>1
        <3>3. CASE s = step
            BY <1>0, <1>9, <2>1, <3>1, <3>3 DEF IsDataset
        <3> QED BY <3>2, <3>3
    <2> QED BY <2>2, <2>3
<1>15. CASE FinishStep \/ FinishStepFails
    <2>1. /\ pc = "finishing" /\ pc' \in {"between", "failing"} /\ UNCHANGED <<step, row, left>>
          /\ node' = node \/ node' = [node EXCEPT ![step] = "success"]
        BY <1>15 DEF FinishStep, FinishStepFails, MaybeNode
    <2>2. CASE s # step \/ node' = node
        <3>1. Phase(s)' = Phase(s)
            BY <2>1 DEF Phase
        <3>2. node'[s] = node[s]
            BY <1>0, <2>1, <2>2
        <3> QED BY <1>1, <2>1, <3>1, <3>2
    <2>3. CASE s = step /\ node' = [node EXCEPT ![step] = "success"]
        <3>1. Phase(s) = "over" /\ Phase(s)' = "over" /\ left[s] = 0 /\ node'[s] = "success"
            BY <1>0, <1>s, <2>1, <2>3 DEF Phase, EvidenceInv
        <3>2. Work(s)!Attest
            BY <2>1, <3>1 DEF Work!Attest
        <3> QED BY <3>2 DEF WorkStep, Work!Next
    <2> QED BY <2>1, <2>2, <2>3
<1>16. CASE StepFails \/ ActionFails \/ HandlerFails
    <2>1. /\ UNCHANGED <<step, row, left>> /\ pc = "failing"
          /\ pc' \in {"between", "ended", "finalizing"}
          /\ NodeFails \/ UNCHANGED node
        BY <1>16 DEF StepFails, ActionFails, HandlerFails
    <2>2. node'[s] \in {node[s], "failed"}
        BY <1>0, <2>1 DEF NodeFails
    <2>3. Phase(s)' = Phase(s)
        BY <2>1 DEF Phase
    <2> QED BY <1>2, <2>1, <2>2, <2>3
<1>17. CASE Finalize \/ FinalizeRaises \/ Reconcile
    <2>1. row'.cancel = row.cancel /\ UNCHANGED <<step, node, left>>
        BY <1>0, <1>17 DEF Finalize, FinalizeRaises, Reconcile
    <2>2. Phase(s)' = Phase(s)
        BY <1>17, <2>1 DEF Finalize, FinalizeRaises, Reconcile, Phase
    <2> QED BY <1>1, <2>1, <2>2
<1>18. CASE RequestCancel
    <2>1. row'.cancel = TRUE /\ UNCHANGED <<pc, step, node, left>>
        BY <1>18 DEF RequestCancel
    <2>2. Work(s)!RequestCancel
        BY <2>1 DEF Work!RequestCancel, Phase
    <2> QED BY <2>2 DEF WorkStep, Work!Next
<1>19. CASE Crash \/ UNCHANGED vars
    <2>1. UNCHANGED <<step, row, node, left>> /\ pc' \in {pc, "dead"}
        BY <1>19 DEF Crash, vars
    <2>2. Phase(s)' = Phase(s) \/ Phase(s)' = "over"
        BY <1>s, <1>3, <2>1 DEF Phase
    <2> QED BY <1>1, <2>1, <2>2
<1> QED
    BY <1>4, <1>5, <1>6, <1>7, <1>8, <1>11, <1>12, <1>13, <1>14, <1>15, <1>16, <1>17, <1>18, <1>19
    DEF Next, Dispatch

\* A workflow relies of each of its dataset steps on no more than what an
\* execution of it keeps (IngestionExecutionProofs: ImplementsDatasetStep).
THEOREM StepsAreDatasetSteps == Spec => WorkflowStepsSpec
<1> SUFFICES ASSUME NEW s \in DatasetSteps
             PROVE  Spec /\ kind = "workflow" => Work(s)!Spec
    BY DEF WorkflowStepsSpec
<1>1. Init /\ kind = "workflow" => Work(s)!Init
    BY WorkInit
<1>2. TypeInv /\ PlaceInv /\ EvidenceInv /\ kind = "workflow" /\ [Next]_vars
      => [Work(s)!Next]_(Work(s)!vars)
    BY WorkNext DEF WorkStep
<1>3. kind = "workflow" /\ [Next]_vars => (kind = "workflow")'
    BY KindStays
<1> QED BY <1>1, <1>2, <1>3, TypesInit, TypesNext, PlaceInit, PlaceNext, EvidenceInit, EvidenceNext, PTL
        DEF Spec, Work!Spec
=============================================================================
