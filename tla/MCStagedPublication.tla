-------------------------- MODULE MCStagedPublication --------------------------
(***************************************************************************)
(* Small instances of StagedPublication.                                   *)
(***************************************************************************)
EXTENDS StagedPublication, TLC

CONSTANTS e1, e2, c1, c2, worker, i1, i2, fundA, fundB, h1, h2

\* Both executions in one process whose pool has two connections.
TwoExecutions == {e1, e2}
TwoConns == {c1, c2}
OneHost == e1 :> worker @@ e2 :> worker
OneHome == c1 :> worker @@ c2 :> worker

\* Two funds with one fact each.
TwoIds == {i1, i2}
TwoFunds == i1 :> fundA @@ i2 :> fundB
TwoHashes == {h1, h2}
=============================================================================
