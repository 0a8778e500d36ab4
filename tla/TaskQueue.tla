----------------------------- MODULE TaskQueue -----------------------------
(***************************************************************************)
(* What the table of task runs promises to those who submit a run, without *)
(* rows, sessions, statuses and cancel requests: a queue from which each   *)
(* run is taken by one worker, once, or withdrawn, and never comes back.   *)
(* TaskRunLifecycle implements it.                                         *)
(***************************************************************************)
CONSTANTS Runs, Workers, NoRun

VARIABLES phase,    \* "new", "waiting", "executing" or "over"
          holder    \* the run a worker executes, or NoRun

vars == <<phase, holder>>

Init == /\ phase \in [Runs -> {"new", "waiting"}]
        /\ holder = [w \in Workers |-> NoRun]

Enter(r) == /\ phase[r] = "new"
            /\ phase' = [phase EXCEPT ![r] = "waiting"]
            /\ UNCHANGED holder

\* A run that nobody took yet is canceled.
Withdraw(r) == /\ phase[r] = "waiting"
               /\ phase' = [phase EXCEPT ![r] = "over"]
               /\ UNCHANGED holder

\* An idle worker takes a waiting run.
Begin(w, r) == /\ phase[r] = "waiting"
               /\ holder[w] = NoRun
               /\ phase' = [phase EXCEPT ![r] = "executing"]
               /\ holder' = [holder EXCEPT ![w] = r]

\* The worker is done with its run, or died: nobody takes the run again.
End(w) == /\ holder[w] # NoRun
          /\ phase' = [phase EXCEPT ![holder[w]] = "over"]
          /\ holder' = [holder EXCEPT ![w] = NoRun]

Next == \/ \E r \in Runs : Enter(r) \/ Withdraw(r)
        \/ \E w \in Workers, r \in Runs : Begin(w, r)
        \/ \E w \in Workers : End(w)

Spec == Init /\ [][Next]_vars
=============================================================================
