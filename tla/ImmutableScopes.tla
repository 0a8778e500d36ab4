---------------------------- MODULE ImmutableScopes ----------------------------
(***************************************************************************)
(* What the serving table of an immutable dataset promises its readers,    *)
(* without pages, stage rows, locks and connections: the rows of a         *)
(* report period appear all together, a published fact stays as it is, and *)
(* a repair touches one fund of a period that was published before.        *)
(* StagedPublication implements it.                                        *)
(***************************************************************************)
EXTENDS Naturals

CONSTANTS NumPeriods,   \* report periods, in order
          Ids,          \* identities of facts within a period
          FundOf,       \* the fund of an identity
          Hashes        \* contents of a fact

VARIABLE serving        \* the facts <<identity, content>> of each period

\* Every identity of S has one content.
OneContentEach(S) == \A r, s \in S : r[1] = s[1] => r = s

Init == serving = [p \in 1 .. NumPeriods |-> {}]

\* The whole market of a period: S is all there is afterwards.
PublishPeriod(p, S) == /\ serving[p] \subseteq S
                       /\ serving' = [serving EXCEPT ![p] = S]

\* One fund of a period that is there already: S is all there is of it.
RepairFund(p, k, S) ==
    /\ serving[p] # {}
    /\ \A s \in S : FundOf[s[1]] = k
    /\ {r \in serving[p] : FundOf[r[1]] = k} \subseteq S
    /\ serving' = [serving EXCEPT ![p] = @ \cup S]

Next == \E p \in 1 .. NumPeriods, S \in SUBSET (Ids \X Hashes) :
            /\ S # {}
            /\ OneContentEach(S)
            /\ \/ PublishPeriod(p, S)
               \/ \E k \in {FundOf[i] : i \in Ids} : RepairFund(p, k, S)

Spec == Init /\ [][Next]_serving
=============================================================================
