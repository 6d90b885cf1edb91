------------------------------- MODULE Budget -------------------------------
(***************************************************************************)
(* What the scenario of a behaviour sets: how often what the environment   *)
(* does may happen, a kind of event costing one unit of its budget, and    *)
(* which service acts.                                                     *)
(***************************************************************************)
EXTENDS Naturals

VARIABLES
    budget,  \* how many more events of each kind may happen
    part     \* the service that acts

Spend(kind) == budget[kind] > 0 /\ budget' = [budget EXCEPT ![kind] = @ - 1]

\* A call that fails costs one unit of the budget for failures.
Costs(ok) == IF ok THEN UNCHANGED budget ELSE Spend("fail")
=============================================================================
