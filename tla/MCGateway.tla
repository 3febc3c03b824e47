----------------------------- MODULE MCGateway -----------------------------
(* Instances of Gateway: two configured upstreams, one rule's target that   *)
(* is not, and a limited budget.                                            *)
EXTENDS Gateway, TLC

CONSTANTS q1, q2, q3, a, u, main, spare, ghost

OneBudget == {a}
Limit3 == (a :> 3)
Fresh == (a :> 0)
Started == (a :> 1)

Plan(t, f, p) == [target |-> t, fallback |-> f, charge |-> p]

OnePlan == {Plan(main, NoTarget, NoProject)}

(* A target with a fallback, one that is not configured, and one whose rule *)
(* makes another project pay.                                               *)
TwoPlans == {Plan(main, spare, NoProject), Plan(ghost, NoTarget, NoProject)}
ThreePlans == {Plan(main, spare, NoProject), Plan(ghost, NoTarget, NoProject), Plan(main, NoTarget, a)}
Estimates == (main :> 1) @@ (spare :> 2) @@ (ghost :> 1)

(* At least one request has a budget; with two, it does not matter which.   *)
ChargedInit == Init /\ project[q1] = a

SpecCharged == ChargedInit /\ [][Next]_vars /\ Fairness
=============================================================================
