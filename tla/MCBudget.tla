------------------------------ MODULE MCBudget ------------------------------
(* Instances of BudgetController: one limited budget, and a project that has none. *)
EXTENDS BudgetController, TLC

CONSTANTS c1, c2, c3, a, u, s1

OneBudget == {a}
Limit3 == (a :> 3)
Limit2 == (a :> 2)
Soft50 == (a :> 50)
Persisted1 == (a :> 1)
=============================================================================
