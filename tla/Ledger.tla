------------------------------- MODULE Ledger -------------------------------
(***************************************************************************)
(* What the budget controller promises as a ledger: an admitted request    *)
(* holds an amount, and its settlement gives the hold back and charges the *)
(* actual cost, in one step and exactly once.  Whether a request deserves  *)
(* to be admitted is not the ledger's business.                            *)
(***************************************************************************)
EXTENDS Integers

CONSTANTS Callers, Budgets, NoProject, Amounts, Costs

VARIABLES
    spent,  \* what each budget has been charged
    owner,  \* the budget each caller holds an amount of, or NoProject
    held    \* the amount it holds

vars == <<spent, owner, held>>

Init ==
    /\ spent \in [Budgets -> Nat]
    /\ owner = [c \in Callers |-> NoProject]
    /\ held = [c \in Callers |-> 0]

Reserve(c, p, amount) ==
    /\ owner[c] = NoProject
    /\ owner' = [owner EXCEPT ![c] = p]
    /\ held' = [held EXCEPT ![c] = amount]
    /\ UNCHANGED spent

Settle(c, actual) ==
    /\ owner[c] # NoProject
    /\ spent' = [spent EXCEPT ![owner[c]] = @ + actual]
    /\ owner' = [owner EXCEPT ![c] = NoProject]
    /\ held' = [held EXCEPT ![c] = 0]

Next ==
    \E c \in Callers :
        \/ \E p \in Budgets, amount \in Amounts : Reserve(c, p, amount)
        \/ \E actual \in Costs : Settle(c, actual)

Spec == Init /\ [][Next]_vars
=============================================================================
