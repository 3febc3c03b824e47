------------------------------ MODULE MCStore ------------------------------
(* Instances of AsyncStore: a few records over two days, two workers. *)
EXTENDS AsyncStore, TLC

CONSTANTS r1, r2, r3, r4, w1, w2, yesterday, today

TwoDays == [r \in Records |-> IF r \in {r1, r4} THEN yesterday ELSE today]
OneDay == [r \in Records |-> today]

WorkerSymmetry == Permutations(Workers)
=============================================================================
