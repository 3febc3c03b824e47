------------------------------- MODULE Totals -------------------------------
(* Sums over finite sets without recursion, so that the proofs can reason   *)
(* about them.                                                              *)
EXTENDS Integers, FiniteSets

(* The sum of f, with values in 0..m, over the set S: the size of a set of  *)
(* unit amounts.                                                            *)
Units(S, f, m) == {unit \in S \X (1 .. m) : unit[2] <= f[unit[1]]}
Total(S, f, m) == Cardinality(Units(S, f, m))

(* The sum of f, with values that no constant bounds.                       *)
Cells(S, f) == UNION {{x} \X (1 .. f[x]) : x \in S}
SumOf(S, f) == Cardinality(Cells(S, f))
=============================================================================
