---------------------------- MODULE Totals_proofs ----------------------------
(* What the proofs need to know of sums: their type, and what one term more *)
(* or less changes.                                                         *)
EXTENDS Totals, FiniteSetTheorems, WellFoundedInduction, TLAPS

-----------------------------------------------------------------------------
(* Sums of bounded values *)

(* A sum over a finite set is a natural number. *)
LEMMA UnitsFinite ==
    ASSUME NEW S, IsFiniteSet(S), NEW f, NEW m \in Nat
    PROVE  /\ IsFiniteSet(Units(S, f, m))
           /\ Total(S, f, m) \in Nat
<1>1. IsFiniteSet(1 .. m)
  BY FS_Interval
<1>2. IsFiniteSet(S \X (1 .. m))
  BY <1>1, FS_Product
<1>3. Units(S, f, m) \in SUBSET (S \X (1 .. m))
  BY DEF Units
<1>4. IsFiniteSet(Units(S, f, m))
  BY <1>2, <1>3, FS_Subset
<1> QED
  BY <1>4, FS_CardinalityType DEF Total

(* The sum depends only on the values of the summed callers. *)
LEMMA TotalSame ==
    ASSUME NEW S, NEW f, NEW g, NEW m, \A c \in S : f[c] = g[c]
    PROVE  Total(S, f, m) = Total(S, g, m)
<1>1. Units(S, f, m) = Units(S, g, m)
  BY DEF Units
<1> QED
  BY <1>1 DEF Total

(* The empty sum. *)
LEMMA TotalEmpty ==
    ASSUME NEW f, NEW m
    PROVE  Total({}, f, m) = 0
<1>1. Units({}, f, m) = {}
  BY DEF Units
<1> QED
  BY <1>1, FS_EmptySet DEF Total

(* How many unit amounts are below a number. *)
LEMMA IntervalSize ==
    ASSUME NEW k \in Nat
    PROVE  IsFiniteSet(1 .. k) /\ Cardinality(1 .. k) = k
<1>1. 1 \in Int /\ k \in Int
  OBVIOUS
<1>2. IsFiniteSet(1 .. k) /\ Cardinality(1 .. k) = IF 1 > k THEN 0 ELSE k - 1 + 1
  BY <1>1, FS_Interval
<1>3. (IF 1 > k THEN 0 ELSE k - 1 + 1) = k
  OBVIOUS
<1> QED
  BY <1>2, <1>3

(* One more caller adds its amount to the sum. *)
LEMMA TotalAdd ==
    ASSUME NEW S, IsFiniteSet(S), NEW c, c \notin S,
           NEW f, NEW m \in Nat, f[c] \in 0 .. m
    PROVE  Total(S \cup {c}, f, m) = Total(S, f, m) + f[c]
<1> DEFINE Old == Units(S, f, m)
           New == {c} \X (1 .. f[c])
<1>1. Units(S \cup {c}, f, m) = Old \cup New
  BY SMT DEF Units
<1>2. Old \cap New = {}
  BY DEF Units
<1>3. IsFiniteSet(Old) /\ Cardinality(Old) \in Nat
  BY UnitsFinite DEF Total
<1>4. IsFiniteSet(New) /\ Cardinality(New) = f[c]
  <2>1. IsFiniteSet({c}) /\ Cardinality({c}) = 1
    BY FS_Singleton
  <2>2. IsFiniteSet(1 .. f[c]) /\ Cardinality(1 .. f[c]) = f[c]
    <3> DEFINE k == f[c]
    <3>1. k \in Nat
      OBVIOUS
    <3>2. IsFiniteSet(1 .. k) /\ Cardinality(1 .. k) = k
      <4> HIDE DEF k
      <4> QED
        BY <3>1, IntervalSize
    <3> QED
      BY <3>2
  <2>3. IsFiniteSet(New) /\ Cardinality(New) = 1 * f[c]
    <3> DEFINE one == {c}
               cells == 1 .. f[c]
    <3>1. IsFiniteSet(one) /\ IsFiniteSet(cells)
          /\ Cardinality(one) = 1 /\ Cardinality(cells) = f[c]
      BY <2>1, <2>2
    <3> HIDE DEF one, cells
    <3>2. IsFiniteSet(one \X cells) /\ Cardinality(one \X cells) = 1 * f[c]
      BY <3>1, FS_Product
    <3> QED
      BY <3>2 DEF one, cells
  <2> QED
    BY <2>3
<1>5. Cardinality(Old \cup New) = Cardinality(Old) + Cardinality(New) - Cardinality({})
  BY <1>2, <1>3, <1>4, FS_Union
<1>6. Cardinality(Old \cup New) = Cardinality(Old) + f[c]
  BY <1>3, <1>4, <1>5, FS_EmptySet
<1> QED
  BY <1>1, <1>6 DEF Total

(* One caller less takes its amount from the sum. *)
LEMMA TotalRemove ==
    ASSUME NEW S, IsFiniteSet(S), NEW c \in S,
           NEW f, NEW m \in Nat, f[c] \in 0 .. m
    PROVE  Total(S, f, m) = Total(S \ {c}, f, m) + f[c]
<1>1. IsFiniteSet(S \ {c})
  BY FS_RemoveElement
<1>2. (S \ {c}) \cup {c} = S
  OBVIOUS
<1>3. Total((S \ {c}) \cup {c}, f, m) = Total(S \ {c}, f, m) + f[c]
  BY <1>1, TotalAdd
<1> QED
  BY <1>2, <1>3

-----------------------------------------------------------------------------
(* Least elements: induction over the natural numbers, for one set at a time *)

(* A set of natural numbers has a least one.                                *)
LEMMA LeastBy ==
    ASSUME NEW R, IsWellFoundedOn(R, Nat), \A x, y \in Nat : y < x => <<y, x>> \in R,
           NEW T, T \subseteq Nat, T # {}
    PROVE  \E x \in T : \A y \in T : x <= y
<1>1. PICK x \in T : \A y \in T : ~ (<<y, x>> \in R)
  BY WFMin
<1>2. ASSUME NEW y \in T PROVE x <= y
  <2>1. x \in Nat /\ y \in Nat /\ ~ (<<y, x>> \in R)
    BY <1>1
  <2>2. ~ (y < x)
    BY <2>1
  <2> QED
    BY <2>1, <2>2
<1> QED
  BY <1>2

LEMMA Least ==
    ASSUME NEW T, T \subseteq Nat, T # {}
    PROVE  \E x \in T : \A y \in T : x <= y
<1>1. IsWellFoundedOn(OpToRel(<, Nat), Nat)
  BY NatLessThanWellFounded
<1>2. \A x, y \in Nat : y < x => <<y, x>> \in OpToRel(<, Nat)
  BY DEF OpToRel
<1> QED
  BY <1>1, <1>2, LeastBy

-----------------------------------------------------------------------------
(* Sums of unbounded values *)

(* The cells of one more term. *)
LEMMA CellsAdd ==
    ASSUME NEW S, NEW c, c \notin S, NEW f, f[c] \in Nat
    PROVE  /\ Cells(S \cup {c}, f) = Cells(S, f) \cup ({c} \X (1 .. f[c]))
           /\ Cells(S, f) \cap ({c} \X (1 .. f[c])) = {}
  BY SMT DEF Cells

LEMMA TermSize ==
    ASSUME NEW c, NEW k \in Nat
    PROVE  IsFiniteSet({c} \X (1 .. k)) /\ Cardinality({c} \X (1 .. k)) = k
<1>1. IsFiniteSet({c}) /\ Cardinality({c}) = 1
  BY FS_Singleton
<1>2. IsFiniteSet(1 .. k) /\ Cardinality(1 .. k) = k
  BY IntervalSize
<1> DEFINE one == {c}
           part == 1 .. k
<1>3. IsFiniteSet(one \X part) /\ Cardinality(one \X part) = Cardinality(one) * Cardinality(part)
  <2> HIDE DEF one, part
  <2> QED
    BY <1>1, <1>2, FS_Product DEF one, part
<1> QED
  BY <1>1, <1>2, <1>3

(* The cells of an interval are finitely many: were they not, there would   *)
(* be a shortest interval with infinitely many.                             *)
LEMMA CellsNext ==
    ASSUME NEW k \in Nat, NEW f, f[k] \in Nat, IsFiniteSet(Cells(0 .. k - 1, f))
    PROVE  IsFiniteSet(Cells(0 .. k, f))
<1> DEFINE last == {k} \X (1 .. f[k])
<1>1. 0 .. k = (0 .. k - 1) \cup {k} /\ k \notin 0 .. k - 1
  OBVIOUS
<1> DEFINE rest == 0 .. k - 1
<1>2. Cells(0 .. k, f) = Cells(rest, f) \cup last
  <2>1. Cells(rest \cup {k}, f) = Cells(rest, f) \cup last
    <3> HIDE DEF rest
    <3> QED
      BY <1>1, CellsAdd DEF rest
  <2> QED
    BY <1>1, <2>1
<1>3. IsFiniteSet(last)
  BY TermSize
<1>4. IsFiniteSet(Cells(rest, f))
  OBVIOUS
<1> HIDE DEF last, rest
<1>5. IsFiniteSet(Cells(rest, f) \cup last)
  BY <1>3, <1>4, FS_Union
<1> QED
  BY <1>2, <1>5

LEMMA IntervalCells ==
    ASSUME NEW n \in Nat, NEW f, \A x \in 0 .. n : f[x] \in Nat
    PROVE  IsFiniteSet(Cells(0 .. n, f))
<1> DEFINE T == {k \in 0 .. n : ~ IsFiniteSet(Cells(0 .. k, f))}
<1>1. T = {}
  <2> SUFFICES ASSUME T # {} PROVE FALSE
    OBVIOUS
  <2>1. PICK k \in T : \A j \in T : k <= j
    <3>1. T \subseteq Nat
      OBVIOUS
    <3> HIDE DEF T
    <3> QED
      BY <3>1, Least
  <2>2. k \in Nat /\ k \in 0 .. n
    OBVIOUS
  <2>3. IsFiniteSet(Cells(0 .. k - 1, f))
    <3>1. CASE k = 0
      <4>1. 0 .. k - 1 = {}
        BY <3>1
      <4>2. Cells({}, f) = {}
        BY DEF Cells
      <4> QED
        BY <4>1, <4>2, FS_EmptySet
    <3>2. CASE k # 0
      <4> DEFINE j == k - 1
      <4>1. j \in 0 .. n /\ ~ (k <= j)
        BY <2>2, <3>2
      <4>2. j \notin T
        BY <2>1, <4>1
      <4>3. IsFiniteSet(Cells(0 .. j, f))
        BY <4>1, <4>2
      <4> QED
        BY <4>3
    <3> QED
      BY <3>1, <3>2
  <2> QED
    BY <2>2, <2>3, CellsNext
<1> QED
  BY <1>1

(* A sum over numbers is a natural number. *)
LEMMA SumFinite ==
    ASSUME NEW n \in Nat, NEW S \in SUBSET (0 .. n), NEW f \in [0 .. n -> Nat]
    PROVE  IsFiniteSet(Cells(S, f)) /\ SumOf(S, f) \in Nat
<1>1. Cells(S, f) \in SUBSET Cells(0 .. n, f)
  BY Zenon DEF Cells
<1>2. IsFiniteSet(Cells(S, f))
  BY <1>1, IntervalCells, FS_Subset
<1> QED
  BY <1>2, FS_CardinalityType DEF SumOf

(* The sum depends only on the values of the terms. *)
LEMMA SumSame ==
    ASSUME NEW S, NEW f, NEW g, \A x \in S : f[x] = g[x]
    PROVE  SumOf(S, f) = SumOf(S, g)
<1>1. Cells(S, f) = Cells(S, g)
  BY DEF Cells
<1> QED
  BY <1>1 DEF SumOf

(* A sum of zeros. *)
LEMMA SumZero ==
    ASSUME NEW S, NEW f, \A x \in S : f[x] = 0
    PROVE  SumOf(S, f) = 0
<1>1. Cells(S, f) = {}
  BY SMT DEF Cells
<1> QED
  BY <1>1, FS_EmptySet DEF SumOf

(* A term taken out of the sum. *)
LEMMA SumSplit ==
    ASSUME NEW n \in Nat, NEW S \in SUBSET (0 .. n), NEW f \in [0 .. n -> Nat],
           NEW c \in S
    PROVE  /\ SumOf(S, f) = SumOf(S \ {c}, f) + f[c]
           /\ SumOf(S \ {c}, f) \in Nat
<1> DEFINE Old == Cells(S \ {c}, f)
           New == {c} \X (1 .. f[c])
<1>1. (S \ {c}) \cup {c} = S /\ c \notin S \ {c} /\ f[c] \in Nat
  OBVIOUS
<1>2. /\ Cells(S, f) = Old \cup New /\ Old \cap New = {}
      /\ IsFiniteSet(New) /\ Cardinality(New) = f[c]
  <2>1. /\ Cells((S \ {c}) \cup {c}, f) = Old \cup New
        /\ Old \cap New = {}
    BY <1>1, CellsAdd
  <2>2. IsFiniteSet(New) /\ Cardinality(New) = f[c]
    BY <1>1, TermSize
  <2> QED
    BY <1>1, <2>1, <2>2
<1>3. S \ {c} \in SUBSET (0 .. n)
  OBVIOUS
<1>4. IsFiniteSet(Old) /\ Cardinality(Old) \in Nat
  BY <1>3, SumFinite DEF SumOf
<1>5. Cardinality(Old \cup New) = Cardinality(Old) + Cardinality(New) - Cardinality({})
  <2> HIDE DEF Old, New
  <2> QED
    BY <1>2, <1>4, FS_Union
<1>6. Cardinality(Old \cup New) = Cardinality(Old) + f[c]
  <2> HIDE DEF Old, New
  <2> QED
    BY <1>1, <1>2, <1>4, <1>5, FS_EmptySet
<1> QED
  BY <1>2, <1>4, <1>6 DEF SumOf

(* No term is larger than the sum. *)
LEMMA SumAtLeast ==
    ASSUME NEW n \in Nat, NEW S \in SUBSET (0 .. n), NEW f \in [0 .. n -> Nat],
           NEW c \in S
    PROVE  f[c] <= SumOf(S, f)
<1>1. SumOf(S, f) = SumOf(S \ {c}, f) + f[c] /\ SumOf(S \ {c}, f) \in Nat
  BY SumSplit
<1>2. f[c] \in Nat
  OBVIOUS
<1> QED
  BY <1>1, <1>2

(* When one term changes, the sum changes by as much. *)
LEMMA SumChange ==
    ASSUME NEW n \in Nat, NEW S \in SUBSET (0 .. n), NEW c \in S,
           NEW f \in [0 .. n -> Nat], NEW g \in [0 .. n -> Nat],
           \A x \in (0 .. n) \ {c} : g[x] = f[x]
    PROVE  SumOf(S, g) = SumOf(S, f) + (g[c] - f[c])
<1>1. f[c] \in Nat /\ g[c] \in Nat
  OBVIOUS
<1>2. SumOf(S \ {c}, g) = SumOf(S \ {c}, f)
  BY SumSame
<1>3. SumOf(S, g) = SumOf(S \ {c}, g) + g[c]
  BY SumSplit
<1>4. SumOf(S, f) = SumOf(S \ {c}, f) + f[c] /\ SumOf(S \ {c}, f) \in Nat
  BY SumSplit
<1> QED
  BY <1>1, <1>2, <1>3, <1>4

(* The sum of a single term that is not zero. *)
LEMMA SumOfOne ==
    ASSUME NEW n \in Nat, NEW S \in SUBSET (0 .. n), NEW c \in S,
           NEW f \in [0 .. n -> Nat], \A x \in S \ {c} : f[x] = 0
    PROVE  SumOf(S, f) = f[c]
<1>1. SumOf(S \ {c}, f) = 0
  BY SumZero
<1>2. SumOf(S, f) = SumOf(S \ {c}, f) + f[c] /\ f[c] \in Nat
  BY SumSplit
<1> QED
  BY <1>1, <1>2
=============================================================================
