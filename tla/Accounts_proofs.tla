-------------------------- MODULE Accounts_proofs --------------------------
(***************************************************************************)
(* One budget across days, runs and crashes, and the dashboard on top of   *)
(* it, for any limit, estimate and cost, any number of days, of requests   *)
(* in flight and of snapshots under way.                                   *)
(***************************************************************************)
EXTENDS Dashboard, Totals_proofs

Stages == [phase : Phases, seen : Nat, cost : 0 .. MaxCost]

(* What each day adds to the counter, given its total and its amount in the *)
(* queue.                                                                   *)
BillOf(t, q) == [d \in Days |-> t[d] + q[d]]
Bill == BillOf(total, queued)

(* Due, of any requests.                                                    *)
ChargedOf(sl) == {s \in Slots : sl[s].phase = "charged"}
DueOf(sl) == Total(ChargedOf(sl), [s \in Slots |-> sl[s].cost], MaxCost)

(* Nothing has happened on the days to come.                                *)
FutureIsEmpty == \A d \in Days : d > day => total[d] = 0 /\ queued[d] = 0

(* What is queued is of a day of this run.                                  *)
QueueIsOfRun == \A d \in Days : d < since => queued[d] = 0

(* What a request saw used is used still.                                   *)
SeenIsUsed == \A s \in Slots : slot[s].phase = "loaded" => slot[s].seen <= used

(* The requests that may still add to the counter: those that were let      *)
(* through and those that read it when there was room for them.             *)
ExposedOf(sl) ==
    {s \in Slots :
        \/ sl[s].phase \in {"checked", "held", "thawed"}
        \/ sl[s].phase = "loaded" /\ sl[s].seen + Estimate <= Limit}
Exposed == ExposedOf(slot)

(* They could all be charged at their highest; a counter loaded above that  *)
(* has none of them, nor anything still to be written.                      *)
ExposedIsCovered ==
    Exposed = {} \/ used + Cardinality(Exposed) * MaxCost <= Overshoot
ChargedIsCovered ==
    used <= Overshoot \/ (Exposed = {} /\ InPhase("charged") = {})

(* A start that could not read the total is one of the blind starts of its  *)
(* day, and the total it did not read is still there.                       *)
MissedIsBlind ==
    open => missed <= blind[since] * Overshoot /\ missed <= total[since]

AccountsInv ==
    /\ AccountsTypeOK
    /\ FutureIsEmpty
    /\ QueueIsOfRun
    /\ CounterIsDays
    /\ SeenIsUsed
    /\ ExposedIsCovered
    /\ ChargedIsCovered
    /\ MissedIsBlind
    /\ DailyOvershoot

-----------------------------------------------------------------------------
(* Lemmas *)

LEMMA Types ==
    ASSUME AccountsTypeOK
    PROVE  /\ total \in [Days -> Nat] /\ queued \in [Days -> Nat] /\ blind \in [Days -> Nat]
           /\ slot \in [Slots -> Stages]
           /\ day \in Nat /\ since \in Nat /\ day <= MaxDay /\ since <= day
           /\ day \in Days /\ since \in Days
           /\ MaxDay \in Nat /\ Limit \in Nat /\ Estimate \in Nat /\ MaxCost \in Nat
           /\ used \in Nat /\ lost \in Nat /\ missed \in Nat
<1>1. slot \in [Slots -> Stages]
  BY DEF AccountsTypeOK, Stages
<1>2. total \in [Days -> Nat] /\ queued \in [Days -> Nat] /\ blind \in [Days -> Nat]
  BY DEF AccountsTypeOK
<1> QED
  BY <1>1, <1>2, AmountsAssumption DEF AccountsTypeOK, Days

LEMMA TimesMore ==
    ASSUME NEW a \in Nat, NEW b \in Nat, NEW m \in Nat, a <= b
    PROVE  a * m <= b * m /\ a * m \in Nat /\ b * m \in Nat
<1>1. PICK c \in Nat : b = a + c
  <2>1. b - a \in Nat /\ b = a + (b - a)
    OBVIOUS
  <2> QED
    BY <2>1
<1>2. b * m = a * m + c * m /\ a * m \in Nat /\ c * m \in Nat
  BY <1>1
<1> QED
  BY <1>1, <1>2

LEMMA AddLess ==
    ASSUME NEW u \in Nat, NEW x \in Nat, NEW y \in Nat, NEW b \in Nat, x <= y, u + y <= b
    PROVE  u + x <= b
  OBVIOUS

LEMMA OneTimes ==
    ASSUME NEW b \in Nat, NEW m \in Nat
    PROVE  (1 + b) * m = m + b * m /\ b * m \in Nat /\ (b + 1) * m = b * m + m
  OBVIOUS

LEMMA OvershootType ==
    /\ Overshoot \in Nat /\ Limit - Estimate \in Nat
    /\ Cardinality(Slots) \in Nat /\ Cardinality(Slots) * MaxCost \in Nat
    /\ Overshoot = Limit - Estimate + Cardinality(Slots) * MaxCost
<1>1. Cardinality(Slots) \in Nat
  BY AmountsAssumption, FS_CardinalityType
<1>2. Cardinality(Slots) * MaxCost \in Nat
  BY <1>1, AmountsAssumption
<1>3. Limit - Estimate \in Nat
  BY AmountsAssumption
<1> DEFINE most == Cardinality(Slots) * MaxCost
<1>4. Overshoot = Limit - Estimate + most
  BY DEF Overshoot
<1> HIDE DEF most
<1>5. Limit - Estimate + most \in Nat
  BY <1>2, <1>3 DEF most
<1> QED
  BY <1>1, <1>2, <1>3, <1>4, <1>5 DEF most

LEMMA ExposedSize ==
    ASSUME NEW S \in SUBSET Slots
    PROVE  /\ IsFiniteSet(S) /\ Cardinality(S) \in Nat
           /\ \A T \in SUBSET S : Cardinality(T) <= Cardinality(S) /\ Cardinality(T) \in Nat
           /\ \A s \in S : Cardinality(S \ {s}) = Cardinality(S) - 1
<1>1. IsFiniteSet(S) /\ Cardinality(S) \in Nat
  BY AmountsAssumption, FS_Subset, FS_CardinalityType
<1>2. ASSUME NEW T \in SUBSET S
      PROVE  Cardinality(T) <= Cardinality(S) /\ Cardinality(T) \in Nat
  BY <1>1, FS_Subset, FS_CardinalityType
<1>3. ASSUME NEW s \in S
      PROVE  Cardinality(S \ {s}) = Cardinality(S) - 1
  BY <1>1, FS_RemoveElement
<1> QED
  BY <1>1, <1>2, <1>3

LEMMA BillType ==
    ASSUME NEW t \in [Days -> Nat], NEW q \in [Days -> Nat]
    PROVE  /\ BillOf(t, q) \in [0 .. MaxDay -> Nat]
           /\ \A d \in Days : BillOf(t, q)[d] = t[d] + q[d]
  BY DEF BillOf, Days

LEMMA LaterDays ==
    ASSUME NEW s \in Days
    PROVE  /\ s .. MaxDay \in SUBSET (0 .. MaxDay) /\ MaxDay \in Nat
           /\ s \in s .. MaxDay
           /\ \A d \in s .. MaxDay : d \in Days
           /\ \A d \in (s .. MaxDay) \ {s} : d \in Days /\ d > s
  BY AmountsAssumption DEF Days

(* A bill with nothing after its first day is that day's.                   *)
LEMMA BillOfOne ==
    ASSUME NEW f \in [0 .. MaxDay -> Nat], NEW s \in Days,
           \A d \in Days : d > s => f[d] = 0
    PROVE  SumOf(s .. MaxDay, f) = f[s]
<1> DEFINE days == s .. MaxDay
<1>1. /\ days \in SUBSET (0 .. MaxDay) /\ MaxDay \in Nat /\ s \in days
      /\ \A d \in days \ {s} : f[d] = 0
  BY LaterDays
<1> HIDE DEF days
<1>2. SumOf(days, f) = f[s]
  BY <1>1, SumOfOne
<1> QED
  BY <1>2 DEF days

(* When one day of a bill changes, the bill changes by as much.             *)
LEMMA BillChange ==
    ASSUME NEW f \in [0 .. MaxDay -> Nat], NEW g \in [0 .. MaxDay -> Nat],
           NEW s \in Days, NEW d \in s .. MaxDay,
           \A e \in Days \ {d} : g[e] = f[e]
    PROVE  SumOf(s .. MaxDay, g) = SumOf(s .. MaxDay, f) + (g[d] - f[d])
<1> DEFINE days == s .. MaxDay
<1>1. days \in SUBSET (0 .. MaxDay) /\ MaxDay \in Nat /\ d \in days
  BY LaterDays
<1>2. \A e \in (0 .. MaxDay) \ {d} : g[e] = f[e]
  BY DEF Days
<1> HIDE DEF days
<1>3. SumOf(days, g) = SumOf(days, f) + (g[d] - f[d])
  BY <1>1, <1>2, SumChange
<1> QED
  BY <1>3 DEF days

(* A bill is at least any of its days, and any two of them.                 *)
LEMMA BillAtLeast ==
    ASSUME NEW f \in [0 .. MaxDay -> Nat], NEW s \in Days, NEW d \in s .. MaxDay
    PROVE  /\ SumOf(s .. MaxDay, f) \in Nat /\ f[d] <= SumOf(s .. MaxDay, f)
           /\ d # s => f[d] + f[s] <= SumOf(s .. MaxDay, f)
<1> DEFINE days == s .. MaxDay
<1>1. days \in SUBSET (0 .. MaxDay) /\ MaxDay \in Nat /\ d \in days /\ s \in days
  BY LaterDays
<1>2. f[d] \in Nat /\ f[s] \in Nat
  BY LaterDays, <1>1
<1> HIDE DEF days
<1>3. SumOf(days, f) = SumOf(days \ {s}, f) + f[s] /\ SumOf(days \ {s}, f) \in Nat
  BY <1>1, SumSplit
<1>4. f[d] <= SumOf(days, f)
  BY <1>1, SumAtLeast
<1>5. ASSUME d # s PROVE f[d] <= SumOf(days \ {s}, f)
  <2>1. days \ {s} \in SUBSET (0 .. MaxDay) /\ d \in days \ {s}
    BY <1>1, <1>5
  <2> DEFINE rest == days \ {s}
  <2> HIDE DEF rest
  <2>2. f[d] <= SumOf(rest, f)
    BY <1>1, <2>1, SumAtLeast DEF rest
  <2> QED
    BY <2>2 DEF rest
<1>6. /\ SumOf(days, f) \in Nat /\ f[d] <= SumOf(days, f)
      /\ d # s => f[d] + f[s] <= SumOf(days, f)
  BY <1>2, <1>3, <1>4, <1>5
<1> QED
  BY <1>6 DEF days

(* CounterIsDays in terms of the bill and of the requests.                  *)
LEMMA CounterIsBill ==
    CounterIsDays <=>
        (open => used + missed = SumOf(since .. MaxDay, Bill) + lost + DueOf(slot))
  BY DEF CounterIsDays, SumFrom, Bill, BillOf, Recorded, Due, DueOf, ChargedOf, InPhase

LEMMA CounterIsBillNext ==
    CounterIsDays' <=>
        (open' => used' + missed' =
                    SumOf(since' .. MaxDay, BillOf(total', queued')) + lost' + DueOf(slot'))
  BY DEF CounterIsDays, SumFrom, BillOf, Recorded, Due, DueOf, ChargedOf, InPhase

LEMMA DueFacts ==
    ASSUME NEW sl \in [Slots -> Stages]
    PROVE  /\ DueOf(sl) \in Nat /\ IsFiniteSet(ChargedOf(sl))
           /\ ChargedOf(sl) = {} => DueOf(sl) = 0
<1>1. ChargedOf(sl) \in SUBSET Slots /\ MaxCost \in Nat
  BY AmountsAssumption DEF ChargedOf
<1>2. IsFiniteSet(ChargedOf(sl))
  BY <1>1, ExposedSize
<1>3. DueOf(sl) \in Nat
  BY <1>1, <1>2, UnitsFinite DEF DueOf
<1>4. ChargedOf(sl) = {} => DueOf(sl) = 0
  BY TotalEmpty DEF DueOf
<1> QED
  BY <1>2, <1>3, <1>4

(* What is due changes with the one request that starts or ends owing.      *)
LEMMA DueChange ==
    ASSUME NEW sl \in [Slots -> Stages], NEW new \in [Slots -> Stages], NEW s \in Slots,
           \A t \in Slots \ {s} : new[t] = sl[t]
    PROVE  /\ sl[s].phase # "charged" /\ new[s].phase # "charged" =>
                DueOf(new) = DueOf(sl)
           /\ sl[s].phase # "charged" /\ new[s].phase = "charged" =>
                DueOf(new) = DueOf(sl) + new[s].cost
           /\ sl[s].phase = "charged" /\ new[s].phase # "charged" =>
                DueOf(sl) = DueOf(new) + sl[s].cost
<1> DEFINE rest == ChargedOf(sl) \ {s}
           f == [t \in Slots |-> sl[t].cost]
           g == [t \in Slots |-> new[t].cost]
<1>2. MaxCost \in Nat /\ f[s] = sl[s].cost /\ f[s] \in 0 .. MaxCost
      /\ g[s] = new[s].cost /\ g[s] \in 0 .. MaxCost
  BY AmountsAssumption DEF Stages
<1>3. \A t \in rest : f[t] = g[t]
  BY DEF ChargedOf
<1>4. rest \in SUBSET Slots /\ IsFiniteSet(rest) /\ s \notin rest
  <2>1. rest \in SUBSET Slots /\ s \notin rest
    BY DEF ChargedOf
  <2> QED
    BY <2>1, ExposedSize
<1>5. /\ sl[s].phase = "charged" => ChargedOf(sl) = rest \cup {s}
      /\ sl[s].phase # "charged" => ChargedOf(sl) = rest
      /\ new[s].phase = "charged" => ChargedOf(new) = rest \cup {s}
      /\ new[s].phase # "charged" => ChargedOf(new) = rest
  BY DEF ChargedOf
<1> HIDE DEF rest, f, g
<1>6. Total(rest, f, MaxCost) = Total(rest, g, MaxCost)
  BY <1>3, TotalSame
<1>7. Total(rest \cup {s}, f, MaxCost) = Total(rest, f, MaxCost) + f[s]
  <2>1. MaxCost \in Nat /\ f[s] \in 0 .. MaxCost
    BY <1>2
  <2>2. IsFiniteSet(rest) /\ s \notin rest
    BY <1>4
  <2> QED
    BY <2>1, <2>2, TotalAdd
<1>8. Total(rest \cup {s}, g, MaxCost) = Total(rest, g, MaxCost) + g[s]
  <2>1. MaxCost \in Nat /\ g[s] \in 0 .. MaxCost
    BY <1>2
  <2>2. IsFiniteSet(rest) /\ s \notin rest
    BY <1>4
  <2> QED
    BY <2>1, <2>2, TotalAdd
<1>9. DueOf(sl) = Total(ChargedOf(sl), f, MaxCost) /\ DueOf(new) = Total(ChargedOf(new), g, MaxCost)
  BY DEF DueOf, f, g
<1> QED
  BY <1>2, <1>5, <1>6, <1>7, <1>8, <1>9

(* Requests that are all at rest.                                           *)
LEMMA RestFacts ==
    ASSUME NEW sl, sl = [s \in Slots |-> AtRest]
    PROVE  /\ sl \in [Slots -> Stages] /\ ExposedOf(sl) = {} /\ ChargedOf(sl) = {}
           /\ DueOf(sl) = 0 /\ \A s \in Slots : sl[s].phase = "idle"
<1>1. AtRest \in Stages /\ AtRest.phase = "idle"
  BY AmountsAssumption DEF AtRest, Stage, Stages, Phases
<1>2. sl \in [Slots -> Stages] /\ \A s \in Slots : sl[s].phase = "idle"
  BY <1>1
<1>3. ExposedOf(sl) = {} /\ ChargedOf(sl) = {}
  BY <1>2 DEF ExposedOf, ChargedOf
<1> QED
  BY <1>2, <1>3, DueFacts

(* The counter has, but for what the start missed, the total of any day of  *)
(* the run.                                                                 *)
LEMMA CounterAtLeast ==
    ASSUME AccountsTypeOK, CounterIsDays, open, NEW d \in since .. MaxDay
    PROVE  total[d] <= used + missed
<1>1. used + missed = SumOf(since .. MaxDay, Bill) + lost + DueOf(slot)
  BY CounterIsBill
<1>2. Bill \in [0 .. MaxDay -> Nat] /\ \A e \in Days : Bill[e] = total[e] + queued[e]
  BY Types, BillType DEF Bill
<1>3. since \in Days /\ d \in Days
  BY Types, LaterDays
<1>4. SumOf(since .. MaxDay, Bill) \in Nat /\ Bill[d] <= SumOf(since .. MaxDay, Bill)
  BY <1>2, <1>3, BillAtLeast
<1>5. total[d] \in Nat /\ queued[d] \in Nat /\ lost \in Nat /\ DueOf(slot) \in Nat
  BY <1>3, Types, DueFacts
<1>6. Bill[d] = total[d] + queued[d]
  BY <1>2, <1>3
<1>7. used \in Nat /\ missed \in Nat
  BY Types
<1> DEFINE all == SumOf(since .. MaxDay, Bill)
           due == DueOf(slot)
<1>8. used + missed = all + lost + due /\ all \in Nat /\ due \in Nat /\ total[d] + queued[d] <= all
  BY <1>1, <1>4, <1>5, <1>6
<1> HIDE DEF all, due
<1> QED
  BY <1>5, <1>7, <1>8

LEMMA ChargedIsPhase == InPhase("charged") = ChargedOf(slot)
  BY DEF InPhase, ChargedOf

-----------------------------------------------------------------------------
(* The steps *)

LEMMA AccountsStart == AccountsInit => AccountsInv
<1> SUFFICES ASSUME AccountsInit PROVE AccountsInv
  OBVIOUS
<1>1. slot \in [Slots -> Stages] /\ Exposed = {} /\ \A s \in Slots : slot[s].phase = "idle"
  BY RestFacts DEF AccountsInit, Exposed
<1>2. AccountsTypeOK
  <2>1. 0 \in Days /\ 0 \in 0 .. 0 /\ None \in [Days -> Nat]
    BY AmountsAssumption DEF Days, None
  <2>2. \A f \in {total, queued, blind} : f \in [Days -> Nat]
    BY <2>1 DEF AccountsInit
  <2> QED
    BY <1>1, <2>1, <2>2 DEF AccountsInit, AccountsTypeOK, Stages
<1>3. /\ FutureIsEmpty /\ QueueIsOfRun /\ CounterIsDays /\ SeenIsUsed
      /\ ExposedIsCovered /\ MissedIsBlind
  BY <1>1 DEF AccountsInit, FutureIsEmpty, QueueIsOfRun, CounterIsDays, SeenIsUsed, ExposedIsCovered,
              MissedIsBlind, None
<1>4. ChargedIsCovered
  BY OvershootType DEF AccountsInit, ChargedIsCovered
<1>5. DailyOvershoot
  <2> SUFFICES ASSUME NEW d \in Days PROVE total[d] + queued[d] <= (1 + blind[d]) * Overshoot
    BY DEF DailyOvershoot, Recorded
  <2>1. total[d] = 0 /\ queued[d] = 0 /\ blind[d] = 0
    BY DEF AccountsInit, None
  <2>2. (1 + 0) * Overshoot = Overshoot /\ 0 <= Overshoot
    BY OvershootType
  <2> QED
    BY <2>1, <2>2
<1> QED
  BY <1>2, <1>3, <1>4, <1>5 DEF AccountsInv

LEMMA StartStep ==
    ASSUME AccountsInv, NEW ok \in BOOLEAN, Start(ok)
    PROVE  AccountsInv'
<1>1. /\ ~open /\ open' /\ since' = day /\ lost' = 0
      /\ missed' = (IF ok THEN 0 ELSE total[day])
      /\ blind' = (IF ok \/ total[day] = 0 THEN blind ELSE [blind EXCEPT ![day] = blind[day] + 1])
      /\ UNCHANGED <<day, slot, total, queued>>
      /\ used' = (IF ok THEN total[day] ELSE 0)
  BY DEF Start, Begin
<1>2. AccountsTypeOK
  BY DEF AccountsInv
<1>3. queued = None /\ slot = [s \in Slots |-> AtRest]
  BY <1>1, <1>2 DEF AccountsTypeOK
<1>4. Exposed' = {} /\ InPhase("charged")' = {} /\ \A s \in Slots : slot'[s].phase = "idle"
  BY <1>1, <1>3, RestFacts DEF Exposed, ExposedOf, InPhase, ChargedOf
<1>5. blind' \in [Days -> Nat]
  BY <1>1, <1>2, Types
<1>6. AccountsTypeOK'
  <2>1. used' \in Nat /\ missed' \in Nat /\ lost' \in Nat /\ since' \in 0 .. day'
    BY <1>1, <1>2, Types
  <2>2. slot' \in [Slots -> [phase : Phases, seen : Nat, cost : 0 .. MaxCost]] /\ day' \in Days
    BY <1>1, <1>2, Types DEF Stages
  <2>3. \A f \in {total', queued', blind'} : f \in [Days -> Nat]
    BY <1>1, <1>2, <1>5, Types
  <2> QED
    BY <1>1, <2>1, <2>2, <2>3 DEF AccountsTypeOK
<1>7. FutureIsEmpty' /\ QueueIsOfRun'
  BY <1>1, <1>3 DEF AccountsInv, FutureIsEmpty, QueueIsOfRun, None
<1>8. SeenIsUsed' /\ ExposedIsCovered' /\ ChargedIsCovered'
  BY <1>4 DEF SeenIsUsed, ExposedIsCovered, ChargedIsCovered
<1>9. CounterIsDays'
  <2>1. Bill \in [0 .. MaxDay -> Nat] /\ \A d \in Days : Bill[d] = total[d] + queued[d]
    BY <1>2, Types, BillType DEF Bill
  <2>2. \A d \in Days : queued[d] = 0
    BY <1>3 DEF None
  <2>3. \A d \in Days : d > day => Bill[d] = 0
    BY <2>1 DEF AccountsInv, FutureIsEmpty
  <2>4. day \in Days /\ Bill[day] = total[day] /\ total[day] \in Nat
    BY <1>2, <2>1, <2>2, Types
  <2>5. SumOf(day .. MaxDay, Bill) = total[day]
    BY <2>1, <2>3, <2>4, BillOfOne
  <2>6. DueOf(slot) = 0
    BY <1>3, RestFacts
  <2>7. used' + missed' = SumOf(day .. MaxDay, Bill) + 0 + 0
    BY <1>1, <2>4, <2>5
  <2>8. /\ SumOf(since' .. MaxDay, BillOf(total', queued')) = SumOf(day .. MaxDay, Bill)
        /\ DueOf(slot') = DueOf(slot)
    BY <1>1 DEF Bill
  <2> QED
    BY <1>1, <2>6, <2>7, <2>8, CounterIsBillNext
<1>10. MissedIsBlind'
  <2>1. day \in Days /\ total[day] \in Nat /\ blind[day] \in Nat /\ Overshoot \in Nat
    BY <1>2, Types, OvershootType
  <2>2. blind'[day] \in Nat
    BY <1>5, <2>1
  <2>3. 0 <= blind'[day] * Overshoot
    BY <2>1, <2>2, OneTimes
  <2>4. CASE ok \/ total[day] = 0
    BY <1>1, <2>1, <2>3, <2>4 DEF MissedIsBlind, Overshoot
  <2>5. CASE ~ ok /\ total[day] # 0
    <3>1. blind'[day] = 1 + blind[day]
      BY <1>1, <1>2, <2>1, <2>5, Types
    <3>2. total[day] + queued[day] <= (1 + blind[day]) * Overshoot
      BY <2>1 DEF AccountsInv, DailyOvershoot, Recorded
    <3>3. queued[day] \in Nat
      BY <1>2, <2>1, Types
    <3>4. total[day] <= (1 + blind[day]) * Overshoot
      <4> DEFINE most == (1 + blind[day]) * Overshoot
      <4>1. most \in Nat
        BY <2>1, OneTimes
      <4>2. total[day] + queued[day] <= most
        BY <3>2
      <4> HIDE DEF most
      <4>3. total[day] <= most
        BY <2>1, <3>3, <4>1, <4>2
      <4> QED
        BY <4>3 DEF most
    <3>5. missed' = total[day] /\ total' = total /\ since' = day
      BY <1>1, <2>5
    <3>6. missed' <= blind'[since'] * Overshoot /\ missed' <= total'[since']
      BY <2>1, <3>1, <3>4, <3>5
    <3> QED
      BY <3>6 DEF MissedIsBlind, Overshoot
  <2> QED
    BY <2>4, <2>5
<1>11. DailyOvershoot'
  <2> SUFFICES ASSUME NEW d \in Days PROVE total[d] + queued[d] <= (1 + blind'[d]) * Overshoot
    BY <1>1 DEF DailyOvershoot, Recorded, Overshoot
  <2>1. total[d] + queued[d] <= (1 + blind[d]) * Overshoot
    BY DEF AccountsInv, DailyOvershoot, Recorded
  <2>2. blind[d] \in Nat /\ blind'[d] \in Nat /\ blind[d] <= blind'[d]
    BY <1>1, <1>2, <1>5, Types
  <2>3. /\ (1 + blind[d]) * Overshoot <= (1 + blind'[d]) * Overshoot
        /\ (1 + blind[d]) * Overshoot \in Nat /\ (1 + blind'[d]) * Overshoot \in Nat
    BY <2>2, OvershootType, TimesMore
  <2>4. total[d] + queued[d] \in Nat
    BY <1>2, Types
  <2> QED
    BY <2>1, <2>3, <2>4
<1> QED
  BY <1>6, <1>7, <1>8, <1>9, <1>10, <1>11 DEF AccountsInv

(* A step of one request that neither charges nor writes: whoever becomes   *)
(* exposed by it has seen room.                                             *)
LEMMA QuietStep ==
    ASSUME AccountsInv, NEW s \in Slots, NEW r \in Stages,
           slot' = [slot EXCEPT ![s] = r], open,
           UNCHANGED <<day, open, used, total, queued, lost, since, missed, blind>>,
           slot[s].phase # "charged", r.phase # "charged",
           r.phase = "loaded" => r.seen <= used,
           s \in ExposedOf(slot') => s \in ExposedOf(slot) \/ used + Estimate <= Limit
    PROVE  AccountsInv'
<1>1. AccountsTypeOK
  BY DEF AccountsInv
<1>2. /\ slot \in [Slots -> Stages] /\ slot' \in [Slots -> Stages]
      /\ slot'[s] = r /\ \A t \in Slots \ {s} : slot'[t] = slot[t]
  BY <1>1, Types
<1>3. AccountsTypeOK'
  BY <1>1, <1>2 DEF AccountsTypeOK, Stages
<1>4. FutureIsEmpty' /\ QueueIsOfRun' /\ DailyOvershoot' /\ MissedIsBlind'
  BY DEF AccountsInv, FutureIsEmpty, QueueIsOfRun, DailyOvershoot, Recorded, MissedIsBlind, Overshoot
<1>5. CounterIsDays'
  <2>1. DueOf(slot') = DueOf(slot)
    BY <1>2, DueChange
  <2>2. SumOf(since' .. MaxDay, BillOf(total', queued')) = SumOf(since .. MaxDay, Bill)
    BY DEF Bill
  <2> QED
    BY <2>1, <2>2, CounterIsBill, CounterIsBillNext DEF AccountsInv
<1>6. SeenIsUsed'
  BY <1>2 DEF AccountsInv, SeenIsUsed
<1>7. /\ ExposedOf(slot) \in SUBSET Slots /\ ExposedOf(slot') \in SUBSET Slots
      /\ ExposedOf(slot') \in SUBSET (ExposedOf(slot) \cup {s})
  <2>1. ExposedOf(slot) \in SUBSET Slots /\ ExposedOf(slot') \in SUBSET Slots
    BY DEF ExposedOf
  <2>2. ASSUME NEW t \in ExposedOf(slot'), t # s PROVE t \in ExposedOf(slot)
    BY <1>2, <2>2 DEF ExposedOf
  <2> QED
    BY <2>1, <2>2
<1>8. InPhase("charged")' = InPhase("charged")
  BY <1>2 DEF InPhase
<1>9. used \in Nat /\ MaxCost \in Nat /\ Limit \in Nat /\ Estimate \in Nat
  BY <1>1, Types
<1>10. CASE ExposedOf(slot') \in SUBSET ExposedOf(slot)
  <2>1. /\ Cardinality(ExposedOf(slot')) <= Cardinality(ExposedOf(slot))
        /\ Cardinality(ExposedOf(slot')) \in Nat /\ Cardinality(ExposedOf(slot)) \in Nat
    BY <1>7, <1>10, ExposedSize
  <2>2. /\ Cardinality(ExposedOf(slot')) * MaxCost <= Cardinality(ExposedOf(slot)) * MaxCost
        /\ Cardinality(ExposedOf(slot')) * MaxCost \in Nat
        /\ Cardinality(ExposedOf(slot)) * MaxCost \in Nat
    BY <1>9, <2>1, TimesMore
  <2>3. ExposedOf(slot) = {} \/ used + Cardinality(ExposedOf(slot)) * MaxCost <= Overshoot
    BY DEF AccountsInv, ExposedIsCovered, Exposed
  <2>4. ExposedOf(slot') = {} \/ used + Cardinality(ExposedOf(slot')) * MaxCost <= Overshoot
    <3>1. CASE ExposedOf(slot) = {}
      BY <1>10, <3>1
    <3>2. CASE used + Cardinality(ExposedOf(slot)) * MaxCost <= Overshoot
      BY <1>9, <2>2, <3>2, OvershootType, AddLess
    <3> QED
      BY <2>3, <3>1, <3>2
  <2>5. ExposedIsCovered'
    BY <2>4 DEF ExposedIsCovered, Exposed, Overshoot
  <2>6. ChargedIsCovered'
    BY <1>8, <1>10 DEF AccountsInv, ChargedIsCovered, Exposed, Overshoot
  <2> QED
    BY <1>3, <1>4, <1>5, <1>6, <2>5, <2>6 DEF AccountsInv
<1>11. CASE ~ (ExposedOf(slot') \in SUBSET ExposedOf(slot))
  <2>1. used + Estimate <= Limit
    BY <1>7, <1>11
  <2>2. /\ Cardinality(ExposedOf(slot')) <= Cardinality(Slots)
        /\ Cardinality(ExposedOf(slot')) \in Nat /\ Cardinality(Slots) \in Nat
    BY <1>7, ExposedSize
  <2>3. /\ Cardinality(ExposedOf(slot')) * MaxCost <= Cardinality(Slots) * MaxCost
        /\ Cardinality(ExposedOf(slot')) * MaxCost \in Nat
        /\ Cardinality(Slots) * MaxCost \in Nat
    BY <1>9, <2>2, TimesMore
  <2>4. used + Cardinality(ExposedOf(slot')) * MaxCost <= Overshoot /\ used <= Overshoot
    BY <1>9, <2>1, <2>3, OvershootType
  <2>5. ExposedIsCovered' /\ ChargedIsCovered'
    BY <2>4 DEF ExposedIsCovered, ChargedIsCovered, Exposed, Overshoot
  <2> QED
    BY <1>3, <1>4, <1>5, <1>6, <2>5 DEF AccountsInv
<1> QED
  BY <1>10, <1>11

LEMMA AllowStep ==
    ASSUME AccountsInv, NEW s \in Slots, Allows(s)
    PROVE  AccountsInv'
<1>1. AccountsTypeOK /\ slot \in [Slots -> Stages] /\ used \in Nat
  BY Types DEF AccountsInv
<1>2. slot[s] \in Stages
  BY <1>1
<1>3. CASE LoadUsed(s)
  <2> DEFINE r == Stage("loaded", used, 0)
  <2>1. r \in Stages /\ r.phase = "loaded" /\ r.seen = used
    BY <1>1, AmountsAssumption DEF Stage, Stages, Phases
  <2>2. slot' = [slot EXCEPT ![s] = r] /\ slot[s].phase = "idle" /\ open
        /\ UNCHANGED <<day, open, used, total, queued, lost, since, missed, blind>>
    BY <1>3 DEF LoadUsed, Moves
  <2> HIDE DEF r
  <2>3. s \in ExposedOf(slot') => used + Estimate <= Limit
    BY <1>1, <2>1, <2>2 DEF ExposedOf
  <2>4. r.seen <= used /\ slot[s].phase # "charged" /\ r.phase # "charged"
    BY <1>1, <2>1, <2>2
  <2> QED
    BY <2>1, <2>2, <2>3, <2>4, QuietStep
<1>4. CASE Check(s)
  <2> DEFINE r == Stage("checked", 0, 0)
  <2>1. r \in Stages /\ r.phase = "checked"
    BY AmountsAssumption DEF Stage, Stages, Phases
  <2>2. slot' = [slot EXCEPT ![s] = r] /\ slot[s].phase = "loaded" /\ open
        /\ UNCHANGED <<day, open, used, total, queued, lost, since, missed, blind>>
    BY <1>4 DEF Check, Moves
  <2> HIDE DEF r
  <2>3. slot[s].seen + Estimate <= Limit
    <3>1. slot[s].seen \in Nat /\ Limit \in Nat /\ Estimate \in Nat
      BY <1>1, <1>2, Types DEF Stages
    <3>2. Frozen \in Nat
      <4>1. Cardinality(InPhase("held")) \in Nat
        BY ExposedSize DEF InPhase
      <4> QED
        BY <3>1, <4>1 DEF Frozen
    <3> QED
      BY <1>4, <3>1, <3>2 DEF Check, Room
  <2>4. s \in ExposedOf(slot)
    BY <2>2, <2>3 DEF ExposedOf
  <2> QED
    BY <2>1, <2>2, <2>4, QuietStep
<1>5. CASE Reject(s)
  <2>1. AtRest \in Stages /\ AtRest.phase = "idle"
    BY AmountsAssumption DEF AtRest, Stage, Stages, Phases
  <2>2. slot' = [slot EXCEPT ![s] = AtRest] /\ slot[s].phase = "loaded" /\ open
        /\ UNCHANGED <<day, open, used, total, queued, lost, since, missed, blind>>
    BY <1>5 DEF Reject, Moves
  <2>3. s \notin ExposedOf(slot')
    BY <1>1, <2>1, <2>2 DEF ExposedOf
  <2> QED
    BY <2>1, <2>2, <2>3, QuietStep
<1>6. CASE Freeze(s)
  <2> DEFINE r == Stage("held", 0, 0)
  <2>1. r \in Stages /\ r.phase = "held"
    BY AmountsAssumption DEF Stage, Stages, Phases
  <2>2. slot' = [slot EXCEPT ![s] = r] /\ slot[s].phase = "checked" /\ open
        /\ UNCHANGED <<day, open, used, total, queued, lost, since, missed, blind>>
    BY <1>6 DEF Freeze, Moves
  <2> HIDE DEF r
  <2>3. s \in ExposedOf(slot)
    BY <2>2 DEF ExposedOf
  <2> QED
    BY <2>1, <2>2, <2>3, QuietStep
<1> QED
  BY <1>3, <1>4, <1>5, <1>6 DEF Allows

LEMMA SettleStep ==
    ASSUME AccountsInv, NEW s \in Slots, NEW cost \in 0 .. MaxCost, SettleBudget(s, cost)
    PROVE  AccountsInv'
<1> DEFINE r == Stage("thawed", 0, cost)
<1>1. r \in Stages /\ r.phase = "thawed"
  BY DEF Stage, Stages, Phases
<1>2. slot' = [slot EXCEPT ![s] = r] /\ slot[s].phase = "held" /\ open
      /\ UNCHANGED <<day, open, used, total, queued, lost, since, missed, blind>>
  BY DEF SettleBudget, Moves
<1> HIDE DEF r
<1>3. s \in ExposedOf(slot)
  BY <1>2 DEF ExposedOf
<1> QED
  BY <1>1, <1>2, <1>3, QuietStep

(* A charge: one request fewer is exposed, and one more owes a record.      *)
LEMMA RecordAddStep ==
    ASSUME AccountsInv, NEW s \in Slots, RecordAdd(s)
    PROVE  AccountsInv'
<1>1. AccountsTypeOK /\ slot \in [Slots -> Stages] /\ used \in Nat /\ MaxCost \in Nat
  BY Types DEF AccountsInv
<1> DEFINE cost == slot[s].cost
           r == Stage("charged", used + cost, cost)
<1>2. /\ open /\ slot[s].phase = "thawed" /\ used' = used + cost
      /\ slot' = [slot EXCEPT ![s] = r]
      /\ UNCHANGED <<day, open, total, queued, lost, since, missed, blind>>
  BY DEF RecordAdd, Moves
<1>3. cost \in Nat /\ cost <= MaxCost /\ used + cost \in Nat
  BY <1>1 DEF Stages
<1>4. r \in Stages /\ r.phase = "charged" /\ r.cost = cost
  BY <1>1, <1>3 DEF Stage, Stages, Phases
<1> HIDE DEF r, cost
<1>5. /\ slot' \in [Slots -> Stages] /\ slot'[s] = r
      /\ \A t \in Slots \ {s} : slot'[t] = slot[t]
  BY <1>1, <1>2, <1>4
<1>6. AccountsTypeOK'
  <2>1. slot' \in [Slots -> [phase : Phases, seen : Nat, cost : 0 .. MaxCost]]
    BY <1>5 DEF Stages
  <2>2. \A f \in {total', queued', blind'} : f \in [Days -> Nat]
    BY <1>1, <1>2 DEF AccountsTypeOK
  <2> QED
    BY <1>1, <1>2, <1>3, <2>1, <2>2 DEF AccountsTypeOK
<1>7. FutureIsEmpty' /\ QueueIsOfRun' /\ DailyOvershoot' /\ MissedIsBlind'
  BY <1>2 DEF AccountsInv, FutureIsEmpty, QueueIsOfRun, DailyOvershoot, Recorded, MissedIsBlind,
              Overshoot
<1>8. CounterIsDays'
  <2>1. DueOf(slot') = DueOf(slot) + cost
    BY <1>1, <1>2, <1>4, <1>5, DueChange
  <2>2. SumOf(since' .. MaxDay, BillOf(total', queued')) = SumOf(since .. MaxDay, Bill)
    BY <1>2 DEF Bill
  <2>3. used + missed = SumOf(since .. MaxDay, Bill) + lost + DueOf(slot)
    BY <1>2, CounterIsBill DEF AccountsInv
  <2>4. SumOf(since .. MaxDay, Bill) \in Nat /\ DueOf(slot) \in Nat /\ lost \in Nat /\ missed \in Nat
    BY <1>1, Types, BillType, BillAtLeast, LaterDays, DueFacts DEF Bill
  <2>5. used' + missed' = SumOf(since .. MaxDay, Bill) + lost' + (DueOf(slot) + cost)
    BY <1>1, <1>2, <1>3, <2>3, <2>4
  <2> QED
    BY <2>1, <2>2, <2>5, CounterIsBillNext
<1>9. SeenIsUsed'
  <2> SUFFICES ASSUME NEW t \in Slots, slot'[t].phase = "loaded" PROVE slot'[t].seen <= used'
    BY DEF SeenIsUsed
  <2>1. t # s
    BY <1>4, <1>5
  <2>2. slot'[t] = slot[t] /\ slot[t].seen \in Nat
    BY <1>1, <1>5, <2>1 DEF Stages
  <2>3. slot[t].seen <= used
    BY <2>2 DEF AccountsInv, SeenIsUsed
  <2> QED
    BY <1>1, <1>2, <1>3, <2>2, <2>3
<1> DEFINE old == ExposedOf(slot)
           new == ExposedOf(slot')
<1>10. old \in SUBSET Slots /\ s \in old /\ new = old \ {s}
  BY <1>2, <1>4, <1>5 DEF ExposedOf
<1> HIDE DEF old, new
<1>11. Cardinality(old) \in Nat /\ Cardinality(new) \in Nat /\ Cardinality(old) = Cardinality(new) + 1
  <2>1. Cardinality(old) \in Nat /\ Cardinality(new) = Cardinality(old) - 1
    BY <1>10, ExposedSize
  <2>2. Cardinality(new) \in Nat
    BY <1>10, ExposedSize
  <2> QED
    BY <2>1, <2>2
<1>12. used + Cardinality(old) * MaxCost <= Overshoot
  BY <1>10 DEF AccountsInv, ExposedIsCovered, Exposed, old
<1>13. used' + Cardinality(new) * MaxCost <= Overshoot /\ used' <= Overshoot
  <2>1. /\ Cardinality(old) * MaxCost = Cardinality(new) * MaxCost + MaxCost
        /\ Cardinality(new) * MaxCost \in Nat
    BY <1>1, <1>11, OneTimes
  <2> DEFINE rest == Cardinality(new) * MaxCost
  <2>2. rest \in Nat /\ used + (rest + MaxCost) <= Overshoot
    BY <1>12, <2>1
  <2> HIDE DEF rest
  <2>3. used + cost + rest <= Overshoot /\ used + cost <= Overshoot
    BY <1>1, <1>3, <2>2, OvershootType
  <2> QED
    BY <1>2, <2>3 DEF rest
<1>14. ExposedIsCovered' /\ ChargedIsCovered'
  BY <1>13 DEF ExposedIsCovered, ChargedIsCovered, Exposed, new, Overshoot
<1> QED
  BY <1>6, <1>7, <1>8, <1>9, <1>14 DEF AccountsInv

(* A record is offered to the store: what was due is queued or lost, and    *)
(* what is recorded of today is covered by the counter.                     *)
LEMMA RecordWriteStep ==
    ASSUME AccountsInv, NEW s \in Slots, RecordWrite(s)
    PROVE  AccountsInv'
<1>1. AccountsTypeOK /\ slot \in [Slots -> Stages] /\ used \in Nat /\ MaxCost \in Nat
  BY Types DEF AccountsInv
<1> DEFINE cost == slot[s].cost
<1>2. /\ open /\ slot[s].phase = "charged"
      /\ slot' = [slot EXCEPT ![s] = AtRest]
      /\ UNCHANGED <<day, open, used, total, since, missed, blind>>
      /\ \/ queued' = [queued EXCEPT ![day] = queued[day] + cost] /\ lost' = lost
         \/ lost' = lost + cost /\ queued' = queued
  BY DEF RecordWrite, Moves
<1>3. cost \in Nat
  BY <1>1 DEF Stages
<1>4. AtRest \in Stages /\ AtRest.phase = "idle"
  BY AmountsAssumption DEF AtRest, Stage, Stages, Phases
<1> HIDE DEF cost
<1>5. /\ slot' \in [Slots -> Stages] /\ slot'[s] = AtRest
      /\ \A t \in Slots \ {s} : slot'[t] = slot[t]
  BY <1>1, <1>2, <1>4
<1>6. /\ queued' \in [Days -> Nat] /\ lost' \in Nat
      /\ \A d \in Days \ {day} : queued'[d] = queued[d]
      /\ queued'[day] + lost' = queued[day] + lost + cost
      /\ day \in Days /\ since \in Days /\ queued[day] \in Nat
  BY <1>1, <1>2, <1>3, Types
<1>7. AccountsTypeOK'
  <2>1. slot' \in [Slots -> [phase : Phases, seen : Nat, cost : 0 .. MaxCost]]
    BY <1>5 DEF Stages
  <2>2. \A f \in {total', queued', blind'} : f \in [Days -> Nat]
    BY <1>1, <1>2, <1>6 DEF AccountsTypeOK
  <2> QED
    BY <1>1, <1>2, <1>6, <2>1, <2>2 DEF AccountsTypeOK
<1>8. FutureIsEmpty' /\ QueueIsOfRun'
  <2>1. ASSUME NEW d \in Days, d > day PROVE total[d] = 0 /\ queued'[d] = 0
    <3>1. d # day
      BY <1>1, <2>1, Types
    <3> QED
      BY <1>6, <2>1, <3>1 DEF AccountsInv, FutureIsEmpty
  <2>2. ASSUME NEW d \in Days, d < since PROVE queued'[d] = 0
    <3>1. d # day
      BY <1>1, <2>2, Types
    <3> QED
      BY <1>6, <2>2, <3>1 DEF AccountsInv, QueueIsOfRun
  <2> QED
    BY <1>2, <2>1, <2>2 DEF FutureIsEmpty, QueueIsOfRun
<1>9. MissedIsBlind'
  BY <1>2 DEF AccountsInv, MissedIsBlind, Overshoot
<1> DEFINE bill == BillOf(total', queued')
<1>10. /\ Bill \in [0 .. MaxDay -> Nat] /\ bill \in [0 .. MaxDay -> Nat]
       /\ \A d \in Days : Bill[d] = total[d] + queued[d] /\ bill[d] = total[d] + queued'[d]
  BY <1>1, <1>2, <1>6, Types, BillType DEF Bill
<1>11. since \in Days /\ day \in since .. MaxDay
  BY <1>1, Types
<1> HIDE DEF bill
<1>12. CounterIsDays'
  <2>1. DueOf(slot) = DueOf(slot') + cost
    BY <1>1, <1>2, <1>4, <1>5, DueChange DEF cost
  <2>2. \A d \in Days \ {day} : bill[d] = Bill[d]
    BY <1>6, <1>10
  <2>3. SumOf(since .. MaxDay, bill) = SumOf(since .. MaxDay, Bill) + (bill[day] - Bill[day])
    BY <1>10, <1>11, <2>2, BillChange
  <2>4. bill[day] - Bill[day] = queued'[day] - queued[day]
    <3>1. total[day] \in Nat /\ queued'[day] \in Nat
      BY <1>1, <1>6, Types
    <3> QED
      BY <1>6, <1>10, <3>1
  <2>5. used + missed = SumOf(since .. MaxDay, Bill) + lost + DueOf(slot)
    BY <1>2, CounterIsBill DEF AccountsInv
  <2>6. SumOf(since .. MaxDay, Bill) \in Nat /\ DueOf(slot') \in Nat
        /\ lost \in Nat /\ queued'[day] \in Nat
    BY <1>1, <1>5, <1>6, <1>10, <1>11, Types, BillAtLeast, DueFacts
  <2> DEFINE sum == SumOf(since .. MaxDay, Bill)
             due == DueOf(slot')
  <2>7. SumOf(since .. MaxDay, bill) = sum + (queued'[day] - queued[day])
    BY <2>3, <2>4
  <2>8. used + missed = sum + lost + (due + cost) /\ sum \in Nat /\ due \in Nat
    BY <2>1, <2>5, <2>6
  <2> HIDE DEF sum, due
  <2>9. sum + lost + (due + cost) = sum + (queued'[day] - queued[day]) + lost' + due
    <3> DEFINE was == queued[day]
               now == queued'[day]
               gone == lost
               left == lost'
    <3>1. /\ now + left = was + gone + cost /\ now \in Nat /\ was \in Nat
          /\ gone \in Nat /\ left \in Nat /\ cost \in Nat /\ sum \in Nat /\ due \in Nat
      BY <1>3, <1>6, <2>6, <2>8
    <3> HIDE DEF was, now, gone, left
    <3>2. sum + gone + (due + cost) = sum + (now - was) + left + due
      BY <3>1
    <3> QED
      BY <3>2 DEF was, now, gone, left
  <2>10. used + missed = SumOf(since .. MaxDay, bill) + lost' + DueOf(slot')
    BY <2>7, <2>8, <2>9 DEF due
  <2> QED
    BY <1>2, <2>10, CounterIsBillNext DEF bill
<1>13. ExposedOf(slot') = ExposedOf(slot) /\ ChargedOf(slot') \in SUBSET ChargedOf(slot)
  BY <1>2, <1>4, <1>5 DEF ExposedOf, ChargedOf
<1>14. SeenIsUsed'
  BY <1>2, <1>4, <1>5 DEF AccountsInv, SeenIsUsed
<1>15. ExposedIsCovered'
  BY <1>2, <1>13 DEF AccountsInv, ExposedIsCovered, Exposed, Overshoot
<1>16. ChargedIsCovered'
  <2>1. InPhase("charged")' = ChargedOf(slot')
    BY DEF InPhase, ChargedOf
  <2> QED
    BY <1>2, <1>13, <2>1, ChargedIsPhase
       DEF AccountsInv, ChargedIsCovered, Exposed, Overshoot
<1>17. used <= Overshoot
  BY <1>2 DEF AccountsInv, ChargedIsCovered, InPhase
<1>18. DailyOvershoot'
  <2> SUFFICES ASSUME NEW d \in Days PROVE total[d] + queued'[d] <= (1 + blind[d]) * Overshoot
    BY <1>2 DEF DailyOvershoot, Recorded, Overshoot
  <2>1. CASE d # day
    BY <1>6, <2>1 DEF AccountsInv, DailyOvershoot, Recorded
  <2>2. CASE d = day
    <3>1. /\ blind[day] \in Nat /\ blind[since] \in Nat /\ total[day] \in Nat /\ total[since] \in Nat
          /\ queued'[since] \in Nat /\ missed \in Nat /\ lost' \in Nat
      BY <1>1, <1>6, Types
    <3>2. /\ (1 + blind[day]) * Overshoot = Overshoot + blind[day] * Overshoot
          /\ blind[day] * Overshoot \in Nat
      BY <3>1, OvershootType, OneTimes
    <3>3. missed <= blind[since] * Overshoot /\ missed <= total[since]
      BY <1>2 DEF AccountsInv, MissedIsBlind
    <3>4. used + missed = SumOf(since .. MaxDay, bill) + lost' + DueOf(slot')
      BY <1>2, <1>12, CounterIsBillNext DEF bill
    <3>5. /\ SumOf(since .. MaxDay, bill) \in Nat /\ bill[day] <= SumOf(since .. MaxDay, bill)
          /\ day # since => bill[day] + bill[since] <= SumOf(since .. MaxDay, bill)
      BY <1>10, <1>11, BillAtLeast
    <3>6. DueOf(slot') \in Nat
      BY <1>5, DueFacts
    <3>7. /\ bill[day] = total[day] + queued'[day] /\ bill[since] = total[since] + queued'[since]
          /\ bill[day] \in Nat /\ bill[since] \in Nat
      <4>1. /\ bill[day] = total[day] + queued'[day] /\ queued'[day] \in Nat
            /\ bill[since] = total[since] + queued'[since]
        BY <1>6, <1>10
      <4> QED
        BY <3>1, <4>1
    <3> DEFINE again == blind[day] * Overshoot
    <3>8. again \in Nat /\ (1 + blind[day]) * Overshoot = Overshoot + again
          /\ (day = since => missed <= again)
      BY <3>2, <3>3
    <3> HIDE DEF again
    <3>9. CASE day = since
      <4>1. bill[day] <= used + missed
        BY <1>1, <3>1, <3>4, <3>5, <3>6, <3>7
      <4>2. bill[day] <= Overshoot + again
        BY <1>1, <1>17, <3>1, <3>7, <3>8, <3>9, <4>1, OvershootType
      <4> QED
        BY <2>2, <3>7, <3>8, <4>2
    <3>10. CASE day # since
      <4>1. bill[day] + bill[since] <= used + missed
        BY <1>1, <3>1, <3>4, <3>5, <3>6, <3>7, <3>10
      <4>2. missed <= bill[since]
        BY <3>1, <3>3, <3>7
      <4>3. bill[day] <= Overshoot + again
        BY <1>1, <1>17, <3>1, <3>7, <3>8, <4>1, <4>2, OvershootType
      <4> QED
        BY <2>2, <3>7, <3>8, <4>3
    <3> QED
      BY <3>9, <3>10
  <2> QED
    BY <2>1, <2>2
<1> QED
  BY <1>7, <1>8, <1>9, <1>12, <1>14, <1>15, <1>16, <1>18 DEF AccountsInv

(* A batch goes from the queue to the table or is given up; either way it   *)
(* has been counted.                                                        *)
LEMMA FlushStep ==
    ASSUME AccountsInv, NEW d \in Days, Flush(d) \/ FlushFail(d)
    PROVE  AccountsInv'
<1>1. AccountsTypeOK
  BY DEF AccountsInv
<1>2. /\ open /\ queued[d] > 0
      /\ UNCHANGED <<day, open, used, slot, since, missed, blind>>
      /\ queued' = [queued EXCEPT ![d] = 0]
      /\ \/ total' = [total EXCEPT ![d] = total[d] + queued[d]] /\ lost' = lost
         \/ lost' = lost + queued[d] /\ total' = total
  BY DEF Flush, FlushFail
<1>3. /\ total' \in [Days -> Nat] /\ queued' \in [Days -> Nat] /\ lost' \in Nat
      /\ \A e \in Days \ {d} : total'[e] = total[e] /\ queued'[e] = queued[e]
      /\ total'[d] + queued'[d] + lost' = total[d] + queued[d] + lost
      /\ total'[d] + queued'[d] <= total[d] + queued[d] /\ total[d] <= total'[d]
      /\ total[d] \in Nat /\ queued[d] \in Nat /\ lost \in Nat
  BY <1>1, <1>2, Types
<1>4. AccountsTypeOK'
  <2>1. \A f \in {total', queued', blind'} : f \in [Days -> Nat]
    BY <1>1, <1>2, <1>3 DEF AccountsTypeOK
  <2> QED
    BY <1>1, <1>2, <1>3, <2>1 DEF AccountsTypeOK
<1>5. d <= day /\ d >= since
  <2>1. day \in Nat /\ since \in Nat /\ d \in Nat /\ queued[d] \in Nat
    <3>1. d \in Days /\ queued[d] \in Nat
      BY <1>1, <1>3
    <3>2. day \in Nat /\ since \in Nat /\ Days \in SUBSET Nat
      BY <1>1, Types DEF Days
    <3> QED
      BY <3>1, <3>2
  <2>2. (d > day => queued[d] = 0) /\ (d < since => queued[d] = 0)
    BY <1>1 DEF AccountsInv, FutureIsEmpty, QueueIsOfRun
  <2>3. queued[d] > 0
    BY <1>2
  <2>4. ~ (d > day) /\ ~ (d < since)
    BY <2>1, <2>2, <2>3
  <2> QED
    BY <2>1, <2>4
<1>6. FutureIsEmpty' /\ QueueIsOfRun'
  <2>1. ASSUME NEW e \in Days, e > day PROVE total'[e] = 0 /\ queued'[e] = 0
    <3>1. e \in Days \ {d}
      BY <1>1, <1>5, <2>1, Types DEF Days
    <3> QED
      BY <1>3, <2>1, <3>1 DEF AccountsInv, FutureIsEmpty
  <2>2. ASSUME NEW e \in Days, e < since PROVE queued'[e] = 0
    <3>1. e \in Days \ {d}
      BY <1>1, <1>5, <2>2, Types DEF Days
    <3> QED
      BY <1>3, <2>2, <3>1 DEF AccountsInv, QueueIsOfRun
  <2> QED
    BY <1>2, <2>1, <2>2 DEF FutureIsEmpty, QueueIsOfRun
<1>7. SeenIsUsed' /\ ExposedIsCovered' /\ ChargedIsCovered'
  BY <1>2 DEF AccountsInv, SeenIsUsed, ExposedIsCovered, ChargedIsCovered, Exposed, ExposedOf,
              InPhase, Overshoot
<1>8. MissedIsBlind'
  <2>1. total[since] <= total'[since] /\ total[since] \in Nat /\ total'[since] \in Nat
        /\ missed \in Nat
    BY <1>1, <1>3, Types
  <2>2. missed <= blind[since] * Overshoot /\ missed <= total[since]
    BY <1>2 DEF AccountsInv, MissedIsBlind
  <2> QED
    BY <1>2, <2>1, <2>2 DEF MissedIsBlind, Overshoot
<1>9. DailyOvershoot'
  <2> SUFFICES ASSUME NEW e \in Days PROVE total'[e] + queued'[e] <= (1 + blind[e]) * Overshoot
    BY <1>2 DEF DailyOvershoot, Recorded, Overshoot
  <2> DEFINE most == (1 + blind[e]) * Overshoot
  <2>1. total[e] + queued[e] <= most /\ most \in Nat
    BY <1>1, Types, OvershootType, OneTimes DEF AccountsInv, DailyOvershoot, Recorded
  <2> HIDE DEF most
  <2>2. CASE e # d
    BY <1>3, <2>1, <2>2 DEF most
  <2>3. CASE e = d
    <3>1. total'[d] + queued'[d] <= most
      <4>1. total'[d] \in Nat /\ queued'[d] \in Nat
        BY <1>3
      <4> QED
        BY <1>3, <2>1, <2>3, <4>1
    <3> QED
      BY <2>3, <3>1 DEF most
  <2> QED
    BY <2>2, <2>3
<1> DEFINE bill == BillOf(total', queued')
<1>10. /\ Bill \in [0 .. MaxDay -> Nat] /\ bill \in [0 .. MaxDay -> Nat]
       /\ \A e \in Days : Bill[e] = total[e] + queued[e] /\ bill[e] = total'[e] + queued'[e]
  <2>1. Bill \in [0 .. MaxDay -> Nat] /\ \A e \in Days : Bill[e] = total[e] + queued[e]
    BY <1>1, Types, BillType DEF Bill
  <2>2. bill \in [0 .. MaxDay -> Nat] /\ \A e \in Days : bill[e] = total'[e] + queued'[e]
    <3>1. total' \in [Days -> Nat] /\ queued' \in [Days -> Nat]
      BY <1>3
    <3> QED
      BY <3>1, BillType
  <2> QED
    BY <2>1, <2>2
<1> HIDE DEF bill
<1>11. CounterIsDays'
  <2>1. used + missed = SumOf(since .. MaxDay, Bill) + lost + DueOf(slot)
    BY <1>2, CounterIsBill DEF AccountsInv
  <2>2. since \in Days /\ SumOf(since .. MaxDay, Bill) \in Nat /\ DueOf(slot) \in Nat
    BY <1>1, <1>10, Types, BillAtLeast, LaterDays, DueFacts
  <2>3. \A e \in Days \ {d} : bill[e] = Bill[e]
    BY <1>3, <1>10
  <2>4. SumOf(since .. MaxDay, bill) + lost' = SumOf(since .. MaxDay, Bill) + lost
    <3>1. d \in since .. MaxDay
      BY <1>1, <1>5, Types DEF Days
    <3>2. SumOf(since .. MaxDay, bill) = SumOf(since .. MaxDay, Bill) + (bill[d] - Bill[d])
      BY <1>10, <2>2, <2>3, <3>1, BillChange
    <3>3. /\ bill[d] = total'[d] + queued'[d] /\ Bill[d] = total[d] + queued[d]
          /\ total'[d] \in Nat /\ queued'[d] \in Nat
      <4>1. bill[d] = total'[d] + queued'[d] /\ Bill[d] = total[d] + queued[d]
        BY <1>1, <1>10
      <4>2. total' \in [Days -> Nat] /\ queued' \in [Days -> Nat]
        BY <1>3
      <4> QED
        BY <1>1, <4>1, <4>2
    <3> DEFINE was == total[d] + queued[d]
               now == total'[d] + queued'[d]
               gone == lost
               left == lost'
               sum == SumOf(since .. MaxDay, Bill)
    <3>4. /\ now + left = was + gone /\ now \in Nat /\ was \in Nat
          /\ gone \in Nat /\ left \in Nat /\ sum \in Nat
      <4>1. total'[d] + queued'[d] + lost' = total[d] + queued[d] + lost
        BY <1>3
      <4>2. total[d] \in Nat /\ queued[d] \in Nat /\ lost \in Nat /\ lost' \in Nat
        BY <1>3
      <4>3. now + left = was + gone /\ gone \in Nat /\ left \in Nat
        BY <4>1, <4>2
      <4>4. was \in Nat
        BY <4>2
      <4>5. now \in Nat
        BY <3>3
      <4>6. sum \in Nat
        BY <2>2
      <4> QED
        BY <4>3, <4>4, <4>5, <4>6
    <3>5. SumOf(since .. MaxDay, bill) = sum + (now - was)
      BY <3>2, <3>3
    <3> HIDE DEF was, now, gone, left, sum
    <3>6. sum + gone = sum + (now - was) + left
      BY <3>4
    <3> QED
      BY <3>5, <3>6 DEF gone, left, sum
  <2> QED
    BY <1>2, <2>1, <2>2, <2>4, CounterIsBillNext DEF bill
<1> QED
  BY <1>4, <1>6, <1>7, <1>8, <1>9, <1>11 DEF AccountsInv

LEMMA MidnightStep ==
    ASSUME AccountsInv, Midnight
    PROVE  AccountsInv'
<1>1. AccountsTypeOK /\ day \in Nat /\ MaxDay \in Nat /\ since \in Nat /\ since <= day
  BY Types DEF AccountsInv
<1>2. /\ day < MaxDay /\ day' = day + 1
      /\ UNCHANGED <<open, used, slot, total, queued, lost, since, missed, blind>>
  BY DEF Midnight
<1>3. AccountsTypeOK'
  <2>1. day' \in Days /\ since' \in 0 .. day'
    BY <1>1, <1>2 DEF Days
  <2>2. \A f \in {total', queued', blind'} : f \in [Days -> Nat]
    BY <1>1, <1>2 DEF AccountsTypeOK
  <2> QED
    BY <1>1, <1>2, <2>1, <2>2 DEF AccountsTypeOK
<1>4. FutureIsEmpty'
  <2> SUFFICES ASSUME NEW d \in Days, d > day + 1 PROVE total[d] = 0 /\ queued[d] = 0
    BY <1>2 DEF FutureIsEmpty
  <2>1. d > day
    BY <1>1 DEF Days
  <2> QED
    BY <2>1 DEF AccountsInv, FutureIsEmpty
<1>5. CounterIsDays'
  BY <1>2 DEF AccountsInv, CounterIsDays, SumFrom, Recorded, Due, InPhase
<1>6. QueueIsOfRun' /\ SeenIsUsed' /\ ExposedIsCovered' /\ ChargedIsCovered'
  BY <1>2 DEF AccountsInv, QueueIsOfRun, SeenIsUsed, ExposedIsCovered, ChargedIsCovered, Exposed,
              ExposedOf, InPhase, Overshoot
<1>7. MissedIsBlind' /\ DailyOvershoot'
  BY <1>2 DEF AccountsInv, MissedIsBlind, DailyOvershoot, Recorded, Overshoot
<1> QED
  BY <1>3, <1>4, <1>5, <1>6, <1>7 DEF AccountsInv

(* The end of the process forgets the counter and the requests, and a crash *)
(* the queue.                                                               *)
LEMMA EndStep ==
    ASSUME AccountsInv, Ends
    PROVE  AccountsInv'
<1>1. /\ ~open' /\ used' = 0 /\ slot' = [s \in Slots |-> AtRest]
      /\ queued' = None /\ lost' = 0 /\ missed' = 0
      /\ UNCHANGED <<day, total, since, blind>>
  BY DEF Ends, Stop, Die, End
<1>2. AccountsTypeOK
  BY DEF AccountsInv
<1>3. /\ slot' \in [Slots -> Stages] /\ Exposed' = {} /\ InPhase("charged")' = {}
      /\ \A s \in Slots : slot'[s].phase = "idle"
  BY <1>1, RestFacts DEF Exposed, ExposedOf, InPhase, ChargedOf
<1>4. AccountsTypeOK'
  <2>1. None \in [Days -> Nat]
    BY DEF None
  <2>2. \A f \in {total', queued', blind'} : f \in [Days -> Nat]
    BY <1>1, <1>2, <2>1, Types
  <2>3. slot' \in [Slots -> [phase : Phases, seen : Nat, cost : 0 .. MaxCost]]
    BY <1>3 DEF Stages
  <2>4. day' \in Days /\ since' \in 0 .. day' /\ open' \in BOOLEAN
    BY <1>1, <1>2 DEF AccountsTypeOK, Ends, Stop, Die, End
  <2>5. used' \in Nat /\ lost' \in Nat /\ missed' \in Nat
    BY <1>1
  <2> HIDE DEF AccountsTypeOK
  <2>6. /\ day' \in Days /\ since' \in 0 .. day' /\ open' \in BOOLEAN
        /\ slot' \in [Slots -> [phase : Phases, seen : Nat, cost : 0 .. MaxCost]]
        /\ used' \in Nat /\ lost' \in Nat /\ missed' \in Nat
        /\ \A f \in {total', queued', blind'} : f \in [Days -> Nat]
        /\ ~open' => queued' = None' /\ slot' = [s \in Slots |-> AtRest]
    BY <1>1, <2>2, <2>3, <2>4, <2>5 DEF None, Days
  <2> QED
    BY ONLY <2>6 DEF AccountsTypeOK, Days, None, Phases
<1>5. FutureIsEmpty' /\ QueueIsOfRun' /\ CounterIsDays' /\ MissedIsBlind'
  BY <1>1 DEF AccountsInv, FutureIsEmpty, QueueIsOfRun, CounterIsDays, MissedIsBlind, None
<1>6. SeenIsUsed' /\ ExposedIsCovered' /\ ChargedIsCovered'
  BY <1>3 DEF SeenIsUsed, ExposedIsCovered, ChargedIsCovered
<1>7. DailyOvershoot'
  <2> SUFFICES ASSUME NEW d \in Days PROVE total[d] + 0 <= (1 + blind[d]) * Overshoot
    BY <1>1 DEF DailyOvershoot, Recorded, Overshoot, None
  <2> DEFINE most == (1 + blind[d]) * Overshoot
  <2>1. total[d] + queued[d] <= most /\ most \in Nat /\ total[d] \in Nat /\ queued[d] \in Nat
    BY <1>2, Types, OvershootType, OneTimes DEF AccountsInv, DailyOvershoot, Recorded
  <2> HIDE DEF most
  <2>2. total[d] + 0 <= most
    BY <2>1
  <2> QED
    BY <2>2 DEF most
<1> QED
  BY <1>4, <1>5, <1>6, <1>7 DEF AccountsInv

LEMMA AccountsStep == AccountsInv /\ [AccountsNext]_accounts => AccountsInv'
<1> SUFFICES ASSUME AccountsInv, [AccountsNext]_accounts PROVE AccountsInv'
  OBVIOUS
<1>1. CASE Starts
  BY <1>1, StartStep DEF Starts
<1>2. CASE Runs
  BY <1>2, AllowStep, SettleStep, RecordAddStep, FlushStep, MidnightStep DEF Runs
<1>3. CASE Records
  BY <1>3, RecordWriteStep DEF Records
<1>4. CASE Ends
  BY <1>4, EndStep
<1>5. CASE UNCHANGED accounts
  <2>1. UNCHANGED <<day, open, used, slot, total, queued, lost, since, missed, blind>>
    BY <1>5 DEF accounts
  <2>2. AccountsTypeOK'
    BY <2>1 DEF AccountsInv, AccountsTypeOK
  <2>3. CounterIsDays'
    BY <2>1 DEF AccountsInv, CounterIsDays, SumFrom, Recorded, Due, InPhase
  <2>4. FutureIsEmpty' /\ QueueIsOfRun' /\ SeenIsUsed' /\ ExposedIsCovered' /\ ChargedIsCovered'
    BY <2>1 DEF AccountsInv, FutureIsEmpty, QueueIsOfRun, SeenIsUsed, ExposedIsCovered,
                ChargedIsCovered, Exposed, ExposedOf, InPhase, Overshoot
  <2>5. MissedIsBlind' /\ DailyOvershoot'
    BY <2>1 DEF AccountsInv, MissedIsBlind, DailyOvershoot, Recorded, Overshoot
  <2> QED
    BY <2>2, <2>3, <2>4, <2>5 DEF AccountsInv
<1> QED
  BY <1>1, <1>2, <1>3, <1>4, <1>5 DEF AccountsNext

LEMMA AccountsAlways == AccountsSpec => []AccountsInv
  BY AccountsStart, AccountsStep, PTL DEF AccountsSpec

-----------------------------------------------------------------------------
(* The accounts *)

(* The days, amounts and requests are of their types, and neither what is   *)
(* queued nor a request survives the process (controller.go:33-58,          *)
(* sqlite.go:27-57).                                                        *)
THEOREM AccountsTypesAlwaysOK == AccountsSpec => []AccountsTypeOK
<1>1. AccountsInv => AccountsTypeOK
  BY DEF AccountsInv
<1> QED
  BY <1>1, AccountsAlways, PTL

(* The counter of a run, with what its start could not read, is the bill of *)
(* all its days, whatever the worker has written, lost or still has to      *)
(* write and however many charges are under way (controller.go:48-52,       *)
(* 98-122; sqlite.go:91-117).                                               *)
THEOREM CounterAlwaysDays == AccountsSpec => []CounterIsDays
<1>1. AccountsInv => CounterIsDays
  BY DEF AccountsInv
<1> QED
  BY <1>1, AccountsAlways, PTL

(* What is recorded of a day passes the limit by no more than one cost for  *)
(* each request in flight, in any order of the steps of any number of       *)
(* requests, over any number of runs and crashes, and once more for each    *)
(* start of that day that could not read its total (controller.go:46-53,    *)
(* 67-76, 98-122).                                                          *)
THEOREM DailyOvershootIsBounded == AccountsSpec => []DailyOvershoot
<1>1. AccountsInv => DailyOvershoot
  BY DEF AccountsInv
<1> QED
  BY <1>1, AccountsAlways, PTL

(* Until the first midnight of a run a refusal is about today: what takes   *)
(* RefusalsOfToday away is the day that ends while the program runs         *)
(* (controller.go:67-73, types.go:13).                                      *)
THEOREM RefusalsOfFirstDay == AccountsSpec => [](day = since => RefusalsOfToday)
<1>1. AccountsInv => (day = since => RefusalsOfToday)
  <2> SUFFICES ASSUME AccountsInv, day = since, missed = 0,
                      NEW s \in Slots, slot[s].phase = "loaded", ~ Room(s)
               PROVE  Recorded(day) + lost + Due + Frozen + Estimate > Limit
    BY DEF RefusalsOfToday, InPhase
  <2>1. AccountsTypeOK /\ slot \in [Slots -> Stages]
    BY Types DEF AccountsInv
  <2>2. open
    BY <2>1, RestFacts DEF AccountsTypeOK
  <2>3. Bill \in [0 .. MaxDay -> Nat] /\ \A d \in Days : Bill[d] = total[d] + queued[d]
    BY <2>1, Types, BillType DEF Bill
  <2>4. \A d \in Days : d > day => Bill[d] = 0
    BY <2>3 DEF AccountsInv, FutureIsEmpty
  <2>5. SumOf(since .. MaxDay, Bill) = Bill[day] /\ day \in Days
    <3>1. day \in Days
      BY <2>1, Types
    <3>2. SumOf(day .. MaxDay, Bill) = Bill[day]
      BY <2>3, <2>4, <3>1, BillOfOne
    <3> QED
      BY <3>1, <3>2
  <2>6. used + missed = SumOf(since .. MaxDay, Bill) + lost + DueOf(slot)
    BY <2>2, CounterIsBill DEF AccountsInv
  <2>7. Due = DueOf(slot) /\ Due \in Nat
    BY <2>1, DueFacts DEF Due, DueOf, ChargedOf, InPhase
  <2>8. Frozen \in Nat
    <3>1. Cardinality(InPhase("held")) \in Nat
      BY ExposedSize DEF InPhase
    <3> QED
      BY <2>1, <3>1, Types DEF Frozen
  <2>9. used = Recorded(day) + lost + Due
    BY <2>1, <2>3, <2>5, <2>6, <2>7, Types DEF Recorded
  <2>10. slot[s].seen <= used /\ slot[s].seen \in Nat
    BY <2>1 DEF AccountsInv, SeenIsUsed, Stages
  <2>11. used + Frozen + Estimate > Limit
    BY <2>1, <2>8, <2>10, Types DEF Room
  <2> QED
    BY <2>9, <2>11
<1> QED
  BY <1>1, AccountsAlways, PTL

-----------------------------------------------------------------------------
(* The dashboard *)

Snapshots ==
    [phase : {"idle", "begun", "read", "ready"}, date : Days, stats : Nat, status : Nat]

(* A snapshot is of a day of this run; from its first reading on, the       *)
(* store's total is no more than the counter and what the start missed, and *)
(* after its second no more than that and what it read of the counter.      *)
InOrder(r) ==
    /\ r.date \in 0 .. day
    /\ r.phase # "idle" => open /\ r.date >= since
    /\ r.phase = "read" => r.stats <= used + missed
    /\ r.phase = "ready" => r.stats <= r.status + missed

DashInv ==
    /\ AccountsInv
    /\ fetch \in [Fetches -> Snapshots]
    /\ \A f \in Fetches : InOrder(fetch[f])
    /\ ear \in [phase : {"waiting", "heard", "deaf"}, status : Nat]
    /\ ticking \in BOOLEAN /\ (ticking => open)
    /\ shown \in Nat

LEMMA FreshSnapshots ==
    ASSUME AccountsTypeOK
    PROVE  /\ NoFetch \in Snapshots /\ Begun(day) \in Snapshots
           /\ NoFetch.phase = "idle" /\ NoFetch.date = 0
           /\ Begun(day).phase = "begun" /\ Begun(day).date = day
<1>1. day \in Days /\ 0 \in Days
  BY Types DEF Days
<1>2. NoFetch \in Snapshots /\ NoFetch.phase = "idle" /\ NoFetch.date = 0
  BY <1>1 DEF NoFetch, Fetch, Snapshots
<1>3. Begun(day) \in Snapshots /\ Begun(day).phase = "begun" /\ Begun(day).date = day
  BY <1>1 DEF Begun, Fetch, Snapshots
<1> QED
  BY <1>2, <1>3

LEMMA FreshInOrder ==
    ASSUME AccountsTypeOK
    PROVE  InOrder(NoFetch) /\ (open => InOrder(Begun(day)))
  BY FreshSnapshots, Types DEF InOrder

LEMMA DashStart == AccountsInit /\ DashInit => DashInv
<1> SUFFICES ASSUME AccountsInit, DashInit PROVE DashInv
  OBVIOUS
<1>1. AccountsInv
  BY AccountsStart
<1>2. AccountsTypeOK
  BY <1>1 DEF AccountsInv
<1> QED
  BY <1>1, <1>2, FreshSnapshots, FreshInOrder DEF DashInit, DashInv

(* A run opens its dashboard with one snapshot of today, or has none.       *)
LEMMA DashOpens ==
    ASSUME DashInv, Starts, Opened
    PROVE  DashInv'
<1>1. AccountsInv'
  BY AccountsStep DEF DashInv, AccountsNext
<1>2. AccountsTypeOK /\ AccountsTypeOK'
  BY <1>1 DEF DashInv, AccountsInv
<1>3. open' /\ day' = day /\ since' = day
  BY DEF Starts, Start, Begin
<1>4. PICK f \in Fetches : fetch' = [g \in Fetches |-> IF g = f THEN Begun(day) ELSE NoFetch]
  BY DEF Opened
<1>5. fetch' \in [Fetches -> Snapshots]
  BY <1>2, <1>4, FreshSnapshots
<1>6. ASSUME NEW g \in Fetches PROVE InOrder(fetch[g])'
  <2>1. fetch'[g] = Begun(day) \/ fetch'[g] = NoFetch
    BY <1>4
  <2>2. \/ fetch'[g].phase = "begun" /\ fetch'[g].date = day
        \/ fetch'[g].phase = "idle" /\ fetch'[g].date = 0
    BY <1>2, <2>1, FreshSnapshots
  <2>3. day \in Nat
    BY <1>2, Types
  <2> QED
    BY <1>3, <2>2, <2>3 DEF InOrder
<1>7. /\ ear' \in [phase : {"waiting", "heard", "deaf"}, status : Nat] /\ ticking' \in BOOLEAN
      /\ shown' \in Nat
  BY DEF Opened
<1> QED
  BY <1>1, <1>3, <1>5, <1>6, <1>7 DEF DashInv

LEMMA DashHeadless ==
    ASSUME DashInv, Starts, Headless
    PROVE  DashInv'
<1>1. AccountsInv'
  BY AccountsStep DEF DashInv, AccountsNext
<1>2. ~open /\ day' = day
  BY DEF Starts, Start, Begin
<1>3. UNCHANGED <<fetch, ear, ticking, shown>>
  BY DEF Headless, dash
<1>4. ASSUME NEW f \in Fetches PROVE InOrder(fetch[f])'
  <2>1. InOrder(fetch[f]) /\ fetch[f].phase = "idle"
    BY <1>2 DEF DashInv, InOrder
  <2> QED
    BY <1>2, <1>3, <2>1 DEF InOrder
<1> QED
  BY <1>1, <1>2, <1>3, <1>4 DEF DashInv

(* While a run lasts its counter only grows.                                *)
LEMMA RunsGoOn ==
    ASSUME AccountsInv, Runs \/ Records
    PROVE  /\ open' = open /\ since' = since /\ missed' = missed
           /\ used <= used' /\ day <= day' /\ day' \in Nat /\ used' \in Nat
<1>1. used \in Nat /\ day \in Nat /\ slot \in [Slots -> Stages]
  BY Types DEF AccountsInv
<1>2. ASSUME NEW s \in Slots, RecordAdd(s)
      PROVE  used <= used' /\ used' \in Nat
  <2>1. slot[s].cost \in Nat
    BY <1>1, AmountsAssumption DEF Stages
  <2> QED
    BY <1>1, <1>2, <2>1 DEF RecordAdd
<1>3. CASE Runs
  <2>1. CASE \E s \in Slots : RecordAdd(s)
    BY <1>1, <1>2, <2>1 DEF RecordAdd
  <2>2. CASE \E s \in Slots : Allows(s)
    BY <1>1, <2>2 DEF Allows, LoadUsed, Check, Reject, Freeze
  <2>3. CASE \E s \in Slots, cost \in 0 .. MaxCost : SettleBudget(s, cost)
    BY <1>1, <2>3 DEF SettleBudget
  <2>4. CASE \E d \in Days : Flush(d) \/ FlushFail(d)
    BY <1>1, <2>4 DEF Flush, FlushFail
  <2>5. CASE Midnight
    BY <1>1, <2>5 DEF Midnight
  <2> QED
    BY <1>3, <2>1, <2>2, <2>3, <2>4, <2>5 DEF Runs
<1>4. CASE Records
  BY <1>1, <1>4 DEF Records, RecordWrite
<1> QED
  BY <1>3, <1>4

LEMMA DashHears ==
    ASSUME DashInv, (Runs /\ UNCHANGED dash) \/ (Records /\ Heard)
    PROVE  DashInv'
<1>1. AccountsInv /\ AccountsInv' /\ slot \in [Slots -> Stages]
  BY AccountsStep, Types DEF DashInv, AccountsNext, AccountsInv
<1>2. UNCHANGED <<fetch, ticking, shown>>
  BY DEF Heard, dash
<1>3. /\ open' = open /\ since' = since /\ missed' = missed /\ missed \in Nat
      /\ used <= used' /\ day <= day' /\ day' \in Nat /\ used' \in Nat
  BY <1>1, RunsGoOn, Types DEF AccountsInv
<1>4. ASSUME NEW f \in Fetches PROVE InOrder(fetch[f])'
  <2>1. InOrder(fetch[f]) /\ fetch[f].stats \in Nat
    BY DEF DashInv, Snapshots
  <2>2. used \in Nat /\ day \in Nat
    BY <1>1, Types DEF AccountsInv
  <2> QED
    BY <1>2, <1>3, <2>1, <2>2 DEF InOrder
<1>5. ear' \in [phase : {"waiting", "heard", "deaf"}, status : Nat]
  <2>1. CASE UNCHANGED ear
    BY <2>1 DEF DashInv
  <2>2. CASE \E s \in Slots : ear' = [phase |-> "heard", status |-> slot[s].seen]
    BY <1>1, <2>2 DEF Stages
  <2> QED
    BY <2>1, <2>2 DEF Heard, dash, InPhase
<1> QED
  BY <1>1, <1>2, <1>3, <1>4, <1>5 DEF DashInv

LEMMA DashCloses ==
    ASSUME DashInv, Ends, Closed
    PROVE  DashInv'
<1>1. AccountsInv'
  BY AccountsStep DEF DashInv, AccountsNext
<1>2. AccountsTypeOK /\ AccountsTypeOK'
  BY <1>1 DEF DashInv, AccountsInv
<1>3. day' = day
  BY DEF Ends, Stop, Die, End
<1>4. fetch' \in [Fetches -> Snapshots] /\ \A f \in Fetches : fetch'[f] = NoFetch
  BY <1>2, FreshSnapshots DEF Closed
<1>5. ASSUME NEW f \in Fetches PROVE InOrder(fetch[f])'
  BY <1>2, <1>3, <1>4, FreshSnapshots, Types DEF InOrder
<1> QED
  BY <1>1, <1>4, <1>5 DEF DashInv, Closed

(* The steps of the dashboard itself.                                       *)
LEMMA DashMoves ==
    ASSUME DashInv, DashStep, UNCHANGED accounts
    PROVE  DashInv'
<1>1. AccountsInv' /\ AccountsTypeOK /\ CounterIsDays
  BY AccountsStep DEF DashInv, AccountsInv
<1>2. /\ UNCHANGED <<day, open, used, since, missed>>
      /\ used \in Nat /\ missed \in Nat /\ total \in [Days -> Nat] /\ day \in Nat /\ since \in Nat
  BY <1>1, Types DEF accounts
<1>3. ASSUME NEW f \in Fetches, NEW r \in Snapshots, InOrder(r),
             fetch' = [fetch EXCEPT ![f] = r],
             ear' \in [phase : {"waiting", "heard", "deaf"}, status : Nat],
             ticking' = ticking, shown' \in Nat
      PROVE  DashInv'
  <2>1. fetch' \in [Fetches -> Snapshots]
    BY <1>3 DEF DashInv
  <2>2. ASSUME NEW g \in Fetches PROVE InOrder(fetch[g])'
    <3>1. InOrder(fetch'[g])
      BY <1>3 DEF DashInv
    <3> QED
      BY <1>2, <3>1 DEF InOrder
  <2>3. ticking' \in BOOLEAN /\ (ticking' => open')
    BY <1>2, <1>3 DEF DashInv
  <2> QED
    BY <1>1, <1>3, <2>1, <2>2, <2>3 DEF DashInv
<1>4. ASSUME NEW f \in Fetches, Tick(f) \/ Refresh(f) PROVE DashInv'
  <2>1. /\ fetch' = [fetch EXCEPT ![f] = Begun(day)] /\ open
        /\ UNCHANGED <<ear, ticking, shown>>
    BY <1>4 DEF Tick, Refresh, DashInv
  <2>2. Begun(day) \in Snapshots /\ InOrder(Begun(day))
    BY <1>1, <2>1, FreshSnapshots, FreshInOrder
  <2> QED
    BY <1>3, <2>1, <2>2 DEF DashInv
<1>5. ASSUME NEW f \in Fetches, FetchSnapshot(f) PROVE DashInv'
  <2> DEFINE r == fetch[f]
  <2>1. r \in Snapshots /\ InOrder(r) /\ UNCHANGED <<ear, ticking, shown>>
    BY <1>5 DEF DashInv, FetchSnapshot
  <2>2. CASE /\ r.phase = "begun"
             /\ \E stats \in {total[r.date], 0} :
                   fetch' = [fetch EXCEPT ![f].phase = "read", ![f].stats = stats]
    <3>1. PICK stats \in {total[r.date], 0} :
             fetch' = [fetch EXCEPT ![f].phase = "read", ![f].stats = stats]
      BY <2>2
    <3> DEFINE new == [r EXCEPT !.phase = "read", !.stats = stats]
    <3>2. fetch' = [fetch EXCEPT ![f] = new]
      BY <3>1 DEF DashInv
    <3>3. open /\ r.date \in since .. MaxDay /\ r.date \in Days
      <4>1. open /\ r.date \in 0 .. day /\ r.date >= since
        BY <2>1, <2>2 DEF InOrder
      <4>2. /\ since \in Nat /\ day \in Nat /\ MaxDay \in Nat /\ day <= MaxDay
        BY <1>1, Types
      <4> QED
        BY <4>1, <4>2 DEF Days
    <3>4. stats \in Nat /\ stats <= used + missed
      <4>1. total[r.date] <= used + missed
        BY <1>1, <3>3, CounterAtLeast
      <4>2. total[r.date] \in Nat
        BY <1>2, <3>3
      <4> QED
        BY <1>2, <4>1, <4>2
    <3>5. new \in Snapshots /\ new.phase = "read" /\ new.stats = stats /\ new.date = r.date
      BY <2>1, <3>4 DEF Snapshots
    <3>6. InOrder(new)
      BY <2>1, <2>2, <3>4, <3>5 DEF InOrder
    <3> HIDE DEF new
    <3> QED
      BY <1>3, <2>1, <3>2, <3>5, <3>6 DEF DashInv
  <2>3. CASE /\ r.phase = "read"
             /\ fetch' = [fetch EXCEPT ![f].phase = "ready", ![f].status = used]
    <3> DEFINE new == [r EXCEPT !.phase = "ready", !.status = used]
    <3>1. fetch' = [fetch EXCEPT ![f] = new]
      BY <2>3 DEF DashInv
    <3>2. /\ new \in Snapshots /\ new.phase = "ready" /\ new.stats = r.stats
          /\ new.date = r.date /\ new.status = used
      BY <1>2, <2>1 DEF Snapshots
    <3>3. InOrder(new)
      BY <2>1, <2>3, <3>2 DEF InOrder
    <3> HIDE DEF new
    <3> QED
      BY <1>3, <2>1, <3>1, <3>2, <3>3 DEF DashInv
  <2> QED
    BY <1>5, <2>2, <2>3 DEF FetchSnapshot
<1>6. ASSUME NEW f \in Fetches, ShowData(f) PROVE DashInv'
  <2>1. /\ fetch' = [fetch EXCEPT ![f] = NoFetch] /\ UNCHANGED <<ear, ticking>>
        /\ shown' = fetch[f].status
    BY <1>6 DEF ShowData
  <2>2. shown' \in Nat
    BY <2>1 DEF DashInv, Snapshots
  <2>3. NoFetch \in Snapshots /\ InOrder(NoFetch)
    BY <1>1, FreshSnapshots, FreshInOrder
  <2> QED
    BY <1>3, <2>1, <2>2, <2>3 DEF DashInv
<1>7. CASE ShowStatus
  <2>1. /\ shown' = ear.status /\ ear' = [ear EXCEPT !.phase = "deaf"]
        /\ UNCHANGED <<fetch, ticking>>
    BY <1>7 DEF ShowStatus
  <2>2. /\ shown' \in Nat
        /\ ear' \in [phase : {"waiting", "heard", "deaf"}, status : Nat]
    BY <2>1 DEF DashInv
  <2>3. ASSUME NEW g \in Fetches PROVE InOrder(fetch[g])'
    BY <1>2, <2>1 DEF DashInv, InOrder
  <2>4. ticking' \in BOOLEAN /\ (ticking' => open') /\ fetch' \in [Fetches -> Snapshots]
    BY <1>2, <2>1 DEF DashInv
  <2> QED
    BY <1>1, <2>2, <2>3, <2>4 DEF DashInv
<1> QED
  BY <1>4, <1>5, <1>6, <1>7 DEF DashStep

LEMMA DashStepped == DashInv /\ [DashNext]_<<accounts, dash>> => DashInv'
<1> SUFFICES ASSUME DashInv, [DashNext]_<<accounts, dash>> PROVE DashInv'
  OBVIOUS
<1>1. CASE UNCHANGED <<accounts, dash>>
  <2>1. AccountsInv'
    BY <1>1, AccountsStep DEF DashInv
  <2>2. UNCHANGED <<fetch, ear, ticking, shown, open>>
    BY <1>1 DEF accounts, dash
  <2>3. ASSUME NEW g \in Fetches PROVE InOrder(fetch[g])'
    BY <1>1 DEF DashInv, InOrder, accounts, dash
  <2> QED
    BY <2>1, <2>2, <2>3 DEF DashInv
<1>2. CASE DashStep /\ UNCHANGED accounts
  BY <1>2, DashMoves
<1>3. CASE Starts /\ (Opened \/ Headless)
  BY <1>3, DashOpens, DashHeadless
<1>4. CASE Runs /\ UNCHANGED dash
  BY <1>4, DashHears
<1>5. CASE Records /\ Heard
  BY <1>5, DashHears
<1>6. CASE Ends /\ Closed
  BY <1>6, DashCloses
<1> QED
  BY <1>1, <1>2, <1>3, <1>4, <1>5, <1>6 DEF DashNext

LEMMA DashAlways == DashSpec => []DashInv
  BY DashStart, DashStepped, PTL DEF DashSpec

(* The dashboard only reads: whatever it does, the accounts behave as they  *)
(* do alone, so that everything proved of them holds beside it              *)
(* (fetcher.go:19-41, model.go:60-120).                                     *)
LEMMA DashboardOnlyReads == DashSpec => AccountsSpec
<1>1. [DashNext]_<<accounts, dash>> => [AccountsNext]_accounts
  BY DEF DashNext, AccountsNext, accounts, dash
<1> QED
  BY <1>1, PTL DEF DashSpec, AccountsSpec

(* Snapshots are of a day of the run they were asked in, and none outlives  *)
(* it (fetcher.go:19-41).                                                   *)
THEOREM DashTypesAlwaysOK == DashSpec => []DashTypeOK
<1>1. DashInv => DashTypeOK
  BY DEF DashInv, AccountsInv, DashTypeOK, Snapshots, InOrder
<1> QED
  BY <1>1, DashAlways, PTL

(* The two readings of a snapshot never show more in the store than in the  *)
(* controller, however many snapshots are under way and whatever is         *)
(* settled, written or lost between them, a midnight included               *)
(* (fetcher.go:25-27).                                                      *)
THEOREM SnapshotAlwaysInOrder == DashSpec => []SnapshotInOrder
<1>1. DashInv => SnapshotInOrder
  BY DEF DashInv, InOrder, SnapshotInOrder
<1> QED
  BY <1>1, DashAlways, PTL

=============================================================================
