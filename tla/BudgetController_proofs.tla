----------------------- MODULE BudgetController_proofs -----------------------
(***************************************************************************)
(* Machine-checked safety of BudgetController for every number of request  *)
(* slots, every set of budgets and every amount.                           *)
(***************************************************************************)
EXTENDS BudgetController, Totals_proofs

-----------------------------------------------------------------------------
(* Type correctness *)

(* calculateState names one of the four states. *)
LEMMA StateType == \A p, u : CalculateState(p, u) \in States
BY DEF CalculateState, States

(* A status sent to a subscriber is a message. *)
LEMMA StatusType ==
    ASSUME NEW p \in Budgets, NEW u \in Nat
    PROVE  Status(p, u) \in Message
BY StateType DEF Status, Message

(* NewController leaves every variable with its type. *)
LEMMA InitType == Init => TypeOK
<1> SUFFICES ASSUME Init PROVE TypeOK
  OBVIOUS
<1> USE AmountsAssumption, ProjectsAssumption DEF Init
<1>1. base \in [Budgets -> Nat]
  OBVIOUS
<1>2. /\ subs \in [Projects -> Seq(Subscribers)]
      /\ chan \in [Subscribers -> Seq(Message)]
      /\ pending \in [Callers -> Seq(Subscribers)]
  OBVIOUS
<1>3. /\ lastState \in [Budgets -> States]
      /\ announced \in [Budgets -> SUBSET States]
      /\ pc \in [Callers -> Labels]
      /\ project \in [Callers -> Projects \cup {NoProject}]
  BY DEF States, Labels
<1> QED
  BY <1>1, <1>2, <1>3 DEF TypeOK, SharedType, HistoryType, LocalsType, Placed, Costs

(* A step that leaves a group of variables alone keeps its type. *)
LEMMA SameShared ==
    /\ SharedType /\ UNCHANGED shared => SharedType'
    /\ HistoryType /\ UNCHANGED history => HistoryType'
    /\ LocalsType /\ Placed /\ UNCHANGED locals => LocalsType' /\ Placed'
BY DEF SharedType, HistoryType, LocalsType, Placed, shared, history, locals

(* A slot that becomes idle again is well typed. *)
LEMMA ResetType ==
    ASSUME LocalsType, Placed, NEW c \in Callers, Reset(c)
    PROVE  LocalsType' /\ Placed'
<1>1. LocalsType'
  BY AmountsAssumption DEF Reset, LocalsType, Labels, Costs
<1>2. Placed'
  BY DEF Reset, LocalsType, Placed
<1> QED
  BY <1>1, <1>2

(* Every step of Allow keeps the types. *)
LEMMA AllowType ==
    ASSUME TypeOK, NEW c \in Callers, Allow(c)
    PROVE  TypeOK'
<1> USE AmountsAssumption, ProjectsAssumption DEF TypeOK
<1>1. ASSUME NEW p \in Projects, NEW e \in Estimates, AllowUnconfigured(c, p, e)
      PROVE  TypeOK'
  <2>1. LocalsType'
    BY <1>1 DEF AllowUnconfigured, Estimates, LocalsType, Labels, Goto
  <2>2. Placed'
    BY <1>1 DEF AllowUnconfigured, LocalsType, Placed, Goto
  <2> QED
    BY <1>1, <2>1, <2>2, SameShared DEF AllowUnconfigured
<1>2. ASSUME NEW p \in Projects, NEW e \in Estimates, AllowLoadUsed(c, p, e)
      PROVE  TypeOK'
  <2>1. LocalsType'
    BY <1>2 DEF AllowLoadUsed, Estimates, LocalsType, SharedType, Labels, Goto
  <2>2. Placed'
    BY <1>2 DEF AllowLoadUsed, LocalsType, Placed, Goto
  <2> QED
    BY <1>2, <2>1, <2>2, SameShared DEF AllowLoadUsed
<1>3. CASE AllowReject(c)
  BY <1>3, SameShared, ResetType DEF AllowReject
<1>4. CASE AllowCheck(c)
  <2>1. LocalsType'
    BY <1>4 DEF AllowCheck, LocalsType, Labels, Goto
  <2>2. Placed'
    BY <1>4 DEF AllowCheck, LocalsType, Placed, Goto
  <2> QED
    BY <1>4, <2>1, <2>2, SameShared DEF AllowCheck
<1>5. CASE AllowFreeze(c)
  <2>1. SharedType'
    <3>1. project[c] \in Budgets /\ amount[c] \in Int
      <4>1. pc[c] = "checked" /\ amount[c] \in 0 .. MaxEstimate
        BY <1>5 DEF AllowFreeze, LocalsType
      <4> QED
        BY <4>1 DEF Placed
    <3>2. frozen' \in [Budgets -> Int]
      BY <1>5, <3>1 DEF AllowFreeze, SharedType
    <3> QED
      BY <1>5, <3>2 DEF AllowFreeze, SharedType
  <2>2. LocalsType'
    BY <1>5 DEF AllowFreeze, LocalsType, Labels, Goto
  <2>3. Placed'
    BY <1>5 DEF AllowFreeze, LocalsType, Placed, Goto
  <2> QED
    BY <1>5, <2>1, <2>2, <2>3, SameShared DEF AllowFreeze
<1> QED
  BY <1>1, <1>2, <1>3, <1>4, <1>5 DEF Allow

(* Every step of SettleBudget keeps the types. *)
LEMMA SettleType ==
    ASSUME TypeOK, NEW c \in Callers, Settle(c)
    PROVE  TypeOK'
<1> USE AmountsAssumption, ProjectsAssumption DEF TypeOK
<1>1. CASE SettleUnconfigured(c)
  BY <1>1, SameShared, ResetType DEF SettleUnconfigured
<1>2. ASSUME NEW actual \in Costs, SettleBudget(c, actual)
      PROVE  TypeOK'
  <2>1. SharedType'
    <3>1. project[c] \in Budgets /\ amount[c] \in Int
      BY <1>2 DEF SettleBudget, LocalsType
    <3>2. frozen' \in [Budgets -> Int]
      BY <1>2, <3>1 DEF SettleBudget, SharedType
    <3> QED
      BY <1>2, <3>2 DEF SettleBudget, SharedType
  <2>2. LocalsType'
    BY <1>2 DEF SettleBudget, LocalsType, Labels, Goto
  <2>3. Placed'
    BY <1>2 DEF SettleBudget, LocalsType, Placed, Goto
  <2> QED
    BY <1>2, <2>1, <2>2, <2>3, SameShared DEF SettleBudget
<1> QED
  BY <1>1, <1>2 DEF Settle

(* Every step of Record keeps the types. *)
LEMMA RecordType ==
    ASSUME TypeOK, NEW c \in Callers, Record(c)
    PROVE  TypeOK'
<1> USE AmountsAssumption DEF TypeOK
<1>1. CASE RecordAdd(c)
  <2>1. SharedType'
    <3>1. pc[c] = "thawed" /\ cost[c] \in Costs
      BY <1>1 DEF RecordAdd, LocalsType
    <3>2. project[c] \in Budgets /\ cost[c] \in Nat
      BY <3>1 DEF Placed, Costs
    <3>3. used' \in [Budgets -> Nat]
      BY <1>1, <3>2 DEF RecordAdd, SharedType
    <3> QED
      BY <1>1, <3>3 DEF RecordAdd, SharedType
  <2>2. LocalsType'
    <3>1. used'[project[c]] \in Nat
      BY <1>1, <2>1 DEF RecordAdd, SharedType, Placed
    <3> QED
      BY <1>1, <3>1 DEF RecordAdd, LocalsType, Labels, Goto
  <2>3. Placed'
    BY <1>1 DEF RecordAdd, LocalsType, Placed, Goto
  <2> QED
    BY <1>1, <2>1, <2>2, <2>3, SameShared DEF RecordAdd
<1>2. ASSUME NEW accepts \in BOOLEAN, RecordPublish(c, accepts)
      PROVE  TypeOK'
  <2>1. SharedType'
    BY <1>2 DEF RecordPublish, SharedType, LocalsType
  <2>2. HistoryType'
    <3>1. pc[c] = "charged" /\ cost[c] \in Costs
      BY <1>2 DEF RecordPublish, LocalsType
    <3>2. project[c] \in Budgets /\ cost[c] \in Nat
      BY <3>1 DEF Placed, Costs
    <3> QED
      BY <1>2, <3>2 DEF RecordPublish, HistoryType
  <2>3. LocalsType'
    BY <1>2 DEF RecordPublish, LocalsType, Labels, Goto, Costs
  <2>4. Placed'
    BY <1>2 DEF RecordPublish, LocalsType, Placed, Goto
  <2> QED
    BY <2>1, <2>2, <2>3, <2>4
<1>3. CASE RecordSameState(c)
  BY <1>3, SameShared, ResetType DEF RecordSameState
<1>4. CASE RecordNewState(c)
  <2>1. SharedType' /\ HistoryType'
    <3> DEFINE new == CalculateState(project[c], seen[c])
    <3>1. /\ new \in States
          /\ lastState' = [lastState EXCEPT ![project[c]] = new]
          /\ announced' = [announced EXCEPT ![project[c]] = @ \cup {new}]
          /\ UNCHANGED <<used, frozen, gauge, subs, chan, written, refused, base>>
      BY <1>4, StateType DEF RecordNewState
    <3> HIDE DEF new
    <3> QED
      BY <3>1 DEF SharedType, HistoryType
  <2>2. LocalsType'
    BY <1>4 DEF RecordNewState, LocalsType, Labels, Goto
  <2>3. Placed'
    BY <1>4 DEF RecordNewState, LocalsType, Placed, Goto
  <2> QED
    BY <2>1, <2>2, <2>3
<1> QED
  BY <1>1, <1>2, <1>3, <1>4 DEF Record

(* Every step of notify keeps the types. *)
LEMMA NotifyType ==
    ASSUME TypeOK, NEW c \in Callers, Notify(c)
    PROVE  TypeOK'
<1> USE DEF TypeOK
<1>1. CASE NotifyStart(c)
  <2>1. LocalsType'
    BY <1>1, ProjectsAssumption DEF NotifyStart, SharedType, LocalsType, Placed, Labels, Goto
  <2>2. Placed'
    BY <1>1 DEF NotifyStart, LocalsType, Placed, Goto
  <2> QED
    BY <1>1, <2>1, <2>2, SameShared DEF NotifyStart
<1>2. CASE NotifySend(c)
  <2>1. /\ pending[c] \in Seq(Subscribers) /\ pending[c] # <<>>
        /\ Head(pending[c]) \in Subscribers
        /\ Tail(pending[c]) \in Seq(Subscribers)
    BY <1>2 DEF NotifySend, LocalsType
  <2>2. Status(project[c], seen[c]) \in Message
    BY <1>2, StatusType DEF NotifySend, LocalsType, Placed
  <2>3. SharedType'
    BY <1>2, <2>1, <2>2 DEF NotifySend, SharedType
  <2>4. LocalsType'
    BY <1>2, <2>1 DEF NotifySend, LocalsType
  <2>5. Placed'
    BY <1>2 DEF NotifySend, Placed
  <2> QED
    BY <1>2, <2>3, <2>4, <2>5, SameShared DEF NotifySend
<1>3. CASE NotifyEnd(c)
  BY <1>3, SameShared, ResetType DEF NotifyEnd
<1> QED
  BY <1>1, <1>2, <1>3 DEF Notify

(* Every step keeps the types. *)
LEMMA TypeStep == TypeOK /\ [Next]_vars => TypeOK'
<1> SUFFICES ASSUME TypeOK, [Next]_vars PROVE TypeOK'
  OBVIOUS
<1>1. ASSUME NEW c \in Callers, Allow(c) \/ Settle(c) \/ Record(c) \/ Notify(c)
      PROVE  TypeOK'
  BY <1>1, AllowType, SettleType, RecordType, NotifyType
<1>2. ASSUME NEW s \in Subscribers, NEW p \in Projects, Subscribe(s, p)
      PROVE  TypeOK'
  <2>1. SharedType'
    BY <1>2 DEF Subscribe, TypeOK, SharedType
  <2> QED
    BY <1>2, <2>1, SameShared DEF Subscribe, TypeOK
<1>3. ASSUME NEW s \in Subscribers, Receive(s) PROVE TypeOK'
  <2>1. SharedType'
    BY <1>3 DEF Receive, TypeOK, SharedType
  <2> QED
    BY <1>3, <2>1, SameShared DEF Receive, TypeOK
<1>4. CASE UNCHANGED vars
  BY <1>4, SameShared DEF vars, TypeOK
<1> QED
  BY <1>1, <1>2, <1>3, <1>4 DEF Next

(* Every variable keeps its type, whatever the constants.  *)
THEOREM TypeCorrect == Spec => []TypeOK
<1>1. Init => TypeOK
  BY InitType
<1>2. TypeOK /\ [Next]_vars => TypeOK'
  BY TypeStep
<1> QED
  BY <1>1, <1>2, PTL DEF Spec

-----------------------------------------------------------------------------
(* A step of one caller leaves the locals of the others alone. *)

Keeps(d) ==
    /\ pc'[d] = pc[d] /\ project'[d] = project[d] /\ amount'[d] = amount[d]
    /\ cost'[d] = cost[d] /\ seen'[d] = seen[d]

OthersKeep(c) == \A d \in Callers \ {c} : Keeps(d)

(* Every action of one caller does. *)
LEMMA OneCaller ==
    ASSUME TypeOK, NEW c \in Callers, Allow(c) \/ Settle(c) \/ Record(c) \/ Notify(c)
    PROVE  OthersKeep(c)
<1> USE DEF TypeOK, LocalsType, OthersKeep, Keeps, Goto, Reset
<1>1. CASE Allow(c)
  BY <1>1 DEF Allow, AllowUnconfigured, AllowLoadUsed, AllowReject, AllowCheck, AllowFreeze
<1>2. CASE Settle(c)
  BY <1>2 DEF Settle, SettleUnconfigured, SettleBudget
<1>3. CASE Record(c)
  BY <1>3 DEF Record, RecordAdd, RecordPublish, RecordSameState, RecordNewState
<1>4. CASE Notify(c)
  BY <1>4 DEF Notify, NotifyStart, NotifySend, NotifyEnd
<1> QED
  BY <1>1, <1>2, <1>3, <1>4

-----------------------------------------------------------------------------
(* What is frozen is what the admitted requests hold. *)

(* The callers that hold an amount are finitely many. *)
LEMMA HoldersFinite == ASSUME NEW p PROVE IsFiniteSet(Holders(p))
BY CallersAssumption, FS_Subset DEF Holders

(* A caller that holds nothing before or after its step leaves the sums alone. *)
LEMMA FrozenOutside ==
    ASSUME TypeOK, FrozenIsHeld, NEW c \in Callers, OthersKeep(c), UNCHANGED frozen,
           pc[c] = "admitted" => project[c] \notin Budgets,
           pc'[c] = "admitted" => project'[c] \notin Budgets
    PROVE  FrozenIsHeld'
<1> SUFFICES ASSUME NEW p \in Budgets
             PROVE  frozen'[p] = Total(Holders(p)', amount', MaxEstimate)
  BY DEF FrozenIsHeld
<1>1. Holders(p)' = Holders(p)
  BY DEF Holders, OthersKeep, Keeps
<1>2. \A d \in Holders(p) : amount[d] = amount'[d]
  BY DEF Holders, OthersKeep, Keeps
<1>3. Total(Holders(p), amount, MaxEstimate) = Total(Holders(p), amount', MaxEstimate)
  BY <1>2, TotalSame
<1> QED
  BY <1>1, <1>3 DEF FrozenIsHeld

(* Freezing adds to a budget what the caller then holds. *)
LEMMA FreezeHeld ==
    ASSUME TypeOK, FrozenIsHeld, NEW c \in Callers, AllowFreeze(c)
    PROVE  FrozenIsHeld'
<1> SUFFICES ASSUME NEW p \in Budgets
             PROVE  frozen'[p] = Total(Holders(p)', amount, MaxEstimate)
  BY DEF FrozenIsHeld, AllowFreeze
<1>1. frozen[p] = Total(Holders(p), amount, MaxEstimate)
  BY DEF FrozenIsHeld
<1>2. CASE project[c] = p
  <2>1. Holders(p)' = Holders(p) \cup {c} /\ c \notin Holders(p)
    BY <1>2 DEF AllowFreeze, Goto, Holders, TypeOK, LocalsType
  <2>2. amount[c] \in 0 .. MaxEstimate /\ MaxEstimate \in Nat
    BY AmountsAssumption DEF TypeOK, LocalsType
  <2>3. Total(Holders(p) \cup {c}, amount, MaxEstimate)
          = Total(Holders(p), amount, MaxEstimate) + amount[c]
    BY <2>1, <2>2, HoldersFinite, TotalAdd
  <2>4. frozen'[p] = frozen[p] + amount[c]
    BY <1>2 DEF AllowFreeze, TypeOK, SharedType
  <2> QED
    BY <1>1, <2>1, <2>3, <2>4
<1>3. CASE project[c] # p
  <2>1. Holders(p)' = Holders(p)
    BY <1>3 DEF AllowFreeze, Goto, Holders, TypeOK, LocalsType
  <2>2. frozen'[p] = frozen[p]
    BY <1>3 DEF AllowFreeze, TypeOK, SharedType
  <2> QED
    BY <1>1, <2>1, <2>2
<1> QED
  BY <1>2, <1>3

(* Settling takes from a budget what the caller held. *)
LEMMA SettleHeld ==
    ASSUME TypeOK, FrozenIsHeld, NEW c \in Callers, NEW actual \in Costs,
           SettleBudget(c, actual)
    PROVE  FrozenIsHeld'
<1> SUFFICES ASSUME NEW p \in Budgets
             PROVE  frozen'[p] = Total(Holders(p)', amount', MaxEstimate)
  BY DEF FrozenIsHeld
<1>1. frozen[p] = Total(Holders(p), amount, MaxEstimate)
  BY DEF FrozenIsHeld
<1>2. \A d \in Holders(p) \ {c} : amount[d] = amount'[d]
  BY DEF SettleBudget, Holders, TypeOK, LocalsType
<1>3. Total(Holders(p) \ {c}, amount, MaxEstimate)
        = Total(Holders(p) \ {c}, amount', MaxEstimate)
  BY <1>2, TotalSame
<1>4. Holders(p)' = Holders(p) \ {c}
  BY DEF SettleBudget, Goto, Holders, TypeOK, LocalsType
<1>5. CASE project[c] = p
  <2>1. c \in Holders(p)
    BY <1>5 DEF SettleBudget, Holders
  <2>2. amount[c] \in 0 .. MaxEstimate /\ MaxEstimate \in Nat
    BY AmountsAssumption DEF TypeOK, LocalsType
  <2>3. Total(Holders(p), amount, MaxEstimate)
          = Total(Holders(p) \ {c}, amount, MaxEstimate) + amount[c]
    BY <2>1, <2>2, HoldersFinite, TotalRemove
  <2>4. frozen'[p] = frozen[p] - amount[c]
    BY <1>5 DEF SettleBudget, TypeOK, SharedType
  <2>5. Total(Holders(p) \ {c}, amount, MaxEstimate) \in Nat
    BY <2>2, HoldersFinite, FS_RemoveElement, UnitsFinite
  <2> QED
    BY <1>1, <1>3, <1>4, <2>2, <2>3, <2>4, <2>5
<1>6. CASE project[c] # p
  <2>1. Holders(p) \ {c} = Holders(p)
    BY <1>6 DEF Holders
  <2>2. frozen'[p] = frozen[p]
    BY <1>6 DEF SettleBudget, TypeOK, SharedType
  <2> QED
    BY <1>1, <1>3, <1>4, <2>1, <2>2
<1> QED
  BY <1>5, <1>6

(* Every step keeps the balance of the holds. *)
LEMMA FrozenStep == TypeOK /\ FrozenIsHeld /\ [Next]_vars => FrozenIsHeld'
<1> SUFFICES ASSUME TypeOK, FrozenIsHeld, [Next]_vars PROVE FrozenIsHeld'
  OBVIOUS
<1>1. ASSUME NEW c \in Callers, Allow(c) PROVE FrozenIsHeld'
  <2>1. OthersKeep(c)
    BY <1>1, OneCaller
  <2>2. CASE AllowFreeze(c)
    BY <2>2, FreezeHeld
  <2>3. CASE ~AllowFreeze(c)
    <3>1. UNCHANGED frozen
      BY <1>1, <2>3 DEF Allow, AllowUnconfigured, AllowLoadUsed, AllowReject, AllowCheck, shared
    <3>2. pc[c] # "admitted"
      BY <1>1, <2>3 DEF Allow, AllowUnconfigured, AllowLoadUsed, AllowReject, AllowCheck
    <3>3. pc'[c] = "admitted" => project'[c] \notin Budgets
      BY <1>1, <2>3 DEF Allow, AllowUnconfigured, AllowLoadUsed, AllowReject, AllowCheck,
         Goto, Reset, TypeOK, LocalsType
    <3> QED
      BY <2>1, <3>1, <3>2, <3>3, FrozenOutside
  <2> QED
    BY <2>2, <2>3
<1>2. ASSUME NEW c \in Callers, Settle(c) PROVE FrozenIsHeld'
  <2>1. CASE SettleUnconfigured(c)
    <3>1. OthersKeep(c)
      BY <1>2, OneCaller
    <3>2. pc'[c] = "idle" /\ UNCHANGED frozen
      BY <2>1 DEF SettleUnconfigured, Reset, shared, TypeOK, LocalsType
    <3>3. project[c] \notin Budgets
      BY <2>1 DEF SettleUnconfigured
    <3> QED
      BY <3>1, <3>2, <3>3, FrozenOutside
  <2> QED
    BY <1>2, <2>1, SettleHeld DEF Settle
<1>3. ASSUME NEW c \in Callers, Record(c) \/ Notify(c) PROVE FrozenIsHeld'
  <2>1. OthersKeep(c)
    BY <1>3, OneCaller
  <2>2. UNCHANGED frozen
    BY <1>3 DEF Record, RecordAdd, RecordPublish, RecordSameState, RecordNewState,
       Notify, NotifyStart, NotifySend, NotifyEnd, shared
  <2>3. pc[c] # "admitted" /\ pc'[c] # "admitted"
    BY <1>3 DEF Record, RecordAdd, RecordPublish, RecordSameState, RecordNewState,
       Notify, NotifyStart, NotifySend, NotifyEnd, Goto, Reset, TypeOK, LocalsType
  <2> QED
    BY <2>1, <2>2, <2>3, FrozenOutside
<1>4. CASE UNCHANGED <<frozen, locals>>
  BY <1>4 DEF FrozenIsHeld, Holders, locals
<1> QED
  BY <1>1, <1>2, <1>3, <1>4 DEF Next, Subscribe, Receive, vars, shared

(* No hold is released twice or left over, in any interleaving of any number *)
(* of requests: frozen is the sum of the holds, and so is never negative.    *)
THEOREM HoldsBalanced == Spec => []FrozenIsHeld
<1>1. Init => FrozenIsHeld
  <2> SUFFICES ASSUME Init, NEW p \in Budgets
               PROVE  frozen[p] = Total(Holders(p), amount, MaxEstimate)
    BY DEF FrozenIsHeld
  <2>1. Holders(p) = {} /\ frozen[p] = 0
    BY DEF Init, Holders
  <2> QED
    BY <2>1, TotalEmpty
<1>2. TypeOK /\ FrozenIsHeld /\ [Next]_vars => FrozenIsHeld'
  BY FrozenStep
<1> QED
  BY <1>1, <1>2, TypeCorrect, PTL DEF Spec

-----------------------------------------------------------------------------
(* Every charge is where it should be. *)

(* The callers on their way to the store are finitely many. *)
LEMMA ChargingFinite == ASSUME NEW p PROVE IsFiniteSet(Charging(p))
BY CallersAssumption, FS_Subset DEF Charging

(* A step that moves no cost leaves the accounts alone. *)
LEMMA AccountedOutside ==
    ASSUME TypeOK, UsedIsAccounted, NEW c \in Callers, OthersKeep(c),
           UNCHANGED <<used, base, written, refused>>,
           pc[c] # "charged", pc'[c] # "charged"
    PROVE  UsedIsAccounted'
<1> SUFFICES ASSUME NEW p \in Budgets
             PROVE  Total(Charging(p)', cost', MaxCost) = Total(Charging(p), cost, MaxCost)
  BY DEF UsedIsAccounted
<1>1. Charging(p)' = Charging(p)
  BY DEF Charging, OthersKeep, Keeps
<1>2. \A d \in Charging(p) : cost[d] = cost'[d]
  BY DEF Charging, OthersKeep, Keeps
<1> QED
  BY <1>1, <1>2, TotalSame

(* A charge enters used and the charges under way together. *)
LEMMA AddAccounted ==
    ASSUME TypeOK, UsedIsAccounted, NEW c \in Callers, RecordAdd(c)
    PROVE  UsedIsAccounted'
<1> SUFFICES ASSUME NEW p \in Budgets
             PROVE  used'[p] = base[p] + written[p] + refused[p]
                                 + Total(Charging(p)', cost, MaxCost)
  BY DEF UsedIsAccounted, RecordAdd, history
<1>1. used[p] = base[p] + written[p] + refused[p] + Total(Charging(p), cost, MaxCost)
  BY DEF UsedIsAccounted
<1>2. cost[c] \in 0 .. MaxCost /\ MaxCost \in Nat
  BY AmountsAssumption DEF TypeOK, LocalsType, Costs
<1>3. /\ base[p] \in Nat /\ written[p] \in Nat /\ refused[p] \in Nat
      /\ Total(Charging(p), cost, MaxCost) \in Nat
  BY <1>2, ChargingFinite, UnitsFinite DEF TypeOK, HistoryType
<1>4. CASE project[c] = p
  <2>1. Charging(p)' = Charging(p) \cup {c} /\ c \notin Charging(p)
    BY <1>4 DEF RecordAdd, Goto, Charging, TypeOK, LocalsType
  <2>2. Total(Charging(p) \cup {c}, cost, MaxCost)
          = Total(Charging(p), cost, MaxCost) + cost[c]
    BY <1>2, <2>1, ChargingFinite, TotalAdd
  <2>3. used'[p] = used[p] + cost[c]
    BY <1>4 DEF RecordAdd, TypeOK, SharedType
  <2> QED
    BY <1>1, <1>2, <1>3, <2>1, <2>2, <2>3
<1>5. CASE project[c] # p
  <2>1. Charging(p)' = Charging(p)
    BY <1>5 DEF RecordAdd, Goto, Charging, TypeOK, LocalsType
  <2>2. used'[p] = used[p]
    BY <1>5 DEF RecordAdd, TypeOK, SharedType
  <2> QED
    BY <1>1, <2>1, <2>2
<1> QED
  BY <1>4, <1>5

(* A charge leaves the ones under way for written or refused. *)
LEMMA PublishAccounted ==
    ASSUME TypeOK, UsedIsAccounted, NEW c \in Callers, NEW accepts \in BOOLEAN,
           RecordPublish(c, accepts)
    PROVE  UsedIsAccounted'
<1> SUFFICES ASSUME NEW p \in Budgets
             PROVE  used[p] = base[p] + written'[p] + refused'[p]
                                + Total(Charging(p)', cost', MaxCost)
  BY DEF UsedIsAccounted, RecordPublish
<1>1. used[p] = base[p] + written[p] + refused[p] + Total(Charging(p), cost, MaxCost)
  BY DEF UsedIsAccounted
<1>2. cost[c] \in 0 .. MaxCost /\ MaxCost \in Nat
  BY AmountsAssumption DEF TypeOK, LocalsType, Costs
<1>3. Charging(p)' = Charging(p) \ {c}
  BY DEF RecordPublish, Goto, Charging, TypeOK, LocalsType
<1>4. Total(Charging(p)', cost', MaxCost) = Total(Charging(p) \ {c}, cost, MaxCost)
  <2>1. \A d \in Charging(p) \ {c} : cost'[d] = cost[d]
    BY DEF RecordPublish, Charging, TypeOK, LocalsType
  <2> QED
    BY <1>3, <2>1, TotalSame
<1>5. /\ base[p] \in Nat /\ written[p] \in Nat /\ refused[p] \in Nat
      /\ Total(Charging(p) \ {c}, cost, MaxCost) \in Nat
  BY <1>2, ChargingFinite, FS_RemoveElement, UnitsFinite DEF TypeOK, HistoryType
<1>6. CASE project[c] = p
  <2>1. c \in Charging(p)
    BY <1>6 DEF RecordPublish, Charging
  <2>2. Total(Charging(p), cost, MaxCost)
          = Total(Charging(p) \ {c}, cost, MaxCost) + cost[c]
    BY <1>2, <2>1, ChargingFinite, TotalRemove
  <2>3. written'[p] + refused'[p] = written[p] + refused[p] + cost[c]
    <3>1. CASE accepts
      BY <1>2, <1>5, <1>6, <3>1 DEF RecordPublish, TypeOK, HistoryType
    <3>2. CASE ~accepts
      BY <1>2, <1>5, <1>6, <3>2 DEF RecordPublish, TypeOK, HistoryType
    <3> QED
      BY <3>1, <3>2
  <2>4. written'[p] \in Nat /\ refused'[p] \in Nat
    BY RecordType DEF Record, TypeOK, HistoryType
  <2>5. used[p] = base[p] + written'[p] + refused'[p]
                    + Total(Charging(p) \ {c}, cost, MaxCost)
    <3> DEFINE total == used[p]
               start == base[p]
               w == written[p]
               r == refused[p]
               w2 == written'[p]
               r2 == refused'[p]
               moved == cost[c]
               rest == Total(Charging(p) \ {c}, cost, MaxCost)
    <3>1. total = start + w + r + (rest + moved)
      BY <1>1, <2>2
    <3>2. w2 + r2 = w + r + moved
      BY <2>3
    <3>3. /\ start \in Nat /\ w \in Nat /\ r \in Nat /\ w2 \in Nat /\ r2 \in Nat
          /\ moved \in Nat /\ rest \in Nat
      BY <1>2, <1>5, <2>4
    <3>4. total = start + w2 + r2 + rest
      <4> HIDE DEF total, start, w, r, w2, r2, moved, rest
      <4> QED
        BY <3>1, <3>2, <3>3
    <3> QED
      BY <3>4
  <2> QED
    BY <1>4, <2>5
<1>7. CASE project[c] # p
  <2>1. Charging(p) \ {c} = Charging(p)
    BY <1>7 DEF Charging
  <2>2. written'[p] = written[p] /\ refused'[p] = refused[p]
    BY <1>7 DEF RecordPublish, TypeOK, HistoryType
  <2> QED
    BY <1>1, <1>4, <2>1, <2>2
<1> QED
  BY <1>6, <1>7

(* Every step keeps the balance of the charges. *)
LEMMA AccountedStep == TypeOK /\ UsedIsAccounted /\ [Next]_vars => UsedIsAccounted'
<1> SUFFICES ASSUME TypeOK, UsedIsAccounted, [Next]_vars PROVE UsedIsAccounted'
  OBVIOUS
<1>1. ASSUME NEW c \in Callers, Allow(c) \/ Settle(c) \/ Notify(c)
      PROVE  UsedIsAccounted'
  <2>1. OthersKeep(c)
    BY <1>1, OneCaller
  <2>2. UNCHANGED <<used, base, written, refused>>
    BY <1>1 DEF Allow, AllowUnconfigured, AllowLoadUsed, AllowReject, AllowCheck, AllowFreeze,
       Settle, SettleUnconfigured, SettleBudget, Notify, NotifyStart, NotifySend, NotifyEnd,
       shared, history
  <2>3. pc[c] # "charged" /\ pc'[c] # "charged"
    BY <1>1 DEF Allow, AllowUnconfigured, AllowLoadUsed, AllowReject, AllowCheck, AllowFreeze,
       Settle, SettleUnconfigured, SettleBudget, Notify, NotifyStart, NotifySend, NotifyEnd,
       Goto, Reset, TypeOK, LocalsType
  <2> QED
    BY <2>1, <2>2, <2>3, AccountedOutside
<1>2. ASSUME NEW c \in Callers, Record(c) PROVE UsedIsAccounted'
  <2>1. CASE RecordAdd(c)
    BY <2>1, AddAccounted
  <2>2. ASSUME NEW accepts \in BOOLEAN, RecordPublish(c, accepts) PROVE UsedIsAccounted'
    BY <2>2, PublishAccounted
  <2>3. CASE RecordSameState(c) \/ RecordNewState(c)
    <3>1. OthersKeep(c)
      BY <1>2, OneCaller
    <3>2. UNCHANGED <<used, base, written, refused>>
      BY <2>3 DEF RecordSameState, RecordNewState, shared, history
    <3>3. pc[c] # "charged" /\ pc'[c] # "charged"
      BY <2>3 DEF RecordSameState, RecordNewState, Goto, Reset, TypeOK, LocalsType
    <3> QED
      BY <3>1, <3>2, <3>3, AccountedOutside
  <2> QED
    BY <1>2, <2>1, <2>2, <2>3 DEF Record
<1>3. CASE UNCHANGED <<used, base, written, refused, locals>>
  BY <1>3 DEF UsedIsAccounted, Charging, locals
<1> QED
  BY <1>1, <1>2, <1>3 DEF Next, Subscribe, Receive, vars, shared, history

(* No charge is lost or counted twice between the counter and the store's    *)
(* queue: what the counter holds beyond the amount loaded at start-up was    *)
(* offered to the queue once, or is about to be.                             *)
THEOREM ChargesBalanced == Spec => []UsedIsAccounted
<1>1. Init => UsedIsAccounted
  <2> SUFFICES ASSUME Init, NEW p \in Budgets
               PROVE  used[p] = base[p] + written[p] + refused[p]
                                  + Total(Charging(p), cost, MaxCost)
    BY DEF UsedIsAccounted
  <2>1. Charging(p) = {} /\ used[p] = base[p] /\ written[p] = 0 /\ refused[p] = 0
    BY DEF Init, Charging
  <2>2. base[p] \in Nat
    BY InitType DEF TypeOK, HistoryType
  <2>3. Total(Charging(p), cost, MaxCost) = 0
    BY <2>1, TotalEmpty
  <2> QED
    BY <2>1, <2>2, <2>3
<1>2. TypeOK /\ UsedIsAccounted /\ [Next]_vars => UsedIsAccounted'
  BY AccountedStep
<1> QED
  BY <1>1, <1>2, TypeCorrect, PTL DEF Spec

-----------------------------------------------------------------------------
(* The overshoot of a hard limit is bounded. *)

(* The exposed callers are finitely many, and at most all of them. *)
LEMMA ExposedFinite ==
    ASSUME NEW p
    PROVE  /\ IsFiniteSet(Exposed(p))
           /\ Cardinality(Exposed(p)) \in Nat
           /\ Cardinality(Exposed(p)) <= Cardinality(Callers)
           /\ Cardinality(Callers) \in Nat
BY CallersAssumption, FS_Subset, FS_CardinalityType DEF Exposed

(* Monotonicity of the products the bound is made of. *)
LEMMA Multiples ==
    ASSUME NEW k \in Nat, NEW m \in Nat, NEW n \in Nat, m <= n
    PROVE  /\ k * m \in Nat /\ k * n \in Nat /\ n * k \in Nat
           /\ k * m <= k * n /\ k * n = n * k
OBVIOUS

(* No budget is frozen below zero. *)
LEMMA HoldsNatural == TypeOK /\ FrozenIsHeld => \A p \in Budgets : frozen[p] \in Nat
<1> SUFFICES ASSUME FrozenIsHeld, NEW p \in Budgets PROVE frozen[p] \in Nat
  OBVIOUS
<1>1. Total(Holders(p), amount, MaxEstimate) \in Nat
  BY AmountsAssumption, HoldersFinite, UnitsFinite
<1> QED
  BY <1>1 DEF FrozenIsHeld

Bounded(p) == RoomFor(p) \/ (used[p] = base[p] /\ Exposed(p) = {}) \/ ChargesWithin(p)

(* A budget whose used amount stands still stays bounded when nobody new is *)
(* exposed.                                                                 *)
LEMMA BoundedStill ==
    ASSUME TypeOK, NEW p \in Budgets, Bounded(p),
           used'[p] = used[p], base'[p] = base[p], Exposed(p)' \subseteq Exposed(p)
    PROVE  Bounded(p)'
<1>1. CASE RoomFor(p)
  BY <1>1 DEF Bounded, RoomFor
<1>2. CASE used[p] = base[p] /\ Exposed(p) = {}
  BY <1>2 DEF Bounded
<1>3. CASE ChargesWithin(p)
  <2> DEFINE n == Cardinality(Exposed(p))
             m == Cardinality(Exposed(p)')
             slack == Cardinality(Callers) * MaxCost
  <2>1. m \in Nat /\ n \in Nat /\ m <= n
    BY ExposedFinite, FS_Subset, FS_CardinalityType
  <2>2. MaxCost * m \in Nat /\ MaxCost * n \in Nat /\ MaxCost * m <= MaxCost * n
    BY <2>1, AmountsAssumption, Multiples
  <2>3. slack \in Nat
    <3>1. Cardinality(Callers) \in Nat /\ MaxCost \in Nat
      BY ExposedFinite, AmountsAssumption
    <3> QED
      BY <3>1, Multiples
  <2>4. used[p] \in Nat /\ Limit[p] \in Nat /\ MinEstimate \in Nat
    BY AmountsAssumption DEF TypeOK, SharedType
  <2>5. used[p] + MaxCost * n <= Limit[p] - MinEstimate + slack
    BY <1>3 DEF ChargesWithin
  <2>6. used'[p] + MaxCost * m <= Limit[p] - MinEstimate + slack
    <3> HIDE DEF n, m, slack
    <3> QED
      BY <2>2, <2>3, <2>4, <2>5
  <2> QED
    BY <2>6 DEF Bounded, ChargesWithin
<1> QED
  BY <1>1, <1>2, <1>3 DEF Bounded

(* A charge uses up the exposure of the caller that makes it. *)
LEMMA BoundedAdd ==
    ASSUME TypeOK, NEW c \in Callers, RecordAdd(c), NEW p \in Budgets,
           project[c] = p, Bounded(p)
    PROVE  Bounded(p)'
<1> DEFINE n == Cardinality(Exposed(p))
           m == Cardinality(Exposed(p)')
           N == Cardinality(Callers)
<1>1. /\ used[p] \in Nat /\ Limit[p] \in Nat
      /\ cost[c] \in Nat /\ cost[c] <= MaxCost
      /\ MaxCost \in Nat /\ MinEstimate \in Nat
  <2>1. pc[c] = "thawed" /\ cost[c] \in 0 .. MaxCost
    BY DEF RecordAdd, TypeOK, LocalsType, Costs
  <2> QED
    BY <2>1, AmountsAssumption DEF TypeOK, SharedType
<1>2. used'[p] = used[p] + cost[c]
  BY DEF RecordAdd, TypeOK, SharedType
<1>3. c \in Exposed(p) /\ Exposed(p)' = Exposed(p) \ {c}
  BY DEF RecordAdd, Goto, Exposed, TypeOK, LocalsType
<1>4. n \in Nat /\ N \in Nat /\ n >= 1 /\ n <= N /\ m = n - 1
  <2>1. n \in Nat /\ N \in Nat /\ n <= N
    BY ExposedFinite
  <2>2. m = n - 1
    BY <1>3, ExposedFinite, FS_RemoveElement, ZenonT(30)
  <2>3. n # 0
    BY <1>3, ExposedFinite, FS_EmptySet
  <2> QED
    BY <2>1, <2>2, <2>3
<1>5. /\ MaxCost * m \in Nat /\ MaxCost * n \in Nat /\ N * MaxCost \in Nat
      /\ MaxCost * m + MaxCost = MaxCost * n
      /\ MaxCost * n <= N * MaxCost
  <2>1. MaxCost * n <= MaxCost * N /\ MaxCost * N = N * MaxCost
    BY <1>1, <1>4, Multiples
  <2>2. MaxCost * (n - 1) + MaxCost = MaxCost * n
    BY <1>1, <1>4
  <2>3. MaxCost * (n - 1) \in Nat /\ MaxCost * n \in Nat /\ N * MaxCost \in Nat
    BY <1>1, <1>4
  <2> QED
    BY <1>4, <2>1, <2>2, <2>3
<1>6. \/ used[p] + MinEstimate <= Limit[p]
      \/ used[p] + MaxCost * n <= Limit[p] - MinEstimate + N * MaxCost
  BY <1>3 DEF Bounded, RoomFor, ChargesWithin
<1>7. used[p] + cost[c] + MaxCost * m <= Limit[p] - MinEstimate + N * MaxCost
  <2> HIDE DEF n, m, N
  <2> QED
    BY <1>1, <1>5, <1>6
<1> QED
  BY <1>2, <1>7 DEF Bounded, ChargesWithin

(* Only a loaded amount that leaves room exposes a caller that was not. *)
LEMMA BoundedLoad ==
    ASSUME TypeOK, NEW c \in Callers, NEW q \in Projects, NEW e \in Estimates,
           AllowLoadUsed(c, q, e), NEW p \in Budgets, Bounded(p)
    PROVE  Bounded(p)'
<1>1. used' = used /\ base' = base
  BY DEF AllowLoadUsed, shared, history
<1>2. CASE RoomFor(p)
  BY <1>1, <1>2 DEF RoomFor, Bounded
<1>3. CASE ~RoomFor(p)
  <2>1. Exposed(p)' \subseteq Exposed(p)
    BY <1>3 DEF AllowLoadUsed, Goto, Exposed, RoomFor, TypeOK, LocalsType
  <2> QED
    BY <1>1, <2>1, BoundedStill
<1> QED
  BY <1>2, <1>3

(* Passing the check exposes nobody new: frozen is not negative, so the     *)
(* amount seen leaves room for the least estimate.                          *)
LEMMA BoundedCheck ==
    ASSUME TypeOK, FrozenIsHeld, NEW c \in Callers, AllowCheck(c),
           amount[c] >= MinEstimate, NEW p \in Budgets, Limit[p] > 0, Bounded(p)
    PROVE  Bounded(p)'
<1>1. used' = used /\ base' = base
  BY DEF AllowCheck, shared, history
<1>2. project[c] = p => seen[c] + MinEstimate <= Limit[p]
  <2> SUFFICES ASSUME project[c] = p PROVE seen[c] + MinEstimate <= Limit[p]
    OBVIOUS
  <2>1. seen[c] + frozen[p] + amount[c] <= Limit[p]
    <3>1. ~(seen[c] + frozen[p] + amount[c] > Limit[p])
      BY DEF AllowCheck, OverLimit
    <3>2. seen[c] \in Int /\ frozen[p] \in Int /\ amount[c] \in Int /\ Limit[p] \in Int
      BY AmountsAssumption DEF TypeOK, SharedType, LocalsType
    <3> QED
      BY <3>1, <3>2
  <2>2. frozen[p] \in Nat
    BY HoldsNatural
  <2>3. seen[c] \in Nat /\ amount[c] \in Int /\ Limit[p] \in Nat /\ MinEstimate \in Nat
    BY AmountsAssumption DEF TypeOK, LocalsType
  <2> QED
    BY <2>1, <2>2, <2>3
<1>3. Exposed(p)' \subseteq Exposed(p)
  BY <1>2 DEF AllowCheck, Goto, Exposed, TypeOK, LocalsType
<1> QED
  BY <1>1, <1>3, BoundedStill

(* The steps that neither load, check nor charge expose nobody. *)
LEMMA BoundedOther ==
    ASSUME TypeOK, NEW c \in Callers,
           \/ \E q \in Projects, e \in Estimates : AllowUnconfigured(c, q, e)
           \/ AllowReject(c) \/ AllowFreeze(c) \/ Settle(c)
           \/ \E accepts \in BOOLEAN : RecordPublish(c, accepts)
           \/ RecordSameState(c) \/ RecordNewState(c) \/ Notify(c),
           NEW p \in Budgets, Bounded(p)
    PROVE  Bounded(p)'
<1>1. used' = used /\ base' = base
  BY DEF AllowUnconfigured, AllowReject, AllowFreeze, Settle, SettleUnconfigured, SettleBudget,
     RecordPublish, RecordSameState, RecordNewState,
     Notify, NotifyStart, NotifySend, NotifyEnd, shared, history
<1>2. OthersKeep(c)
  BY OneCaller DEF Allow, Record
<1>3. c \in Exposed(p)' => c \in Exposed(p)
  BY ProjectsAssumption
     DEF AllowUnconfigured, AllowReject, AllowFreeze, Settle, SettleUnconfigured, SettleBudget,
     RecordPublish, RecordSameState, RecordNewState, Notify, NotifyStart, NotifySend, NotifyEnd,
     Goto, Reset, Exposed, TypeOK, LocalsType
<1>4. Exposed(p)' \subseteq Exposed(p)
  BY <1>2, <1>3 DEF OthersKeep, Keeps, Exposed
<1> QED
  BY <1>1, <1>4, BoundedStill

(* A caller that has loaded used has an estimate of the range. *)
LEMMA LoadedEstimate ==
    ASSUME TypeOK, [Next]_vars,
           \A c \in Callers : pc[c] = "loaded" => amount[c] >= MinEstimate
    PROVE  \A c \in Callers : pc'[c] = "loaded" => amount'[c] >= MinEstimate
<1> DEFINE P(c) == pc[c] = "loaded" => amount[c] >= MinEstimate
<1>1. ASSUME NEW c \in Callers, Allow(c) PROVE \A d \in Callers : P(d)'
  <2>1. P(c)'
    BY <1>1, AmountsAssumption DEF Allow, AllowUnconfigured, AllowLoadUsed, AllowReject, AllowCheck,
       AllowFreeze, Goto, Reset, Estimates, TypeOK, LocalsType
  <2> QED
    BY <1>1, <2>1, OneCaller DEF OthersKeep, Keeps
<1>2. ASSUME NEW c \in Callers, Settle(c) \/ Record(c) \/ Notify(c)
      PROVE  \A d \in Callers : P(d)'
  <2>1. pc'[c] # "loaded"
    BY <1>2 DEF Settle, SettleUnconfigured, SettleBudget, Record, RecordAdd, RecordPublish,
       RecordSameState, RecordNewState, Notify, NotifyStart, NotifySend, NotifyEnd,
       Goto, Reset, TypeOK, LocalsType
  <2> QED
    BY <1>2, <2>1, OneCaller DEF OthersKeep, Keeps
<1>3. CASE UNCHANGED locals
  BY <1>3 DEF locals
<1> QED
  BY <1>1, <1>2, <1>3 DEF Next, Subscribe, Receive, vars

(* Every step keeps the bound. *)
LEMMA OvershootStep ==
    TypeOK /\ FrozenIsHeld /\ OvershootInductive /\ [Next]_vars => OvershootInductive'
<1> SUFFICES ASSUME TypeOK, FrozenIsHeld, OvershootInductive, [Next]_vars
             PROVE  OvershootInductive'
  OBVIOUS
<1>1. \A c \in Callers : pc'[c] = "loaded" => amount'[c] >= MinEstimate
  BY LoadedEstimate DEF OvershootInductive
<1>2. ASSUME NEW p \in Budgets, Limit[p] > 0 PROVE Bounded(p)'
  <2>1. Bounded(p)
    BY <1>2 DEF OvershootInductive, Bounded
  <2>2. ASSUME NEW c \in Callers, Allow(c) PROVE Bounded(p)'
    BY <1>2, <2>1, <2>2, BoundedOther, BoundedLoad, BoundedCheck
       DEF Allow, OvershootInductive, AllowCheck
  <2>3. ASSUME NEW c \in Callers, Settle(c) \/ Notify(c) PROVE Bounded(p)'
    BY <2>1, <2>3, BoundedOther
  <2>4. ASSUME NEW c \in Callers, RecordAdd(c) PROVE Bounded(p)'
    <3>1. CASE project[c] = p
      BY <2>1, <2>4, <3>1, BoundedAdd
    <3>2. CASE project[c] # p
      <4>1. used'[p] = used[p] /\ base'[p] = base[p]
        BY <2>4, <3>2 DEF RecordAdd, TypeOK, SharedType, history
      <4>2. Exposed(p)' \subseteq Exposed(p)
        BY <2>4 DEF RecordAdd, Goto, Exposed, TypeOK, LocalsType
      <4> QED
        BY <2>1, <4>1, <4>2, BoundedStill
    <3> QED
      BY <3>1, <3>2
  <2>5. ASSUME NEW c \in Callers, Record(c) PROVE Bounded(p)'
    <3>1. CASE RecordAdd(c)
      BY <2>4, <3>1
    <3>2. CASE \/ \E accepts \in BOOLEAN : RecordPublish(c, accepts)
               \/ RecordSameState(c) \/ RecordNewState(c)
      BY <2>1, <3>2, BoundedOther
    <3> QED
      BY <2>5, <3>1, <3>2 DEF Record
  <2>6. CASE UNCHANGED <<used, base, locals>>
    <3>1. Exposed(p)' = Exposed(p)
      BY <2>6 DEF Exposed, locals
    <3>2. used'[p] = used[p] /\ base'[p] = base[p]
      BY <2>6
    <3> QED
      BY <2>1, <3>1, <3>2, BoundedStill
  <2> QED
    BY <2>2, <2>3, <2>5, <2>6 DEF Next, Subscribe, Receive, vars, shared, history
<1> QED
  BY <1>1, <1>2 DEF OvershootInductive, Bounded

(* The bound holds at start-up. *)
LEMMA OvershootInit == Init => OvershootInductive
<1> SUFFICES ASSUME Init PROVE OvershootInductive
  OBVIOUS
<1>1. \A p \in Budgets : used[p] = base[p] /\ Exposed(p) = {}
  BY DEF Init, Exposed
<1>2. \A c \in Callers : pc[c] # "loaded"
  BY DEF Init
<1> QED
  BY <1>1, <1>2 DEF OvershootInductive

(* The bound holds always. *)
LEMMA OvershootInvariant == Spec => []OvershootInductive
<1>1. TypeOK /\ FrozenIsHeld /\ OvershootInductive /\ [Next]_vars => OvershootInductive'
  BY OvershootStep
<1> QED
  BY <1>1, OvershootInit, TypeCorrect, HoldsBalanced, PTL DEF Spec

(* The inductive bound implies the bound on the overshoot. *)
LEMMA OvershootImplies ==
    ASSUME TypeOK, OvershootInductive, NEW p \in Budgets, Limit[p] > 0
    PROVE  \/ used[p] = base[p]
           \/ used[p] <= Limit[p] - MinEstimate + Cardinality(Callers) * MaxCost
<1> DEFINE exposure == MaxCost * Cardinality(Exposed(p))
           slack == Cardinality(Callers) * MaxCost
<1>1. /\ used[p] \in Nat /\ Limit[p] \in Nat /\ MinEstimate \in Nat /\ MaxCost \in Nat
  BY AmountsAssumption DEF TypeOK, SharedType
<1>2. exposure \in Nat /\ slack \in Nat
  BY <1>1, ExposedFinite, Multiples
<1>3. \/ used[p] + MinEstimate <= Limit[p]
      \/ used[p] = base[p]
      \/ used[p] + exposure <= Limit[p] - MinEstimate + slack
  BY DEF OvershootInductive, RoomFor, ChargesWithin
<1>4. used[p] = base[p] \/ used[p] <= Limit[p] - MinEstimate + slack
  <2> HIDE DEF exposure, slack
  <2> QED
    BY <1>1, <1>2, <1>3
<1> QED
  BY <1>4

(* However many requests race through Allow, a hard limit is overshot by at *)
(* most one charge per request slot, less the room one estimate needed.     *)
THEOREM OvershootBounded == Spec => []BoundedOvershoot
<1>1. TypeOK /\ OvershootInductive => BoundedOvershoot
  BY OvershootImplies DEF BoundedOvershoot
<1> QED
  BY <1>1, TypeCorrect, OvershootInvariant, PTL

-----------------------------------------------------------------------------
(* Exhaustion is announced. *)

Announcer(c, p) ==
    pc[c] \in {"charged", "published"} /\ project[c] = p /\ seen[c] >= Limit[p]

(* A caller that saw the limit reached announces exhaustion. *)
LEMMA AnnouncerExhausted ==
    ASSUME TypeOK, NEW c \in Callers, project[c] \in Budgets,
           Limit[project[c]] > 0, seen[c] >= Limit[project[c]]
    PROVE  CalculateState(project[c], seen[c]) = "exhausted"
BY AmountsAssumption DEF CalculateState

(* A step that neither charges nor publishes a state keeps every announcer. *)
LEMMA AnnouncedStill ==
    ASSUME TypeOK, AnnouncedInductive, NEW c \in Callers, OthersKeep(c),
           UNCHANGED <<used, base, announced, lastState>>,
           \A p \in Budgets : Announcer(c, p) => Announcer(c, p)'
    PROVE  AnnouncedInductive'
<1>1. ASSUME NEW d \in Callers, NEW p \in Budgets, Announcer(d, p)
      PROVE  Announcer(d, p)'
  BY <1>1 DEF Announcer, OthersKeep, Keeps
<1> QED
  BY <1>1 DEF AnnouncedInductive, ExhaustionAnnounced, Announcer

(* A charge that reaches the limit brings its announcer along. *)
LEMMA AnnouncedAdd ==
    ASSUME TypeOK, AnnouncedInductive, NEW c \in Callers, RecordAdd(c)
    PROVE  AnnouncedInductive'
<1>1. OthersKeep(c)
  BY OneCaller DEF Record
<1>2. UNCHANGED <<base, announced, lastState>> /\ Limit' = Limit
  BY DEF RecordAdd, history
<1>3. ASSUME NEW p \in Budgets, Limit[p] > 0, used'[p] >= Limit[p], used'[p] # base'[p]
      PROVE  "exhausted" \in announced'[p] \/ \E d \in Callers : Announcer(d, p)'
  <2>1. CASE project[c] = p
    <3>1. pc'[c] = "charged" /\ project'[c] = p /\ seen'[c] = used'[p]
      BY <2>1 DEF RecordAdd, Goto, TypeOK, LocalsType
    <3> QED
      BY <1>3, <3>1 DEF Announcer
  <2>2. CASE project[c] # p
    <3>1. used'[p] = used[p]
      BY <2>2 DEF RecordAdd, TypeOK, SharedType
    <3>2. \/ "exhausted" \in announced[p]
          \/ \E d \in Callers : Announcer(d, p)
      BY <1>2, <1>3, <3>1 DEF AnnouncedInductive, ExhaustionAnnounced, Announcer
    <3>3. ASSUME NEW d \in Callers, Announcer(d, p) PROVE Announcer(d, p)'
      BY <1>1, <2>2, <3>3 DEF Announcer, OthersKeep, Keeps
    <3> QED
      BY <1>2, <3>2, <3>3
  <2> QED
    BY <2>1, <2>2
<1> QED
  BY <1>2, <1>3 DEF AnnouncedInductive, ExhaustionAnnounced, Announcer

(* A caller leaves "published" only with its state in lastState: either it  *)
(* announces it now, or lastState held it and so it was announced before.   *)
LEMMA AnnouncedSwap ==
    ASSUME TypeOK, AnnouncedInductive, NEW c \in Callers,
           RecordSameState(c) \/ RecordNewState(c)
    PROVE  AnnouncedInductive'
<1> DEFINE q == project[c]
           new == CalculateState(q, seen[c])
<1>1. OthersKeep(c)
  BY OneCaller DEF Record
<1>2. pc[c] = "published" /\ q \in Budgets
  BY DEF RecordSameState, RecordNewState, TypeOK, Placed
<1>3. UNCHANGED <<used, base>>
  BY DEF RecordSameState, RecordNewState, shared, history
<1>4. /\ \A p \in Budgets : announced[p] \subseteq announced'[p]
      /\ \A p \in Budgets : lastState'[p] = "exhausted" => "exhausted" \in announced'[p]
      /\ new = "exhausted" => "exhausted" \in announced'[q]
  <2>1. CASE RecordSameState(c)
    BY <1>2, <2>1 DEF RecordSameState, shared, history, AnnouncedInductive
  <2>2. CASE RecordNewState(c)
    <3> HIDE DEF new
    <3>1. /\ lastState' = [lastState EXCEPT ![q] = new]
          /\ announced' = [announced EXCEPT ![q] = @ \cup {new}]
      BY <2>2 DEF RecordNewState, new
    <3> QED
      BY <1>2, <3>1 DEF AnnouncedInductive, TypeOK, SharedType, HistoryType
  <2> QED
    BY <2>1, <2>2
<1>5. ASSUME NEW p \in Budgets, Limit[p] > 0, NEW d \in Callers, Announcer(d, p)
      PROVE  "exhausted" \in announced'[p] \/ Announcer(d, p)'
  <2>1. CASE d = c
    <3>1. new = "exhausted" /\ p = q
      BY <1>2, <1>5, <2>1, AnnouncerExhausted DEF Announcer
    <3> QED
      BY <1>4, <3>1
  <2>2. CASE d # c
    BY <1>1, <1>5, <2>2 DEF Announcer, OthersKeep, Keeps
  <2> QED
    BY <2>1, <2>2
<1> QED
  BY <1>3, <1>4, <1>5 DEF AnnouncedInductive, ExhaustionAnnounced, Announcer

(* Every step keeps the announcement. *)
LEMMA AnnouncedStep == TypeOK /\ AnnouncedInductive /\ [Next]_vars => AnnouncedInductive'
<1> SUFFICES ASSUME TypeOK, AnnouncedInductive, [Next]_vars PROVE AnnouncedInductive'
  OBVIOUS
<1>1. ASSUME NEW c \in Callers, Allow(c) \/ Settle(c) \/ Notify(c)
      PROVE  AnnouncedInductive'
  <2>1. UNCHANGED <<used, base, announced, lastState>>
    BY <1>1 DEF Allow, AllowUnconfigured, AllowLoadUsed, AllowReject, AllowCheck, AllowFreeze,
       Settle, SettleUnconfigured, SettleBudget, Notify, NotifyStart, NotifySend, NotifyEnd,
       shared, history
  <2>2. pc[c] \notin {"charged", "published"}
    BY <1>1 DEF Allow, AllowUnconfigured, AllowLoadUsed, AllowReject, AllowCheck, AllowFreeze,
       Settle, SettleUnconfigured, SettleBudget, Notify, NotifyStart, NotifySend, NotifyEnd
  <2> QED
    BY <1>1, <2>1, <2>2, OneCaller, AnnouncedStill DEF Announcer
<1>2. ASSUME NEW c \in Callers, Record(c) PROVE AnnouncedInductive'
  <2>1. ASSUME NEW accepts \in BOOLEAN, RecordPublish(c, accepts) PROVE AnnouncedInductive'
    <3>1. UNCHANGED <<used, base, announced, lastState>>
      BY <2>1 DEF RecordPublish
    <3>2. \A p \in Budgets : Announcer(c, p) => Announcer(c, p)'
      BY <2>1 DEF RecordPublish, Goto, Announcer, TypeOK, LocalsType
    <3> QED
      BY <1>2, <3>1, <3>2, OneCaller, AnnouncedStill
  <2> QED
    BY <1>2, <2>1, AnnouncedAdd, AnnouncedSwap DEF Record
<1>3. CASE UNCHANGED <<used, base, announced, lastState, locals>>
  BY <1>3 DEF AnnouncedInductive, ExhaustionAnnounced, locals
<1> QED
  BY <1>1, <1>2, <1>3 DEF Next, Subscribe, Receive, vars, shared, history

(* However the swaps of lastState are ordered, a budget whose charges reach  *)
(* its limit has been announced as exhausted, or will be by a caller that is *)
(* still inside Record.                                                      *)
THEOREM ExhaustionNeverMissed == Spec => []ExhaustionAnnounced
<1>1. Init => AnnouncedInductive
  BY DEF Init, AnnouncedInductive, ExhaustionAnnounced
<1>2. TypeOK /\ AnnouncedInductive /\ [Next]_vars => AnnouncedInductive'
  BY AnnouncedStep
<1>3. AnnouncedInductive => ExhaustionAnnounced
  BY DEF AnnouncedInductive
<1> QED
  BY <1>1, <1>2, <1>3, TypeCorrect, PTL DEF Spec

-----------------------------------------------------------------------------
(* BudgetController implements Ledger: freezing is the Reserve of the      *)
(* ledger, the release of the hold is its Settle, and every other access   *)
(* to shared memory is a stutter.                                          *)

(* What a caller is about to freeze is an estimate. *)

Estimated ==
    \A c \in Callers : pc[c] \in {"loaded", "checked"} => amount[c] \in Estimates

(* Allow keeps its estimate up to the freeze. *)
LEMMA EstimatedInvariant == Spec => []Estimated
<1>1. Init => Estimated
  BY DEF Init, Estimated
<1>2. TypeOK /\ Estimated /\ [Next]_vars => Estimated'
  <2> SUFFICES ASSUME TypeOK, Estimated, [Next]_vars PROVE Estimated'
    OBVIOUS
  <2> USE DEF TypeOK, LocalsType, Estimated, Goto, Reset
  <2>1. ASSUME NEW c \in Callers, Allow(c) PROVE Estimated'
    BY <2>1 DEF Allow, AllowUnconfigured, AllowLoadUsed, AllowReject, AllowCheck, AllowFreeze
  <2>2. ASSUME NEW c \in Callers, Settle(c) PROVE Estimated'
    BY <2>2 DEF Settle, SettleUnconfigured, SettleBudget
  <2>3. ASSUME NEW c \in Callers, Record(c) PROVE Estimated'
    BY <2>3 DEF Record, RecordAdd, RecordPublish, RecordSameState, RecordNewState
  <2>4. ASSUME NEW c \in Callers, Notify(c) PROVE Estimated'
    BY <2>4 DEF Notify, NotifyStart, NotifySend, NotifyEnd
  <2>5. CASE UNCHANGED locals
    BY <2>5 DEF locals
  <2> QED
    BY <2>1, <2>2, <2>3, <2>4, <2>5 DEF Next, Subscribe, Receive, vars
<1> QED
  BY <1>1, <1>2, TypeCorrect, PTL DEF Spec

-----------------------------------------------------------------------------
(* The mapping *)

(* The callers between release and charge are finitely many. *)
LEMMA ThawedFinite == ASSUME NEW p PROVE IsFiniteSet(Thawed(p))
BY CallersAssumption, FS_Subset DEF Thawed

(* A booked amount is a natural number. *)
LEMMA BookedType == TypeOK => Booked \in [Budgets -> Nat]
<1> SUFFICES ASSUME TypeOK, NEW p \in Budgets
             PROVE  used[p] + Total(Thawed(p), cost, MaxCost) \in Nat
  BY DEF Booked
<1>1. used[p] \in Nat
  BY DEF TypeOK, SharedType
<1>2. Total(Thawed(p), cost, MaxCost) \in Nat
  BY ThawedFinite, UnitsFinite, AmountsAssumption
<1> QED
  BY <1>1, <1>2

(* A caller that neither holds nor is thawed, before or after its step,      *)
(* leaves the ledger alone.                                                  *)
LEMMA LedgerOutside ==
    ASSUME TypeOK, NEW c \in Callers, OthersKeep(c), UNCHANGED used,
           ~Holding(c), ~Holding(c)', pc[c] # "thawed", pc'[c] # "thawed"
    PROVE  UNCHANGED <<Booked, Owners, Holds>>
<1>1. ASSUME NEW p \in Budgets
      PROVE  Total(Thawed(p)', cost', MaxCost) = Total(Thawed(p), cost, MaxCost)
  <2>1. Thawed(p)' = Thawed(p)
    BY DEF Thawed, OthersKeep, Keeps
  <2>2. \A d \in Thawed(p) : cost[d] = cost'[d]
    BY DEF Thawed, OthersKeep, Keeps
  <2> QED
    BY <2>1, <2>2, TotalSame
<1>2. \A d \in Callers : Holding(d)' <=> Holding(d)
  BY DEF Holding, OthersKeep, Keeps
<1>3. \A d \in Callers : Holding(d) => amount'[d] = amount[d] /\ project'[d] = project[d]
  BY DEF OthersKeep, Keeps
<1> QED
  BY <1>1, <1>2, <1>3 DEF Booked, Owners, Holds

(* NewController opens an empty ledger. *)
LEMMA LedgerInit == Init => Book!Init
<1> SUFFICES ASSUME Init PROVE Book!Init
  OBVIOUS
<1>1. Booked \in [Budgets -> Nat]
  BY InitType, BookedType
<1>2. \A c \in Callers : ~Holding(c)
  BY DEF Init, Holding
<1> QED
  BY <1>1, <1>2 DEF Book!Init, Owners, Holds

(* A freeze reserves. *)
LEMMA FreezeReserves ==
    ASSUME TypeOK, Estimated, NEW c \in Callers, AllowFreeze(c)
    PROVE  Book!Next
<1>1. OthersKeep(c)
  BY OneCaller DEF Allow
<1>2. project[c] \in Budgets /\ amount[c] \in Estimates
  BY DEF AllowFreeze, Estimated, TypeOK, Placed
<1>3. ~Holding(c) /\ Holding(c)'
  BY <1>2 DEF AllowFreeze, Holding, Goto, TypeOK, LocalsType
<1>4. \A d \in Callers \ {c} : Holding(d)' <=> Holding(d)
  BY <1>1 DEF Holding, OthersKeep, Keeps
<1>5. amount' = amount /\ project' = project
  BY DEF AllowFreeze
<1>6. Owners[c] = NoProject
  BY <1>3 DEF Owners
<1>7. Owners' = [Owners EXCEPT ![c] = project[c]]
  BY <1>3, <1>4, <1>5 DEF Owners
<1>8. Holds' = [Holds EXCEPT ![c] = amount[c]]
  BY <1>3, <1>4, <1>5 DEF Holds
<1>9. Booked' = Booked
  <2>1. \A p \in Budgets : Thawed(p)' = Thawed(p)
    BY DEF AllowFreeze, Thawed, Goto, TypeOK, LocalsType
  <2>2. used' = used /\ cost' = cost
    BY DEF AllowFreeze
  <2> QED
    BY <2>1, <2>2 DEF Booked
<1>10. Book!Reserve(c, project[c], amount[c])
  BY <1>6, <1>7, <1>8, <1>9 DEF Book!Reserve
<1> QED
  BY <1>2, <1>10 DEF Book!Next

(* The release of a hold settles it: the cost is booked from now on. *)
LEMMA ReleaseSettles ==
    ASSUME TypeOK, NEW c \in Callers, NEW actual \in Costs, SettleBudget(c, actual)
    PROVE  Book!Next
<1>1. OthersKeep(c)
  BY OneCaller DEF Settle
<1>2. /\ Holding(c) /\ ~Holding(c)' /\ project[c] \in Budgets
      /\ project' = project /\ used' = used
  BY ProjectsAssumption DEF SettleBudget, Holding, Goto, TypeOK, LocalsType
<1>3. \A d \in Callers \ {c} : (Holding(d)' <=> Holding(d)) /\ amount'[d] = amount[d]
  BY <1>1 DEF Holding, OthersKeep, Keeps
<1>4. Owners[c] = project[c] /\ Owners[c] # NoProject
  BY <1>2, ProjectsAssumption DEF Owners
<1>5. Owners' = [Owners EXCEPT ![c] = NoProject]
  BY <1>2, <1>3 DEF Owners
<1>6. Holds' = [Holds EXCEPT ![c] = 0]
  BY <1>2, <1>3 DEF Holds
<1>7. ASSUME NEW p \in Budgets
      PROVE  Booked'[p] = IF p = project[c] THEN Booked[p] + actual ELSE Booked[p]
  <2>1. cost'[c] = actual /\ actual \in 0 .. MaxCost /\ MaxCost \in Nat
    BY AmountsAssumption DEF SettleBudget, Costs, TypeOK, LocalsType
  <2>2. \A d \in Thawed(p) : cost[d] = cost'[d]
    BY DEF SettleBudget, Thawed, TypeOK, LocalsType
  <2>3. Total(Thawed(p), cost', MaxCost) = Total(Thawed(p), cost, MaxCost)
    BY <2>2, TotalSame
  <2>4. CASE p = project[c]
    <3>1. Thawed(p)' = Thawed(p) \cup {c} /\ c \notin Thawed(p)
      BY <2>4 DEF SettleBudget, Thawed, Goto, TypeOK, LocalsType
    <3>2. Total(Thawed(p) \cup {c}, cost', MaxCost) = Total(Thawed(p), cost', MaxCost) + cost'[c]
      BY <2>1, <3>1, ThawedFinite, TotalAdd
    <3>3. used[p] \in Nat /\ Total(Thawed(p), cost, MaxCost) \in Nat
      BY <2>1, ThawedFinite, UnitsFinite DEF TypeOK, SharedType
    <3>4. used[p] + (Total(Thawed(p), cost, MaxCost) + actual)
            = used[p] + Total(Thawed(p), cost, MaxCost) + actual
      BY <2>1, <3>3
    <3> QED
      BY <1>2, <2>1, <2>3, <2>4, <3>1, <3>2, <3>4 DEF Booked
  <2>5. CASE p # project[c]
    <3>1. Thawed(p)' = Thawed(p)
      BY <2>5 DEF SettleBudget, Thawed, Goto, TypeOK, LocalsType
    <3> QED
      BY <1>2, <2>3, <2>5, <3>1 DEF Booked
  <2> QED
    BY <2>4, <2>5
<1>8. Booked' = [Booked EXCEPT ![project[c]] = @ + actual]
  BY <1>7 DEF Booked
<1>9. Book!Settle(c, actual)
  BY <1>4, <1>5, <1>6, <1>8 DEF Book!Settle
<1> QED
  BY <1>9 DEF Book!Next

(* The charge moves an amount that is already booked. *)
LEMMA ChargeStutters ==
    ASSUME TypeOK, NEW c \in Callers, RecordAdd(c)
    PROVE  UNCHANGED <<Booked, Owners, Holds>>
<1>1. OthersKeep(c)
  BY OneCaller DEF Record
<1>2. project' = project /\ amount' = amount /\ cost' = cost
  BY DEF RecordAdd
<1>3. \A d \in Callers : Holding(d)' <=> Holding(d)
  BY DEF RecordAdd, Holding, Goto, TypeOK, LocalsType
<1>4. ASSUME NEW p \in Budgets
      PROVE  used'[p] + Total(Thawed(p)', cost, MaxCost)
               = used[p] + Total(Thawed(p), cost, MaxCost)
  <2>1. CASE p = project[c]
    <3>1. cost[c] \in 0 .. MaxCost /\ MaxCost \in Nat
      BY AmountsAssumption DEF TypeOK, LocalsType, Costs
    <3>2. Thawed(p)' = Thawed(p) \ {c} /\ c \in Thawed(p)
      BY <2>1 DEF RecordAdd, Thawed, Goto, TypeOK, LocalsType
    <3>3. Total(Thawed(p), cost, MaxCost) = Total(Thawed(p) \ {c}, cost, MaxCost) + cost[c]
      BY <3>1, <3>2, ThawedFinite, TotalRemove
    <3>4. used'[p] = used[p] + cost[c]
      BY <2>1 DEF RecordAdd, TypeOK, SharedType
    <3>5. used[p] \in Nat /\ Total(Thawed(p) \ {c}, cost, MaxCost) \in Nat
      BY <3>1, ThawedFinite, FS_RemoveElement, UnitsFinite DEF TypeOK, SharedType
    <3> QED
      BY <3>1, <3>2, <3>3, <3>4, <3>5
  <2>2. CASE p # project[c]
    BY <2>2 DEF RecordAdd, Thawed, Goto, TypeOK, LocalsType, SharedType
  <2> QED
    BY <2>1, <2>2
<1> QED
  BY <1>2, <1>3, <1>4 DEF Booked, Owners, Holds

(* Every step of the controller is one of the ledger, or none. *)
LEMMA LedgerStep == TypeOK /\ Estimated /\ [Next]_vars => [Book!Next]_(Book!vars)
<1> SUFFICES ASSUME TypeOK, Estimated, [Next]_vars
             PROVE  Book!Next \/ UNCHANGED <<Booked, Owners, Holds>>
  BY DEF Book!vars
<1>1. ASSUME NEW c \in Callers, Allow(c)
      PROVE  Book!Next \/ UNCHANGED <<Booked, Owners, Holds>>
  <2>1. CASE AllowFreeze(c)
    BY <2>1, FreezeReserves
  <2>2. CASE ~AllowFreeze(c)
    <3>1. OthersKeep(c)
      BY <1>1, OneCaller
    <3>2. UNCHANGED used /\ pc[c] \notin {"admitted", "thawed"}
      BY <1>1, <2>2 DEF Allow, AllowUnconfigured, AllowLoadUsed, AllowReject, AllowCheck, shared
    <3>3. pc'[c] # "thawed" /\ (pc'[c] = "admitted" => project'[c] \notin Budgets)
      BY <1>1, <2>2 DEF Allow, AllowUnconfigured, AllowLoadUsed, AllowReject, AllowCheck,
         Goto, Reset, TypeOK, LocalsType
    <3> QED
      BY <3>1, <3>2, <3>3, LedgerOutside DEF Holding
  <2> QED
    BY <2>1, <2>2
<1>2. ASSUME NEW c \in Callers, Settle(c)
      PROVE  Book!Next \/ UNCHANGED <<Booked, Owners, Holds>>
  <2>1. CASE SettleUnconfigured(c)
    <3>1. OthersKeep(c)
      BY <1>2, OneCaller
    <3>2. UNCHANGED used /\ pc[c] # "thawed" /\ pc'[c] = "idle" /\ project[c] \notin Budgets
      BY <2>1 DEF SettleUnconfigured, Reset, shared, TypeOK, LocalsType
    <3> QED
      BY <3>1, <3>2, LedgerOutside DEF Holding
  <2> QED
    BY <1>2, <2>1, ReleaseSettles DEF Settle
<1>3. ASSUME NEW c \in Callers, Record(c) \/ Notify(c)
      PROVE  Book!Next \/ UNCHANGED <<Booked, Owners, Holds>>
  <2>1. CASE RecordAdd(c)
    BY <2>1, ChargeStutters
  <2>2. CASE ~RecordAdd(c)
    <3>1. OthersKeep(c)
      BY <1>3, OneCaller
    <3>2. /\ UNCHANGED used
          /\ pc[c] \notin {"admitted", "thawed"}
      BY <1>3, <2>2 DEF Record, RecordPublish, RecordSameState, RecordNewState,
         Notify, NotifyStart, NotifySend, NotifyEnd, shared
    <3>3. pc'[c] \notin {"admitted", "thawed"}
      BY <1>3, <2>2 DEF Record, RecordPublish, RecordSameState, RecordNewState,
         Notify, NotifyStart, NotifySend, NotifyEnd, Goto, Reset, TypeOK, LocalsType
    <3> QED
      BY <3>1, <3>2, <3>3, LedgerOutside DEF Holding
  <2> QED
    BY <2>1, <2>2
<1>4. CASE UNCHANGED <<used, locals>>
  BY <1>4 DEF Booked, Owners, Holds, Holding, Thawed, locals
<1> QED
  BY <1>1, <1>2, <1>3, <1>4 DEF Next, Subscribe, Receive, vars, shared

(* Whatever the interleaving, the controller's accounts are those of a       *)
(* ledger that settles each admitted request once, for its actual cost, if a *)
(* released but not yet charged cost is counted as booked.                   *)
THEOREM ImplementsLedger == Spec => IsLedger
<1>1. Init => Book!Init
  BY LedgerInit
<1>2. TypeOK /\ Estimated /\ [Next]_vars => [Book!Next]_(Book!vars)
  BY LedgerStep
<1> QED
  BY <1>1, <1>2, TypeCorrect, EstimatedInvariant, PTL DEF Spec, IsLedger, Book!Spec

=============================================================================
