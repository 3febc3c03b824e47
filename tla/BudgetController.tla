-------------------------- MODULE BudgetController --------------------------
(***************************************************************************)
(* The budget controller of T-Guard (pkg/budget/controller.go): a table of *)
(* projects whose used and frozen amounts are separate atomic integers,    *)
(* shared by every request handler without a lock.  One action is one      *)
(* access to shared memory, so that the interleavings of the handlers are  *)
(* those of the Go code.                                                   *)
(*                                                                         *)
(* A caller is a request slot: the goroutine that calls Allow and later    *)
(* SettleBudget, together with the notify goroutine its settlement spawns. *)
(* A slot is taken again by the next request when both are over.           *)
(***************************************************************************)
EXTENDS Integers, Sequences, FiniteSets, Totals

CONSTANTS
    Callers,        \* request slots
    Projects,       \* names a request may carry in X-Project-ID
    Budgets,        \* those of them that NewController was given a config for
    NoProject,      \* the project of an idle slot
    Limit,          \* HardLimit of each budget, 0 for no limit
    SoftPercent,    \* SoftLimit of each budget, in percent
    Persisted,      \* what GetDailyStats holds for each budget at start-up
    MinEstimate, MaxEstimate,  \* range of the cost estimates given to Allow
    MaxCost,        \* largest actual cost of one request
    Subscribers,    \* callers of Subscribe
    ChanCap,        \* capacity of a subscription channel (10 in the code)
    UsedCap         \* bound: no new request on an unlimited budget past this amount

ASSUME CallersAssumption == IsFiniteSet(Callers)
ASSUME ProjectsAssumption == Budgets \subseteq Projects /\ NoProject \notin Projects
ASSUME AmountsAssumption ==
    /\ Limit \in [Budgets -> Nat]
    /\ SoftPercent \in [Budgets -> Nat]
    /\ Persisted \in [Budgets -> Nat]
    /\ MinEstimate \in Nat /\ MaxEstimate \in Nat /\ MaxCost \in Nat
    /\ UsedCap \in Nat /\ ChanCap \in Nat

VARIABLES
    used,       \* projectBudget.used
    frozen,     \* projectBudget.frozen
    lastState,  \* projectBudget.lastState
    gauge,      \* tguard_budget_used_millicents
    written,    \* history: sum of the costs the store's queue accepted
    refused,    \* history: sum of the costs the store refused, error ignored
    base,       \* history: what NewController loaded into used
    announced,  \* history: the states a notify goroutine was spawned for
    subs,       \* the subscribers list of each project, in order
    chan,       \* the subscription channels
    pc,         \* where each slot is between two accesses to shared memory
    project,    \* argument: the project of the slot's request
    amount,     \* argument: the estimate, then the frozen amount
    cost,       \* argument: the actual cost
    seen,       \* local: used in Allow, newUsed in Record and notify
    pending     \* local of notify: the rest of the subscribers it loops over

shared == <<used, frozen, lastState, gauge, subs, chan>>
history == <<written, refused, base, announced>>
locals == <<pc, project, amount, cost, seen, pending>>
vars == <<shared, history, locals>>

Estimates == MinEstimate .. MaxEstimate
Costs == 0 .. MaxCost
States == {"normal", "warning", "critical", "exhausted"}
Labels == {"idle", "loaded", "checked", "admitted", "thawed", "charged",
           "published", "spawned", "notifying"}

SoftMark(p) == (Limit[p] * SoftPercent[p]) \div 100

(* A slip: the limit itself is not yet exhausted. *)
CalculateStateLate(p, u) ==
    IF Limit[p] = 0 THEN "normal"
    ELSE IF u > Limit[p] THEN "exhausted"
    ELSE IF 10 * u >= 9 * Limit[p] THEN "critical"
    ELSE IF SoftMark(p) > 0 /\ u >= SoftMark(p) THEN "warning"
    ELSE "normal"

CalculateState(p, u) ==
    IF Limit[p] = 0 THEN "normal"
    ELSE IF u >= Limit[p] THEN "exhausted"
    ELSE IF 10 * u >= 9 * Limit[p] THEN "critical"
    ELSE IF SoftMark(p) > 0 /\ u >= SoftMark(p) THEN "warning"
    ELSE "normal"

Status(p, u) == [project |-> p, used |-> u, state |-> CalculateState(p, u)]
Message == [project : Budgets, used : Nat, state : States]

Reset(c) ==
    /\ pc' = [pc EXCEPT ![c] = "idle"]
    /\ project' = [project EXCEPT ![c] = NoProject]
    /\ amount' = [amount EXCEPT ![c] = 0]
    /\ cost' = [cost EXCEPT ![c] = 0]
    /\ seen' = [seen EXCEPT ![c] = 0]
    /\ pending' = [pending EXCEPT ![c] = <<>>]

Goto(c, label) == pc' = [pc EXCEPT ![c] = label]

-----------------------------------------------------------------------------
(* NewController: used is today's total, or 0 when GetDailyStats fails.    *)

Init ==
    /\ base \in {b \in [Budgets -> {0} \cup {Persisted[p] : p \in Budgets}] :
                  \A p \in Budgets : b[p] \in {0, Persisted[p]}}
    /\ used = base
    /\ frozen = [p \in Budgets |-> 0]
    /\ lastState = [p \in Budgets |-> "normal"]
    /\ gauge = [p \in Budgets |-> 0]
    /\ written = [p \in Budgets |-> 0]
    /\ refused = [p \in Budgets |-> 0]
    /\ announced = [p \in Budgets |-> {}]
    /\ subs = [p \in Projects |-> <<>>]
    /\ chan = [s \in Subscribers |-> <<>>]
    /\ pc = [c \in Callers |-> "idle"]
    /\ project = [c \in Callers |-> NoProject]
    /\ amount = [c \in Callers |-> 0]
    /\ cost = [c \in Callers |-> 0]
    /\ seen = [c \in Callers |-> 0]
    /\ pending = [c \in Callers |-> <<>>]

-----------------------------------------------------------------------------
(* Allow *)

(* A project without a budget is let through and nothing is frozen. *)
AllowUnconfigured(c, p, estimate) ==
    /\ pc[c] = "idle"
    /\ p \notin Budgets
    /\ Goto(c, "admitted")
    /\ project' = [project EXCEPT ![c] = p]
    /\ amount' = [amount EXCEPT ![c] = estimate]
    /\ UNCHANGED <<shared, history, cost, seen, pending>>

AllowLoadUsed(c, p, estimate) ==
    /\ pc[c] = "idle"
    /\ p \in Budgets
    /\ Limit[p] = 0 => used[p] <= UsedCap
    /\ Goto(c, "loaded")
    /\ project' = [project EXCEPT ![c] = p]
    /\ amount' = [amount EXCEPT ![c] = estimate]
    /\ seen' = [seen EXCEPT ![c] = used[p]]
    /\ UNCHANGED <<shared, history, cost, pending>>

(* A slip: the amounts before this request are checked. *)
OverLimitBefore(c) ==
    LET p == project[c] IN
    Limit[p] > 0 /\ seen[c] + frozen[p] > Limit[p]

(* used is the value loaded one step ago, frozen is loaded now. *)
OverLimit(c) ==
    LET p == project[c] IN
    Limit[p] > 0 /\ seen[c] + frozen[p] + amount[c] > Limit[p]

AllowReject(c) ==
    /\ pc[c] = "loaded"
    /\ OverLimit(c)
    /\ Reset(c)
    /\ UNCHANGED <<shared, history>>

AllowCheck(c) ==
    /\ pc[c] = "loaded"
    /\ ~OverLimit(c)
    /\ Goto(c, "checked")
    /\ seen' = [seen EXCEPT ![c] = 0]
    /\ UNCHANGED <<shared, history, project, amount, cost, pending>>

AllowFreeze(c) ==
    /\ pc[c] = "checked"
    /\ Goto(c, "admitted")
    /\ frozen' = [frozen EXCEPT ![project[c]] = @ + amount[c]]
    /\ UNCHANGED <<used, lastState, gauge, subs, chan, history,
                   project, amount, cost, seen, pending>>

-----------------------------------------------------------------------------
(* SettleBudget and the Record it calls *)

SettleUnconfigured(c) ==
    /\ pc[c] = "admitted"
    /\ project[c] \notin Budgets
    /\ Reset(c)
    /\ UNCHANGED <<shared, history>>

(* A slip: the actual cost is released instead of the amount frozen. *)
SettleBudgetActual(c, actual) ==
    /\ pc[c] = "admitted"
    /\ project[c] \in Budgets
    /\ Goto(c, "thawed")
    /\ frozen' = [frozen EXCEPT ![project[c]] = @ - actual]
    /\ amount' = [amount EXCEPT ![c] = 0]
    /\ cost' = [cost EXCEPT ![c] = actual]
    /\ UNCHANGED <<used, lastState, gauge, subs, chan, history,
                   project, seen, pending>>

SettleBudget(c, actual) ==
    /\ pc[c] = "admitted"
    /\ project[c] \in Budgets
    /\ Goto(c, "thawed")
    /\ frozen' = [frozen EXCEPT ![project[c]] = @ - amount[c]]
    /\ amount' = [amount EXCEPT ![c] = 0]
    /\ cost' = [cost EXCEPT ![c] = actual]
    /\ UNCHANGED <<used, lastState, gauge, subs, chan, history,
                   project, seen, pending>>

(* A slip: the charge is added to a reading made before the others'. *)
RecordAddToStale(c) ==
    LET p == project[c] IN
    /\ pc[c] = "thawed"
    /\ Goto(c, "charged")
    /\ used' = [used EXCEPT ![p] = base[p] + cost[c]]
    /\ seen' = [seen EXCEPT ![c] = used'[p]]
    /\ UNCHANGED <<frozen, lastState, gauge, subs, chan, history,
                   project, amount, cost, pending>>

RecordAdd(c) ==
    LET p == project[c] IN
    /\ pc[c] = "thawed"
    /\ Goto(c, "charged")
    /\ used' = [used EXCEPT ![p] = @ + cost[c]]
    /\ seen' = [seen EXCEPT ![c] = used'[p]]
    /\ UNCHANGED <<frozen, lastState, gauge, subs, chan, history,
                   project, amount, cost, pending>>

(* The gauge is set to this caller's own newUsed; the store's queue takes  *)
(* the record or refuses it (full or closed), and the error is dropped.    *)
RecordPublish(c, accepts) ==
    LET p == project[c] IN
    /\ pc[c] = "charged"
    /\ Goto(c, "published")
    /\ gauge' = [gauge EXCEPT ![p] = seen[c]]
    /\ written' = [written EXCEPT ![p] = IF accepts THEN @ + cost[c] ELSE @]
    /\ refused' = [refused EXCEPT ![p] = IF accepts THEN @ ELSE @ + cost[c]]
    /\ cost' = [cost EXCEPT ![c] = 0]
    /\ UNCHANGED <<used, frozen, lastState, subs, chan, base, announced,
                   project, amount, seen, pending>>

(* lastState.Swap: the state computed from newUsed replaces the old one. *)
RecordSameState(c) ==
    LET p == project[c] IN
    /\ pc[c] = "published"
    /\ lastState[p] = CalculateState(p, seen[c])
    /\ Reset(c)
    /\ UNCHANGED <<shared, history>>

RecordNewState(c) ==
    LET p == project[c]
        new == CalculateState(p, seen[c])
    IN
    /\ pc[c] = "published"
    /\ lastState[p] # new
    /\ Goto(c, "spawned")
    /\ lastState' = [lastState EXCEPT ![p] = new]
    /\ announced' = [announced EXCEPT ![p] = @ \cup {new}]
    /\ UNCHANGED <<used, frozen, gauge, subs, chan, written, refused, base,
                   project, amount, cost, seen, pending>>

-----------------------------------------------------------------------------
(* The notify goroutine, Subscribe and the reader of a subscription *)

(* subscribers.Load: later subscriptions are not seen by this notify. *)
NotifyStart(c) ==
    /\ pc[c] = "spawned"
    /\ Goto(c, "notifying")
    /\ pending' = [pending EXCEPT ![c] = subs[project[c]]]
    /\ UNCHANGED <<shared, history, project, amount, cost, seen>>

(* A slip: the send has no default case and waits for room. *)
NotifySendBlocks(c) ==
    LET s == Head(pending[c]) IN
    /\ pc[c] = "notifying"
    /\ pending[c] # <<>>
    /\ Len(chan[s]) < ChanCap
    /\ pending' = [pending EXCEPT ![c] = Tail(@)]
    /\ chan' = [chan EXCEPT ![s] = Append(@, Status(project[c], seen[c]))]
    /\ UNCHANGED <<used, frozen, lastState, gauge, subs, history,
                   pc, project, amount, cost, seen>>

(* A slip: the amount is read again from the gauge, which another           *)
(* settlement may have set to less.                                         *)
NotifySendGauge(c) ==
    LET s == Head(pending[c])
        status == Status(project[c], gauge[project[c]])
    IN
    /\ pc[c] = "notifying"
    /\ pending[c] # <<>>
    /\ pending' = [pending EXCEPT ![c] = Tail(@)]
    /\ chan' = [chan EXCEPT ![s] = IF Len(@) < ChanCap THEN Append(@, status) ELSE @]
    /\ UNCHANGED <<used, frozen, lastState, gauge, subs, history,
                   pc, project, amount, cost, seen>>

(* A non-blocking send: a full channel drops the status. *)
NotifySend(c) ==
    LET s == Head(pending[c])
        status == Status(project[c], seen[c])
    IN
    /\ pc[c] = "notifying"
    /\ pending[c] # <<>>
    /\ pending' = [pending EXCEPT ![c] = Tail(@)]
    /\ chan' = [chan EXCEPT ![s] = IF Len(@) < ChanCap THEN Append(@, status) ELSE @]
    /\ UNCHANGED <<used, frozen, lastState, gauge, subs, history,
                   pc, project, amount, cost, seen>>

NotifyEnd(c) ==
    /\ pc[c] = "notifying"
    /\ pending[c] = <<>>
    /\ Reset(c)
    /\ UNCHANGED <<shared, history>>

(* Subscribe makes a new channel and appends it to the project's list. *)
Subscribe(s, p) ==
    /\ \A q \in Projects : \A i \in 1 .. Len(subs[q]) : subs[q][i] # s
    /\ subs' = [subs EXCEPT ![p] = Append(@, s)]
    /\ UNCHANGED <<used, frozen, lastState, gauge, chan, history, locals>>

Receive(s) ==
    /\ chan[s] # <<>>
    /\ chan' = [chan EXCEPT ![s] = Tail(@)]
    /\ UNCHANGED <<used, frozen, lastState, gauge, subs, history, locals>>

-----------------------------------------------------------------------------
Allow(c) ==
    \/ \E p \in Projects, estimate \in Estimates :
         AllowUnconfigured(c, p, estimate) \/ AllowLoadUsed(c, p, estimate)
    \/ AllowReject(c)
    \/ AllowCheck(c)
    \/ AllowFreeze(c)

Record(c) ==
    \/ RecordAdd(c)
    \/ \E accepts \in BOOLEAN : RecordPublish(c, accepts)
    \/ RecordSameState(c)
    \/ RecordNewState(c)

Notify(c) == NotifyStart(c) \/ NotifySend(c) \/ NotifyEnd(c)

Settle(c) ==
    \/ SettleUnconfigured(c)
    \/ \E actual \in Costs : SettleBudget(c, actual)

Next ==
    \/ \E c \in Callers : Allow(c) \/ Settle(c) \/ Record(c) \/ Notify(c)
    \/ \E s \in Subscribers, p \in Projects : Subscribe(s, p)
    \/ \E s \in Subscribers : Receive(s)

Spec == Init /\ [][Next]_vars

(* Go schedules every runnable goroutine: a settlement and its notification *)
(* run on by themselves.  Nothing makes a request arrive or an upstream     *)
(* answer, a caller subscribe or a subscriber read.                         *)
Fairness == \A c \in Callers : WF_vars(Record(c)) /\ WF_vars(Notify(c))
FairSpec == Spec /\ Fairness

-----------------------------------------------------------------------------
(* Properties *)

SharedType ==
    /\ used \in [Budgets -> Nat]
    /\ frozen \in [Budgets -> Int]
    /\ lastState \in [Budgets -> States]
    /\ gauge \in [Budgets -> Nat]
    /\ subs \in [Projects -> Seq(Subscribers)]
    /\ chan \in [Subscribers -> Seq(Message)]

HistoryType ==
    /\ written \in [Budgets -> Nat]
    /\ refused \in [Budgets -> Nat]
    /\ base \in [Budgets -> Nat]
    /\ announced \in [Budgets -> SUBSET States]

LocalsType ==
    /\ pc \in [Callers -> Labels]
    /\ project \in [Callers -> Projects \cup {NoProject}]
    /\ amount \in [Callers -> 0 .. MaxEstimate]
    /\ cost \in [Callers -> Costs]
    /\ seen \in [Callers -> Nat]
    /\ pending \in [Callers -> Seq(Subscribers)]

(* A caller inside Allow or a settlement works on a configured budget. *)
Placed ==
    \A c \in Callers : pc[c] \notin {"idle", "admitted"} => project[c] \in Budgets

(* Every variable has its type, and a caller past the lookup of its budget  *)
(* has one.  frozen is a plain integer (an atomic.Int64 that AllowFreeze    *)
(* and SettleBudget move up and down): that it is never negative is         *)
(* FrozenIsHeld.                                                            *)
TypeOK == SharedType /\ HistoryType /\ LocalsType /\ Placed

Holders(p) == {c \in Callers : pc[c] = "admitted" /\ project[c] = p}
Thawed(p) == {c \in Callers : pc[c] = "thawed" /\ project[c] = p}
Charging(p) == {c \in Callers : pc[c] = "charged" /\ project[c] = p}

(* Double-entry of the holds (controller.go:76 and 98): what a budget has   *)
(* frozen is exactly what the admitted and unsettled requests hold, in      *)
(* every interleaving, so no hold is released twice and none is left over.  *)
FrozenIsHeld == \A p \in Budgets : frozen[p] = Total(Holders(p), amount, MaxEstimate)

(* Double-entry of the charges (controller.go:109 and 117): the counter of  *)
(* a budget is what was loaded at start-up, plus what the store accepted,   *)
(* plus what it refused, plus the charges on their way to the store.        *)
UsedIsAccounted ==
    \A p \in Budgets :
        used[p] = base[p] + written[p] + refused[p]
                    + Total(Charging(p), cost, MaxCost)

(* What the check of controller.go:67-76 really guarantees: reading used,   *)
(* reading frozen and freezing are three steps, so each of the N slots may  *)
(* pass the check once before the others' charges arrive, and no more.      *)
BoundedOvershoot ==
    \A p \in Budgets : Limit[p] > 0 =>
        \/ used[p] = base[p]
        \/ used[p] <= Limit[p] - MinEstimate + Cardinality(Callers) * MaxCost

(* Callers who may still add a charge to p on the strength of a check made, *)
(* or about to be made, with a used amount that left room.                  *)
Exposed(p) ==
    {c \in Callers : /\ project[c] = p
                     /\ \/ pc[c] = "loaded" /\ seen[c] + MinEstimate <= Limit[p]
                        \/ pc[c] \in {"checked", "admitted", "thawed"}}

(* The inductive form of BoundedOvershoot: once used leaves no room for an  *)
(* estimate nobody becomes exposed any more (controller.go:71), and each of *)
(* those who were can still add MaxCost.                                    *)
RoomFor(p) == used[p] + MinEstimate <= Limit[p]

ChargesWithin(p) ==
    used[p] + MaxCost * Cardinality(Exposed(p))
        <= Limit[p] - MinEstimate + Cardinality(Callers) * MaxCost

OvershootInductive ==
    /\ \A c \in Callers : pc[c] = "loaded" => amount[c] >= MinEstimate
    /\ \A p \in Budgets : Limit[p] > 0 =>
         RoomFor(p) \/ (used[p] = base[p] /\ Exposed(p) = {}) \/ ChargesWithin(p)

(* budget_manager_test.go:62 "the core invariant: the amount used cannot    *)
(* exceed the hard limit", there of concurrent requests that each cost less *)
(* than their estimate.  Two callers that check one after the other and     *)
(* freeze one after the other break it.                                     *)
HardLimitKept ==
    \A p \in Budgets : Limit[p] > 0 => used[p] = base[p] \/ used[p] <= Limit[p]

(* Charges of concurrent requests cross the limit once, and the swaps of    *)
(* lastState (controller.go:125-128) may come in any order; still the       *)
(* crossing is announced, or a caller that will announce it is under way.   *)
ExhaustionAnnounced ==
    \A p \in Budgets :
        Limit[p] > 0 /\ used[p] >= Limit[p] /\ used[p] # base[p] =>
            \/ "exhausted" \in announced[p]
            \/ \E c \in Callers : /\ pc[c] \in {"charged", "published"}
                                  /\ project[c] = p
                                  /\ seen[c] >= Limit[p]

(* The inductive form of ExhaustionAnnounced: whoever found lastState       *)
(* already exhausted (controller.go:126) relies on an announcement that has *)
(* really been made.                                                        *)
AnnouncedInductive ==
    /\ ExhaustionAnnounced
    /\ \A p \in Budgets : lastState[p] = "exhausted" => "exhausted" \in announced[p]

(* The accounts of the controller, seen with a charge booked as soon as its *)
(* hold is given back, are a ledger: each admitted request is settled once, *)
(* and its cost replaces its hold (types.go:44).  The mapping says what the *)
(* program does not have: while a request is "thawed" its cost is in no     *)
(* counter.                                                                 *)
Holding(c) == pc[c] = "admitted" /\ project[c] \in Budgets

Booked == [p \in Budgets |-> used[p] + Total(Thawed(p), cost, MaxCost)]
Owners == [c \in Callers |-> IF Holding(c) THEN project[c] ELSE NoProject]
Holds == [c \in Callers |-> IF Holding(c) THEN amount[c] ELSE 0]

Book == INSTANCE Ledger WITH
    spent <- Booked, owner <- Owners, held <- Holds, Amounts <- Estimates

IsLedger == Book!Spec

(* A settlement ends whatever the subscribers do: nobody reads a channel    *)
(* under FairSpec, and a full one is skipped (controller.go:209-213).       *)
SettlementEnds == \A c \in Callers : pc[c] = "thawed" ~> pc[c] = "idle"

Hears(s, p, state) ==
    \E i \in 1 .. Len(chan[s]) : chan[s][i].project = p /\ chan[s][i].state = state

(* A project that runs out is announced, as exhausted and not as the state  *)
(* of some other settlement, to every channel subscribed by the time notify *)
(* reads the list (controller.go:194), unless that channel is full when its *)
(* turn comes (controller.go:209-213).                                      *)
SkippedFull(c, s) ==
    /\ pc[c] = "notifying"
    /\ pending[c] # <<>>
    /\ Head(pending[c]) = s
    /\ Len(chan[s]) = ChanCap

ExhaustionDelivered ==
    \A s \in Subscribers, p \in Budgets, c \in Callers :
        /\ pc[c] = "spawned"
        /\ project[c] = p
        /\ CalculateState(p, seen[c]) = "exhausted"
        /\ \E i \in 1 .. Len(subs[p]) : subs[p][i] = s
        ~> Hears(s, p, "exhausted") \/ SkippedFull(c, s)

=============================================================================
