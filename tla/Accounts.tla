------------------------------ MODULE Accounts ------------------------------
(***************************************************************************)
(* One budget across days and runs of T-Guard: the counter the controller  *)
(* keeps in memory (pkg/budget/controller.go) and the daily totals the     *)
(* store keeps on disk (pkg/store/sqlite.go).  The counter is loaded with  *)
(* the total of the day on which the program starts and then only grows;   *)
(* the totals are kept per UTC day; what separates the two is the store's  *)
(* queue, which a crash empties, and its refusals.                         *)
(*                                                                         *)
(* Requests are served concurrently, each in steps of its own, and may     *)
(* cost more or less than they were admitted for.  What a hold is made of  *)
(* (that frozen is the sum of the holds) is BudgetController's subject, as *)
(* are the states and who is told of them; the queue is AsyncStore's.      *)
(***************************************************************************)
EXTENDS Totals

CONSTANTS
    Slots,     \* requests in flight: at most this many at once
    Limit,     \* HardLimit
    Estimate,  \* what one request is admitted for
    MaxCost,   \* what one request may cost
    MaxDay,    \* bound: midnights
    MaxBlind   \* bound: starts that cannot read the day's total

ASSUME AmountsAssumption ==
    /\ IsFiniteSet(Slots)
    /\ Limit \in Nat \ {0} /\ Estimate \in 1 .. Limit
    /\ MaxCost \in Nat /\ MaxDay \in Nat

VARIABLES
    day,     \* the UTC date
    open,    \* T-Guard is running
    used,    \* projectBudget.used
    slot,    \* where each request is, the amount it saw used, its cost
    total,   \* daily_budgets.total_millicents of each day
    queued,  \* amounts the store has accepted and not written, by day
    lost,    \* history: what of this run the store refused or gave up
    since,   \* history: the day this run started on
    missed,  \* history: what this run would have loaded, had it been able to
    blind    \* history: the starts of each day that could not read its total

accounts == <<day, open, used, slot, total, queued, lost, since, missed, blind>>

Days == 0 .. MaxDay
None == [d \in Days |-> 0]
SumFrom(d, f) == SumOf(d .. MaxDay, f)

Stage(phase, seen, cost) == [phase |-> phase, seen |-> seen, cost |-> cost]
AtRest == Stage("idle", 0, 0)
InPhase(p) == {s \in Slots : slot[s].phase = p}

(* projectBudget.frozen: what the admitted requests hold.                   *)
Frozen == Estimate * Cardinality(InPhase("held"))

AccountsInit ==
    /\ day = 0 /\ open = FALSE
    /\ used = 0 /\ slot = [s \in Slots |-> AtRest]
    /\ total = None /\ queued = None /\ lost = 0
    /\ since = 0 /\ missed = 0 /\ blind = None

(* What a start leaves behind besides the counter.                          *)
Begin(ok) ==
    /\ ~open
    /\ open' = TRUE
    /\ since' = day /\ lost' = 0
    /\ missed' = IF ok THEN 0 ELSE total[day]
    /\ blind' = IF ok \/ total[day] = 0 THEN blind ELSE [blind EXCEPT ![day] = @ + 1]
    /\ UNCHANGED <<day, slot, total, queued>>

(* A slip: the total of the first day ever, not of today. *)
StartFirstDay(ok) == Begin(ok) /\ used' = IF ok THEN total[0] ELSE 0

(* NewController: today's total, or 0 when GetDailyStats fails, whose error *)
(* is dropped.                                                              *)
Start(ok) == Begin(ok) /\ used' = IF ok THEN total[day] ELSE 0

Moves(s, from, to) ==
    /\ open /\ slot[s].phase = from
    /\ slot' = [slot EXCEPT ![s] = to]

(* Allow: used is read, then frozen is read and added up with it; there is  *)
(* room for the request or there is not; only then is its estimate frozen.  *)
LoadUsed(s) ==
    /\ Moves(s, "idle", Stage("loaded", used, 0))
    /\ UNCHANGED <<day, open, used, total, queued, lost, since, missed, blind>>

Room(s) == slot[s].seen + Frozen + Estimate <= Limit

Check(s) ==
    /\ Room(s)
    /\ Moves(s, "loaded", Stage("checked", 0, 0))
    /\ UNCHANGED <<day, open, used, total, queued, lost, since, missed, blind>>

Reject(s) ==
    /\ ~Room(s)
    /\ Moves(s, "loaded", AtRest)
    /\ UNCHANGED <<day, open, used, total, queued, lost, since, missed, blind>>

Freeze(s) ==
    /\ Moves(s, "checked", Stage("held", 0, 0))
    /\ UNCHANGED <<day, open, used, total, queued, lost, since, missed, blind>>

(* SettleBudget: the hold goes first, whatever the request cost.            *)
SettleBudget(s, cost) ==
    /\ Moves(s, "held", Stage("thawed", 0, cost))
    /\ UNCHANGED <<day, open, used, total, queued, lost, since, missed, blind>>

(* Record: the counter takes the cost...                                    *)
RecordAdd(s) ==
    /\ used' = used + slot[s].cost
    /\ Moves(s, "thawed", Stage("charged", used', slot[s].cost))
    /\ UNCHANGED <<day, open, total, queued, lost, since, missed, blind>>

(* ...and the store is offered a record with the date of this moment; it    *)
(* may refuse, and its error is dropped.                                    *)
RecordWrite(s) ==
    /\ Moves(s, "charged", AtRest)
    /\ \/ queued' = [queued EXCEPT ![day] = @ + slot[s].cost] /\ lost' = lost
       \/ lost' = lost + slot[s].cost /\ queued' = queued
    /\ UNCHANGED <<day, open, used, total, since, missed, blind>>

(* A slip: the batch is not emptied. *)
FlushTwice(d) ==
    /\ open /\ queued[d] > 0
    /\ total' = [total EXCEPT ![d] = @ + queued[d]]
    /\ UNCHANGED <<day, open, used, slot, queued, lost, since, missed, blind>>

(* A worker writes a batch, or gives it up.                                 *)
Flush(d) ==
    /\ open /\ queued[d] > 0
    /\ total' = [total EXCEPT ![d] = @ + queued[d]]
    /\ queued' = [queued EXCEPT ![d] = 0]
    /\ UNCHANGED <<day, open, used, slot, lost, since, missed, blind>>

FlushFail(d) ==
    /\ open /\ queued[d] > 0
    /\ lost' = lost + queued[d]
    /\ queued' = [queued EXCEPT ![d] = 0]
    /\ UNCHANGED <<day, open, used, slot, total, since, missed, blind>>

(* The process ends, its requests with it: an orderly end has drained the   *)
(* queue, a crash has not.                                                  *)
End ==
    /\ open /\ open' = FALSE
    /\ used' = 0 /\ slot' = [s \in Slots |-> AtRest]
    /\ queued' = None /\ lost' = 0 /\ missed' = 0
    /\ UNCHANGED <<day, total, since, blind>>

Stop == queued = None /\ End
Die == End

Midnight ==
    /\ day < MaxDay
    /\ day' = day + 1
    /\ UNCHANGED <<open, used, slot, total, queued, lost, since, missed, blind>>

Starts == \E ok \in BOOLEAN : Start(ok) /\ (ok \/ SumFrom(0, blind) < MaxBlind)
Allows(s) == LoadUsed(s) \/ Check(s) \/ Reject(s) \/ Freeze(s)
Runs ==
    \/ \E s \in Slots :
         Allows(s) \/ (\E cost \in 0 .. MaxCost : SettleBudget(s, cost)) \/ RecordAdd(s)
    \/ \E d \in Days : Flush(d) \/ FlushFail(d)
    \/ Midnight
Records == \E s \in Slots : RecordWrite(s)
Ends == Stop \/ Die

AccountsNext == Starts \/ Runs \/ Records \/ Ends

AccountsSpec == AccountsInit /\ [][AccountsNext]_accounts

-----------------------------------------------------------------------------
(* Properties *)

Recorded(d) == total[d] + queued[d]

(* What has been charged and not yet been offered to the store.             *)
Due == Total(InPhase("charged"), [s \in Slots |-> slot[s].cost], MaxCost)

Phases == {"idle", "loaded", "checked", "held", "thawed", "charged"}

AccountsTypeOK ==
    /\ day \in Days /\ since \in 0 .. day
    /\ open \in BOOLEAN
    /\ slot \in [Slots -> [phase : Phases, seen : Nat, cost : 0 .. MaxCost]]
    /\ used \in Nat /\ lost \in Nat /\ missed \in Nat
    /\ \A f \in {total, queued, blind} : f \in [Days -> Nat]
    /\ ~open => queued = None /\ slot = [s \in Slots |-> AtRest]

(* controller.go:48-52, 98-122: the counter, with what a start could not    *)
(* read, stands at the totals of the day the run started on and of all days *)
(* since, in the store or on its way to it, and what the store would not    *)
(* have; so nothing of today is ever missing from it but what a failed      *)
(* GetDailyStats hid.                                                       *)
CounterIsDays ==
    open => used + missed = SumFrom(since, [d \in Days |-> Recorded(d)]) + lost + Due

(* The most one run can charge: what there was room for when the last       *)
(* request was let through, and the costs of all that were let through      *)
(* before any of them had been charged.                                     *)
Overshoot == Limit - Estimate + Cardinality(Slots) * MaxCost

(* controller.go:48-52, 67-76, 98-109: what is recorded of one day passes   *)
(* the limit by the costs of the requests in flight and no further, over    *)
(* any number of runs, stops, crashes and midnights; only a start that      *)
(* could not read the day's total lets the day be spent once more.          *)
DailyOvershoot == \A d \in Days : Recorded(d) <= (1 + blind[d]) * Overshoot

(* types.go:13 "reset period (by default every day)", server.go:213 "daily  *)
(* budget limit reached": Allow has no room for a request only when what    *)
(* was spent today and what is on hold leave none.                          *)
RefusalsOfToday ==
    missed = 0 =>
        \A s \in InPhase("loaded") :
            ~Room(s) => Recorded(day) + lost + Due + Frozen + Estimate > Limit

=============================================================================
