----------------------------- MODULE Dashboard -----------------------------
(***************************************************************************)
(* The terminal dashboard (internal/ui), on top of the accounts of the     *)
(* project it shows.  A tick or the key "r" starts a command that reads    *)
(* the store and then the controller in a goroutine of its own; what it    *)
(* read comes back as a message, and the event loop takes messages one at  *)
(* a time in whatever order they arrive.  A second command waits for one   *)
(* status of the budget's subscription.                                    *)
(*                                                                         *)
(* The layout, the sorting of the log table and the window size change     *)
(* nothing that is shown of the budget, and the recent records are read    *)
(* like the statistics; they are left out.  The dashboard runs in the      *)
(* process whose accounts it shows, and ends with it; a run that was given *)
(* a command to start has none.                                            *)
(***************************************************************************)
EXTENDS Accounts

CONSTANT Fetches   \* the snapshot commands that may be under way at once

VARIABLES
    fetch,    \* each snapshot: its phase, its date, what it has read
    ear,      \* the command that waits for a status, and the amount it heard
    ticking,  \* the dashboard is shown, the next tick armed
    shown     \* m.data.BudgetStatus: the amount used

dash == <<fetch, ear, ticking, shown>>

Fetch(phase, date) == [phase |-> phase, date |-> date, stats |-> 0, status |-> 0]
NoFetch == Fetch("idle", 0)
Begun(date) == Fetch("begun", date)

DashInit ==
    /\ fetch = [f \in Fetches |-> NoFetch]
    /\ ear = [phase |-> "deaf", status |-> 0]
    /\ ticking = FALSE
    /\ shown = 0

(* Init: one snapshot, one subscription and the first tick.                 *)
Opened ==
    /\ \E f \in Fetches : fetch' = [g \in Fetches |-> IF g = f THEN Begun(day) ELSE NoFetch]
    /\ ear' = [phase |-> "waiting", status |-> 0]
    /\ ticking' = TRUE
    /\ shown' = 0

(* main.go:78, run.go:95: with arguments T-Guard starts a child and shows   *)
(* no dashboard.                                                            *)
Headless == UNCHANGED dash

(* The process ends, and the commands with it.                              *)
Closed ==
    /\ fetch' = [f \in Fetches |-> NoFetch]
    /\ ear' = [phase |-> "deaf", status |-> 0]
    /\ ticking' = FALSE
    /\ shown' = 0

(* A settlement that has changed the state publishes the amount it came to  *)
(* to the one listener there is, which takes the first and never asks       *)
(* again.  Whether the state changed is BudgetController's subject.         *)
Heard ==
    /\ \/ UNCHANGED ear
       \/ /\ ear.phase = "waiting"
          /\ \E s \in InPhase("charged") :
                RecordWrite(s) /\ ear' = [phase |-> "heard", status |-> slot[s].seen]
    /\ UNCHANGED <<fetch, ticking, shown>>

(* A slip: the next tick is armed, and no snapshot taken. *)
TickOnly(f) ==
    /\ ticking /\ fetch[f].phase = "idle"
    /\ UNCHANGED dash

(* Update on a TickMsg: another snapshot, and the next tick.                *)
Tick(f) ==
    /\ ticking /\ fetch[f].phase = "idle"
    /\ fetch' = [fetch EXCEPT ![f] = Begun(day)]
    /\ UNCHANGED <<ear, ticking, shown>>

(* Update on the key "r".                                                   *)
Refresh(f) ==
    /\ ticking /\ fetch[f].phase = "idle"
    /\ fetch' = [fetch EXCEPT ![f] = Begun(day)]
    /\ UNCHANGED <<ear, ticking, shown>>

(* A slip: the controller is asked before the store. *)
SnapshotBackwards(f) ==
    /\ \/ /\ fetch[f].phase = "begun"
          /\ fetch' = [fetch EXCEPT ![f].phase = "read", ![f].status = used]
       \/ /\ fetch[f].phase = "read"
          /\ fetch' = [fetch EXCEPT ![f].phase = "ready", ![f].stats = total[fetch[f].date]]
    /\ UNCHANGED <<ear, ticking, shown>>

(* FetchSnapshot: the store's total of the date the command began on, 0     *)
(* when the query fails, then the controller's status.                      *)
FetchSnapshot(f) ==
    /\ \/ /\ fetch[f].phase = "begun"
          /\ \E stats \in {total[fetch[f].date], 0} :
                fetch' = [fetch EXCEPT ![f].phase = "read", ![f].stats = stats]
       \/ /\ fetch[f].phase = "read"
          /\ fetch' = [fetch EXCEPT ![f].phase = "ready", ![f].status = used]
    /\ UNCHANGED <<ear, ticking, shown>>

(* Update on a DataMsg: the snapshot replaces everything shown, of which    *)
(* only the amount used may also come from elsewhere and is kept here.      *)
ShowData(f) ==
    /\ fetch[f].phase = "ready"
    /\ shown' = fetch[f].status
    /\ fetch' = [fetch EXCEPT ![f] = NoFetch]
    /\ UNCHANGED <<ear, ticking>>

(* Update on a StatusMsg.                                                   *)
ShowStatus ==
    /\ ear.phase = "heard"
    /\ shown' = ear.status
    /\ ear' = [ear EXCEPT !.phase = "deaf"]
    /\ UNCHANGED <<fetch, ticking>>

DashStep ==
    \/ \E f \in Fetches : Tick(f) \/ Refresh(f) \/ FetchSnapshot(f) \/ ShowData(f)
    \/ ShowStatus

DashNext ==
    \/ DashStep /\ UNCHANGED accounts
    \/ Starts /\ (Opened \/ Headless)
    \/ Runs /\ UNCHANGED dash
    \/ Records /\ Heard
    \/ Ends /\ Closed

DashSpec == AccountsInit /\ DashInit /\ [][DashNext]_<<accounts, dash>>

(* The event loop and the goroutines of its commands run.                   *)
DashFairness ==
    /\ WF_dash(\E f \in Fetches : Tick(f) /\ UNCHANGED accounts)
    /\ \A f \in Fetches :
         WF_dash((FetchSnapshot(f) \/ ShowData(f)) /\ UNCHANGED accounts)
    /\ WF_dash(ShowStatus /\ UNCHANGED accounts)

-----------------------------------------------------------------------------
(* Properties *)

DashTypeOK ==
    /\ AccountsTypeOK
    /\ \A f \in Fetches :
         /\ fetch[f].phase \in {"idle", "begun", "read", "ready"}
         /\ fetch[f].date \in 0 .. day /\ fetch[f].stats \in Nat /\ fetch[f].status \in Nat
         /\ fetch[f].phase # "idle" => open /\ fetch[f].date >= since
    /\ ear.phase \in {"waiting", "heard", "deaf"} /\ ear.status \in Nat
    /\ ticking \in BOOLEAN
    /\ shown \in Nat

(* fetcher.go:25-27: the two readings of a snapshot are taken at different  *)
(* times while requests are settled and written, and around a midnight of   *)
(* different days; the store never shows more than the controller next to   *)
(* it, and what the controller could not load when it started.              *)
SnapshotInOrder ==
    \A f \in Fetches :
        fetch[f].phase = "ready" => fetch[f].stats <= fetch[f].status + missed

(* model.go:81-88: snapshots overtake one another and a status may come     *)
(* late, so what is shown can fall back; but once the amount used rests,    *)
(* the dashboard comes to show it and keeps showing it.                     *)
ShownCatchesUp ==
    <>[]ticking /\ <>[][FALSE]_used => <>[](shown = used)

=============================================================================
