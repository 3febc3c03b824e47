----------------------------- MODULE AsyncStore -----------------------------
(***************************************************************************)
(* The asynchronous SQLite store of T-Guard (pkg/store/sqlite.go and       *)
(* budget.go).  Write puts a record into a bounded channel without         *)
(* blocking; worker goroutines collect batches and flush each one in a     *)
(* transaction on the only database connection; Close marks the store,     *)
(* closes the channel and waits for the workers.  The process may die at   *)
(* any time and the store is then opened again.                            *)
(*                                                                         *)
(* A record stands for the goroutine that writes it: every Record of the   *)
(* budget controller has a new uuid and is written by one call.  Nothing   *)
(* observes the order of the records in the channel or in a batch, so both *)
(* are sets; a record costs one unit, so request_count and                 *)
(* total_millicents are the same number.                                   *)
(***************************************************************************)
EXTENDS Integers, FiniteSets

CONSTANTS
    Records,    \* the records written or deducted in a run
    Keys,       \* (project, date) pairs, the primary key of daily_budgets
    KeyOf,      \* the key of each record
    OldKeys,    \* the keys whose date is before the one given to Archive
    Workers,    \* worker goroutines (3 in the code)
    Nobody,     \* the owner of the connection when it is free
    QueueCap,   \* capacity of the channel (5000 in the code)
    BatchMax,   \* records that fill a batch (100 in the code)
    DeductLimit \* the limit given to DeductBudget, 0 for none

ASSUME RecordsAssumption == IsFiniteSet(Records)
ASSUME KeysAssumption == KeyOf \in [Records -> Keys] /\ OldKeys \subseteq Keys
ASSUME SizesAssumption ==
    QueueCap \in Nat /\ BatchMax \in Nat \ {0} /\ DeductLimit \in Nat
ASSUME WorkersAssumption ==
    Workers # {} /\ Workers \cap Records = {} /\ Nobody \notin Workers \cup Records

VARIABLES
    up,         \* whether the process runs
    closed,     \* sqliteStore.closed
    queueOpen,  \* whether the channel sqliteStore.queue is open
    queue,      \* the records in the channel
    call,       \* where each record's Write or DeductBudget is
    batch,      \* the batch of each worker
    wpc,        \* where each worker is in its loop
    conn,       \* who holds the database connection
    closeReturned, \* whether the Close that closed the store has returned
    rows,       \* the table records
    daily,      \* the table daily_budgets
    readUsed,   \* local of DeductBudget: the total it read
    archived,   \* history: rows removed by Archive
    accepted,   \* history: records whose Write returned nil
    lost        \* history: accepted records dropped by a flush or a death

flags == <<up, closed, queueOpen, closeReturned>>
disk == <<rows, daily, archived>>
tx == <<conn, readUsed>>
vars == <<flags, queue, call, batch, wpc, tx, disk, accepted, lost>>

Calls == {"new", "checked", "returned", "reading", "deducted"}
WorkerStates == {"running", "flushing", "lastFlush", "exited"}

Of(k, S) == {r \in S : KeyOf[r] = k}
InBatches == UNION {batch[w] : w \in Workers}
Volatile == queue \cup InBatches
Durable == rows \cup archived
Deducted == {r \in Records : call[r] = "deducted"}

Open ==
    /\ up = TRUE
    /\ closed = FALSE
    /\ queueOpen = TRUE
    /\ closeReturned = FALSE
    /\ queue = {}
    /\ batch = [w \in Workers |-> {}]
    /\ wpc = [w \in Workers |-> "running"]
    /\ conn = Nobody
    /\ readUsed = 0

Init ==
    /\ Open
    /\ call = [r \in Records |-> "new"]
    /\ rows = {} /\ archived = {}
    /\ daily = [k \in Keys |-> 0]
    /\ accepted = {} /\ lost = {}

-----------------------------------------------------------------------------
(* The process dies: every buffered record is lost, every call is over. *)
Die ==
    /\ up' = FALSE
    /\ queue' = {}
    /\ batch' = [w \in Workers |-> {}]
    /\ lost' = lost \cup Volatile
    /\ conn' = Nobody
    /\ readUsed' = 0
    /\ call' = [r \in Records |->
                  IF call[r] \in {"checked", "reading"} THEN "returned" ELSE call[r]]
    /\ UNCHANGED <<closed, queueOpen, closeReturned, wpc, disk, accepted>>

Crash == up /\ Die

(* NewSQLiteStore on the same file. *)
Restart ==
    /\ ~up
    /\ up' = TRUE
    /\ closed' = FALSE
    /\ queueOpen' = TRUE
    /\ closeReturned' = FALSE
    /\ wpc' = [w \in Workers |-> "running"]
    /\ UNCHANGED <<queue, call, batch, tx, disk, accepted, lost>>

-----------------------------------------------------------------------------
(* Write *)

Return(r) == call' = [call EXCEPT ![r] = "returned"]

WriteClosed(r) ==
    /\ up
    /\ call[r] = "new"
    /\ closed
    /\ Return(r)
    /\ UNCHANGED <<flags, queue, batch, wpc, tx, disk, accepted, lost>>

WriteChecked(r) ==
    /\ up
    /\ call[r] = "new"
    /\ ~closed
    /\ call' = [call EXCEPT ![r] = "checked"]
    /\ UNCHANGED <<flags, queue, batch, wpc, tx, disk, accepted, lost>>

WriteSend(r) ==
    /\ up
    /\ call[r] = "checked"
    /\ queueOpen
    /\ Cardinality(queue) < QueueCap
    /\ queue' = queue \cup {r}
    /\ accepted' = accepted \cup {r}
    /\ Return(r)
    /\ UNCHANGED <<flags, batch, wpc, tx, disk, lost>>

WriteFull(r) ==
    /\ up
    /\ call[r] = "checked"
    /\ queueOpen
    /\ Cardinality(queue) >= QueueCap
    /\ Return(r)
    /\ UNCHANGED <<flags, queue, batch, wpc, tx, disk, accepted, lost>>

(* A send on a closed channel panics, in a goroutine nobody recovers. *)
WritePanic(r) ==
    /\ up
    /\ call[r] = "checked"
    /\ ~queueOpen
    /\ Die

-----------------------------------------------------------------------------
(* The worker loop: one select between the channel and the ticker. *)

WorkerTake(w) ==
    /\ up
    /\ wpc[w] = "running"
    /\ \E r \in queue :
         /\ queue' = queue \ {r}
         /\ batch' = [batch EXCEPT ![w] = @ \cup {r}]
    /\ wpc' = [wpc EXCEPT ![w] =
                 IF Cardinality(batch'[w]) >= BatchMax THEN "flushing" ELSE @]
    /\ UNCHANGED <<flags, call, tx, disk, accepted, lost>>

(* A slip: the tick flushes full batches only. *)
WorkerTickFull(w) ==
    /\ up
    /\ wpc[w] = "running"
    /\ Cardinality(batch[w]) >= BatchMax
    /\ wpc' = [wpc EXCEPT ![w] = "flushing"]
    /\ UNCHANGED <<flags, queue, call, batch, tx, disk, accepted, lost>>

WorkerTick(w) ==
    /\ up
    /\ wpc[w] = "running"
    /\ batch[w] # {}
    /\ wpc' = [wpc EXCEPT ![w] = "flushing"]
    /\ UNCHANGED <<flags, queue, call, batch, tx, disk, accepted, lost>>

(* A slip: the worker leaves its last batch behind. *)
WorkerDrainedNoFlush(w) ==
    /\ up
    /\ wpc[w] = "running"
    /\ ~queueOpen
    /\ queue = {}
    /\ wpc' = [wpc EXCEPT ![w] = "exited"]
    /\ UNCHANGED <<flags, queue, call, batch, tx, disk, accepted, lost>>

(* The channel is closed and drained: a last flush, then the worker returns. *)
WorkerDrained(w) ==
    /\ up
    /\ wpc[w] = "running"
    /\ ~queueOpen
    /\ queue = {}
    /\ wpc' = [wpc EXCEPT ![w] = IF batch[w] = {} THEN "exited" ELSE "lastFlush"]
    /\ UNCHANGED <<flags, queue, call, batch, tx, disk, accepted, lost>>

AfterFlush(w) ==
    wpc' = [wpc EXCEPT ![w] = IF @ = "lastFlush" THEN "exited" ELSE "running"]

(* BeginTx waits for the connection. *)
FlushBegin(w) ==
    /\ up
    /\ wpc[w] \in {"flushing", "lastFlush"}
    /\ conn = Nobody
    /\ conn' = w
    /\ UNCHANGED <<flags, queue, call, batch, wpc, readUsed, disk, accepted, lost>>

(* One transaction inserts the batch and adds it to the daily totals. *)
FlushCommit(w) ==
    /\ up
    /\ conn = w
    /\ rows' = rows \cup batch[w]
    /\ daily' = [k \in Keys |-> daily[k] + Cardinality(Of(k, batch[w]))]
    /\ batch' = [batch EXCEPT ![w] = {}]
    /\ AfterFlush(w)
    /\ conn' = Nobody
    /\ UNCHANGED <<flags, queue, call, readUsed, archived, accepted, lost>>

(* A slip: the rows inserted before the failure are not rolled back. *)
FlushFailKeepsRows(w) ==
    /\ up
    /\ conn = w
    /\ lost' = lost \cup batch[w]
    /\ rows' = rows \cup batch[w]
    /\ batch' = [batch EXCEPT ![w] = {}]
    /\ AfterFlush(w)
    /\ conn' = Nobody
    /\ UNCHANGED <<flags, queue, call, readUsed, daily, archived, accepted>>

(* Any statement may fail: the transaction is rolled back, the error logged, *)
(* and the batch emptied all the same.                                       *)
FlushFail(w) ==
    /\ up
    /\ conn = w
    /\ lost' = lost \cup batch[w]
    /\ batch' = [batch EXCEPT ![w] = {}]
    /\ AfterFlush(w)
    /\ conn' = Nobody
    /\ UNCHANGED <<flags, queue, call, readUsed, disk, accepted>>

-----------------------------------------------------------------------------
(* Close *)

CloseMark ==
    /\ up
    /\ ~closed
    /\ closed' = TRUE
    /\ UNCHANGED <<up, queueOpen, closeReturned, queue, call, batch, wpc, tx, disk,
                   accepted, lost>>

(* A slip: Close waits for the workers without closing their channel. *)
CloseQueueNever == FALSE

CloseQueue ==
    /\ up
    /\ closed
    /\ queueOpen
    /\ queueOpen' = FALSE
    /\ UNCHANGED <<up, closed, closeReturned, queue, call, batch, wpc, tx, disk,
                   accepted, lost>>

(* wg.Wait, then db.Close. *)
CloseReturn ==
    /\ up
    /\ ~queueOpen
    /\ ~closeReturned
    /\ \A w \in Workers : wpc[w] = "exited"
    /\ closeReturned' = TRUE
    /\ UNCHANGED <<up, closed, queueOpen, queue, call, batch, wpc, tx, disk,
                   accepted, lost>>

-----------------------------------------------------------------------------
(* DeductBudget: one transaction that reads the total, checks it and adds to it. *)

DeductRead(r) ==
    /\ up
    /\ call[r] = "new"
    /\ conn = Nobody
    /\ ~closeReturned
    /\ call' = [call EXCEPT ![r] = "reading"]
    /\ conn' = r
    /\ readUsed' = daily[KeyOf[r]]
    /\ UNCHANGED <<flags, queue, batch, wpc, disk, accepted, lost>>

(* A slip: the check leaves the new cost out. *)
InsufficientBefore == DeductLimit > 0 /\ readUsed > DeductLimit

Insufficient == DeductLimit > 0 /\ readUsed + 1 > DeductLimit

DeductCommit(r) ==
    /\ up
    /\ conn = r
    /\ ~Insufficient
    /\ daily' = [daily EXCEPT ![KeyOf[r]] = @ + 1]
    /\ rows' = rows \cup {r}
    /\ call' = [call EXCEPT ![r] = "deducted"]
    /\ conn' = Nobody
    /\ readUsed' = 0
    /\ UNCHANGED <<flags, queue, batch, wpc, archived, accepted, lost>>

(* ErrInsufficientBudget or a failed statement: the deferred Rollback. *)
DeductRollback(r) ==
    /\ up
    /\ conn = r
    /\ Return(r)
    /\ conn' = Nobody
    /\ readUsed' = 0
    /\ UNCHANGED <<flags, queue, batch, wpc, disk, accepted, lost>>

(* Archive deletes the old rows; the daily totals stay. *)
Archive ==
    /\ up
    /\ conn = Nobody
    /\ ~closeReturned
    /\ LET old == {r \in rows : KeyOf[r] \in OldKeys} IN
         /\ old # {}
         /\ rows' = rows \ old
         /\ archived' = archived \cup old
    /\ UNCHANGED <<flags, queue, call, batch, wpc, tx, daily, accepted, lost>>

-----------------------------------------------------------------------------
Write(r) == WriteClosed(r) \/ WriteChecked(r) \/ WriteSend(r) \/ WriteFull(r) \/ WritePanic(r)
Flush(w) == FlushBegin(w) \/ FlushCommit(w) \/ FlushFail(w)
Worker(w) == WorkerTake(w) \/ WorkerTick(w) \/ WorkerDrained(w) \/ Flush(w)
Close == CloseMark \/ CloseQueue \/ CloseReturn
Deduct(r) == DeductRead(r) \/ DeductCommit(r) \/ DeductRollback(r)

Next ==
    \/ \E r \in Records : Write(r) \/ Deduct(r)
    \/ \E w \in Workers : Worker(w)
    \/ Close
    \/ Archive
    \/ Crash
    \/ Restart

Spec == Init /\ [][Next]_vars

(* The goroutines that are running go on running; database/sql serves those  *)
(* who wait for the connection in order of arrival, hence SF; a ticker keeps *)
(* ticking.  Nothing makes a caller write, deduct, archive or close.         *)
Fairness ==
    /\ \A w \in Workers : /\ WF_vars(WorkerTake(w) \/ WorkerTick(w) \/ WorkerDrained(w))
                          /\ SF_vars(FlushBegin(w))
                          /\ WF_vars(FlushCommit(w) \/ FlushFail(w))
    /\ \A r \in Records : WF_vars(WriteSend(r) \/ WriteFull(r) \/ WritePanic(r))
                            /\ WF_vars(DeductCommit(r) \/ DeductRollback(r))
    /\ WF_vars(CloseQueue) /\ WF_vars(CloseReturn)

FairSpec == Spec /\ Fairness

-----------------------------------------------------------------------------
(* Properties *)

(* Every variable has its type, and the connection's owner is using it. *)
TypeOK ==
    /\ up \in BOOLEAN /\ closed \in BOOLEAN
    /\ queueOpen \in BOOLEAN /\ closeReturned \in BOOLEAN
    /\ queue \subseteq Records
    /\ call \in [Records -> Calls]
    /\ batch \in [Workers -> SUBSET Records]
    /\ wpc \in [Workers -> WorkerStates]
    /\ conn \in Workers \cup Records \cup {Nobody}
    /\ readUsed \in Nat
    /\ rows \subseteq Records /\ archived \subseteq Records
    /\ daily \in [Keys -> Nat]
    /\ accepted \subseteq Records /\ lost \subseteq Records
    /\ conn \in Workers => wpc[conn] \in {"flushing", "lastFlush"}
    /\ \A r \in Records : conn = r <=> call[r] = "reading"

(* A record the channel accepted is in one place: the channel, one worker's *)
(* batch, the table or the history of the lost.  No two workers flush it,   *)
(* and no retry inserts it twice (sqlite.go:119-133).                       *)
OnePlace ==
    /\ queue \cap InBatches = {}
    /\ \A v, w \in Workers : v # w => batch[v] \cap batch[w] = {}
    /\ rows \cap archived = {}
    /\ (Durable \cup lost) \cap Volatile = {}
    /\ Durable \cap lost = {}
    /\ accepted \cap Deducted = {}
    /\ Deducted \subseteq Durable
    /\ accepted \cup Deducted = Volatile \cup Durable \cup lost

(* The daily totals, which the budgets are loaded from at start-up, are     *)
(* those of the records ever inserted, whatever failed, died or was         *)
(* archived (sqlite.go:158-182, budget.go:46-71, sqlite.go:248-256).        *)
DailyIsRows == \A k \in Keys : daily[k] = Cardinality(Of(k, Durable))

(* "Close drains the queue" (types.go:53), when it returns: a record that   *)
(* slipped past the closed flag is not left behind in the channel.          *)
ClosedIsDrained == up /\ closeReturned => Volatile = {}

(* DeductBudget never takes a day's total past the limit it was given, with *)
(* workers flushing around it (budget.go:41-44).                            *)
DeductWithinLimit ==
    [][\A r \in Records : DeductCommit(r) /\ DeductLimit > 0
          => daily'[KeyOf[r]] <= DeductLimit]_vars

(* A started store does not keep a record in memory for ever: it is         *)
(* inserted, or dropped by a failed flush or the death of the process.      *)
AcceptedSettles == \A r \in Records : r \in accepted ~> r \in Durable \cup lost

(* Close returns, unless the process dies under it. *)
CloseReturns == closed ~> closeReturned \/ ~up

(* The store keeps the promise of a write-behind store. *)
Promise == INSTANCE WriteBehind WITH durable <- Durable \ Deducted, gone <- lost
KeepsPromise == Promise!Spec

(* "Close drains the queue" (types.go:53), while it runs: no Write that     *)
(* races it takes buffered records down with the process.                   *)
CloseDrains == [][\A r \in Records : WritePanic(r) => Volatile = {}]_vars

=============================================================================
