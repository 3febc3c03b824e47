-------------------------- MODULE AsyncStore_proofs --------------------------
(***************************************************************************)
(* The store loses nothing it has accepted without a trace, for any number *)
(* of records, days, workers, any size of the channel and of a batch:      *)
(* types, the one place of a record, the daily totals, a drained Close,    *)
(* and the write-behind store it implements.                               *)
(***************************************************************************)
EXTENDS AsyncStore, FiniteSetTheorems, TLAPS

(* A call has returned once its record is accepted.                         *)
AcceptedReturned == \A r \in accepted : call[r] = "returned"

(* How the workers come to their end.                                       *)
Winding ==
    /\ \A w \in Workers : wpc[w] \in {"lastFlush", "exited"} => ~queueOpen /\ queue = {}
    /\ \A w \in Workers : wpc[w] = "exited" => batch[w] = {}
    /\ up /\ closeReturned => \A w \in Workers : wpc[w] = "exited"
    /\ ~up => conn = Nobody

(* Where a record is: what OnePlace says, of one record at a time.          *)
InBatch(r) == \E w \in Workers : r \in batch[w]
Buffered(r) == r \in queue \/ InBatch(r)
Kept(r) == r \in rows \/ r \in archived

PlaceOf(r) ==
    /\ r \in queue => ~InBatch(r)
    /\ \A v, w \in Workers : r \in batch[v] /\ r \in batch[w] => v = w
    /\ ~(r \in rows /\ r \in archived)
    /\ Kept(r) \/ r \in lost => ~Buffered(r)
    /\ ~(Kept(r) /\ r \in lost)
    /\ call[r] = "deducted" => r \notin accepted /\ Kept(r)
    /\ r \in accepted \/ call[r] = "deducted" <=> Buffered(r) \/ Kept(r) \/ r \in lost

LEMMA OnePlaceOf ==
    ASSUME TypeOK
    PROVE  OnePlace <=> \A r \in Records : PlaceOf(r)
<1>1. ASSUME OnePlace, NEW r \in Records PROVE PlaceOf(r)
  BY <1>1 DEF TypeOK, OnePlace, PlaceOf, InBatch, Buffered, Kept, InBatches, Volatile, Durable, Deducted
<1>2. ASSUME \A r \in Records : PlaceOf(r) PROVE OnePlace
  <2>1. queue \cap InBatches = {}
    BY <1>2 DEF TypeOK, PlaceOf, InBatch, InBatches
  <2>2. \A v, w \in Workers : v # w => batch[v] \cap batch[w] = {}
    BY <1>2 DEF TypeOK, PlaceOf
  <2>3. rows \cap archived = {} /\ Durable \cap lost = {}
    BY <1>2 DEF TypeOK, PlaceOf, Kept, Durable
  <2>4. (Durable \cup lost) \cap Volatile = {}
    BY <1>2 DEF TypeOK, PlaceOf, InBatch, Buffered, Kept, InBatches, Volatile, Durable
  <2>5. accepted \cap Deducted = {} /\ Deducted \subseteq Durable
    BY <1>2 DEF TypeOK, PlaceOf, Kept, Durable, Deducted
  <2>6. accepted \cup Deducted = Volatile \cup Durable \cup lost
    BY <1>2 DEF TypeOK, PlaceOf, InBatch, Buffered, Kept, InBatches, Volatile, Durable, Deducted
  <2> QED
    BY <2>1, <2>2, <2>3, <2>4, <2>5, <2>6 DEF OnePlace
<1> QED
  BY <1>1, <1>2

(* Volatile records are the buffered ones.                                  *)
LEMMA VolatileBuffered ==
    ASSUME TypeOK
    PROVE  Volatile = {r \in Records : Buffered(r)}
  BY DEF TypeOK, Volatile, InBatches, Buffered, InBatch

StoreInv == TypeOK /\ AcceptedReturned /\ Winding /\ \A r \in Records : PlaceOf(r)

-----------------------------------------------------------------------------
(* The invariant *)

LEMMA StoreStart == Init => StoreInv
<1> SUFFICES ASSUME Init PROVE StoreInv
  OBVIOUS
<1>1. TypeOK
  BY WorkersAssumption DEF Init, Open, TypeOK, Calls, WorkerStates
<1>2. AcceptedReturned /\ Winding
  BY DEF Init, Open, AcceptedReturned, Winding
<1>3. ASSUME NEW r \in Records PROVE PlaceOf(r)
  BY DEF Init, Open, PlaceOf, InBatch, Buffered, Kept
<1> QED
  BY <1>1, <1>2, <1>3 DEF StoreInv

(* The death of the process.                                                *)
LEMMA DieKeeps ==
    ASSUME StoreInv, up, Die
    PROVE  StoreInv'
<1>1. Volatile = {r \in Records : Buffered(r)}
  BY VolatileBuffered DEF StoreInv
<1>2. TypeOK'
  BY <1>1, WorkersAssumption DEF Die, StoreInv, TypeOK, Calls, flags, disk
<1>3. AcceptedReturned'
  BY DEF Die, StoreInv, AcceptedReturned, TypeOK
<1>4. Winding'
  BY DEF Die, StoreInv, Winding, TypeOK
<1>5. ASSUME NEW r \in Records PROVE PlaceOf(r)'
  BY <1>1 DEF Die, StoreInv, TypeOK, PlaceOf, InBatch, Buffered, Kept, disk
<1> QED
  BY <1>2, <1>3, <1>4, <1>5 DEF StoreInv

LEMMA RestartKeeps ==
    ASSUME StoreInv, Restart
    PROVE  StoreInv'
<1>1. TypeOK'
  BY WorkersAssumption DEF Restart, StoreInv, TypeOK, WorkerStates, tx, disk, Winding
<1>2. AcceptedReturned' /\ Winding'
  BY DEF Restart, StoreInv, AcceptedReturned, Winding, TypeOK, tx
<1>3. ASSUME NEW r \in Records PROVE PlaceOf(r)'
  BY DEF Restart, StoreInv, PlaceOf, InBatch, Buffered, Kept, disk
<1> QED
  BY <1>1, <1>2, <1>3 DEF StoreInv

(* Write: a record that is accepted is nowhere yet.                         *)
LEMMA WriteKeeps ==
    ASSUME StoreInv, NEW r \in Records,
           WriteClosed(r) \/ WriteChecked(r) \/ WriteSend(r) \/ WriteFull(r)
    PROVE  StoreInv'
<1> USE DEF Return, flags, tx, disk
<1>1. TypeOK'
  BY DEF WriteClosed, WriteChecked, WriteSend, WriteFull, StoreInv, TypeOK, Calls
<1>2. AcceptedReturned'
  BY DEF WriteClosed, WriteChecked, WriteSend, WriteFull, StoreInv, TypeOK, AcceptedReturned
<1>3. Winding'
  BY DEF WriteClosed, WriteChecked, WriteSend, WriteFull, StoreInv, TypeOK, Winding
<1>4. ASSUME NEW s \in Records PROVE PlaceOf(s)'
  BY DEF WriteClosed, WriteChecked, WriteSend, WriteFull, StoreInv, TypeOK, AcceptedReturned,
     PlaceOf, InBatch, Buffered, Kept
<1> QED
  BY <1>1, <1>2, <1>3, <1>4 DEF StoreInv

(* A worker takes a record from the channel into its batch, and decides     *)
(* when to flush.                                                           *)
LEMMA WorkerKeeps ==
    ASSUME StoreInv, NEW w \in Workers,
           WorkerTake(w) \/ WorkerTick(w) \/ WorkerDrained(w) \/ FlushBegin(w)
    PROVE  StoreInv'
<1> USE DEF flags, tx, disk
<1>1. TypeOK'
  BY WorkersAssumption DEF WorkerTake, WorkerTick, WorkerDrained, FlushBegin, StoreInv, TypeOK,
     WorkerStates
<1>2. AcceptedReturned'
  BY DEF WorkerTake, WorkerTick, WorkerDrained, FlushBegin, StoreInv, AcceptedReturned
<1>3. Winding'
  BY WorkersAssumption DEF WorkerTake, WorkerTick, WorkerDrained, FlushBegin, StoreInv, TypeOK, Winding
<1>4. ASSUME NEW s \in Records PROVE PlaceOf(s)'
  BY DEF WorkerTake, WorkerTick, WorkerDrained, FlushBegin, StoreInv, TypeOK,
     PlaceOf, InBatch, Buffered, Kept
<1> QED
  BY <1>1, <1>2, <1>3, <1>4 DEF StoreInv

(* A transaction moves a whole batch to the table, or to the lost.          *)
LEMMA FlushKeeps ==
    ASSUME StoreInv, NEW w \in Workers, FlushCommit(w) \/ FlushFail(w)
    PROVE  StoreInv'
<1> USE DEF AfterFlush, flags, disk
<1>1. ASSUME NEW k \in Keys, FlushCommit(w) PROVE daily'[k] \in Nat
  <2>1. Of(k, batch[w]) \subseteq Records
    BY DEF Of, StoreInv, TypeOK
  <2>2. Cardinality(Of(k, batch[w])) \in Nat
    BY <2>1, RecordsAssumption, FS_Subset, FS_CardinalityType
  <2>3. daily[k] \in Nat /\ daily'[k] = daily[k] + Cardinality(Of(k, batch[w]))
    BY <1>1 DEF FlushCommit, StoreInv, TypeOK
  <2> QED
    BY <2>2, <2>3
<1>2. daily' \in [Keys -> Nat]
  BY <1>1 DEF FlushCommit, FlushFail, StoreInv, TypeOK
<1>3. TypeOK'
  BY <1>2, WorkersAssumption DEF FlushCommit, FlushFail, StoreInv, TypeOK, WorkerStates
<1>4. AcceptedReturned'
  BY DEF FlushCommit, FlushFail, StoreInv, AcceptedReturned
<1>5. Winding'
  BY WorkersAssumption DEF FlushCommit, FlushFail, StoreInv, TypeOK, Winding
<1>6. ASSUME NEW s \in Records PROVE PlaceOf(s)'
  BY DEF FlushCommit, FlushFail, StoreInv, TypeOK, PlaceOf, InBatch, Buffered, Kept
<1> QED
  BY <1>3, <1>4, <1>5, <1>6 DEF StoreInv

LEMMA CloseKeeps ==
    ASSUME StoreInv, Close
    PROVE  StoreInv'
<1> USE DEF Close, CloseMark, CloseQueue, CloseReturn, tx, disk
<1>1. TypeOK'
  BY DEF StoreInv, TypeOK
<1>2. AcceptedReturned' /\ Winding'
  BY DEF StoreInv, TypeOK, AcceptedReturned, Winding
<1>3. ASSUME NEW r \in Records PROVE PlaceOf(r)'
  BY DEF StoreInv, PlaceOf, InBatch, Buffered, Kept
<1> QED
  BY <1>1, <1>2, <1>3 DEF StoreInv

(* DeductBudget: its record is new, and it owns the connection.             *)
LEMMA DeductKeeps ==
    ASSUME StoreInv, NEW r \in Records, Deduct(r)
    PROVE  StoreInv'
<1> USE DEF Deduct, DeductRead, DeductCommit, DeductRollback, Return, flags, disk
<1>1. KeyOf[r] \in Keys
  BY KeysAssumption
<1>2. TypeOK'
  <2>1. CASE DeductRead(r)
    BY <2>1, <1>1, WorkersAssumption DEF StoreInv, TypeOK, Calls
  <2>2. CASE DeductCommit(r)
    BY <2>2, <1>1, WorkersAssumption DEF StoreInv, TypeOK, Calls
  <2>3. CASE DeductRollback(r)
    BY <2>3, <1>1, WorkersAssumption DEF StoreInv, TypeOK, Calls
  <2> QED
    BY <2>1, <2>2, <2>3
<1>3. AcceptedReturned'
  BY DEF StoreInv, TypeOK, AcceptedReturned
<1>4. Winding'
  BY WorkersAssumption DEF StoreInv, TypeOK, Winding
<1>5. ASSUME NEW s \in Records PROVE PlaceOf(s)'
  BY DEF StoreInv, TypeOK, AcceptedReturned, PlaceOf, InBatch, Buffered, Kept
<1> QED
  BY <1>2, <1>3, <1>4, <1>5 DEF StoreInv

LEMMA ArchiveKeeps ==
    ASSUME StoreInv, Archive
    PROVE  StoreInv'
<1> USE DEF Archive, flags, tx
<1>1. TypeOK' /\ AcceptedReturned' /\ Winding'
  BY DEF StoreInv, TypeOK, AcceptedReturned, Winding
<1>2. ASSUME NEW r \in Records PROVE PlaceOf(r)'
  BY DEF StoreInv, TypeOK, PlaceOf, InBatch, Buffered, Kept
<1> QED
  BY <1>1, <1>2 DEF StoreInv

LEMMA StoreStep == StoreInv /\ [Next]_vars => StoreInv'
<1> SUFFICES ASSUME StoreInv, [Next]_vars PROVE StoreInv'
  OBVIOUS
<1>1. ASSUME NEW r \in Records, Write(r) PROVE StoreInv'
  BY <1>1, WriteKeeps, DieKeeps DEF Write, WritePanic
<1>2. ASSUME NEW w \in Workers, Worker(w) PROVE StoreInv'
  BY <1>2, WorkerKeeps, FlushKeeps DEF Worker, Flush
<1>3. CASE Crash
  BY <1>3, DieKeeps DEF Crash
<1>4. CASE UNCHANGED vars
  <2>1. TypeOK' /\ AcceptedReturned' /\ Winding'
    BY <1>4 DEF vars, flags, tx, disk, StoreInv, TypeOK, AcceptedReturned, Winding
  <2>2. ASSUME NEW r \in Records PROVE PlaceOf(r)'
    BY <1>4 DEF vars, flags, tx, disk, StoreInv, PlaceOf, InBatch, Buffered, Kept
  <2> QED
    BY <2>1, <2>2 DEF StoreInv
<1> QED
  BY <1>1, <1>2, <1>3, <1>4, CloseKeeps, DeductKeeps, ArchiveKeeps, RestartKeeps DEF Next

LEMMA StoreAlways == Spec => []StoreInv
  BY StoreStart, StoreStep, PTL DEF Spec

-----------------------------------------------------------------------------
(* The daily totals, and the total a deduction has read *)

(* While a deduction is under way nobody changes its day's total.           *)
ReadIsCurrent == \A r \in Records : conn = r => readUsed = daily[KeyOf[r]]

BooksInv == DailyIsRows /\ ReadIsCurrent

(* Sets of records are finite, and disjoint ones add up.                    *)
LEMMA CountOf ==
    ASSUME NEW S \in SUBSET Records, NEW k
    PROVE  IsFiniteSet(Of(k, S)) /\ Cardinality(Of(k, S)) \in Nat
<1>1. Of(k, S) \subseteq Records
  BY DEF Of
<1> QED
  BY <1>1, RecordsAssumption, FS_Subset, FS_CardinalityType

LEMMA CountUnion ==
    ASSUME NEW S \in SUBSET Records, NEW T \in SUBSET Records, S \cap T = {}, NEW k
    PROVE  Cardinality(Of(k, S \cup T)) = Cardinality(Of(k, S)) + Cardinality(Of(k, T))
<1>1. Of(k, S \cup T) = Of(k, S) \cup Of(k, T) /\ Of(k, S) \cap Of(k, T) = {}
  BY DEF Of
<1>2. Cardinality(Of(k, S) \cup Of(k, T))
        = Cardinality(Of(k, S)) + Cardinality(Of(k, T)) - Cardinality(Of(k, S) \cap Of(k, T))
  BY CountOf, FS_Union
<1>3. Cardinality(Of(k, S)) \in Nat /\ Cardinality(Of(k, T)) \in Nat
  BY CountOf
<1>4. Cardinality(Of(k, S) \cap Of(k, T)) = 0
  BY <1>1, FS_EmptySet
<1>5. Cardinality(Of(k, S \cup T)) = Cardinality(Of(k, S) \cup Of(k, T))
  BY <1>1
<1> QED
  BY <1>2, <1>3, <1>4, <1>5

LEMMA BooksStart == Init => BooksInv
<1> SUFFICES ASSUME Init PROVE BooksInv
  OBVIOUS
<1>1. ASSUME NEW k \in Keys PROVE daily[k] = Cardinality(Of(k, Durable))
  <2>1. Of(k, Durable) = {} /\ daily[k] = 0
    BY DEF Init, Durable, Of
  <2> QED
    BY <2>1, FS_EmptySet
<1> QED
  BY <1>1, WorkersAssumption DEF Init, Open, BooksInv, DailyIsRows, ReadIsCurrent

(* A step that leaves the totals and the inserted records alone.            *)
LEMMA BooksKeep ==
    ASSUME StoreInv, BooksInv, UNCHANGED daily, Durable' = Durable,
           (conn' = conn /\ readUsed' = readUsed) \/ conn' \notin Records
    PROVE  BooksInv'
  BY DEF BooksInv, DailyIsRows, ReadIsCurrent, Of

LEMMA BooksFlush ==
    ASSUME StoreInv, BooksInv, NEW w \in Workers, FlushCommit(w)
    PROVE  BooksInv'
<1>1. Durable \cap batch[w] = {} /\ Durable \in SUBSET Records /\ batch[w] \in SUBSET Records
  BY DEF StoreInv, TypeOK, PlaceOf, InBatch, Buffered, Kept, Durable
<1>2. Durable' = Durable \cup batch[w]
  BY DEF FlushCommit, Durable
<1>3. ASSUME NEW k \in Keys PROVE daily'[k] = Cardinality(Of(k, Durable'))
  <2>1. daily'[k] = daily[k] + Cardinality(Of(k, batch[w]))
    BY DEF FlushCommit
  <2>2. daily[k] = Cardinality(Of(k, Durable))
    BY DEF BooksInv, DailyIsRows
  <2> QED
    BY <1>1, <1>2, <2>1, <2>2, CountUnion
<1>4. DailyIsRows'
  BY <1>3 DEF DailyIsRows, Of
<1>5. ReadIsCurrent'
  BY WorkersAssumption DEF FlushCommit, ReadIsCurrent
<1> QED
  BY <1>4, <1>5 DEF BooksInv

LEMMA BooksDeduct ==
    ASSUME StoreInv, BooksInv, NEW r \in Records, DeductCommit(r)
    PROVE  BooksInv'
<1>1. r \notin Durable /\ Durable \in SUBSET Records
  BY DEF DeductCommit, StoreInv, TypeOK, PlaceOf, Kept, Durable, AcceptedReturned
<1>2. Durable' = Durable \cup {r}
  BY DEF DeductCommit, Durable
<1>3. ASSUME NEW k \in Keys PROVE daily'[k] = Cardinality(Of(k, Durable'))
  <2>1. Cardinality(Of(k, Durable')) = Cardinality(Of(k, Durable)) + Cardinality(Of(k, {r}))
    BY <1>1, <1>2, CountUnion
  <2>2. daily[k] = Cardinality(Of(k, Durable)) /\ daily[k] \in Nat
    BY DEF BooksInv, DailyIsRows, StoreInv, TypeOK
  <2>3. CASE KeyOf[r] = k
    <3>1. Of(k, {r}) = {r}
      BY <2>3 DEF Of
    <3>2. Cardinality(Of(k, {r})) = 1
      BY <3>1, FS_Singleton
    <3>3. daily'[k] = daily[k] + 1
      BY <2>3 DEF DeductCommit, StoreInv, TypeOK
    <3> QED
      BY <2>1, <2>2, <3>2, <3>3
  <2>4. CASE KeyOf[r] # k
    <3>1. Of(k, {r}) = {}
      BY <2>4 DEF Of
    <3>2. Cardinality(Of(k, {r})) = 0
      BY <3>1, FS_EmptySet
    <3>3. daily'[k] = daily[k]
      BY <2>4 DEF DeductCommit, StoreInv, TypeOK
    <3> QED
      BY <2>1, <2>2, <3>2, <3>3
  <2> QED
    BY <2>3, <2>4
<1>4. DailyIsRows'
  BY <1>3 DEF DailyIsRows, Of
<1>5. ReadIsCurrent'
  BY WorkersAssumption DEF DeductCommit, ReadIsCurrent
<1> QED
  BY <1>4, <1>5 DEF BooksInv

LEMMA BooksStep == StoreInv /\ BooksInv /\ [Next]_vars => BooksInv'
<1> SUFFICES ASSUME StoreInv, BooksInv, [Next]_vars PROVE BooksInv'
  OBVIOUS
<1> USE DEF flags, tx, disk
<1>1. ASSUME NEW r \in Records, Write(r) PROVE BooksInv'
  BY <1>1, BooksKeep, WorkersAssumption
     DEF Write, WriteClosed, WriteChecked, WriteSend, WriteFull, WritePanic, Die, Durable
<1>2. ASSUME NEW w \in Workers, Worker(w) PROVE BooksInv'
  <2>1. CASE WorkerTake(w) \/ WorkerTick(w) \/ WorkerDrained(w)
    BY <2>1, BooksKeep DEF WorkerTake, WorkerTick, WorkerDrained, Durable
  <2>2. CASE FlushBegin(w) \/ FlushFail(w)
    BY <2>2, BooksKeep, WorkersAssumption DEF FlushBegin, FlushFail, Durable
  <2> QED
    BY <1>2, <2>1, <2>2, BooksFlush DEF Worker, Flush
<1>3. ASSUME NEW r \in Records, DeductRead(r) \/ DeductRollback(r) PROVE BooksInv'
  <2>1. Durable' = Durable /\ UNCHANGED daily
    BY <1>3 DEF DeductRead, DeductRollback, Durable
  <2>2. ReadIsCurrent'
    BY <1>3, WorkersAssumption DEF DeductRead, DeductRollback, ReadIsCurrent
  <2> QED
    BY <2>1, <2>2 DEF BooksInv, DailyIsRows, Of
<1>4. CASE Archive
  <2>1. Durable' = Durable
    BY <1>4 DEF Archive, Durable
  <2> QED
    BY <1>4, <2>1, BooksKeep DEF Archive
<1>5. CASE Close \/ Restart \/ UNCHANGED vars
  BY <1>5, BooksKeep DEF Close, CloseMark, CloseQueue, CloseReturn, Restart, vars, Durable
<1>6. CASE Crash
  BY <1>6, BooksKeep, WorkersAssumption DEF Crash, Die, Durable
<1> QED
  BY <1>1, <1>2, <1>3, <1>4, <1>5, <1>6, BooksDeduct DEF Next, Deduct

LEMMA BooksAlways == Spec => []BooksInv
  BY StoreAlways, BooksStart, BooksStep, PTL DEF Spec

-----------------------------------------------------------------------------
(* Every variable has its type, and the connection's owner is using it.     *)
THEOREM StoreTypes == Spec => []TypeOK
<1>1. StoreInv => TypeOK
  BY DEF StoreInv
<1> QED
  BY <1>1, StoreAlways, PTL

(* An accepted record is in exactly one place, through failed flushes,      *)
(* deductions, Close, deaths and restarts (sqlite.go:119-133).              *)
THEOREM AlwaysOnePlace == Spec => []OnePlace
<1>1. StoreInv => OnePlace
  BY OnePlaceOf DEF StoreInv
<1> QED
  BY <1>1, StoreAlways, PTL

(* The daily totals are those of the records ever inserted                  *)
(* (sqlite.go:158-182, budget.go:46-71).                                    *)
THEOREM DailyAlwaysRows == Spec => []DailyIsRows
<1>1. BooksInv => DailyIsRows
  BY DEF BooksInv
<1> QED
  BY <1>1, BooksAlways, PTL

(* When Close has returned, nothing is left in memory (types.go:53).        *)
THEOREM ClosedAlwaysDrained == Spec => []ClosedIsDrained
<1>1. StoreInv => ClosedIsDrained
  <2> SUFFICES ASSUME StoreInv, up, closeReturned PROVE Volatile = {}
    BY DEF ClosedIsDrained
  <2>1. \A w \in Workers : batch[w] = {}
    BY DEF StoreInv, Winding
  <2>2. queue = {}
    BY WorkersAssumption DEF StoreInv, Winding
  <2> QED
    BY <2>1, <2>2 DEF Volatile, InBatches
<1> QED
  BY <1>1, StoreAlways, PTL

(* DeductBudget keeps a day's total within its limit, whatever the workers  *)
(* flush around it: the single connection keeps what it read current        *)
(* (budget.go:30-44).                                                       *)
THEOREM DeductAlwaysWithin == Spec => DeductWithinLimit
<1>1. StoreInv /\ BooksInv /\ [Next]_vars =>
        [\A r \in Records : DeductCommit(r) /\ DeductLimit > 0
            => daily'[KeyOf[r]] <= DeductLimit]_vars
  <2> SUFFICES ASSUME StoreInv, BooksInv, NEW r \in Records, DeductCommit(r), DeductLimit > 0
               PROVE  daily'[KeyOf[r]] <= DeductLimit
    OBVIOUS
  <2>1. KeyOf[r] \in Keys /\ DeductLimit \in Nat /\ readUsed \in Nat
    BY KeysAssumption, SizesAssumption DEF StoreInv, TypeOK
  <2>2. readUsed = daily[KeyOf[r]] /\ readUsed + 1 <= DeductLimit
    BY <2>1 DEF DeductCommit, Insufficient, BooksInv, ReadIsCurrent
  <2>3. daily'[KeyOf[r]] = daily[KeyOf[r]] + 1
    BY <2>1 DEF DeductCommit, StoreInv, TypeOK
  <2> QED
    BY <2>2, <2>3
<1> QED
  BY <1>1, StoreAlways, BooksAlways, PTL DEF Spec, DeductWithinLimit

-----------------------------------------------------------------------------
(* The write-behind store *)

(* Every batch that a worker or a death takes out of memory holds accepted  *)
(* records that are not yet on disk.                                        *)
LEMMA VolatileIsBuffered ==
    ASSUME StoreInv
    PROVE  /\ Volatile \subseteq Promise!Buffered /\ Volatile \subseteq Records
           /\ \A w \in Workers : batch[w] \subseteq Volatile
<1>1. OnePlace
  BY OnePlaceOf DEF StoreInv
<1>2. Volatile \subseteq Records
  BY DEF StoreInv, TypeOK, Volatile, InBatches
<1>3. \A w \in Workers : batch[w] \subseteq Volatile
  BY DEF Volatile, InBatches
<1>4. Volatile \subseteq accepted
  BY <1>1 DEF OnePlace
<1> QED
  BY <1>1, <1>2, <1>3, <1>4 DEF OnePlace, Promise!Buffered

LEMMA PromiseStart == Init => Promise!Init
  BY DEF Init, Promise!Init, Durable, Deducted

LEMMA PromiseDie ==
    ASSUME StoreInv, Die
    PROVE  Promise!GiveUp(Volatile)
<1>1. Deducted' = Deducted
  BY DEF Die, StoreInv, TypeOK, Deducted
<1> QED
  BY <1>1, VolatileIsBuffered DEF Die, disk, Durable, Promise!GiveUp

LEMMA PromiseStep == StoreInv /\ [Next]_vars => [Promise!Next]_(Promise!vars)
<1> SUFFICES ASSUME StoreInv, [Next]_vars PROVE Promise!Next \/ UNCHANGED Promise!vars
  OBVIOUS
<1> USE DEF flags, tx, disk
<1>1. ASSUME Die PROVE Promise!Next
  BY <1>1, PromiseDie, VolatileIsBuffered DEF Promise!Next
<1>2. ASSUME NEW r \in Records, Write(r) PROVE Promise!Next \/ UNCHANGED Promise!vars
  <2>1. CASE WriteSend(r)
    <3>1. r \notin accepted
      BY <2>1 DEF WriteSend, StoreInv, TypeOK, AcceptedReturned
    <3>2. Deducted' = Deducted
      BY <2>1 DEF WriteSend, Return, StoreInv, TypeOK, Deducted
    <3>3. Promise!Accept(r)
      BY <2>1, <3>1, <3>2 DEF WriteSend, Promise!Accept, Durable
    <3> QED
      BY <3>3 DEF Promise!Next
  <2>2. CASE WriteClosed(r) \/ WriteChecked(r) \/ WriteFull(r)
    <3>1. Deducted' = Deducted
      BY <2>2 DEF WriteClosed, WriteChecked, WriteFull, Return, StoreInv, TypeOK, Deducted
    <3> QED
      BY <2>2, <3>1 DEF WriteClosed, WriteChecked, WriteFull, Promise!vars, Durable
  <2>3. CASE WritePanic(r)
    BY <2>3, <1>1 DEF WritePanic
  <2> QED
    BY <1>2, <2>1, <2>2, <2>3 DEF Write
<1>3. ASSUME NEW w \in Workers, Worker(w) PROVE Promise!Next \/ UNCHANGED Promise!vars
  <2>1. CASE WorkerTake(w) \/ WorkerTick(w) \/ WorkerDrained(w) \/ FlushBegin(w)
    BY <2>1 DEF WorkerTake, WorkerTick, WorkerDrained, FlushBegin, Promise!vars, Durable, Deducted
  <2>2. CASE FlushCommit(w)
    <3>1. OnePlace
      BY OnePlaceOf DEF StoreInv
    <3>2. batch[w] \cap Deducted = {}
      BY <3>1, VolatileIsBuffered DEF OnePlace
    <3>3. Durable' = Durable \cup batch[w] /\ Deducted' = Deducted /\ UNCHANGED <<accepted, lost>>
      BY <2>2 DEF FlushCommit, Durable, Deducted
    <3>4. Promise!Persist(batch[w])
      BY <3>2, <3>3, VolatileIsBuffered DEF Promise!Persist
    <3> QED
      BY <3>4, VolatileIsBuffered DEF Promise!Next
  <2>3. CASE FlushFail(w)
    <3>1. Promise!GiveUp(batch[w])
      BY <2>3, VolatileIsBuffered DEF FlushFail, Promise!GiveUp, Durable, Deducted
    <3> QED
      BY <3>1, VolatileIsBuffered DEF Promise!Next
  <2> QED
    BY <1>3, <2>1, <2>2, <2>3 DEF Worker, Flush
<1>4. ASSUME NEW r \in Records, Deduct(r) PROVE UNCHANGED Promise!vars
  <2>1. CASE DeductRead(r) \/ DeductRollback(r)
    <3>1. Deducted' = Deducted
      BY <2>1 DEF DeductRead, DeductRollback, Return, StoreInv, TypeOK, Deducted
    <3> QED
      BY <2>1, <3>1 DEF DeductRead, DeductRollback, Promise!vars, Durable
  <2>2. CASE DeductCommit(r)
    <3>1. r \notin Durable
      BY <2>2 DEF DeductCommit, StoreInv, TypeOK, PlaceOf, Kept, Durable, AcceptedReturned
    <3>2. Deducted' = Deducted \cup {r} /\ Durable' = Durable \cup {r}
      BY <2>2 DEF DeductCommit, StoreInv, TypeOK, Deducted, Durable
    <3> QED
      BY <2>2, <3>1, <3>2 DEF DeductCommit, Promise!vars
  <2> QED
    BY <1>4, <2>1, <2>2 DEF Deduct
<1>5. CASE Close \/ Archive \/ Restart \/ UNCHANGED vars
  <2>1. Durable' = Durable /\ Deducted' = Deducted /\ UNCHANGED <<accepted, lost>>
    BY <1>5 DEF Close, CloseMark, CloseQueue, CloseReturn, Archive, Restart, vars, Durable, Deducted
  <2> QED
    BY <2>1 DEF Promise!vars
<1> QED
  BY <1>1, <1>2, <1>3, <1>4, <1>5 DEF Next, Crash

(* The store implements the write-behind store: it accepts a record at      *)
(* most once, and makes it durable or gives it up, each at most once,       *)
(* whatever fails, dies or closes (sqlite.go).                              *)
THEOREM ImplementsWriteBehind == Spec => KeepsPromise
  BY StoreAlways, PromiseStart, PromiseStep, PTL DEF Spec, KeepsPromise, Promise!Spec
=============================================================================
