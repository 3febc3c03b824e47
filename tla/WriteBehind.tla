----------------------------- MODULE WriteBehind -----------------------------
(***************************************************************************)
(* What a write-behind store promises: a record it accepts is either made  *)
(* durable, once and for good, or given up, once and for good.             *)
(***************************************************************************)
CONSTANT Records

VARIABLES
    accepted,   \* records whose Write returned nil
    durable,    \* records that reached the disk
    gone        \* accepted records that never will

vars == <<accepted, durable, gone>>

Buffered == accepted \ (durable \cup gone)

Init == accepted = {} /\ durable = {} /\ gone = {}

Accept(r) ==
    /\ r \notin accepted
    /\ accepted' = accepted \cup {r}
    /\ UNCHANGED <<durable, gone>>

Persist(batch) ==
    /\ batch \subseteq Buffered
    /\ durable' = durable \cup batch
    /\ UNCHANGED <<accepted, gone>>

GiveUp(batch) ==
    /\ batch \subseteq Buffered
    /\ gone' = gone \cup batch
    /\ UNCHANGED <<accepted, durable>>

Next ==
    \/ \E r \in Records : Accept(r)
    \/ \E batch \in SUBSET Records : Persist(batch) \/ GiveUp(batch)

Spec == Init /\ [][Next]_vars
=============================================================================
