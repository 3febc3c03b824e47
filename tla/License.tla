------------------------------ MODULE License ------------------------------
(***************************************************************************)
(* Licences (internal/security/security.go, crypto.go).  Activate checks   *)
(* the signature, the licence's time window and its nonce, and puts the    *)
(* licence into the manager's cache; CanUse asks the cache and the clock.  *)
(* Nonces are remembered for the life of the process, the cache has no     *)
(* lock: two activations write its fields in any order, and what a reader  *)
(* sees may be the rights of one licence with the expiry of another.       *)
(*                                                                         *)
(* The licences here are well formed and signed; one that is not is        *)
(* refused by Activate's first lines and changes nothing.                  *)
(***************************************************************************)
EXTENDS Naturals, FiniteSets

CONSTANTS
    Activators,   \* concurrent callers of the manager
    Licences,     \* what may be presented: records of tier, from, to, nonce
    MaxTime,      \* bound: the clock
    MaxRestarts,  \* bound: restarts
    MaxTries      \* bound: calls begun in one run

ASSUME LicencesAssumption ==
    Licences \subseteq [tier : {"free", "pro", "enterprise"}, from : Nat, to : Nat, nonce : Nat]

NoNonce == 0
Free == [tier |-> "free", from |-> 0, to |-> 0, nonce |-> NoNonce]   \* expired by its zero time

VARIABLES
    clock, restarts,
    usedNonces,
    cache,      \* the fields CanUse reads: tier, and to, the expiry
    call,       \* each call of Activate: where it is, and the licence it caches
    tries,
    timely,     \* history: licences this run found inside their window
    activated   \* history: how often this run accepted each licence

session == <<usedNonces, cache, call, tries, timely, activated>>
licence == <<clock, restarts, session>>

Rights(lic) == [tier |-> lic.tier, to |-> lic.to]
Idle == [at |-> "idle"]
Call(at, lic) == [at |-> at, lic |-> lic]

LicenceInit ==
    /\ clock = 1 /\ restarts = 0 /\ tries = 0
    /\ usedNonces = {} /\ cache = Rights(Free) /\ call = [a \in Activators |-> Idle]
    /\ timely = {} /\ activated = [l \in Licences |-> 0]

Goes(a, c) == call' = [call EXCEPT ![a] = c]

(* A slip: the nonce is remembered before the window is looked at. *)
CheckWindowLate(a, l) ==
    /\ call[a] = Idle /\ tries < MaxTries
    /\ tries' = tries + 1
    /\ usedNonces' = usedNonces \cup {l.nonce}
    /\ IF clock < l.from \/ clock > l.to
       THEN UNCHANGED <<call, timely>>
       ELSE Goes(a, Call("timely", l)) /\ timely' = timely \cup {l}
    /\ UNCHANGED <<clock, restarts, cache, activated>>

(* VerifyLicense: the window, on the clock read when the call came in.      *)
CheckWindow(a, l) ==
    /\ call[a] = Idle /\ tries < MaxTries
    /\ tries' = tries + 1
    /\ IF clock < l.from \/ clock > l.to
       THEN UNCHANGED <<call, timely>>
       ELSE Goes(a, Call("timely", l)) /\ timely' = timely \cup {l}
    /\ UNCHANGED <<clock, restarts, usedNonces, cache, activated>>

(* A slip: the nonce is looked up and stored in two steps. *)
TakeNonceInTwo(a) ==
    LET l == call[a].lic IN
    /\ \/ /\ call[a].at = "timely" /\ l.nonce # NoNonce /\ l.nonce \notin usedNonces
          /\ Goes(a, Call("unused", l)) /\ UNCHANGED <<usedNonces, activated>>
       \/ /\ call[a].at = "timely" /\ (l.nonce = NoNonce \/ l.nonce \in usedNonces)
          /\ Goes(a, Idle) /\ UNCHANGED <<usedNonces, activated>>
       \/ /\ call[a].at = "unused"
          /\ usedNonces' = usedNonces \cup {l.nonce}
          /\ activated' = [activated EXCEPT ![l] = @ + 1]
          /\ Goes(a, Call("accepted", l))
    /\ UNCHANGED <<clock, restarts, cache, tries, timely>>

(* VerifyLicense: a missing or known nonce refuses the licence; LoadOrStore *)
(* looks it up and stores it in one step.                                   *)
TakeNonce(a) ==
    LET l == call[a].lic IN
    /\ call[a].at = "timely"
    /\ IF l.nonce = NoNonce \/ l.nonce \in usedNonces
       THEN Goes(a, Idle) /\ UNCHANGED <<usedNonces, activated>>
       ELSE /\ usedNonces' = usedNonces \cup {l.nonce}
            /\ activated' = [activated EXCEPT ![l] = @ + 1]
            /\ Goes(a, Call("accepted", l))
    /\ UNCHANGED <<clock, restarts, cache, tries, timely>>

(* A slip: the licence is cached as soon as its window has been checked. *)
CacheEarly(a, field) ==
    LET l == call[a].lic
        next == IF field = "tier" THEN "to" ELSE "tier" IN
    /\ \/ call[a].at \in {"timely", "accepted"} /\ Goes(a, Call(next, l))
       \/ call[a].at = field /\ Goes(a, Idle)
    /\ cache' = [cache EXCEPT ![field] = l[field]]
    /\ UNCHANGED <<clock, restarts, usedNonces, tries, timely, activated>>

(* m.cache = info, one field after the other, in either order.              *)
CacheField(a, field) ==
    LET l == call[a].lic
        next == IF field = "tier" THEN "to" ELSE "tier" IN
    /\ \/ call[a].at = "accepted" /\ Goes(a, Call(next, l))
       \/ call[a].at = field /\ Goes(a, Idle)
    /\ cache' = [cache EXCEPT ![field] = l[field]]
    /\ UNCHANGED <<clock, restarts, usedNonces, tries, timely, activated>>

(* Deactivate caches the free licence in the same way; the nonce of the     *)
(* one it replaces stays known.                                             *)
Deactivate(a) ==
    /\ call[a] = Idle /\ tries < MaxTries
    /\ tries' = tries + 1
    /\ Goes(a, Call("accepted", Free))
    /\ UNCHANGED <<clock, restarts, usedNonces, cache, timely, activated>>

(* Init after the end of the process: nothing of a licence was kept.        *)
Reopen ==
    /\ restarts < MaxRestarts
    /\ restarts' = restarts + 1
    /\ usedNonces' = {} /\ cache' = Rights(Free) /\ call' = [a \in Activators |-> Idle]
    /\ tries' = 0 /\ timely' = {} /\ activated' = [l \in Licences |-> 0]
    /\ UNCHANGED clock

Pass == clock < MaxTime /\ clock' = clock + 1 /\ UNCHANGED <<restarts, session>>

LicenceNext ==
    \/ \E a \in Activators :
         \/ \E l \in Licences : CheckWindow(a, l)
         \/ TakeNonce(a) \/ Deactivate(a)
         \/ \E field \in {"tier", "to"} : CacheField(a, field)
    \/ Reopen \/ Pass

LicenceSpec == LicenceInit /\ [][LicenceNext]_licence

(* CanUse, for the features that are not free.                              *)
CanUse(feature) ==
    /\ clock <= cache.to
    /\ \/ feature = "smart_routing" /\ cache.tier \in {"pro", "enterprise"}
       \/ feature = "unlimited" /\ cache.tier = "enterprise"

-----------------------------------------------------------------------------
(* Properties *)

(* crypto.go:88: however its activations interleave, a licence is accepted  *)
(* at most once in the life of the process, and no two licences of one      *)
(* nonce are.                                                               *)
NonceOnce ==
    \A l, k \in Licences :
        /\ activated[l] <= 1
        /\ l # k /\ l.nonce = k.nonce => activated[l] + activated[k] <= 1

(* crypto.go:78-91: a licence presented outside its window stays usable for *)
(* the day it becomes valid: only one that passed the window takes its      *)
(* nonce.                                                                   *)
EarlyStaysUsable == usedNonces \subseteq {l.nonce : l \in timely}

(* security.go:86-104: a paid feature can be used only while some licence   *)
(* this process accepted grants it and some licence it accepted has not     *)
(* expired.  With the unguarded cache the two need not be the same.         *)
PaidIsLicensed ==
    \A feature \in {"smart_routing", "unlimited"} : CanUse(feature) =>
        /\ \E l \in Licences : activated[l] > 0 /\ l.tier = cache.tier
        /\ \E l \in Licences : activated[l] > 0 /\ clock <= l.to

=============================================================================
