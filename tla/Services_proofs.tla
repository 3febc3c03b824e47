-------------------------- MODULE Services_proofs --------------------------
(***************************************************************************)
(* The three services that keep no state in common: the licences, the rate *)
(* limiter and the metering of a stream, each proved about on its own.     *)
(***************************************************************************)
EXTENDS License, RateLimit, Metering, FiniteSetTheorems, TLAPS

-----------------------------------------------------------------------------
(***************************************************************************)
(* Licences, for any licences, callers, clock and number of restarts: no   *)
(* nonce is taken twice, none is taken by a licence outside its window,    *)
(* and what the unguarded cache grants is always accounted for by licences *)
(* that were accepted.                                                     *)
(***************************************************************************)

Accepted(l) == activated[l] > 0
Fields == {"tier", "to"}
Callings == [at : {"timely", "accepted"} \cup Fields, lic : Licences \cup {Free}]

LicenceTypes ==
    /\ clock \in Nat /\ clock >= 1
    /\ cache \in [tier : {"free", "pro", "enterprise"}, to : Nat]
    /\ call \in [Activators -> Callings \cup {Idle}]
    /\ timely \subseteq Licences
    /\ activated \in [Licences -> Nat]

(* Who is behind the window check is timely; who is behind the nonce check  *)
(* is accepted, unless it is the free licence of a Deactivate.              *)
Behind(a) ==
    /\ call[a].at = "timely" => call[a].lic \in timely
    /\ call[a].at \in {"accepted"} \cup Fields =>
         call[a].lic = Free \/ (call[a].lic \in Licences /\ Accepted(call[a].lic))

(* An accepted licence has taken its nonce.                                 *)
Taken == \A l \in Licences : Accepted(l) => l.nonce \in usedNonces

(* Each field of the cache alone is one of an accepted licence's, or free.  *)
CacheAccounted ==
    /\ cache.tier = "free" \/ \E l \in Licences : Accepted(l) /\ l.tier = cache.tier
    /\ cache.to = 0 \/ \E l \in Licences : Accepted(l) /\ l.to = cache.to

LicenceInv ==
    /\ LicenceTypes
    /\ NonceOnce /\ EarlyStaysUsable
    /\ \A a \in Activators : Behind(a)
    /\ Taken /\ CacheAccounted

-----------------------------------------------------------------------------
LEMMA FreeFields == Free.tier = "free" /\ Free.to = 0 /\ Rights(Free) = [tier |-> "free", to |-> 0]
  BY DEF Free, Rights

(* A process that starts knows no nonce and has accepted nothing. *)
LEMMA LicenceStart ==
    ASSUME usedNonces = {}, cache = Rights(Free), call = [a \in Activators |-> Idle],
           timely = {}, activated = [l \in Licences |-> 0], clock \in Nat, clock >= 1
    PROVE  LicenceInv
<1>1. LicenceTypes
  BY FreeFields DEF LicenceTypes
<1>2. NonceOnce /\ EarlyStaysUsable /\ Taken
  BY DEF NonceOnce, EarlyStaysUsable, Taken, Accepted
<1>3. \A a \in Activators : Behind(a)
  BY DEF Behind, Idle, Fields
<1>4. CacheAccounted
  BY FreeFields DEF CacheAccounted
<1> QED
  BY <1>1, <1>2, <1>3, <1>4 DEF LicenceInv

LEMMA WindowKeeps ==
    ASSUME LicenceInv, NEW a \in Activators, NEW l \in Licences, CheckWindow(a, l)
    PROVE  LicenceInv'
<1> USE DEF CheckWindow, Goes, Call
<1>1. LicenceTypes'
  BY DEF LicenceInv, LicenceTypes, Callings
<1>2. (NonceOnce /\ Taken /\ CacheAccounted)'
  BY DEF LicenceInv, NonceOnce, Taken, CacheAccounted, Accepted
<1>3. EarlyStaysUsable'
  BY DEF LicenceInv, EarlyStaysUsable
<1>4. ASSUME NEW b \in Activators PROVE Behind(b)'
  BY DEF LicenceInv, LicenceTypes, Behind, Accepted, Fields, Callings
<1> QED
  BY <1>1, <1>2, <1>3, <1>4 DEF LicenceInv

LEMMA NonceKeeps ==
    ASSUME LicenceInv, NEW a \in Activators, TakeNonce(a)
    PROVE  LicenceInv'
<1> DEFINE l == call[a].lic
<1> USE DEF TakeNonce, Goes, Call
<1>1. l \in timely /\ l \in Licences
  BY DEF LicenceInv, LicenceTypes, Behind
<1>2. CASE l.nonce = NoNonce \/ l.nonce \in usedNonces
  <2>1. UNCHANGED <<clock, cache, timely, activated, usedNonces>>
        /\ call' = [call EXCEPT ![a] = Idle]
    BY <1>2
  <2>2. (NonceOnce /\ EarlyStaysUsable /\ Taken /\ CacheAccounted)'
    BY <2>1 DEF LicenceInv, NonceOnce, EarlyStaysUsable, Taken, CacheAccounted, Accepted
  <2>3. LicenceTypes'
    BY <2>1 DEF LicenceInv, LicenceTypes
  <2>4. ASSUME NEW b \in Activators PROVE Behind(b)'
    BY <2>1 DEF LicenceInv, LicenceTypes, Behind, Accepted, Fields, Idle
  <2> QED
    BY <2>2, <2>3, <2>4 DEF LicenceInv
<1>3. CASE l.nonce # NoNonce /\ l.nonce \notin usedNonces
  <2>1. /\ UNCHANGED <<clock, cache, timely>>
        /\ usedNonces' = usedNonces \cup {l.nonce}
        /\ activated' = [activated EXCEPT ![l] = @ + 1]
        /\ call' = [call EXCEPT ![a] = [at |-> "accepted", lic |-> l]]
    BY <1>3
  <2>2. \A k \in Licences : k.nonce = l.nonce => activated[k] = 0
    BY <1>3 DEF LicenceInv, LicenceTypes, Taken, Accepted
  <2>3. activated' \in [Licences -> Nat] /\ activated'[l] = 1
        /\ \A k \in Licences : k # l => activated'[k] = activated[k]
    BY <1>1, <2>1, <2>2 DEF LicenceInv, LicenceTypes
  <2> HIDE DEF l
  <2>4. LicenceTypes'
    BY <1>1, <2>1, <2>3 DEF LicenceInv, LicenceTypes, Callings
  <2>5. NonceOnce'
    <3> SUFFICES ASSUME NEW j \in Licences, NEW k \in Licences
                 PROVE  /\ activated'[j] <= 1
                        /\ j # k /\ j.nonce = k.nonce => activated'[j] + activated'[k] <= 1
      BY DEF NonceOnce
    <3>1. /\ activated[j] <= 1
          /\ j # k /\ j.nonce = k.nonce => activated[j] + activated[k] <= 1
          /\ activated[j] \in Nat /\ activated[k] \in Nat
      BY DEF LicenceInv, LicenceTypes, NonceOnce
    <3> QED
      BY <2>2, <2>3, <3>1
  <2>6. EarlyStaysUsable'
    BY <1>1, <2>1 DEF LicenceInv, EarlyStaysUsable
  <2>7. \A k \in Licences : Accepted(k)' <=> Accepted(k) \/ k = l
    BY <1>1, <2>3 DEF Accepted
  <2>8. (Taken /\ CacheAccounted)'
    BY <2>1, <2>7 DEF LicenceInv, Taken, CacheAccounted
  <2>9. ASSUME NEW b \in Activators PROVE Behind(b)'
    BY <1>1, <2>1, <2>7 DEF LicenceInv, LicenceTypes, Behind, Fields
  <2> QED
    BY <2>4, <2>5, <2>6, <2>8, <2>9 DEF LicenceInv
<1> QED
  BY <1>2, <1>3

(* One field of the cache becomes that of an accepted licence, or free. *)
LEMMA CacheKeeps ==
    ASSUME LicenceInv, NEW a \in Activators, NEW field \in Fields, CacheField(a, field)
    PROVE  LicenceInv'
<1> DEFINE l == call[a].lic
<1> USE DEF CacheField, Goes, Call
<1>1. l = Free \/ (l \in Licences /\ Accepted(l))
  BY DEF LicenceInv, Behind, Fields
<1>2. l.tier \in {"free", "pro", "enterprise"} /\ l.to \in Nat
  BY <1>1, FreeFields, LicencesAssumption
<1>3. call' = [call EXCEPT ![a] = Idle]
      \/ \E f \in Fields : call' = [call EXCEPT ![a] = [at |-> f, lic |-> l]]
  BY DEF Fields
<1>4. cache' = IF field = "tier" THEN [cache EXCEPT !.tier = l.tier] ELSE [cache EXCEPT !.to = l.to]
  BY DEF Fields
<1>5. UNCHANGED <<clock, usedNonces, timely, activated>>
  OBVIOUS
<1> HIDE DEF l, CacheField
<1>6. LicenceTypes'
  <2>1. cache' \in [tier : {"free", "pro", "enterprise"}, to : Nat]
    BY <1>2, <1>4 DEF LicenceInv, LicenceTypes
  <2>2. call' \in [Activators -> Callings \cup {Idle}]
    BY <1>1, <1>3 DEF LicenceInv, LicenceTypes, Callings
  <2> QED
    BY <1>5, <2>1, <2>2 DEF LicenceInv, LicenceTypes
<1>7. (NonceOnce /\ EarlyStaysUsable /\ Taken)'
  BY <1>5 DEF LicenceInv, NonceOnce, EarlyStaysUsable, Taken, Accepted
<1>8. ASSUME NEW b \in Activators PROVE Behind(b)'
  BY <1>1, <1>3, <1>5 DEF LicenceInv, LicenceTypes, Behind, Accepted, Fields, Idle
<1>9. CacheAccounted'
  <2>1. /\ cache'.tier = cache.tier \/ cache'.tier = l.tier
        /\ cache'.to = cache.to \/ cache'.to = l.to
    BY <1>4 DEF LicenceInv, LicenceTypes
  <2> QED
    BY <1>1, <1>5, <2>1, FreeFields DEF LicenceInv, CacheAccounted, Accepted
<1> QED
  BY <1>6, <1>7, <1>8, <1>9 DEF LicenceInv

LEMMA DeactivateKeeps ==
    ASSUME LicenceInv, NEW a \in Activators, Deactivate(a)
    PROVE  LicenceInv'
<1> USE DEF Deactivate, Goes, Call
<1>1. LicenceTypes'
  BY DEF LicenceInv, LicenceTypes, Callings
<1>2. (NonceOnce /\ EarlyStaysUsable /\ Taken /\ CacheAccounted)'
  BY DEF LicenceInv, NonceOnce, EarlyStaysUsable, Taken, CacheAccounted, Accepted
<1>3. ASSUME NEW b \in Activators PROVE Behind(b)'
  BY DEF LicenceInv, LicenceTypes, Behind, Accepted, Fields
<1> QED
  BY <1>1, <1>2, <1>3 DEF LicenceInv

LEMMA IdleKeeps ==
    ASSUME LicenceInv, clock' \in Nat, clock' >= 1,
           UNCHANGED <<usedNonces, cache, call, timely, activated>>
    PROVE  LicenceInv'
  BY DEF LicenceInv, LicenceTypes, NonceOnce, EarlyStaysUsable, Behind, Taken, CacheAccounted, Accepted

LEMMA LicenceAlways == LicenceSpec => []LicenceInv
<1>1. LicenceInit => LicenceInv
  BY LicenceStart DEF LicenceInit
<1>2. LicenceInv /\ [LicenceNext]_licence => LicenceInv'
  <2> SUFFICES ASSUME LicenceInv, [LicenceNext]_licence PROVE LicenceInv'
    OBVIOUS
  <2>1. clock \in Nat /\ clock >= 1
    BY DEF LicenceInv, LicenceTypes
  <2>2. CASE Reopen
    <3>1. /\ usedNonces' = {} /\ cache' = Rights(Free) /\ call' = [a \in Activators |-> Idle]
          /\ timely' = {} /\ activated' = [l \in Licences |-> 0] /\ clock' = clock
      BY <2>2 DEF Reopen
    <3>2. LicenceTypes'
      BY <2>1, <3>1, FreeFields DEF LicenceTypes
    <3>3. (NonceOnce /\ EarlyStaysUsable /\ Taken)'
      BY <3>1 DEF NonceOnce, EarlyStaysUsable, Taken, Accepted
    <3>4. \A a \in Activators : Behind(a)'
      BY <3>1 DEF Behind, Idle, Fields
    <3>5. CacheAccounted'
      BY <3>1, FreeFields DEF CacheAccounted
    <3> QED
      BY <3>2, <3>3, <3>4, <3>5 DEF LicenceInv
  <2>3. CASE Pass
    BY <2>1, <2>3, IdleKeeps DEF Pass, session
  <2>4. CASE UNCHANGED licence
    BY <2>1, <2>4, IdleKeeps DEF licence, session
  <2> QED
    BY <2>2, <2>3, <2>4, WindowKeeps, NonceKeeps, CacheKeeps, DeactivateKeeps
       DEF LicenceNext, Fields
<1> QED
  BY <1>1, <1>2, PTL DEF LicenceSpec

-----------------------------------------------------------------------------
(* A licence is accepted at most once in the life of the process, and no    *)
(* two licences of one nonce are (crypto.go:88).                            *)
THEOREM NonceAlwaysOnce == LicenceSpec => []NonceOnce
<1>1. LicenceInv => NonceOnce
  BY DEF LicenceInv
<1> QED
  BY <1>1, LicenceAlways, PTL

(* A licence presented too early or too late keeps its nonce                *)
(* (crypto.go:78-91).                                                       *)
THEOREM EarlyAlwaysUsable == LicenceSpec => []EarlyStaysUsable
<1>1. LicenceInv => EarlyStaysUsable
  BY DEF LicenceInv
<1> QED
  BY <1>1, LicenceAlways, PTL

(* A paid feature can be used only while an accepted licence grants it and  *)
(* an accepted licence has not expired, although the cache may be torn      *)
(* (security.go:72, 86-104).                                                *)
THEOREM PaidAlwaysLicensed == LicenceSpec => []PaidIsLicensed
<1>1. LicenceInv => PaidIsLicensed
  <2> SUFFICES ASSUME LicenceInv, NEW feature \in {"smart_routing", "unlimited"}, CanUse(feature)
               PROVE  /\ \E l \in Licences : activated[l] > 0 /\ l.tier = cache.tier
                      /\ \E l \in Licences : activated[l] > 0 /\ clock <= l.to
    BY DEF PaidIsLicensed
  <2>1. cache.tier # "free" /\ clock <= cache.to
    BY DEF CanUse
  <2>2. cache.to # 0
    BY <2>1 DEF LicenceInv, LicenceTypes
  <2> QED
    BY <2>1, <2>2 DEF LicenceInv, CacheAccounted, Accepted
<1> QED
  BY <1>1, LicenceAlways, PTL

-----------------------------------------------------------------------------
(***************************************************************************)
(* However many first requests of a user or an address race, each gets     *)
(* exactly one bucket, and what a bucket of a user has given is accounted  *)
(* for: for any configuration and any number of requests.                  *)
(***************************************************************************)

Count == Nat \cup {NoBucket}

LimiterTypeOK ==
    /\ config \in [ipRate : Nat, ipBurst : Nat, userRate : Nat, userBurst : Nat]
    /\ users \in [Users -> Count] /\ ips \in [Addresses -> Count]
    /\ asking \in [Clients -> {NotAsking} \cup ((Users \cup {NoUser}) \X Origins)]
    /\ userTaken \in [Users -> Nat] /\ userRefills \in [Users -> Nat]
    /\ ipTaken \in [Addresses -> Nat] /\ ipRefills \in [Addresses -> Nat]

(* One bucket, and the tokens that have left and entered it.                *)
Balanced(bucket, burst, taken, refills) == taken + Tokens(bucket, burst) = burst + refills

UsersBalanced ==
    \A u \in Users : Balanced(users[u], config.userBurst, userTaken[u], userRefills[u])

IPsBalanced ==
    \A i \in Addresses : Balanced(ips[i], config.ipBurst, ipTaken[i], ipRefills[i])

LimiterInv == LimiterTypeOK /\ UsersBalanced /\ IPsBalanced

-----------------------------------------------------------------------------
(* One bucket *)

(* A bucket that is looked up holds a natural number of tokens, those it    *)
(* was counted for.                                                         *)
LEMMA LookUp ==
    ASSUME NEW bucket \in Count, NEW burst \in Nat
    PROVE  /\ LoadOrStore(bucket, burst) \in Nat
           /\ LoadOrStore(bucket, burst) = Tokens(bucket, burst)
  BY DEF LoadOrStore, Tokens, Count, NoBucket

LEMMA Take ==
    ASSUME NEW tokens \in Nat, NEW burst \in Nat, NEW taken \in Nat, NEW refills \in Nat,
           taken + tokens = burst + refills, tokens > 0
    PROVE  /\ tokens - 1 \in Count /\ taken + 1 \in Nat
           /\ Balanced(tokens - 1, burst, taken + 1, refills)
  BY DEF Balanced, Tokens, Count, NoBucket

LEMMA Keep ==
    ASSUME NEW tokens \in Nat, NEW burst \in Nat, NEW taken \in Nat, NEW refills \in Nat,
           taken + tokens = burst + refills
    PROVE  /\ tokens \in Count
           /\ Balanced(tokens, burst, taken, refills)
  BY DEF Balanced, Tokens, Count, NoBucket

LEMMA Refill ==
    ASSUME NEW bucket \in Count, NEW burst \in Nat, NEW taken \in Nat, NEW refills \in Nat,
           Balanced(bucket, burst, taken, refills), bucket # NoBucket
    PROVE  /\ bucket + 1 \in Count /\ refills + 1 \in Nat
           /\ Balanced(bucket + 1, burst, taken, refills + 1)
  BY DEF Balanced, Tokens, Count, NoBucket

-----------------------------------------------------------------------------
(* The invariant *)

LEMMA LimiterStart == LimiterInit => LimiterInv
<1> SUFFICES ASSUME LimiterInit PROVE LimiterInv
  OBVIOUS
<1>1. PICK given \in Configs : config = Config(given)
  BY DEF LimiterInit
<1>2. given \in [ipRate : Nat, ipBurst : Nat, userRate : Nat, userBurst : Nat]
      /\ DefaultConfig \in [ipRate : Nat, ipBurst : Nat, userRate : Nat, userBurst : Nat]
  BY LimiterAssumption
<1>3. config \in [ipRate : Nat, ipBurst : Nat, userRate : Nat, userBurst : Nat]
  BY <1>1, <1>2 DEF Config
<1>4. LimiterTypeOK
  BY <1>3 DEF LimiterInit, LimiterTypeOK, Count
<1>5. config.userBurst \in Nat /\ config.ipBurst \in Nat
  BY <1>3
<1>6. UsersBalanced
  BY <1>5 DEF LimiterInit, UsersBalanced, Balanced, Tokens
<1>7. IPsBalanced
  BY <1>5 DEF LimiterInit, IPsBalanced, Balanced, Tokens
<1> QED
  BY <1>4, <1>6, <1>7 DEF LimiterInv

(* A request asks the bucket of its user.                                   *)
LEMMA UserTakesStep ==
    ASSUME LimiterInv, NEW c \in Clients, NEW u \in Users, NEW i \in Origins,
           UserTakes(c, u, i)
    PROVE  LimiterInv'
<1> DEFINE tokens == LoadOrStore(users[u], config.userBurst)
<1>1. users[u] \in Count /\ config.userBurst \in Nat /\ userTaken[u] \in Nat
      /\ userRefills[u] \in Nat
  BY DEF LimiterInv, LimiterTypeOK
<1>2. tokens \in Nat /\ userTaken[u] + tokens = config.userBurst + userRefills[u]
  BY <1>1, LookUp DEF LimiterInv, UsersBalanced, Balanced
<1>3. CASE tokens > 0
  <2>1. users' = [users EXCEPT ![u] = tokens - 1]
        /\ userTaken' = [userTaken EXCEPT ![u] = userTaken[u] + 1]
        /\ asking' = [asking EXCEPT ![c] = <<u, i>>]
    BY <1>3 DEF UserTakes
  <2>2. tokens - 1 \in Count /\ userTaken[u] + 1 \in Nat
        /\ Balanced(tokens - 1, config.userBurst, userTaken[u] + 1, userRefills[u])
    BY <1>1, <1>2, <1>3, Take
  <2> HIDE DEF tokens
  <2>3. LimiterTypeOK'
    BY <2>1, <2>2 DEF UserTakes, LimiterInv, LimiterTypeOK
  <2>4. UsersBalanced'
    BY <2>1, <2>2 DEF UserTakes, LimiterInv, LimiterTypeOK, UsersBalanced
  <2>5. IPsBalanced'
    BY DEF UserTakes, LimiterInv, IPsBalanced
  <2> QED
    BY <2>3, <2>4, <2>5 DEF LimiterInv
<1>4. CASE ~(tokens > 0)
  <2>1. users' = [users EXCEPT ![u] = tokens] /\ UNCHANGED <<userTaken, asking>>
    BY <1>4 DEF UserTakes
  <2>2. tokens \in Count
        /\ Balanced(tokens, config.userBurst, userTaken[u], userRefills[u])
    BY <1>1, <1>2, Keep
  <2> HIDE DEF tokens
  <2>3. LimiterTypeOK'
    BY <2>1, <2>2 DEF UserTakes, LimiterInv, LimiterTypeOK
  <2>4. UsersBalanced'
    BY <2>1, <2>2 DEF UserTakes, LimiterInv, LimiterTypeOK, UsersBalanced
  <2>5. IPsBalanced'
    BY DEF UserTakes, LimiterInv, IPsBalanced
  <2> QED
    BY <2>3, <2>4, <2>5 DEF LimiterInv
<1> QED
  BY <1>3, <1>4

(* A request asks the bucket of its address.                                *)
LEMMA AddressTakesStep ==
    ASSUME LimiterInv, NEW c \in Clients, AddressTakes(c)
    PROVE  LimiterInv'
<1> DEFINE i == asking[c][2]
           tokens == LoadOrStore(ips[i], config.ipBurst)
<1>1. asking[c] \in (Users \cup {NoUser}) \X Origins
  BY DEF AddressTakes, LimiterInv, LimiterTypeOK
<1>2. i \in Addresses
  BY <1>1 DEF AddressTakes, Origins
<1>3. ips[i] \in Count /\ config.ipBurst \in Nat /\ ipTaken[i] \in Nat /\ ipRefills[i] \in Nat
  BY <1>2 DEF LimiterInv, LimiterTypeOK
<1>4. tokens \in Nat /\ ipTaken[i] + tokens = config.ipBurst + ipRefills[i]
  BY <1>2, <1>3, LookUp DEF LimiterInv, IPsBalanced, Balanced
<1>5. asking' = [asking EXCEPT ![c] = NotAsking]
  BY DEF AddressTakes
<1>6. CASE tokens > 0
  <2>1. ips' = [ips EXCEPT ![i] = tokens - 1]
        /\ ipTaken' = [ipTaken EXCEPT ![i] = ipTaken[i] + 1]
    BY <1>6 DEF AddressTakes
  <2>2. tokens - 1 \in Count /\ ipTaken[i] + 1 \in Nat
        /\ Balanced(tokens - 1, config.ipBurst, ipTaken[i] + 1, ipRefills[i])
    BY <1>3, <1>4, <1>6, Take
  <2> HIDE DEF tokens, i
  <2>3. LimiterTypeOK'
    BY <1>2, <1>5, <2>1, <2>2 DEF AddressTakes, LimiterInv, LimiterTypeOK
  <2>4. IPsBalanced'
    BY <1>2, <2>1, <2>2 DEF AddressTakes, LimiterInv, LimiterTypeOK, IPsBalanced
  <2>5. UsersBalanced'
    BY DEF AddressTakes, LimiterInv, UsersBalanced
  <2> QED
    BY <2>3, <2>4, <2>5 DEF LimiterInv
<1>7. CASE ~(tokens > 0)
  <2>1. ips' = [ips EXCEPT ![i] = tokens] /\ UNCHANGED ipTaken
    BY <1>7 DEF AddressTakes
  <2>2. tokens \in Count
        /\ Balanced(tokens, config.ipBurst, ipTaken[i], ipRefills[i])
    BY <1>3, <1>4, Keep
  <2> HIDE DEF tokens, i
  <2>3. LimiterTypeOK'
    BY <1>2, <1>5, <2>1, <2>2 DEF AddressTakes, LimiterInv, LimiterTypeOK
  <2>4. IPsBalanced'
    BY <1>2, <2>1, <2>2 DEF AddressTakes, LimiterInv, LimiterTypeOK, IPsBalanced
  <2>5. UsersBalanced'
    BY DEF AddressTakes, LimiterInv, UsersBalanced
  <2> QED
    BY <2>3, <2>4, <2>5 DEF LimiterInv
<1> QED
  BY <1>6, <1>7

(* Time brings a bucket a token.                                            *)
LEMMA UserRefillStep ==
    ASSUME LimiterInv, NEW u \in Users, UserRefill(u)
    PROVE  LimiterInv'
<1>1. users[u] \in Count /\ config.userBurst \in Nat /\ userTaken[u] \in Nat
      /\ userRefills[u] \in Nat
  BY DEF LimiterInv, LimiterTypeOK
<1>2. users[u] + 1 \in Count /\ userRefills[u] + 1 \in Nat
      /\ Balanced(users[u] + 1, config.userBurst, userTaken[u], userRefills[u] + 1)
  BY <1>1, Refill DEF LimiterInv, UsersBalanced, UserRefill
<1>3. users' = [users EXCEPT ![u] = users[u] + 1]
      /\ userRefills' = [userRefills EXCEPT ![u] = userRefills[u] + 1]
  BY DEF UserRefill
<1>4. LimiterTypeOK'
  BY <1>2, <1>3 DEF UserRefill, LimiterInv, LimiterTypeOK
<1>5. UsersBalanced'
  BY <1>2, <1>3 DEF UserRefill, LimiterInv, LimiterTypeOK, UsersBalanced
<1>6. IPsBalanced'
  BY DEF UserRefill, LimiterInv, IPsBalanced
<1> QED
  BY <1>4, <1>5, <1>6 DEF LimiterInv

LEMMA IPRefillStep ==
    ASSUME LimiterInv, NEW i \in Addresses, IPRefill(i)
    PROVE  LimiterInv'
<1>1. ips[i] \in Count /\ config.ipBurst \in Nat /\ ipTaken[i] \in Nat /\ ipRefills[i] \in Nat
  BY DEF LimiterInv, LimiterTypeOK
<1>2. ips[i] + 1 \in Count /\ ipRefills[i] + 1 \in Nat
      /\ Balanced(ips[i] + 1, config.ipBurst, ipTaken[i], ipRefills[i] + 1)
  BY <1>1, Refill DEF LimiterInv, IPsBalanced, IPRefill
<1>3. ips' = [ips EXCEPT ![i] = ips[i] + 1]
      /\ ipRefills' = [ipRefills EXCEPT ![i] = ipRefills[i] + 1]
  BY DEF IPRefill
<1>4. LimiterTypeOK'
  BY <1>2, <1>3 DEF IPRefill, LimiterInv, LimiterTypeOK
<1>5. IPsBalanced'
  BY <1>2, <1>3 DEF IPRefill, LimiterInv, LimiterTypeOK, IPsBalanced
<1>6. UsersBalanced'
  BY DEF IPRefill, LimiterInv, UsersBalanced
<1> QED
  BY <1>4, <1>5, <1>6 DEF LimiterInv

LEMMA LimiterStep == LimiterInv /\ [LimiterNext]_limiter => LimiterInv'
<1> SUFFICES ASSUME LimiterInv, [LimiterNext]_limiter PROVE LimiterInv'
  OBVIOUS
<1>1. ASSUME NEW c \in Clients, AddressAbsent(c) \/ \E i \in Origins : Anonymous(c, i)
      PROVE  LimiterInv'
  BY <1>1 DEF Anonymous, AddressAbsent, LimiterInv, LimiterTypeOK, UsersBalanced, IPsBalanced
<1>2. ASSUME UNCHANGED limiter PROVE LimiterInv'
  BY <1>2 DEF limiter, LimiterInv, LimiterTypeOK, UsersBalanced, IPsBalanced
<1> QED
  BY <1>1, <1>2, UserTakesStep, AddressTakesStep, UserRefillStep, IPRefillStep DEF LimiterNext

-----------------------------------------------------------------------------
(* A user and an address get exactly their burst and what time brings,      *)
(* whoever creates the bucket (limiter.go:41, 49).                          *)
THEOREM RatesAlwaysKept == LimiterSpec => []WithinRates
<1>1. LimiterInv => WithinRates
  BY DEF LimiterInv, UsersBalanced, IPsBalanced, Balanced, WithinRates
<1> QED
  BY <1>1, LimiterStart, LimiterStep, PTL DEF LimiterSpec

-----------------------------------------------------------------------------
(* Where a user's tokens went *)

UserPays(u) == userTaken[u] = admitted[u] + refused[u] + Cardinality(Between(u))

PaysInv ==
    /\ LimiterTypeOK
    /\ admitted \in [Users -> Nat] /\ refused \in [Users -> Nat]
    /\ \A u \in Users : UserPays(u)

LEMMA BetweenFinite ==
    ASSUME NEW u
    PROVE  IsFiniteSet(Between(u)) /\ Cardinality(Between(u)) \in Nat
<1>1. Between(u) \subseteq Clients /\ IsFiniteSet(Clients)
  BY LimiterAssumption DEF Between
<1> QED
  BY <1>1, FS_Subset, FS_CardinalityType

(* A request that goes between the buckets adds one to its user alone.      *)
LEMMA BetweenEnter ==
    ASSUME LimiterTypeOK, NEW c \in Clients, NEW u \in Users \cup {NoUser}, NEW i \in Origins,
           asking[c] = NotAsking, asking' = [asking EXCEPT ![c] = <<u, i>>], NEW v \in Users
    PROVE  Cardinality(Between(v)') = Cardinality(Between(v)) + (IF v = u THEN 1 ELSE 0)
<1>1. <<u, i>> # NotAsking /\ <<u, i>>[1] = u
  BY DEF NotAsking
<1>2. asking'[c] = <<u, i>> /\ \A d \in Clients \ {c} : asking'[d] = asking[d]
  BY DEF LimiterTypeOK
<1>3. c \notin Between(v)
  BY DEF Between
<1>4. CASE v = u
  <2>1. Between(v)' = Between(v) \cup {c}
    BY <1>1, <1>2, <1>4 DEF Between
  <2> QED
    BY <1>3, <1>4, <2>1, BetweenFinite, FS_AddElement
<1>5. CASE v # u
  <2>1. Between(v)' = Between(v)
    BY <1>1, <1>2, <1>3, <1>5 DEF Between
  <2> QED
    BY <1>5, <2>1, BetweenFinite
<1> QED
  BY <1>4, <1>5

(* A request that has been answered takes one from its user alone.          *)
LEMMA BetweenLeave ==
    ASSUME LimiterTypeOK, NEW c \in Clients,
           asking[c] # NotAsking, asking' = [asking EXCEPT ![c] = NotAsking], NEW v \in Users
    PROVE  Cardinality(Between(v)) = Cardinality(Between(v)') + (IF v = asking[c][1] THEN 1 ELSE 0)
<1>1. asking'[c] = NotAsking /\ \A d \in Clients \ {c} : asking'[d] = asking[d]
  BY DEF LimiterTypeOK
<1>2. CASE v = asking[c][1]
  <2>1. c \in Between(v) /\ Between(v)' = Between(v) \ {c}
    BY <1>1, <1>2 DEF Between
  <2>2. Cardinality(Between(v) \ {c}) = Cardinality(Between(v)) - 1
    BY <2>1, BetweenFinite, FS_RemoveElement
  <2> QED
    BY <1>2, <2>1, <2>2, BetweenFinite
<1>3. CASE v # asking[c][1]
  <2>1. Between(v)' = Between(v)
    BY <1>1, <1>3 DEF Between
  <2> QED
    BY <1>3, <2>1, BetweenFinite
<1> QED
  BY <1>2, <1>3

LEMMA PaysStart == LimiterInit => PaysInv
<1> SUFFICES ASSUME LimiterInit PROVE PaysInv
  OBVIOUS
<1>1. LimiterTypeOK
  BY LimiterStart DEF LimiterInv
<1>2. ASSUME NEW u \in Users PROVE UserPays(u)
  <2>1. Between(u) = {}
    BY DEF LimiterInit, Between
  <2>2. Cardinality(Between(u)) = 0
    BY <2>1, FS_EmptySet
  <2> QED
    BY <2>2 DEF LimiterInit, UserPays
<1> QED
  BY <1>1, <1>2 DEF PaysInv, LimiterInit

LEMMA PaysUserTakes ==
    ASSUME PaysInv, NEW c \in Clients, NEW u \in Users, NEW i \in Origins,
           UserTakes(c, u, i), NEW v \in Users
    PROVE  UserPays(v)'
<1> DEFINE tokens == LoadOrStore(users[u], config.userBurst)
<1>1. UserPays(v) /\ userTaken[v] \in Nat /\ admitted[v] \in Nat /\ refused[v] \in Nat
      /\ Cardinality(Between(v)) \in Nat
  BY BetweenFinite DEF PaysInv, LimiterTypeOK
<1>2. CASE tokens > 0
  <2>1. asking[c] = NotAsking /\ asking' = [asking EXCEPT ![c] = <<u, i>>]
        /\ userTaken' = [userTaken EXCEPT ![u] = userTaken[u] + 1]
    BY <1>2 DEF UserTakes
  <2>2. Cardinality(Between(v)') = Cardinality(Between(v)) + (IF v = u THEN 1 ELSE 0)
    BY <2>1, BetweenEnter DEF PaysInv
  <2>3. userTaken'[v] = userTaken[v] + (IF v = u THEN 1 ELSE 0)
    BY <2>1, <1>1 DEF PaysInv, LimiterTypeOK
  <2> QED
    BY <1>1, <2>2, <2>3 DEF UserTakes, UserPays
<1>3. CASE ~(tokens > 0)
  BY <1>1, <1>3 DEF UserTakes, UserPays, Between
<1> QED
  BY <1>2, <1>3

LEMMA PaysAddressTakes ==
    ASSUME PaysInv, NEW c \in Clients, AddressTakes(c) \/ AddressAbsent(c), NEW v \in Users
    PROVE  UserPays(v)' /\ admitted' \in [Users -> Nat] /\ refused' \in [Users -> Nat]
<1> DEFINE u == asking[c][1]
<1>1. UserPays(v) /\ userTaken[v] \in Nat /\ admitted[v] \in Nat /\ refused[v] \in Nat
      /\ Cardinality(Between(v)) \in Nat /\ Cardinality(Between(v)') \in Nat
  <2>1. Between(v)' \subseteq Clients /\ IsFiniteSet(Clients)
    BY LimiterAssumption DEF Between
  <2>2. Cardinality(Between(v)') \in Nat
    BY <2>1, FS_Subset, FS_CardinalityType
  <2> QED
    BY <2>2, BetweenFinite DEF PaysInv, LimiterTypeOK
<1>2. Cardinality(Between(v)) = Cardinality(Between(v)') + (IF v = u THEN 1 ELSE 0)
  BY BetweenLeave DEF PaysInv, AddressTakes, AddressAbsent
<1>3. u \in Users \cup {NoUser} /\ NoUser \notin Users
  BY LimiterAssumption DEF AddressTakes, AddressAbsent, PaysInv, LimiterTypeOK
<1>4. ASSUME NEW count \in [Users -> Nat]
      PROVE  /\ Counted(count, u) \in [Users -> Nat]
             /\ Counted(count, u)[v] = count[v] + (IF v = u THEN 1 ELSE 0)
  <2> HIDE DEF u
  <2>1. CASE u = NoUser
    BY <2>1, <1>3 DEF Counted
  <2>2. CASE u \in Users
    BY <2>2, <1>3 DEF Counted
  <2> QED
    BY <2>1, <2>2, <1>3
<1>5. userTaken' = userTaken
  BY DEF AddressTakes, AddressAbsent
<1>6. \/ admitted' = Counted(admitted, u) /\ refused' = refused
      \/ admitted' = admitted /\ refused' = Counted(refused, u)
  BY DEF AddressTakes, AddressAbsent
<1> HIDE DEF u
<1> QED
  BY <1>1, <1>2, <1>4, <1>5, <1>6 DEF PaysInv, UserPays

LEMMA PaysStep == LimiterInv /\ PaysInv /\ [LimiterNext]_limiter => PaysInv'
<1> SUFFICES ASSUME LimiterInv, PaysInv, [LimiterNext]_limiter PROVE PaysInv'
  OBVIOUS
<1>1. LimiterTypeOK'
  BY LimiterStep DEF LimiterInv
<1>2. ASSUME NEW c \in Clients, NEW u \in Users, NEW i \in Origins, UserTakes(c, u, i)
      PROVE  PaysInv'
  BY <1>1, <1>2, PaysUserTakes DEF PaysInv, UserTakes
<1>3. ASSUME NEW c \in Clients, AddressTakes(c) \/ AddressAbsent(c) PROVE PaysInv'
  <2>1. admitted' \in [Users -> Nat] /\ refused' \in [Users -> Nat]
    <3>1. CASE Users = {}
      BY <3>1, <1>3, LimiterAssumption DEF PaysInv, AddressTakes, AddressAbsent, Counted, LimiterTypeOK
    <3>2. CASE Users # {}
      BY <3>2, <1>3, PaysAddressTakes
    <3> QED
      BY <3>1, <3>2
  <2> QED
    BY <1>1, <1>3, <2>1, PaysAddressTakes DEF PaysInv
<1>4. ASSUME NEW c \in Clients, NEW i \in Origins, Anonymous(c, i) PROVE PaysInv'
  <2>1. ASSUME NEW v \in Users PROVE UserPays(v)'
    <3>1. v # NoUser
      BY LimiterAssumption
    <3>2. asking[c] = NotAsking /\ asking' = [asking EXCEPT ![c] = <<NoUser, i>>]
      BY <1>4 DEF Anonymous
    <3>3. Cardinality(Between(v)') = Cardinality(Between(v)) + (IF v = NoUser THEN 1 ELSE 0)
      BY <3>2, BetweenEnter DEF PaysInv
    <3>4. Cardinality(Between(v)') = Cardinality(Between(v))
      BY <3>1, <3>3, BetweenFinite
    <3> QED
      BY <1>4, <3>4 DEF Anonymous, PaysInv, UserPays
  <2> QED
    BY <1>1, <1>4, <2>1 DEF Anonymous, PaysInv
<1>5. ASSUME NEW u \in Users, UserRefill(u) PROVE PaysInv'
  BY <1>1, <1>5 DEF UserRefill, PaysInv, UserPays, Between
<1>6. ASSUME NEW i \in Addresses, IPRefill(i) PROVE PaysInv'
  BY <1>1, <1>6 DEF IPRefill, PaysInv, UserPays, Between
<1>7. ASSUME UNCHANGED limiter PROVE PaysInv'
  BY <1>1, <1>7 DEF limiter, PaysInv, UserPays, Between
<1> QED
  BY <1>2, <1>3, <1>4, <1>5, <1>6, <1>7 DEF LimiterNext

(* A token that a user's bucket has given was for a request let through,    *)
(* for one refused for its address, or for one between the buckets          *)
(* (limiter.go:39-53).                                                      *)
THEOREM UserAlwaysPays == LimiterSpec => []UserPaysForAddress
<1>1. PaysInv => UserPaysForAddress
  BY DEF PaysInv, UserPays, UserPaysForAddress
<1> QED
  BY <1>1, LimiterStart, LimiterStep, PaysStart, PaysStep, PTL DEF LimiterSpec

-----------------------------------------------------------------------------
(***************************************************************************)
(* Why a hold covers its stream, and what the rule of thumb counts, for    *)
(* any prices, lengths, encoders, cap, number of streams and of chunks.    *)
(***************************************************************************)

(* Any table in force prices in natural numbers. *)
Priced == prices \in [DOMAIN prices -> Nat]

(* Four characters a token, rounded up once a chunk, when no token was      *)
(* counted any other way.                                                   *)
RoughlyCounted(m) ==
    m.rough => m.text <= 4 * m.tokens /\ 4 * m.tokens <= m.text + 3 * m.chunks

(* One stream: at an unchanged price its chunks cost no more than all of    *)
(* its tokens together, and the hold is the price of the held tokens.       *)
Within(m) ==
    /\ m.steady => 1000 * m.cost <= m.tokens * m.unit
    /\ m.hold = (HeldTokens * m.unit) \div 1000

MeteringInv ==
    /\ Priced
    /\ meter \in [Streams -> Meters]
    /\ \A s \in Streams : Within(meter[s]) /\ RoughlyCounted(meter[s])

-----------------------------------------------------------------------------
(* Arithmetic *)

(* A division by a thousand loses less than one.                            *)
LEMMA Division ==
    ASSUME NEW x \in Nat
    PROVE  /\ x \div 1000 \in Nat
           /\ 1000 * (x \div 1000) <= x
           /\ x <= 1000 * (x \div 1000) + 999
  OBVIOUS

LEMMA Quotient ==
    ASSUME NEW c \in Nat, NEW x \in Nat, 1000 * c <= x
    PROVE  c <= x \div 1000
  OBVIOUS

LEMMA Product ==
    ASSUME NEW n \in Nat, NEW p \in Nat
    PROVE  n * p \in Nat
  OBVIOUS

LEMMA Distribute ==
    ASSUME NEW n \in Nat, NEW k \in Nat, NEW p \in Nat
    PROVE  (n + k) * p = n * p + k * p
  OBVIOUS

LEMMA Monotone ==
    ASSUME NEW n \in Nat, NEW k \in Nat, NEW p \in Nat, n <= k
    PROVE  n * p <= k * p
<1>1. PICK d \in Nat : k = n + d
  <2> DEFINE d == k - n
  <2>1. d \in Nat /\ k = n + d
    OBVIOUS
  <2> QED
    BY <2>1
<1>2. k * p = n * p + d * p
  BY <1>1, Distribute
<1> QED
  BY <1>1, <1>2, Product

-----------------------------------------------------------------------------
(* The invariant *)

(* A price is a natural number, whichever entry it comes from.              *)
LEMMA PriceType ==
    ASSUME Priced, NEW model
    PROVE  Price(model) \in Nat
  BY DEF Priced, Price

(* A count of tokens is a natural number, estimated or exact.               *)
LEMMA CountType ==
    ASSUME NEW model, NEW length \in Lengths, NEW n \in Calculate(model, length)
    PROVE  n \in Nat
<1>1. length \in Nat /\ MaxTokenLimit \in Nat
  BY MeteringAssumption
<1> QED
  BY <1>1 DEF Calculate, EstimateFallback, Encode, AtMost

(* The rule of thumb for one chunk, at and below the limit of a call: the   *)
(* limit on the tokens cuts in exactly where the limit on the text does.    *)
LEMMA RuleOfThumb ==
    ASSUME NEW length \in Nat, NEW limit \in Nat
    PROVE  LET n == AtMost((length + 3) \div 4, limit)
               text == AtMost(length, 4 * limit)
           IN  n \in Nat /\ text \in Nat /\ text <= 4 * n /\ 4 * n <= text + 3
<1> DEFINE q == (length + 3) \div 4
<1>1. q \in Nat /\ 4 * q <= length + 3 /\ length <= 4 * q
  OBVIOUS
<1> HIDE DEF q
<1>2. CASE q <= limit
  <2>1. AtMost(q, limit) = q /\ AtMost(length, 4 * limit) = length
    BY <1>1, <1>2 DEF AtMost
  <2> QED
    BY <1>1, <2>1 DEF q
<1>3. CASE q > limit
  <2>1. length >= 4 * limit
    BY <1>1, <1>3
  <2>2. AtMost(q, limit) = limit /\ AtMost(length, 4 * limit) = 4 * limit
    BY <1>1, <1>3, <2>1 DEF AtMost
  <2> QED
    BY <2>2 DEF q
<1> QED
  BY <1>1, <1>2, <1>3

(* The record of a stream keeps its type when its fields get values of       *)
(* theirs.                                                                  *)
LEMMA Opened ==
    ASSUME NEW model \in Models, NEW p \in Nat, NEW h \in Nat
    PROVE  [Unmetered EXCEPT !.open = TRUE, !.model = model, !.unit = p, !.hold = h] \in Meters
<1>1. Unmetered \in Meters
  BY DEF Unmetered, Meters
<1>2. ASSUME NEW m \in Meters
      PROVE  [m EXCEPT !.open = TRUE, !.model = model, !.unit = p, !.hold = h] \in Meters
  BY Zenon DEF Meters
<1> QED
  BY <1>1, <1>2

LEMMA Charged ==
    ASSUME NEW m \in Meters, NEW cost \in Nat, NEW text \in Nat, NEW chunks \in Nat,
           NEW tokens \in Nat, NEW rough \in BOOLEAN, NEW steady \in BOOLEAN
    PROVE  [m EXCEPT !.cost = cost, !.text = text, !.chunks = chunks, !.tokens = tokens,
                     !.rough = rough, !.steady = steady] \in Meters
  BY Zenon DEF Meters

LEMMA MeteringStart == MeteringInit => MeteringInv
<1> SUFFICES ASSUME MeteringInit PROVE MeteringInv
  OBVIOUS
<1>1. Priced
  <2>1. PICK table \in PriceTables : prices = WithDefault(table)
    BY DEF MeteringInit
  <2>2. table \in [DOMAIN table -> Nat] /\ DefaultPrice \in Nat
    BY MeteringAssumption
  <2> QED
    BY <2>1, <2>2 DEF Priced, WithDefault
<1>2. Unmetered \in Meters
  BY DEF Unmetered, Meters
<1>3. Within(Unmetered) /\ RoughlyCounted(Unmetered)
  BY DEF Unmetered, Within, RoughlyCounted, HeldTokens
<1> QED
  BY <1>1, <1>2, <1>3 DEF MeteringInit, MeteringInv

(* A stream that begins is within its bounds.                               *)
LEMMA MeterStep ==
    ASSUME MeteringInv, NEW s \in Streams, NEW target \in Models, NEW model \in Models,
           Meter(s, target, model)
    PROVE  MeteringInv'
<1> DEFINE p == Price(target)
           h == CalculateCost(p, HeldTokens)
           m == [Unmetered EXCEPT !.open = TRUE, !.model = model, !.unit = p, !.hold = h]
<1>1. p \in Nat
  BY PriceType DEF MeteringInv
<1>2. (HeldTokens * p) \div 1000 \in Nat
  BY <1>1 DEF HeldTokens
<1>3. m \in Meters
  <2>1. h \in Nat
    BY <1>2 DEF CalculateCost
  <2> HIDE DEF p, h
  <2> QED
    BY <2>1, <1>1, Opened, Zenon
<1>4. Within(m) /\ RoughlyCounted(m)
  BY <1>1, <1>2 DEF Unmetered, Within, RoughlyCounted, CalculateCost
<1>5. meter' = [meter EXCEPT ![s] = m] /\ prices' = prices
  BY DEF Meter
<1> QED
  BY <1>3, <1>4, <1>5 DEF MeteringInv, Priced

(* A chunk keeps its stream within its bounds.                              *)
LEMMA ChunkStep ==
    ASSUME MeteringInv, NEW s \in Streams, NEW length \in Lengths, Chunk(s, length)
    PROVE  MeteringInv'
<1> DEFINE m == meter[s]
           p == Price(m.model)
<1>1. PICK n \in Calculate(m.model, length) :
         meter' = [meter EXCEPT ![s] =
           [m EXCEPT !.cost = @ + CalculateCost(p, n),
                     !.text = @ + AtMost(length, 4 * MaxTokenLimit),
                     !.chunks = @ + 1, !.tokens = @ + n,
                     !.rough = @ /\ m.model \notin encoders,
                     !.steady = @ /\ p = m.unit]]
  BY DEF Chunk
<1> DEFINE x == n * p
           c == x \div 1000
           t == AtMost(length, 4 * MaxTokenLimit)
           rough == m.rough /\ m.model \notin encoders
           steady == m.steady /\ p = m.unit
           cost == m.cost + c
           text == m.text + t
           chunks == m.chunks + 1
           tokens == m.tokens + n
           next == [m EXCEPT !.cost = cost, !.text = text, !.chunks = chunks, !.tokens = tokens,
                             !.rough = rough, !.steady = steady]
<1>2. m \in Meters /\ Within(m)
  BY DEF MeteringInv
<1>3. p \in Nat /\ n \in Nat
  BY PriceType, CountType DEF MeteringInv
<1>4. x \in Nat
  BY <1>3, Product
<1>5. c \in Nat /\ 1000 * c <= x /\ x <= 1000 * c + 999
  BY <1>4, Division
<1>6. t \in Nat
  BY MeteringAssumption DEF AtMost
<1>7. next \in Meters
  <2>1. rough \in BOOLEAN /\ steady \in BOOLEAN
    OBVIOUS
  <2>2. m.cost \in Nat /\ m.text \in Nat /\ m.chunks \in Nat /\ m.tokens \in Nat
    BY <1>2 DEF Meters
  <2>3. cost \in Nat /\ text \in Nat /\ chunks \in Nat /\ tokens \in Nat
    <3> HIDE DEF x, c, t, m
    <3> QED
      BY <2>2, <1>3, <1>4, <1>5, <1>6
  <2> HIDE DEF cost, text, chunks, tokens, rough, steady, m
  <2> QED
    BY <2>1, <2>3, <1>2, Charged, ZenonT(30)
<1>8. Within(next)
  <2>1. next.cost = m.cost + c /\ next.tokens = m.tokens + n /\ next.unit = m.unit
        /\ next.hold = m.hold /\ next.steady = (m.steady /\ p = m.unit)
    <3> HIDE DEF x, c, t, p
    <3> QED
      BY <1>2 DEF Meters
  <2>2. m.cost \in Nat /\ m.tokens \in Nat /\ m.unit \in Nat
    BY <1>2 DEF Meters
  <2>3. (m.steady => 1000 * m.cost <= m.tokens * m.unit)
        /\ m.hold = (HeldTokens * m.unit) \div 1000
    BY <1>2 DEF Within
  <2>4. ASSUME next.steady PROVE 1000 * next.cost <= next.tokens * next.unit
    <3>1. m.steady /\ p = m.unit
      BY <2>1, <2>4
    <3>2. (m.tokens + n) * m.unit = m.tokens * m.unit + n * m.unit
      BY <2>2, <1>3, Distribute
    <3> DEFINE y == m.tokens * m.unit
    <3>3. y \in Nat /\ x = n * m.unit /\ next.tokens * next.unit = y + x
      BY <2>1, <2>2, <3>1, <3>2, Product
    <3>4. 1000 * m.cost <= y /\ next.cost = m.cost + c
      BY <2>1, <2>3, <3>1
    <3> HIDE DEF y, x, c, next, m
    <3> QED
      BY <2>2, <3>3, <3>4, <1>4, <1>5
  <2> QED
    BY <2>1, <2>3, <2>4 DEF Within
<1>9. meter' = [meter EXCEPT ![s] = next] /\ prices' = prices
  BY <1>1, ZenonT(30) DEF Chunk, CalculateCost
<1>10. RoughlyCounted(next)
  <2>1. next.rough = rough /\ next.text = m.text + t /\ next.tokens = m.tokens + n
        /\ next.chunks = m.chunks + 1
    <3> HIDE DEF x, c, t, p, rough
    <3> QED
      BY <1>2 DEF Meters
  <2>2. m.text \in Nat /\ m.tokens \in Nat /\ m.chunks \in Nat
    BY <1>2 DEF Meters
  <2>3. ASSUME rough PROVE t <= 4 * n /\ 4 * n <= t + 3
    <3>1. n = AtMost((length + 3) \div 4, MaxTokenLimit)
      BY <2>3 DEF Calculate, EstimateFallback
    <3> QED
      BY <3>1, RuleOfThumb, MeteringAssumption
  <2>4. ASSUME rough PROVE m.text <= 4 * m.tokens /\ 4 * m.tokens <= m.text + 3 * m.chunks
    BY <2>4 DEF MeteringInv, RoughlyCounted
  <2>5. ASSUME rough
        PROVE  next.text <= 4 * next.tokens /\ 4 * next.tokens <= next.text + 3 * next.chunks
    <3> HIDE DEF x, c, t, p, next, m
    <3> QED
      BY <2>1, <2>2, <2>3, <2>4, <2>5, <1>3, <1>6
  <2> HIDE DEF next, rough
  <2> QED
    BY <2>1, <2>5 DEF RoughlyCounted
<1> HIDE DEF next
<1> QED
  BY <1>7, <1>8, <1>9, <1>10 DEF MeteringInv, Priced

LEMMA MeteringStep == MeteringInv /\ [MeteringNext]_metering => MeteringInv'
<1> SUFFICES ASSUME MeteringInv, [MeteringNext]_metering PROVE MeteringInv'
  OBVIOUS
<1>1. ASSUME NEW table \in PriceTables, UpdatePrices(table) PROVE MeteringInv'
  BY <1>1, MeteringAssumption DEF UpdatePrices, MeteringInv, Priced
<1>2. ASSUME NEW w \in Warmers, WarmupStore(w) PROVE MeteringInv'
  BY <1>2 DEF WarmupStore, MeteringInv, Priced
<1>3. ASSUME NEW w \in Warmers, NEW m \in Models, WarmupLoad(w, m) PROVE MeteringInv'
  BY <1>3 DEF WarmupLoad, MeteringInv, Priced
<1>4. ASSUME UNCHANGED metering PROVE MeteringInv'
  BY <1>4 DEF metering, MeteringInv, Priced
<1> QED
  BY <1>1, <1>2, <1>3, <1>4, MeterStep, ChunkStep DEF MeteringNext

LEMMA MeteringAlways == MeteringSpec => []MeteringInv
  BY MeteringStart, MeteringStep, PTL DEF MeteringSpec

-----------------------------------------------------------------------------
(* A stream counted by the rule of thumb alone is never counted for less    *)
(* than a token per four characters, nor for more than a token too many per *)
(* chunk, whatever the texts, the chunks and the limit of a call            *)
(* (estimator.go:13-14).                                                    *)
THEOREM RoughAlwaysEnough == MeteringSpec => []RoughNeverShort
<1>1. MeteringInv => RoughNeverShort
  BY DEF MeteringInv, RoughlyCounted, RoughNeverShort
<1> QED
  BY <1>1, MeteringAlways, PTL

(* At one price the hold of a request covers its stream as long as the      *)
(* stream has no more tokens than were held, whatever the price, the cuts   *)
(* and the way of counting (server.go:207, sse.go:93).                      *)
THEOREM HoldAlwaysCovers == MeteringSpec => []HoldCovers
<1>1. MeteringInv => HoldCovers
  <2> SUFFICES ASSUME MeteringInv, NEW s \in Streams,
                      meter[s].steady, meter[s].tokens <= HeldTokens
               PROVE  meter[s].cost <= meter[s].hold
    BY DEF HoldCovers
  <2> DEFINE m == meter[s]
  <2>1. m \in Meters /\ Within(m)
    BY DEF MeteringInv
  <2>2. m.cost \in Nat /\ m.tokens \in Nat /\ m.unit \in Nat /\ HeldTokens \in Nat
    BY <2>1 DEF Meters, HeldTokens
  <2>3. 1000 * m.cost <= m.tokens * m.unit
    BY <2>1 DEF Within
  <2>4. m.tokens * m.unit <= HeldTokens * m.unit
    BY <2>2, Monotone
  <2> DEFINE h == HeldTokens * m.unit
  <2>5. h \in Nat /\ m.tokens * m.unit \in Nat
    BY <2>2, Product
  <2>6. 1000 * m.cost <= h
    BY <2>2, <2>3, <2>4, <2>5
  <2>7. m.cost <= h \div 1000
    BY <2>2, <2>5, <2>6, Quotient
  <2>8. m.hold = h \div 1000
    BY <2>1 DEF Within
  <2> QED
    BY <2>7, <2>8
<1> QED
  BY <1>1, MeteringAlways, PTL
=============================================================================
