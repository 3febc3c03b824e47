----------------------------- MODULE RateLimit -----------------------------
(***************************************************************************)
(* The rate limiter (pkg/ratelimit/limiter.go): a token bucket for every   *)
(* user and one for every address, made when first asked for.  A request   *)
(* takes a token of its user and then one of its address; requests run     *)
(* concurrently and may be between the two.  Buckets are never removed.    *)
(*                                                                         *)
(* A bucket (golang.org/x/time/rate) holds at most its burst and gets      *)
(* tokens with time.                                                       *)
(***************************************************************************)
EXTENDS Integers, FiniteSets

CONSTANTS
    Clients,     \* requests under way at once
    Users, Addresses,
    NoUser,      \* the empty X-User-ID
    NoAddress,   \* the empty address
    Configs,     \* what NewLimiter may be given: records of the four numbers
    DefaultConfig,     \* what it falls back to
    MaxTaken     \* bound: requests let through by one bucket, and refills

ASSUME LimiterAssumption ==
    /\ NoUser \notin Users /\ NoAddress \notin Addresses /\ IsFiniteSet(Clients)
    /\ Configs \subseteq [ipRate : Nat, ipBurst : Nat, userRate : Nat, userBurst : Nat]
    /\ DefaultConfig \in [ipRate : Nat, ipBurst : Nat, userRate : Nat, userBurst : Nat]

VARIABLES
    config,
    users, ips,              \* the buckets: how many tokens, or none yet
    asking,                  \* requests between the two buckets
    userTaken, ipTaken,      \* history: tokens taken
    userRefills, ipRefills,  \* history: tokens that came with time
    admitted, refused        \* history, by user: let through, refused for the address

limiter == <<config, users, ips, asking, userTaken, ipTaken, userRefills, ipRefills,
             admitted, refused>>

NoBucket == -1
Origins == Addresses \cup {NoAddress}
NotAsking == <<>>

(* NewLimiter: a rate of 0 takes the default for that rate and its burst.   *)
Config(given) ==
    LET ip == IF given.ipRate = 0 THEN DefaultConfig ELSE given
        user == IF given.userRate = 0 THEN DefaultConfig ELSE given IN
    [ipRate |-> ip.ipRate, ipBurst |-> ip.ipBurst,
     userRate |-> user.userRate, userBurst |-> user.userBurst]

LimiterInit ==
    /\ config \in {Config(given) : given \in Configs}
    /\ users = [u \in Users |-> NoBucket] /\ ips = [i \in Addresses |-> NoBucket]
    /\ asking = [c \in Clients |-> NotAsking]
    /\ userTaken = [u \in Users |-> 0] /\ ipTaken = [i \in Addresses |-> 0]
    /\ userRefills = [u \in Users |-> 0] /\ ipRefills = [i \in Addresses |-> 0]
    /\ admitted = [u \in Users |-> 0] /\ refused = [u \in Users |-> 0]

(* A slip: Store instead of LoadOrStore. *)
StoreAlways(bucket, burst) == burst

(* sync.Map.LoadOrStore of a new, full bucket.                              *)
LoadOrStore(bucket, burst) == IF bucket = NoBucket THEN burst ELSE bucket

(* A slip: the answer of the user's bucket is not looked at. *)
UserIgnored(c, u, i) ==
    LET tokens == LoadOrStore(users[u], config.userBurst) IN
    /\ asking[c] = NotAsking
    /\ asking' = [asking EXCEPT ![c] = <<u, i>>]
    /\ IF tokens > 0
       THEN /\ users' = [users EXCEPT ![u] = tokens - 1]
            /\ userTaken' = [userTaken EXCEPT ![u] = @ + 1]
       ELSE /\ users' = [users EXCEPT ![u] = tokens]
            /\ UNCHANGED userTaken
    /\ UNCHANGED <<config, ips, ipTaken, userRefills, ipRefills, admitted, refused>>

(* The bucket of the user is asked, in one step with its creation: nobody   *)
(* else can have put another one there.                                     *)
UserTakes(c, u, i) ==
    LET tokens == LoadOrStore(users[u], config.userBurst) IN
    /\ asking[c] = NotAsking
    /\ IF tokens > 0
       THEN /\ users' = [users EXCEPT ![u] = tokens - 1]
            /\ userTaken' = [userTaken EXCEPT ![u] = @ + 1]
            /\ asking' = [asking EXCEPT ![c] = <<u, i>>]
       ELSE /\ users' = [users EXCEPT ![u] = tokens]
            /\ UNCHANGED <<userTaken, asking>>
    /\ UNCHANGED <<config, ips, ipTaken, userRefills, ipRefills, admitted, refused>>

(* A request without a user goes straight to the address.                   *)
Anonymous(c, i) ==
    /\ asking[c] = NotAsking
    /\ asking' = [asking EXCEPT ![c] = <<NoUser, i>>]
    /\ UNCHANGED <<config, users, ips, userTaken, ipTaken, userRefills, ipRefills,
                   admitted, refused>>

Counted(count, u) == IF u = NoUser THEN count ELSE [count EXCEPT ![u] = @ + 1]

(* The bucket of the address is asked; a refusal gives nothing back to the  *)
(* user.                                                                    *)
AddressTakes(c) ==
    LET u == asking[c][1]
        i == asking[c][2]
        tokens == LoadOrStore(ips[i], config.ipBurst) IN
    /\ asking[c] # NotAsking /\ i # NoAddress
    /\ asking' = [asking EXCEPT ![c] = NotAsking]
    /\ IF tokens > 0
       THEN /\ ips' = [ips EXCEPT ![i] = tokens - 1]
            /\ ipTaken' = [ipTaken EXCEPT ![i] = @ + 1]
            /\ admitted' = Counted(admitted, u) /\ UNCHANGED refused
       ELSE /\ ips' = [ips EXCEPT ![i] = tokens]
            /\ refused' = Counted(refused, u) /\ UNCHANGED <<admitted, ipTaken>>
    /\ UNCHANGED <<config, users, userTaken, userRefills, ipRefills>>

(* A request without an address is let through as it is.                    *)
AddressAbsent(c) ==
    /\ asking[c] # NotAsking /\ asking[c][2] = NoAddress
    /\ asking' = [asking EXCEPT ![c] = NotAsking]
    /\ admitted' = Counted(admitted, asking[c][1])
    /\ UNCHANGED <<config, users, ips, userTaken, ipTaken, userRefills, ipRefills, refused>>

(* Time passes: a bucket that is not full gets a token.                     *)
UserRefill(u) ==
    /\ users[u] # NoBucket /\ config.userRate > 0
    /\ users[u] < config.userBurst
    /\ users' = [users EXCEPT ![u] = @ + 1]
    /\ userRefills' = [userRefills EXCEPT ![u] = @ + 1]
    /\ UNCHANGED <<config, ips, asking, userTaken, ipTaken, ipRefills, admitted, refused>>

IPRefill(i) ==
    /\ ips[i] # NoBucket /\ config.ipRate > 0
    /\ ips[i] < config.ipBurst
    /\ ips' = [ips EXCEPT ![i] = @ + 1]
    /\ ipRefills' = [ipRefills EXCEPT ![i] = @ + 1]
    /\ UNCHANGED <<config, users, asking, userTaken, ipTaken, userRefills, admitted, refused>>

LimiterNext ==
    \/ \E c \in Clients :
         \/ \E u \in Users, i \in Origins : userTaken[u] < MaxTaken /\ UserTakes(c, u, i)
         \/ \E i \in Origins : Anonymous(c, i)
         \/ AddressTakes(c) \/ AddressAbsent(c)
    \/ \E u \in Users : userRefills[u] < MaxTaken /\ UserRefill(u)
    \/ \E i \in Addresses : ipRefills[i] < MaxTaken /\ IPRefill(i)

LimiterSpec == LimiterInit /\ [][LimiterNext]_limiter

-----------------------------------------------------------------------------
(* Properties *)

(* Every token there is, was there or was refilled.                         *)
Tokens(bucket, burst) == IF bucket = NoBucket THEN burst ELSE bucket

(* limiter.go:41, 49: whoever comes first makes the bucket, and everybody   *)
(* after it uses the same one: a user and an address get exactly their      *)
(* burst and what time brings, however many first requests race.            *)
WithinRates ==
    /\ \A u \in Users :
         userTaken[u] + Tokens(users[u], config.userBurst) = config.userBurst + userRefills[u]
    /\ \A i \in Addresses :
         ipTaken[i] + Tokens(ips[i], config.ipBurst) = config.ipBurst + ipRefills[i]

Between(u) == {c \in Clients : asking[c] # NotAsking /\ asking[c][1] = u}

(* limiter.go:39-53: what a user's bucket has given is what was let         *)
(* through, what was refused for the address - for which the user paid all  *)
(* the same - and what is between the two buckets.                          *)
UserPaysForAddress ==
    \A u \in Users :
        userTaken[u] = admitted[u] + refused[u] + Cardinality(Between(u))

=============================================================================
