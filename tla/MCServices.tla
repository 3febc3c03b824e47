----------------------------- MODULE MCServices -----------------------------
(***************************************************************************)
(* The parts of T-Guard that share no state with one another: the accounts *)
(* with the dashboard that reads them, the licences, the rate limiter, the *)
(* metering and the route engine.  Since none of their steps touches       *)
(* another's variables, a behaviour exercises one of them and leaves the   *)
(* others where they started: the product of their states would show no    *)
(* more than their sum.                                                    *)
(***************************************************************************)
EXTENDS MCRoute, Dashboard, License, RateLimit, Metering

VARIABLE focus

idle == <<accounts, dash, licence, limiter, metering, vars>>

ServicesInit ==
    /\ focus \in {"accounts", "dashboard", "licences", "limiter", "metering", "routes"}
    /\ AccountsInit /\ DashInit /\ LicenceInit /\ LimiterInit /\ MeteringInit /\ Init
    /\ focus # "limiter" => config = DefaultConfig
    /\ focus # "metering" => prices = WithDefault(<<>>)

(* Concurrent requests without a dashboard, and a dashboard over small      *)
(* requests that come one after the other in runs that could load their     *)
(* total.                                                                   *)
Accounting ==
    focus = "accounts" /\ AccountsNext /\ UNCHANGED dash
    /\ UNCHANGED <<focus, licence, limiter, metering, vars>>
Quiet ==
    /\ \A s \in Slots : slot'[s] = AtRest \/ s = (CHOOSE t \in Slots : TRUE)
    /\ \A s \in Slots : slot'[s].cost <= 1
    /\ used' <= Limit /\ missed' = 0
Watching ==
    focus = "dashboard" /\ DashNext /\ Quiet
    /\ UNCHANGED <<focus, licence, limiter, metering, vars>>
Licensing ==
    focus = "licences" /\ LicenceNext
    /\ UNCHANGED <<focus, accounts, dash, limiter, metering, vars>>
Limiting ==
    focus = "limiter" /\ LimiterNext
    /\ UNCHANGED <<focus, accounts, dash, licence, metering, vars>>
Pricing ==
    focus = "metering" /\ MeteringNext
    /\ UNCHANGED <<focus, accounts, dash, licence, limiter, vars>>
Routing ==
    focus = "routes" /\ Next
    /\ UNCHANGED <<focus, accounts, dash, licence, limiter, metering>>

ServicesNext == Accounting \/ Watching \/ Licensing \/ Limiting \/ Pricing \/ Routing

SpecServices == ServicesInit /\ [][ServicesNext]_<<focus, idle>> /\ DashFairness

(* The accounts and the dashboard alone.                                    *)
SpecDays == ServicesInit /\ focus = "accounts" /\ [][ServicesNext]_<<focus, idle>>

-----------------------------------------------------------------------------
(* Instances *)

Lic(tier, from, to, nonce) == [tier |-> tier, from |-> from, to |-> to, nonce |-> nonce]

(* A long licence, one that starts later and ends sooner, one that reuses   *)
(* the first one's nonce, and one without a nonce.                          *)
FourLicences == {Lic("pro", 1, 3, 1), Lic("enterprise", 2, 2, 2),
                 Lic("enterprise", 1, 1, 1), Lic("enterprise", 1, 3, NoNonce)}

Limits(ipRate, ipBurst, userRate, userBurst) ==
    [ipRate |-> ipRate, ipBurst |-> ipBurst, userRate |-> userRate, userBurst |-> userBurst]

(* Nothing given, everything given, and a rate without its burst.           *)
ThreeConfigs == {Limits(0, 0, 0, 0), Limits(1, 1, 1, 1), Limits(1, 0, 0, 1)}
Burst2 == Limits(1, 1, 1, 2)

(* A table with a price for the model only, and an empty one.               *)
TwoTables == {<<>>, ("gpt" :> 2000)}
=============================================================================
