----------------------------- MODULE RouteEngine -----------------------------
(***************************************************************************)
(* The route engine of T-Guard (pkg/route/engine.go).  LoadRules sorts a   *)
(* rule table, builds a keyword automaton for it and publishes both with   *)
(* one atomic store; Decide loads what is published and picks the first    *)
(* rule that matches.  Loaders are admin requests, deciders are request    *)
(* handlers; all of them run concurrently.                                 *)
(*                                                                         *)
(* The automaton (github.com/cloudflare/ahocorasick) keeps a counter and   *)
(* marks in its nodes to report a word once per call of Match.  They are   *)
(* plain memory shared by every call on the same matcher, and Decide calls *)
(* Match without a lock.                                                   *)
(***************************************************************************)
EXTENDS Integers, Sequences, FiniteSets

CONSTANTS
    Deciders, Loaders,
    Tables,      \* the rule tables an admin may load: sets of rules
    Requests,    \* what Decide may be asked
    Words,       \* keywords, and words of a prompt
    EmptyWord,   \* the keyword ""
    Prefixes,    \* the prefixes of each model name
    MaxLoads,    \* bound: loads in a run
    MaxMatches   \* bound: counted calls of Match on one matcher

(* A rule: id, priority, conditions, action.  An empty condition is none.   *)
(*   words, models, ips   sets; headers  a set of <<name, value>> pairs     *)
(*   minTokens, maxBudget numbers; target, fallback  names                  *)
(* A request: model, ip, headers (a value for every name, "" when absent),  *)
(* words (those of its messages), tokens, spend.                            *)

(* A table is a slice and its rules have numbers to be sorted by; the empty *)
(* keyword is no word of a prompt and gets no place in the automaton.       *)
ASSUME RouteAssumption ==
    /\ EmptyWord \notin Words
    /\ \A q \in Requests : q.words \subseteq Words
    /\ \A table \in Tables :
         /\ IsFiniteSet(table)
         /\ \A r \in table : r.priority \in Int /\ r.id \in Int
                              /\ r.words \subseteq Words \cup {EmptyWord}

VARIABLES
    matchers,  \* every matcher ever published, the last one is e.m
    counter,   \* automaton of each matcher: calls of Match
    mark,      \* automaton of each matcher: the call that last met a word
    built,     \* the matcher a loader is about to publish, if there is one
    pc,        \* where each decider is
    request,   \* its argument
    snap,      \* the matcher it loaded
    local,     \* the counter it read
    pending,   \* the words of the prompt still to be scanned
    hits,      \* the words the automaton reported
    decision

automata == <<counter, mark>>
locals == <<request, snap, local, pending, hits>>
vars == <<matchers, automata, built, pc, locals, decision>>

NoRequest == [model |-> "", ip |-> "", headers |-> <<>>, words |-> {}, tokens |-> 0, spend |-> 0]
NoDecision == [target |-> "", fallback |-> "", rule |-> 0, preempted |-> FALSE]

Before(r, s) == r.priority < s.priority \/ (r.priority = s.priority /\ r.id <= s.id)

(* sort.Slice: any order of the rules that respects priority and id. *)
Sorted(table) ==
    {s \in [1 .. Cardinality(table) -> table] :
        /\ \A r \in table : \E i \in DOMAIN s : s[i] = r
        /\ \A i, j \in DOMAIN s : i < j => Before(s[i], s[j])}

(* The words the automaton is built from. *)
Dictionary(rules) == (UNION {rules[i].words : i \in DOMAIN rules}) \ {EmptyWord}

(* A rule's conditions other than its keywords. *)
Fits(r, q) ==
    /\ r.models = {} \/ r.models \cap Prefixes[q.model] # {}
    /\ r.ips = {} \/ q.ip \in r.ips
    /\ \A h \in r.headers : q.headers[h[1]] = h[2]
    /\ q.tokens >= r.minTokens

(* What Decide returns for the rule it picked: a rule over its budget       *)
(* preempts the request.                                                    *)
Picked(r, q) ==
    IF r.maxBudget > 0 /\ q.spend >= r.maxBudget
    THEN [target |-> "local", fallback |-> "", rule |-> r.id, preempted |-> TRUE]
    ELSE [target |-> r.target, fallback |-> r.fallback, rule |-> r.id, preempted |-> FALSE]

Default == [target |-> "default", fallback |-> "", rule |-> 0, preempted |-> FALSE]

(* The rules one of whose keywords was found: kwMatchedRules, by the place  *)
(* of a rule in its table.                                                  *)
KeywordRules(rules, found) == {i \in DOMAIN rules : rules[i].words \cap found # {}}

(* The rules that match, with the keywords' hits. *)
Matching(rules, hit, q) ==
    {i \in DOMAIN rules : Fits(rules[i], q) /\ (rules[i].words = {} \/ i \in hit)}

(* The loop over the sorted rules: the first one that matches. *)
Decision(rules, hit, q) ==
    LET matching == Matching(rules, hit, q)
    IN IF matching = {} THEN Default
       ELSE Picked(rules[CHOOSE i \in matching : \A j \in matching : i <= j], q)

Init ==
    /\ matchers = << <<>> >>
    /\ counter = <<0>>
    /\ mark = << [w \in Words |-> 0] >>
    /\ built = [l \in Loaders |-> {}]
    /\ pc = [d \in Deciders |-> "idle"]
    /\ request = [d \in Deciders |-> NoRequest]
    /\ snap = [d \in Deciders |-> 1]
    /\ local = [d \in Deciders |-> 0]
    /\ pending = [d \in Deciders |-> {}]
    /\ hits = [d \in Deciders |-> {}]
    /\ decision = [d \in Deciders |-> NoDecision]

Goto(d, label) == pc' = [pc EXCEPT ![d] = label]

-----------------------------------------------------------------------------
(* LoadRules: build aside, then publish with one store. *)

LoadBuild(l, table) ==
    /\ built[l] = {}
    /\ Len(matchers) <= MaxLoads
    /\ \E s \in Sorted(table) : built' = [built EXCEPT ![l] = {s}]
    /\ UNCHANGED <<matchers, automata, pc, locals, decision>>

LoadStore(l) ==
    /\ \E s \in built[l] : matchers' = Append(matchers, s)
    /\ counter' = Append(counter, 0)
    /\ mark' = Append(mark, [w \in Words |-> 0])
    /\ built' = [built EXCEPT ![l] = {}]
    /\ UNCHANGED <<pc, locals, decision>>

-----------------------------------------------------------------------------
(* Decide *)

(* The automaton is asked only when there is one and the prompt is not empty. *)
DecideLoad(d, q) ==
    LET m == Len(matchers)
        asks == Dictionary(matchers[m]) # {} /\ q.words # {}
    IN
    /\ pc[d] = "idle"
    /\ asks => counter[m] < MaxMatches
    /\ Goto(d, IF asks THEN "counting" ELSE "choosing")
    /\ request' = [request EXCEPT ![d] = q]
    /\ snap' = [snap EXCEPT ![d] = m]
    /\ UNCHANGED <<matchers, automata, built, local, pending, hits, decision>>

(* Match: counter += 1 is a read and a write. *)
MatchRead(d) ==
    /\ pc[d] = "counting"
    /\ Goto(d, "counted")
    /\ local' = [local EXCEPT ![d] = counter[snap[d]]]
    /\ UNCHANGED <<matchers, automata, built, request, snap, pending, hits, decision>>

MatchWrite(d) ==
    /\ pc[d] = "counted"
    /\ Goto(d, "scanning")
    /\ counter' = [counter EXCEPT ![snap[d]] = local[d] + 1]
    /\ pending' = [pending EXCEPT ![d] =
                     request[d].words \cap Dictionary(matchers[snap[d]])]
    /\ UNCHANGED <<matchers, mark, built, request, snap, local, hits, decision>>

(* A word is reported unless its node is marked with the present counter. *)
MatchWord(d, w) ==
    LET m == snap[d] IN
    /\ pc[d] = "scanning"
    /\ w \in pending[d]
    /\ pending' = [pending EXCEPT ![d] = @ \ {w}]
    /\ hits' = [hits EXCEPT ![d] = IF mark[m][w] = counter[m] THEN @ ELSE @ \cup {w}]
    /\ mark' = [mark EXCEPT ![m][w] = counter[m]]
    /\ UNCHANGED <<matchers, counter, built, pc, request, snap, local, decision>>

MatchEnd(d) ==
    /\ pc[d] = "scanning"
    /\ pending[d] = {}
    /\ Goto(d, "choosing")
    /\ UNCHANGED <<matchers, automata, built, locals, decision>>

(* A slip: the hits belong to the table of the call, the rules to the one   *)
(* published now.                                                           *)
DecideWithLatest(d) ==
    /\ pc[d] = "choosing"
    /\ Goto(d, "decided")
    /\ decision' = [decision EXCEPT ![d] =
                      Decision(matchers[Len(matchers)],
                               KeywordRules(matchers[snap[d]], hits[d]), request[d])]
    /\ UNCHANGED <<matchers, automata, built, locals>>

Decide(d) ==
    LET rules == matchers[snap[d]] IN
    /\ pc[d] = "choosing"
    /\ Goto(d, "decided")
    /\ decision' = [decision EXCEPT ![d] =
                      Decision(rules, KeywordRules(rules, hits[d]), request[d])]
    /\ UNCHANGED <<matchers, automata, built, locals>>

Return(d) ==
    /\ pc[d] = "decided"
    /\ Goto(d, "idle")
    /\ request' = [request EXCEPT ![d] = NoRequest]
    /\ snap' = [snap EXCEPT ![d] = 1]
    /\ local' = [local EXCEPT ![d] = 0]
    /\ hits' = [hits EXCEPT ![d] = {}]
    /\ decision' = [decision EXCEPT ![d] = NoDecision]
    /\ UNCHANGED <<matchers, automata, built, pending>>

Match(d) == MatchRead(d) \/ MatchWrite(d) \/ (\E w \in Words : MatchWord(d, w)) \/ MatchEnd(d)

Next ==
    \/ \E l \in Loaders : LoadStore(l) \/ \E table \in Tables : LoadBuild(l, table)
    \/ \E d \in Deciders :
         \/ \E q \in Requests : DecideLoad(d, q)
         \/ Match(d)
         \/ Decide(d)
         \/ Return(d)

Spec == Init /\ [][Next]_vars

-----------------------------------------------------------------------------
(* Properties *)

RuleSets == UNION Tables

(* Every variable has its type, the published tables are sorted, and        *)
(* nobody works on a matcher that was not published.                        *)
TypeOK ==
    /\ \A m \in DOMAIN matchers :
         /\ \A i \in DOMAIN matchers[m] : matchers[m][i] \in RuleSets
         /\ \A i, j \in DOMAIN matchers[m] : i < j => Before(matchers[m][i], matchers[m][j])
    /\ DOMAIN counter = DOMAIN matchers /\ DOMAIN mark = DOMAIN matchers
    /\ \A m \in DOMAIN matchers : mark[m] \in [Words -> Nat]
    /\ pc \in [Deciders -> {"idle", "counting", "counted", "scanning", "choosing", "decided"}]
    /\ request \in [Deciders -> Requests \cup {NoRequest}]
    /\ snap \in [Deciders -> DOMAIN matchers]
    /\ local \in [Deciders -> Nat]
    /\ pending \in [Deciders -> SUBSET Words]
    /\ hits \in [Deciders -> SUBSET Words]

(* What the rules mean for a request of whose words some were found: a rule *)
(* matches when all its conditions hold, its keywords when one was found.   *)
Matches(r, q, found) == Fits(r, q) /\ (r.words = {} \/ r.words \cap found # {})

RulesOf(m) == {matchers[m][i] : i \in DOMAIN matchers[m]}

Meant(m, q, found) ==
    LET matching == {r \in RulesOf(m) : Matches(r, q, found)} IN
    IF matching = {} THEN {Default}
    ELSE {Picked(r, q) : r \in {s \in matching : \A t \in matching : Before(s, t)}}

(* However many handlers decide while tables are loaded, a decision is the  *)
(* first match of one table that was in force between the call and its      *)
(* return: Decide never mixes two tables (engine.go:79), passes over no     *)
(* rule but for a keyword, and takes none whose keyword the prompt lacks.   *)
(* The deciders share an automaton, and may lose each other's keywords.     *)
DecidesFirstFound ==
    \A d \in Deciders : pc[d] = "decided" =>
        \E m \in snap[d] .. Len(matchers) : \E found \in SUBSET request[d].words :
            decision[d] \in Meant(m, request[d], found)

(* The same with every keyword of the prompt found, as types.go:37 has it:  *)
(* "the prompt contains any keyword".                                       *)
DecidesFirstMatch ==
    \A d \in Deciders : pc[d] = "decided" =>
        \E m \in snap[d] .. Len(matchers) :
            decision[d] \in Meant(m, request[d], request[d].words)
=============================================================================
