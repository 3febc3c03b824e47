------------------------- MODULE RouteEngine_proofs -------------------------
(***************************************************************************)
(* Decisions, for any rules, requests, loaders, deciders and number of    *)
(* loads: the first match of the table that was loaded, with the keywords  *)
(* that were found.  Deciders that share an automaton lose each other's    *)
(* keywords, so that all of them are found is proved only when there are   *)
(* none, as in the calls of the proxy.                                     *)
(***************************************************************************)
EXTENDS RouteEngine, Totals_proofs, SequenceTheorems, TLAPS

(* What can be published: the engine's first matcher, and sorted tables.    *)
Publishable == {<<>>} \cup UNION {Sorted(table) : table \in Tables}

(* The words of its prompt that a decider's automaton knows.                *)
Known(d) == request[d].words \cap Dictionary(matchers[snap[d]])

RouteTypes ==
    /\ matchers \in Seq(Publishable) /\ Len(matchers) > 0
    /\ counter \in Seq(Nat) /\ Len(counter) = Len(matchers)
    /\ mark \in Seq([Words -> Nat]) /\ Len(mark) = Len(matchers)
    /\ built \in [Loaders -> SUBSET Publishable]
    /\ pc \in [Deciders -> {"idle", "counting", "counted", "scanning", "choosing", "decided"}]
    /\ request \in [Deciders -> Requests \cup {NoRequest}]
    /\ snap \in [Deciders -> 1 .. Len(matchers)]
    /\ local \in [Deciders -> Nat]
    /\ pending \in [Deciders -> SUBSET Words]
    /\ hits \in [Deciders -> SUBSET Words]
    /\ decision = [d \in Deciders |-> decision[d]]

(* What holds of one decider, whatever the others do to the automaton.      *)
Deciding(d) ==
    /\ pc[d] = "idle" => request[d] = NoRequest
    /\ hits[d] \subseteq Known(d) /\ pending[d] \subseteq Known(d)
    /\ pc[d] # "scanning" => pending[d] = {}
    /\ pc[d] = "decided" => decision[d] =
         Decision(matchers[snap[d]], KeywordRules(matchers[snap[d]], hits[d]), request[d])

RouteInv == RouteTypes /\ \A d \in Deciders : Deciding(d)

-----------------------------------------------------------------------------
(* Operators *)

(* A published table is a sequence of rules, sorted.                        *)
LEMMA PublishableSorted ==
    ASSUME NEW rules \in Publishable
    PROVE  /\ DOMAIN rules \subseteq Nat
           /\ \A i \in DOMAIN rules : rules[i] \in RuleSets
           /\ \A i, j \in DOMAIN rules : i < j => Before(rules[i], rules[j])
<1>1. CASE rules = <<>>
  BY <1>1
<1>2. ASSUME NEW table \in Tables, rules \in Sorted(table)
      PROVE  /\ DOMAIN rules \subseteq Nat
             /\ \A i \in DOMAIN rules : rules[i] \in RuleSets
             /\ \A i, j \in DOMAIN rules : i < j => Before(rules[i], rules[j])
  <2>1. rules \in [1 .. Cardinality(table) -> table]
    BY <1>2 DEF Sorted
  <2>2. DOMAIN rules = 1 .. Cardinality(table) /\ \A i \in DOMAIN rules : rules[i] \in table
    BY <2>1
  <2>3. DOMAIN rules \subseteq Nat
    BY <2>2
  <2>4. \A i \in DOMAIN rules : rules[i] \in RuleSets
    BY <2>2 DEF RuleSets
  <2> QED
    BY <1>2, <2>3, <2>4 DEF Sorted
<1> QED
  BY <1>1, <1>2 DEF Publishable

LEMMA RulesOrdered ==
    ASSUME NEW r \in RuleSets
    PROVE  /\ r.priority \in Int /\ r.id \in Int
           /\ r.words \subseteq Words \cup {EmptyWord}
           /\ Before(r, r)
  BY RouteAssumption DEF RuleSets, Before

(* The loop returns for the first rule that matches.                        *)
LEMMA DecisionFirst ==
    ASSUME NEW rules \in Publishable, NEW hit, NEW q
    PROVE  \/ Matching(rules, hit, q) = {} /\ Decision(rules, hit, q) = Default
           \/ \E i \in Matching(rules, hit, q) :
                /\ Decision(rules, hit, q) = Picked(rules[i], q)
                /\ \A j \in Matching(rules, hit, q) : i <= j
<1> DEFINE matching == Matching(rules, hit, q)
<1>1. matching \subseteq Nat
  BY PublishableSorted DEF Matching
<1>2. CASE matching = {}
  BY <1>2 DEF Decision
<1>3. CASE matching # {}
  <2>1. \E i \in matching : \A j \in matching : i <= j
    <3> HIDE DEF matching
    <3> QED
      BY <1>1, <1>3, Least
  <2>2. PICK i \in matching : /\ i = CHOOSE k \in matching : \A j \in matching : k <= j
                              /\ \A j \in matching : i <= j
    BY <2>1
  <2> QED
    BY <1>3, <2>2 DEF Decision
<1> QED
  BY <1>2, <1>3

LEMMA NoWords == NoRequest.words = {}
  BY DEF NoRequest

(* What the loop takes for a match is one, for the words that were found.   *)
LEMMA MatchingMeans ==
    ASSUME NEW rules, NEW q, NEW found, NEW i \in DOMAIN rules
    PROVE  i \in Matching(rules, KeywordRules(rules, found), q) <=> Matches(rules[i], q, found)
  BY DEF Matching, KeywordRules, Matches

-----------------------------------------------------------------------------
(* The invariant of all deciders *)

LEMMA RouteStart == Init => RouteInv
<1> SUFFICES ASSUME Init PROVE RouteInv
  OBVIOUS
<1>1. matchers \in Seq(Publishable) /\ Len(matchers) = 1
  BY DEF Init, Publishable
<1>2. counter \in Seq(Nat) /\ Len(counter) = 1
  BY DEF Init
<1>3. mark \in Seq([Words -> Nat]) /\ Len(mark) = 1
  <2>1. [w \in Words |-> 0] \in [Words -> Nat]
    OBVIOUS
  <2> QED
    BY <2>1 DEF Init
<1>4. RouteTypes
  BY <1>1, <1>2, <1>3 DEF Init, RouteTypes
<1>5. \A d \in Deciders : Deciding(d)
  BY DEF Init, Deciding, Known, NoRequest
<1> QED
  BY <1>4, <1>5 DEF RouteInv

LEMMA BuildKeeps ==
    ASSUME RouteInv, NEW l \in Loaders, NEW table \in Tables, LoadBuild(l, table)
    PROVE  RouteInv'
<1>1. PICK s \in Sorted(table) : built' = [built EXCEPT ![l] = {s}]
  BY DEF LoadBuild
<1>2. built' \in [Loaders -> SUBSET Publishable]
  <2>1. {s} \in SUBSET Publishable
    BY <1>1 DEF Publishable
  <2> QED
    BY <1>1, <2>1 DEF RouteInv, RouteTypes
<1>3. UNCHANGED <<matchers, counter, mark, pc, request, snap, local, pending, hits, decision>>
  BY DEF LoadBuild, automata, locals
<1> QED
  BY <1>2, <1>3 DEF RouteInv, RouteTypes, Deciding, Known

(* A publication leaves what was published before where it was.             *)
LEMMA StoreAppends ==
    ASSUME RouteTypes, NEW l \in Loaders, LoadStore(l)
    PROVE  /\ matchers' \in Seq(Publishable) /\ Len(matchers') = Len(matchers) + 1
           /\ counter' \in Seq(Nat) /\ Len(counter') = Len(counter) + 1
           /\ mark' \in Seq([Words -> Nat]) /\ Len(mark') = Len(mark) + 1
           /\ \A m \in 1 .. Len(matchers) :
                matchers'[m] = matchers[m] /\ counter'[m] = counter[m] /\ mark'[m] = mark[m]
           /\ counter'[Len(matchers')] = 0 /\ mark'[Len(matchers')] = [w \in Words |-> 0]
<1>1. PICK s \in built[l] : matchers' = Append(matchers, s)
  BY DEF LoadStore
<1>2. s \in Publishable
  BY DEF RouteTypes
<1>3. matchers' \in Seq(Publishable) /\ Len(matchers') = Len(matchers) + 1
      /\ \A m \in 1 .. Len(matchers) : matchers'[m] = matchers[m]
  BY <1>1, <1>2, AppendProperties DEF RouteTypes
<1>4. counter' \in Seq(Nat) /\ Len(counter') = Len(counter) + 1
      /\ counter'[Len(counter) + 1] = 0
      /\ \A m \in 1 .. Len(counter) : counter'[m] = counter[m]
  BY AppendProperties DEF RouteTypes, LoadStore
<1>5. mark' \in Seq([Words -> Nat]) /\ Len(mark') = Len(mark) + 1
      /\ mark'[Len(mark) + 1] = [w \in Words |-> 0]
      /\ \A m \in 1 .. Len(mark) : mark'[m] = mark[m]
  <2> DEFINE none == [w \in Words |-> 0]
  <2>1. none \in [Words -> Nat] /\ mark' = Append(mark, none)
    BY DEF LoadStore
  <2> QED
    <3> HIDE DEF none
    <3>1. mark' \in Seq([Words -> Nat]) /\ Len(mark') = Len(mark) + 1
          /\ mark'[Len(mark) + 1] = none
          /\ \A m \in 1 .. Len(mark) : mark'[m] = mark[m]
      BY <2>1, AppendProperties DEF RouteTypes
    <3> QED
      BY <3>1 DEF none
<1> QED
  BY <1>3, <1>4, <1>5 DEF RouteTypes

LEMMA StoreKeeps ==
    ASSUME RouteInv, NEW l \in Loaders, LoadStore(l)
    PROVE  RouteInv'
<1>1. RouteTypes
  BY DEF RouteInv
<1>2. UNCHANGED <<pc, request, snap, local, pending, hits, decision>>
  BY DEF LoadStore, locals
<1>3. built' \in [Loaders -> SUBSET Publishable]
  BY DEF LoadStore, RouteInv, RouteTypes
<1>4. snap' \in [Deciders -> 1 .. Len(matchers')]
  BY <1>1, <1>2, StoreAppends DEF RouteTypes
<1>5. RouteTypes'
  BY <1>1, <1>2, <1>3, <1>4, StoreAppends DEF RouteTypes
<1>6. \A d \in Deciders : matchers'[snap'[d]] = matchers[snap[d]]
  BY <1>1, <1>2, StoreAppends DEF RouteTypes
<1>7. \A d \in Deciders : Deciding(d)'
  BY <1>2, <1>6 DEF RouteInv, Deciding, Known
<1> QED
  BY <1>5, <1>7 DEF RouteInv

LEMMA LoadKeeps ==
    ASSUME RouteInv, NEW d \in Deciders, NEW q \in Requests, DecideLoad(d, q)
    PROVE  RouteInv'
<1>1. UNCHANGED <<matchers, counter, mark, built, local, pending, hits, decision>>
  BY DEF DecideLoad, automata
<1>2. Len(matchers) \in 1 .. Len(matchers)
  BY DEF RouteInv, RouteTypes
<1>3. /\ pc' \in [Deciders -> {"idle", "counting", "counted", "scanning", "choosing", "decided"}]
      /\ request' \in [Deciders -> Requests \cup {NoRequest}]
      /\ snap' \in [Deciders -> 1 .. Len(matchers)]
  BY <1>2 DEF DecideLoad, Goto, RouteInv, RouteTypes
<1>4. RouteTypes'
  BY <1>1, <1>3 DEF RouteInv, RouteTypes
<1>5. Deciding(d)'
  <2>1. hits[d] = {} /\ pending[d] = {}
    BY NoWords DEF DecideLoad, RouteInv, Deciding, Known
  <2>2. pc'[d] \in {"counting", "choosing"}
    BY DEF DecideLoad, Goto, RouteInv, RouteTypes
  <2> QED
    BY <1>1, <2>1, <2>2 DEF Deciding
<1>6. ASSUME NEW e \in Deciders, e # d PROVE Deciding(e)'
  <2>1. pc'[e] = pc[e] /\ request'[e] = request[e] /\ snap'[e] = snap[e]
    BY <1>6 DEF DecideLoad, Goto, RouteInv, RouteTypes
  <2> QED
    BY <1>1, <2>1 DEF RouteInv, Deciding, Known
<1> QED
  BY <1>4, <1>5, <1>6 DEF RouteInv

(* A step within Match may change only the automaton and what this decider  *)
(* knows of it.                                                             *)
LEMMA MatchKeeps ==
    ASSUME RouteInv, NEW d \in Deciders, Match(d)
    PROVE  RouteInv'
<1>1. UNCHANGED <<matchers, built, request, snap, decision>>
  BY DEF Match, MatchRead, MatchWrite, MatchWord, MatchEnd, automata, locals
<1>2. snap[d] \in 1 .. Len(matchers)
  BY DEF RouteInv, RouteTypes
<1>3. counter' \in Seq(Nat) /\ Len(counter') = Len(counter) /\ local' \in [Deciders -> Nat]
  <2>1. CASE MatchRead(d)
    <3>1. counter[snap[d]] \in Nat
      BY <1>2 DEF RouteInv, RouteTypes
    <3> QED
      BY <2>1, <3>1 DEF MatchRead, automata, RouteInv, RouteTypes
  <2>2. CASE MatchWrite(d)
    <3>1. local[d] + 1 \in Nat /\ snap[d] \in 1 .. Len(counter) /\ counter \in Seq(Nat)
      BY <1>2 DEF RouteInv, RouteTypes
    <3> QED
      BY <2>2, <3>1, ExceptSeq DEF MatchWrite, RouteInv, RouteTypes
  <2>3. CASE (\E w \in Words : MatchWord(d, w)) \/ MatchEnd(d)
    BY <2>3 DEF MatchWord, MatchEnd, automata, locals, RouteInv, RouteTypes
  <2> QED
    BY <2>1, <2>2, <2>3 DEF Match
<1>4. mark' \in Seq([Words -> Nat]) /\ Len(mark') = Len(mark)
  <2>1. ASSUME NEW w \in Words, MatchWord(d, w)
        PROVE  mark' \in Seq([Words -> Nat]) /\ Len(mark') = Len(mark)
    <3>1. snap[d] \in 1 .. Len(mark) /\ snap[d] \in 1 .. Len(counter)
      BY <1>2 DEF RouteInv, RouteTypes
    <3>2. mark[snap[d]] \in [Words -> Nat] /\ counter[snap[d]] \in Nat
      BY <3>1 DEF RouteInv, RouteTypes
    <3> DEFINE new == [mark[snap[d]] EXCEPT ![w] = counter[snap[d]]]
    <3>3. new \in [Words -> Nat]
      BY <3>2
    <3>4. mark' = [mark EXCEPT ![snap[d]] = new]
      BY <2>1 DEF MatchWord
    <3> QED
      <4> HIDE DEF new
      <4> QED
        BY <3>1, <3>3, <3>4, ExceptSeq DEF RouteInv, RouteTypes
  <2>2. CASE MatchRead(d) \/ MatchWrite(d) \/ MatchEnd(d)
    BY <2>2 DEF MatchRead, MatchWrite, MatchEnd, automata, locals, RouteInv, RouteTypes
  <2> QED
    BY <2>1, <2>2 DEF Match
<1>5. /\ pc' \in [Deciders -> {"idle", "counting", "counted", "scanning", "choosing", "decided"}]
      /\ pending' \in [Deciders -> SUBSET Words] /\ hits' \in [Deciders -> SUBSET Words]
      /\ pending'[d] \subseteq Known(d) /\ hits'[d] \subseteq Known(d)
      /\ pc'[d] \in {"counted", "scanning", "choosing"}
      /\ pc'[d] # "scanning" => pending'[d] = {}
      /\ \A e \in Deciders : e # d => pc'[e] = pc[e] /\ pending'[e] = pending[e] /\ hits'[e] = hits[e]
  <2>1. CASE MatchRead(d) \/ MatchEnd(d)
    BY <2>1 DEF MatchRead, MatchEnd, Goto, automata, locals, RouteInv, RouteTypes, Deciding
  <2>2. CASE MatchWrite(d)
    <3>1. Known(d) \subseteq Words
      <4>1. request[d] \in Requests \cup {NoRequest}
        BY DEF RouteInv, RouteTypes
      <4>2. request[d].words \subseteq Words
        <5>1. CASE request[d] \in Requests
          BY <5>1, RouteAssumption
        <5>2. CASE request[d] = NoRequest
          BY <5>2, NoWords
        <5> QED
          BY <4>1, <5>1, <5>2
      <4> QED
        BY <4>2 DEF Known
    <3>2. pending' = [pending EXCEPT ![d] = Known(d)] /\ hits' = hits
      BY <2>2 DEF MatchWrite, Known
    <3> QED
      BY <2>2, <3>1, <3>2 DEF MatchWrite, Goto, RouteInv, RouteTypes, Deciding
  <2>3. ASSUME NEW w \in Words, MatchWord(d, w)
        PROVE  /\ pc' = pc /\ pc[d] = "scanning"
               /\ pending' \in [Deciders -> SUBSET Words] /\ hits' \in [Deciders -> SUBSET Words]
               /\ pending'[d] \subseteq Known(d) /\ hits'[d] \subseteq Known(d)
               /\ \A e \in Deciders : e # d => pending'[e] = pending[e] /\ hits'[e] = hits[e]
    <3>1. w \in Known(d) /\ pending[d] \subseteq Known(d) /\ hits[d] \subseteq Known(d)
      BY <2>3 DEF MatchWord, RouteInv, Deciding
    <3> QED
      BY <2>3, <3>1 DEF MatchWord, RouteInv, RouteTypes
  <2> QED
    BY <2>1, <2>2, <2>3 DEF Match, RouteInv, RouteTypes
<1>6. RouteTypes'
  BY <1>1, <1>3, <1>4, <1>5 DEF RouteInv, RouteTypes
<1>7. \A e \in Deciders : Known(e)' = Known(e)
  BY <1>1 DEF Known
<1>8. Deciding(d)'
  BY <1>5, <1>7 DEF Deciding
<1>9. ASSUME NEW e \in Deciders, e # d PROVE Deciding(e)'
  BY <1>1, <1>5, <1>7, <1>9 DEF RouteInv, Deciding
<1> QED
  BY <1>6, <1>8, <1>9 DEF RouteInv

LEMMA DecideKeeps ==
    ASSUME RouteInv, NEW d \in Deciders, Decide(d) \/ Return(d)
    PROVE  RouteInv'
<1>1. UNCHANGED <<matchers, counter, mark, built, pending>>
  BY DEF Decide, Return, automata, locals
<1>2. CASE Decide(d)
  <2>1. UNCHANGED <<request, snap, local, hits>>
    BY <1>2 DEF Decide, locals
  <2>2. RouteTypes'
    BY <1>1, <1>2, <2>1 DEF Decide, Goto, RouteInv, RouteTypes
  <2>3. ASSUME NEW e \in Deciders PROVE Deciding(e)'
    BY <1>1, <1>2, <2>1 DEF Decide, Goto, RouteInv, RouteTypes, Deciding, Known
  <2> QED
    BY <2>2, <2>3 DEF RouteInv
<1>3. CASE Return(d)
  <2>1. 1 \in 1 .. Len(matchers)
    BY DEF RouteInv, RouteTypes
  <2>2. RouteTypes'
    BY <1>1, <1>3, <2>1 DEF Return, Goto, RouteInv, RouteTypes
  <2>3. pending[d] = {}
    BY <1>3 DEF Return, RouteInv, Deciding
  <2>4. Deciding(d)'
    BY <1>1, <1>3, <2>3 DEF Return, Goto, RouteInv, RouteTypes, Deciding
  <2>5. ASSUME NEW e \in Deciders, e # d PROVE Deciding(e)'
    BY <1>1, <1>3, <2>5 DEF Return, Goto, RouteInv, RouteTypes, Deciding, Known
  <2> QED
    BY <2>2, <2>4, <2>5 DEF RouteInv
<1> QED
  BY <1>2, <1>3

LEMMA RouteStep == RouteInv /\ [Next]_vars => RouteInv'
<1> SUFFICES ASSUME RouteInv, [Next]_vars PROVE RouteInv'
  OBVIOUS
<1>1. ASSUME NEW l \in Loaders, LoadStore(l) \/ \E table \in Tables : LoadBuild(l, table)
      PROVE  RouteInv'
  BY <1>1, BuildKeeps, StoreKeeps
<1>2. ASSUME NEW d \in Deciders, NEW q \in Requests, DecideLoad(d, q)
      PROVE  RouteInv'
  BY <1>2, LoadKeeps
<1>3. ASSUME NEW d \in Deciders, Match(d) \/ Decide(d) \/ Return(d)
      PROVE  RouteInv'
  BY <1>3, MatchKeeps, DecideKeeps
<1>4. CASE UNCHANGED vars
  BY <1>4 DEF vars, automata, locals, RouteInv, RouteTypes, Deciding, Known
<1> QED
  BY <1>1, <1>2, <1>3, <1>4 DEF Next

LEMMA RouteAlways == Spec => []RouteInv
<1>1. RouteInv /\ [Next]_vars => RouteInv'
  BY RouteStep
<1> QED
  BY <1>1, RouteStart, PTL DEF Spec

(* Every variable has its type, what is published is sorted, and nobody     *)
(* works on a matcher that was not published (engine.go:36-74).             *)
THEOREM RouteTypesAlwaysOK == Spec => []TypeOK
<1>1. RouteInv => TypeOK
  <2> SUFFICES ASSUME RouteInv PROVE TypeOK
    OBVIOUS
  <2>1. RouteTypes
    BY DEF RouteInv
  <2>2. DOMAIN matchers = 1 .. Len(matchers) /\ DOMAIN counter = DOMAIN matchers
        /\ DOMAIN mark = DOMAIN matchers
    BY <2>1 DEF RouteTypes
  <2>3. \A m \in DOMAIN matchers : matchers[m] \in Publishable /\ mark[m] \in [Words -> Nat]
    BY <2>1, <2>2 DEF RouteTypes
  <2>4. \A m \in DOMAIN matchers :
          /\ \A i \in DOMAIN matchers[m] : matchers[m][i] \in RuleSets
          /\ \A i, j \in DOMAIN matchers[m] : i < j => Before(matchers[m][i], matchers[m][j])
    BY <2>3, PublishableSorted
  <2> QED
    BY <2>1, <2>2, <2>3, <2>4 DEF RouteTypes, TypeOK
<1> QED
  BY <1>1, RouteAlways, PTL

-----------------------------------------------------------------------------
(* What a decision is *)

(* The decision on the words found is the first match that is meant by      *)
(* them: the loop stops at the first, and no later rule comes before it.    *)
LEMMA FoundIsMeant ==
    ASSUME RouteInv, NEW d \in Deciders, pc[d] = "decided"
    PROVE  decision[d] \in Meant(snap[d], request[d], hits[d])
<1> DEFINE rules == matchers[snap[d]]
           q == request[d]
           found == hits[d]
           matching == Matching(rules, KeywordRules(rules, found), q)
<1>1. rules \in Publishable
  BY DEF RouteInv, RouteTypes
<1>2. decision[d] = Decision(rules, KeywordRules(rules, found), q)
  BY DEF RouteInv, Deciding
<1>3. \A i \in DOMAIN rules : i \in matching <=> Matches(rules[i], q, found)
  BY MatchingMeans
<1>4. CASE matching = {}
  <2>1. {r \in RulesOf(snap[d]) : Matches(r, q, found)} = {}
    BY <1>3, <1>4 DEF RulesOf
  <2>2. decision[d] = Default
    BY <1>1, <1>2, <1>4, DecisionFirst
  <2> QED
    BY <2>1, <2>2 DEF Meant
<1>5. CASE matching # {}
  <2>1. PICK i \in matching : decision[d] = Picked(rules[i], q) /\ \A j \in matching : i <= j
    <3> HIDE DEF rules, q, found
    <3> QED
      BY <1>1, <1>2, <1>5, DecisionFirst
  <2>2. i \in DOMAIN rules /\ Matches(rules[i], q, found) /\ rules[i] \in RulesOf(snap[d])
    BY <1>3 DEF Matching, RulesOf
  <2>3. ASSUME NEW j \in DOMAIN rules, Matches(rules[j], q, found)
        PROVE  Before(rules[i], rules[j])
    <3>1. i <= j /\ i \in Nat /\ j \in Nat
      BY <1>1, <1>3, <2>1, <2>2, <2>3, PublishableSorted
    <3>2. CASE i = j
      <4>1. rules[i] \in RuleSets
        BY <1>1, <2>2, PublishableSorted
      <4> QED
        BY <3>2, <4>1, RulesOrdered
    <3>3. CASE i < j
      BY <1>1, <2>2, <3>3, PublishableSorted
    <3> QED
      BY <3>1, <3>2, <3>3
  <2>4. \A t \in RulesOf(snap[d]) : Matches(t, q, found) => Before(rules[i], t)
    BY <2>3 DEF RulesOf
  <2> QED
    BY <2>1, <2>2, <2>4 DEF Meant
<1> QED
  BY <1>4, <1>5

(* Any number of deciders among any number of loaders get the first match   *)
(* of the table they loaded, by the keywords they found in their prompts:   *)
(* no two tables are mixed, no rule without keywords is passed over, and    *)
(* none is taken whose conditions fail (engine.go:78-181).                  *)
THEOREM AlwaysDecidesFirstFound == Spec => []DecidesFirstFound
<1>1. RouteInv => DecidesFirstFound
  <2> SUFFICES ASSUME RouteInv, NEW d \in Deciders, pc[d] = "decided"
               PROVE  \E m \in snap[d] .. Len(matchers) : \E found \in SUBSET request[d].words :
                        decision[d] \in Meant(m, request[d], found)
    BY DEF DecidesFirstFound
  <2>1. snap[d] \in snap[d] .. Len(matchers)
    BY DEF RouteInv, RouteTypes
  <2>2. hits[d] \in SUBSET request[d].words
    BY DEF RouteInv, Deciding, Known
  <2> QED
    BY <2>1, <2>2, FoundIsMeant
<1> QED
  BY <1>1, RouteAlways, PTL

(* Without words in the prompts, as the proxy calls Decide (server.go:203), *)
(* any number of deciders and loaders get the decision that is meant.       *)
THEOREM SilentDecidesFirstMatch ==
    ASSUME \A q \in Requests : q.words = {}
    PROVE  Spec => []DecidesFirstMatch
<1>1. RouteInv => DecidesFirstMatch
  <2> SUFFICES ASSUME RouteInv, NEW d \in Deciders, pc[d] = "decided"
               PROVE  \E m \in snap[d] .. Len(matchers) :
                        decision[d] \in Meant(m, request[d], request[d].words)
    BY DEF DecidesFirstMatch
  <2>1. snap[d] \in snap[d] .. Len(matchers)
    BY DEF RouteInv, RouteTypes
  <2>2. request[d].words = {}
    BY NoWords DEF RouteInv, RouteTypes
  <2>3. hits[d] = request[d].words
    BY <2>2 DEF RouteInv, Deciding, Known
  <2> QED
    BY <2>1, <2>3, FoundIsMeant
<1> QED
  BY <1>1, RouteAlways, PTL
=============================================================================
