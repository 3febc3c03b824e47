--------------------------- MODULE Gateway_proofs ---------------------------
(***************************************************************************)
(* The charge and the hold of every request, for any number of requests,   *)
(* projects, plans and limits: a budget is charged with exactly the totals *)
(* of the streams it pays for, a hold is given back by the time a client   *)
(* sees the end of its stream, and only answers that are not streams, or   *)
(* streams that another project pays for, leave one behind.                *)
(***************************************************************************)
EXTENDS Gateway, Totals_proofs, FiniteSetTheorems, TLAPS

(* The most that n lines cost.                                              *)
Cap(n) == LineCost * n

(* totalCost never exceeds what the lines read so far may cost; the line    *)
(* being relayed is not in it yet.                                          *)
Fits(q) ==
    total[q] + (IF stream[q] = "relaying" THEN LineCost ELSE 0) <= Cap(lines[q])

Reads(q) == stream[q] \in {"relaying", "checking"} => line[q] \in Lines

(* The retry is known by its empty decision.                                *)
Retries(q) ==
    /\ pc[q] = "new" => attempts[q] = 0
    /\ pc[q] = "directing" => attempts[q] = IF decision[q] = NoDecision THEN 1 ELSE 0
    /\ pc[q] = "sent" => attempts[q] = IF decision[q] = NoDecision THEN 2 ELSE 1
    /\ attempts[q] <= 2

(* Who holds what: from its admission on a request holds an amount of its   *)
(* own project, until its stream settles with that project.                 *)
Held(q) == owner[q] = IF project[q] \in Budgets THEN project[q] ELSE NoProject

Released(q) == owner[q] = NoProject \/ Payer(q) # project[q]

Owns(q) ==
    /\ pc[q] = "new" => owner[q] = NoProject
    /\ pc[q] \in {"directing", "sent"} => Held(q)
    /\ stream[q] \in {"reading", "relaying", "checking", "settling"} => Held(q)
    /\ stream[q] \in {"closing", "ended"} => Released(q)
    /\ owner[q] \in {NoProject, project[q]}
    /\ pc[q] = "copying" => stream[q] # "none"
    /\ pc[q] = "over" /\ stream[q] = "none" =>
         owner[q] = NoProject \/ answer[q] \in {"plain", "badGateway"}
    /\ answer[q] # "none" => pc[q] = "over"
    /\ answer[q] = "stream" => stream[q] = "ended"

GatewayInv ==
    /\ TypeOK
    /\ \A q \in Requests : Fits(q) /\ Reads(q) /\ Retries(q) /\ Owns(q)

-----------------------------------------------------------------------------
(* The steps of the handler and of the goroutine of one request *)

LEMMA Caps ==
    ASSUME NEW n \in 0 .. MaxLines
    PROVE  /\ Cap(n) \in Nat
           /\ Cap(n) <= LineCost * MaxLines
           /\ Cap(n + 1) = Cap(n) + LineCost
<1>1. LineCost \in Nat /\ MaxLines \in Nat /\ n \in Nat
  BY AmountsAssumption
<1>2. PICK d \in Nat : MaxLines = n + d
  <2>1. MaxLines - n \in Nat /\ MaxLines = n + (MaxLines - n)
    BY <1>1
  <2> QED
    BY <2>1
<1>3. LineCost * (n + d) = LineCost * n + LineCost * d
  BY <1>1
<1>4. LineCost * n \in Nat /\ LineCost * d \in Nat
  BY <1>1
<1>5. LineCost * (n + 1) = LineCost * n + LineCost
  BY <1>1
<1> QED
  BY <1>2, <1>3, <1>4, <1>5 DEF Cap

LEMMA NoDecisionFound ==
    ASSUME NEW d \in Decisions
    PROVE  d # NoDecision /\ d.target \in Targets /\ d.fallback \in Targets \cup {NoTarget}
  BY RoutesAssumption DEF NoDecision

LEMMA GatewayStart == Init => GatewayInv
<1> SUFFICES ASSUME Init PROVE GatewayInv
  OBVIOUS
<1>1. 0 \in 0 .. MaxLines /\ 0 \in 0 .. LineCost * MaxLines /\ 0 \in 0 .. MaxEstimate
  BY AmountsAssumption, Caps DEF Cap
<1>2. TypeOK
  BY <1>1, AmountsAssumption DEF Init, TypeOK, Answers
<1>3. ASSUME NEW q \in Requests PROVE Fits(q)
  BY <1>1, Caps DEF Init, Fits
<1>4. ASSUME NEW q \in Requests PROVE Reads(q) /\ Retries(q) /\ Owns(q)
  BY DEF Init, Reads, Retries, Owns, Released, Payer
<1> QED
  BY <1>2, <1>3, <1>4 DEF GatewayInv

(* An answer at once: the request is over before it holds anything.         *)
LEMMA AnswerKeeps ==
    ASSUME GatewayInv, NEW q \in Requests, NEW d \in Decisions, TurnAway(q) \/ Refuse(q, d)
    PROVE  GatewayInv'
<1> USE DEF TurnAway, Refuse, Answer, ledger, request, body
<1>1. TypeOK'
  BY DEF GatewayInv, TypeOK, Answers
<1>2. ASSUME NEW r \in Requests PROVE (Fits(r) /\ Reads(r))'
  BY DEF GatewayInv, TypeOK, Fits, Reads
<1>3. ASSUME NEW r \in Requests PROVE (Retries(r) /\ Owns(r))'
  BY DEF GatewayInv, TypeOK, Retries, Owns, Held, Released, Payer, Answers
<1> QED
  BY <1>1, <1>2, <1>3 DEF GatewayInv

LEMMA AdmitKeeps ==
    ASSUME GatewayInv, NEW q \in Requests, NEW d \in Decisions, Admit(q, d) \/ AdmitUnconfigured(q, d)
    PROVE  GatewayInv'
<1> USE DEF Admit, AdmitUnconfigured, Route, ledger, body
<1>1. Estimate[d.target] \in 0 .. MaxEstimate /\ d # NoDecision
  BY NoDecisionFound, AmountsAssumption
<1>2. TypeOK'
  <2>1. frozen' \in [Budgets -> Int]
    BY <1>1 DEF GatewayInv, TypeOK
  <2>2. owner' \in [Requests -> Budgets \cup {NoProject}] /\ held' \in [Requests -> 0 .. MaxEstimate]
    BY <1>1 DEF GatewayInv, TypeOK
  <2>3. /\ planned' \in [Requests -> Decisions \cup {NoDecision}]
        /\ decision' \in [Requests -> Decisions \cup {NoDecision}]
    BY DEF GatewayInv, TypeOK
  <2>4. /\ pc' \in [Requests -> {"new", "directing", "sent", "copying", "over"}]
        /\ pc[q] = "new" /\ pc' = [pc EXCEPT ![q] = "directing"]
    BY DEF GatewayInv, TypeOK
  <2>5. UNCHANGED <<spent, project, host, attempts, answer, stream, line, lines, total, tripped>>
    BY DEF request
  <2> QED
    BY <2>1, <2>2, <2>3, <2>4, <2>5 DEF GatewayInv, TypeOK
<1>3. ASSUME NEW r \in Requests PROVE (Fits(r) /\ Reads(r))'
  BY DEF GatewayInv, TypeOK, Fits, Reads
<1>4. ASSUME NEW r \in Requests PROVE Retries(r)'
  BY <1>1 DEF GatewayInv, TypeOK, Retries
<1>5. ASSUME NEW r \in Requests PROVE Owns(r)'
  BY DEF GatewayInv, TypeOK, Owns, Held, Released, Payer
<1> QED
  BY <1>2, <1>3, <1>4, <1>5 DEF GatewayInv

(* The round trip, and its retry: an empty decision has no fallback.        *)
LEMMA ForwardKeeps ==
    ASSUME GatewayInv, NEW q \in Requests, Direct(q) \/ FallBack(q) \/ BadGateway(q) \/ PassThrough(q)
    PROVE  GatewayInv'
<1> USE DEF Direct, FallBack, BadGateway, PassThrough, Answer, ledger, request, body
<1>1. TypeOK'
  <2>1. CASE Direct(q)
    <3>1. attempts[q] + 1 \in Nat
      BY DEF GatewayInv, TypeOK
    <3>2. (IF decision[q].target \in Upstreams THEN decision[q].target
           ELSE IF DefaultTarget \in Upstreams THEN DefaultTarget ELSE host[q])
            \in Upstreams \cup {NoTarget}
      BY DEF GatewayInv, TypeOK
    <3> QED
      BY <2>1, <3>1, <3>2 DEF GatewayInv, TypeOK
  <2>2. CASE FallBack(q)
    BY <2>2 DEF GatewayInv, TypeOK
  <2>3. CASE BadGateway(q) \/ PassThrough(q)
    BY <2>3 DEF GatewayInv, TypeOK, Answers
  <2> QED
    BY <2>1, <2>2, <2>3
<1>2. ASSUME NEW r \in Requests PROVE (Fits(r) /\ Reads(r))'
  BY DEF GatewayInv, TypeOK, Fits, Reads
<1>3. ASSUME NEW r \in Requests PROVE Retries(r)'
  <2>1. NoDecision.fallback = NoTarget /\ NoTarget \notin Upstreams
    BY RoutesAssumption DEF NoDecision
  <2> QED
    BY <2>1 DEF GatewayInv, TypeOK, Retries
<1>4. ASSUME NEW r \in Requests PROVE Owns(r)'
  BY DEF GatewayInv, TypeOK, Owns, Held, Released, Payer, Answers
<1> QED
  BY <1>1, <1>2, <1>3, <1>4 DEF GatewayInv

LEMMA CopyKeeps ==
    ASSUME GatewayInv, NEW q \in Requests, StreamBegin(q) \/ CopyEnd(q) \/ ClientGone(q)
    PROVE  GatewayInv'
<1> USE DEF StreamBegin, CopyEnd, ClientGone, Answer, StreamGoto, ledger, request, body
<1>1. TypeOK'
  BY DEF GatewayInv, TypeOK, Answers
<1>2. ASSUME NEW r \in Requests PROVE (Fits(r) /\ Reads(r))'
  BY DEF GatewayInv, TypeOK, Fits, Reads
<1>3. ASSUME NEW r \in Requests PROVE Retries(r)'
  BY DEF GatewayInv, TypeOK, Retries
<1>4. ASSUME NEW r \in Requests PROVE Owns(r)'
  BY DEF GatewayInv, TypeOK, Owns, Held, Released, Payer, Answers
<1> QED
  BY <1>1, <1>2, <1>3, <1>4 DEF GatewayInv

LEMMA ReadLineKeeps ==
    ASSUME GatewayInv, NEW q \in Requests, NEW l \in Lines, ReadLine(q, l)
    PROVE  GatewayInv'
<1> USE DEF ReadLine, StreamGoto, ledger, request
<1>1. lines[q] \in 0 .. MaxLines /\ lines[q] + 1 \in 0 .. MaxLines
  BY AmountsAssumption DEF GatewayInv, TypeOK
<1>2. TypeOK'
  BY <1>1 DEF GatewayInv, TypeOK
<1>3. ASSUME NEW r \in Requests PROVE Fits(r)'
  <2>1. CASE r = q
    <3>1. Cap(lines[q] + 1) = Cap(lines[q]) + LineCost /\ Cap(lines[q]) \in Nat
      BY <1>1, Caps
    <3>2. total[q] <= Cap(lines[q]) /\ total[q] \in Nat /\ LineCost \in Nat
      BY AmountsAssumption DEF GatewayInv, TypeOK, Fits
    <3>3. lines'[q] = lines[q] + 1 /\ total' = total /\ stream'[q] = "relaying"
      BY DEF GatewayInv, TypeOK
    <3> QED
      BY <2>1, <3>1, <3>2, <3>3 DEF Fits
  <2>2. CASE r # q
    BY <2>2 DEF GatewayInv, TypeOK, Fits
  <2> QED
    BY <2>1, <2>2
<1>4. ASSUME NEW r \in Requests PROVE (Reads(r) /\ Retries(r))'
  BY DEF GatewayInv, TypeOK, Reads, Retries
<1>5. ASSUME NEW r \in Requests PROVE Owns(r)'
  BY DEF GatewayInv, TypeOK, Owns, Held, Released, Payer
<1> QED
  BY <1>2, <1>3, <1>4, <1>5 DEF GatewayInv

LEMMA RelayKeeps ==
    ASSUME GatewayInv, NEW q \in Requests, Relay(q)
    PROVE  GatewayInv'
<1> USE DEF Relay, StreamGoto, ledger, request
<1>1. line[q] \in Lines
  BY DEF GatewayInv, Reads
<1>2. line[q].cost \in 0 .. LineCost /\ line[q].kind \in {"chunk", "done", "free"}
  BY <1>1, AmountsAssumption DEF Lines
<1>3. stream' = [stream EXCEPT ![q] = stream'[q]]
      /\ stream'[q] \in {"checking", "settling", "reading"}
  BY <1>2 DEF GatewayInv, TypeOK
<1>4. total'[q] = total[q] + line[q].cost /\ total[q] \in Nat /\ LineCost \in Nat
  BY AmountsAssumption DEF GatewayInv, TypeOK
<1>5. lines[q] \in 0 .. MaxLines /\ total[q] + LineCost <= Cap(lines[q])
  BY DEF GatewayInv, TypeOK, Fits
<1>6. Cap(lines[q]) \in Nat /\ Cap(lines[q]) <= LineCost * MaxLines
  BY <1>5, Caps
<1>7. total'[q] \in Nat /\ total'[q] <= Cap(lines[q])
  BY <1>2, <1>4, <1>5, <1>6
<1>8. total'[q] \in 0 .. LineCost * MaxLines
  <2>1. LineCost * MaxLines \in Nat
    BY AmountsAssumption
  <2> QED
    BY <1>6, <1>7, <2>1
<1>9. TypeOK'
  BY <1>3, <1>8 DEF GatewayInv, TypeOK
<1>10. ASSUME NEW r \in Requests PROVE Fits(r)'
  <2>1. CASE r = q
    <3>1. stream'[r] # "relaying" /\ lines'[r] = lines[q] /\ total'[r] = total'[q]
      BY <1>3, <2>1
    <3>2. Fits(r)' <=> total'[r] + 0 <= Cap(lines'[r])
      BY <3>1 DEF Fits
    <3>3. total'[r] + 0 = total'[q] /\ Cap(lines'[r]) = Cap(lines[q])
      BY <3>1, <1>7
    <3> QED
      BY <3>2, <3>3, <1>7
  <2>2. CASE r # q
    <3>1. stream'[r] = stream[r] /\ total'[r] = total[r] /\ lines' = lines
      BY <1>3, <2>2 DEF GatewayInv, TypeOK
    <3> QED
      BY <3>1 DEF GatewayInv, Fits
  <2> QED
    BY <2>1, <2>2
<1>11. ASSUME NEW r \in Requests PROVE (Reads(r) /\ Retries(r))'
  BY <1>1, <1>3 DEF GatewayInv, TypeOK, Reads, Retries
<1>12. ASSUME NEW r \in Requests PROVE Owns(r)'
  <2>1. UNCHANGED <<owner, project, planned, pc, answer>> /\ stream[q] = "relaying"
    BY <1>1
  <2>2. stream'[r] = IF r = q THEN stream'[q] ELSE stream[r]
    BY <1>3 DEF GatewayInv, TypeOK
  <2>3. Owns(r)
    BY DEF GatewayInv
  <2>4. (Held(r)' <=> Held(r)) /\ (Released(r)' <=> Released(r))
    BY <2>1 DEF Held, Released, Payer
  <2> HIDE DEF Relay
  <2> QED
    BY <1>3, <2>1, <2>2, <2>3, <2>4 DEF Owns
<1> QED
  BY <1>9, <1>10, <1>11, <1>12 DEF GatewayInv

LEMMA GoroutineKeeps ==
    ASSUME GatewayInv, NEW q \in Requests,
           ReadEnd(q) \/ RelayFail(q) \/ CheckPass(q) \/ CheckTrip(q) \/ StreamClose(q)
    PROVE  GatewayInv'
<1> USE DEF ReadEnd, RelayFail, CheckPass, CheckTrip, StreamClose, StreamGoto, ledger, request
<1>0. /\ UNCHANGED <<ledger, pc, request, answer, line, lines, total>>
      /\ stream' = [stream EXCEPT ![q] = stream'[q]]
      /\ stream[q] # "none" /\ stream'[q] \in {"reading", "settling", "ended"}
      /\ \/ tripped' = tripped /\ (tripped[q] => stream'[q] \in {"settling", "ended"})
         \/ tripped' = [tripped EXCEPT ![q] = TRUE] /\ stream'[q] = "settling"
  BY DEF GatewayInv, TypeOK
<1>1. TypeOK'
  <2> HIDE DEF ReadEnd, RelayFail, CheckPass, CheckTrip, StreamClose, StreamGoto
  <2>1. stream' \in [Requests -> {"none", "reading", "relaying", "checking",
                                  "settling", "closing", "ended"}]
    <3>1. stream \in [Requests -> {"none", "reading", "relaying", "checking",
                                   "settling", "closing", "ended"}]
      BY DEF GatewayInv, TypeOK
    <3> QED
      BY <1>0, <3>1
  <2>2. tripped' \in [Requests -> BOOLEAN]
    BY <1>0 DEF GatewayInv, TypeOK
  <2>3. ASSUME NEW r \in Requests
        PROVE  /\ stream'[r] # "none" => pc'[r] \in {"copying", "over"}
               /\ tripped'[r] => stream'[r] \in {"settling", "closing", "ended"}
    BY <1>0 DEF GatewayInv, TypeOK
  <2> QED
    BY <1>0, <2>1, <2>2, <2>3 DEF GatewayInv, TypeOK
<1>2. ASSUME NEW r \in Requests PROVE Fits(r)'
  <2>1. Cap(lines[r]) \in Nat /\ total[r] \in Nat /\ LineCost \in Nat
    BY Caps, AmountsAssumption DEF GatewayInv, TypeOK
  <2> QED
    BY <2>1 DEF GatewayInv, TypeOK, Fits
<1>3. ASSUME NEW r \in Requests PROVE (Reads(r) /\ Retries(r))'
  BY DEF GatewayInv, TypeOK, Reads, Retries
<1>4. ASSUME NEW r \in Requests PROVE Owns(r)'
  BY DEF GatewayInv, TypeOK, Owns, Held, Released, Payer
<1> QED
  BY <1>1, <1>2, <1>3, <1>4 DEF GatewayInv

LEMMA SettleKeeps ==
    ASSUME GatewayInv, NEW q \in Requests, StreamSettle(q)
    PROVE  GatewayInv'
<1> USE DEF StreamSettle, StreamGoto, SettleBudget, ledger, request
<1>1. total[q] \in Nat /\ 0 \in 0 .. MaxEstimate
  BY AmountsAssumption DEF GatewayInv, TypeOK
<1>2. TypeOK'
  <2>1. CASE Payer(q) \notin Budgets
    BY <2>1 DEF GatewayInv, TypeOK
  <2>2. CASE Payer(q) \in Budgets
    <3>1. /\ spent[Payer(q)] + total[q] \in Nat
          /\ frozen[Payer(q)] - held[q] \in Int
      BY <2>2, <1>1 DEF GatewayInv, TypeOK
    <3> QED
      BY <1>1, <2>2, <3>1 DEF GatewayInv, TypeOK
  <2> QED
    BY <2>1, <2>2
<1>3. ASSUME NEW r \in Requests PROVE (Fits(r) /\ Reads(r) /\ Retries(r))'
  BY DEF GatewayInv, TypeOK, Fits, Reads, Retries
<1>4. ASSUME NEW r \in Requests PROVE Owns(r)'
  BY DEF GatewayInv, TypeOK, Owns, Held, Released, Payer
<1> QED
  BY <1>2, <1>3, <1>4 DEF GatewayInv

LEMMA GatewayStep == GatewayInv /\ [Next]_vars => GatewayInv'
<1> SUFFICES ASSUME GatewayInv, [Next]_vars PROVE GatewayInv'
  OBVIOUS
<1>1. ASSUME NEW q \in Requests, Handler(q) PROVE GatewayInv'
  <2>1. CASE TurnAway(q)
    <3> USE DEF TurnAway, Answer, ledger, request, body
    <3>1. TypeOK'
      BY <2>1 DEF GatewayInv, TypeOK, Answers
    <3>2. ASSUME NEW r \in Requests PROVE (Fits(r) /\ Reads(r) /\ Retries(r) /\ Owns(r))'
      BY <2>1 DEF GatewayInv, TypeOK, Fits, Reads, Retries, Owns, Held, Released, Payer, Answers
    <3> QED
      BY <3>1, <3>2 DEF GatewayInv
  <2> QED
    BY <1>1, <2>1, AnswerKeeps, AdmitKeeps, ForwardKeeps, CopyKeeps DEF Handler
<1>2. ASSUME NEW q \in Requests, Goroutine(q) \/ ReadEnd(q) PROVE GatewayInv'
  BY <1>2, RelayKeeps, GoroutineKeeps, SettleKeeps DEF Goroutine
<1>3. CASE UNCHANGED vars
  <2> USE DEF vars, ledger, request, body
  <2>1. TypeOK'
    BY <1>3 DEF GatewayInv, TypeOK
  <2>2. ASSUME NEW r \in Requests PROVE (Fits(r) /\ Reads(r) /\ Retries(r) /\ Owns(r))'
    BY <1>3 DEF GatewayInv, Fits, Reads, Retries, Owns, Held, Released, Payer
  <2> QED
    BY <2>1, <2>2 DEF GatewayInv
<1> QED
  BY <1>1, <1>2, <1>3, ReadLineKeeps DEF Next

LEMMA GatewayAlways == Spec => []GatewayInv
  BY GatewayStart, GatewayStep, PTL DEF Spec

-----------------------------------------------------------------------------
(* The charges *)

LEMMA SettledFinite == ASSUME NEW p PROVE IsFiniteSet(Settled(p))
  BY RequestsAssumption, FS_Subset DEF Settled

LEMMA SpentStart == Init => SpentIsStreams
<1> SUFFICES ASSUME Init, NEW p \in Budgets
             PROVE  spent[p] = Spent0[p] + Total(Settled(p), total, LineCost * MaxLines)
  BY DEF SpentIsStreams
<1>1. Settled(p) = {}
  BY DEF Init, Settled
<1> QED
  BY <1>1, TotalEmpty, AmountsAssumption DEF Init

(* A step of a request that neither charges nor settles: the streams that   *)
(* have settled, and their totals, are the same.                            *)
LEMMA SpentKeeps ==
    ASSUME SpentIsStreams, UNCHANGED spent,
           \A q \in Requests : stream[q] \in {"closing", "ended"} => Payer(q)' = Payer(q),
           \A q \in Requests : stream'[q] \in {"closing", "ended"}
                                 <=> stream[q] \in {"closing", "ended"},
           \A q \in Requests : stream[q] \in {"closing", "ended"} => total'[q] = total[q]
    PROVE  SpentIsStreams'
<1> SUFFICES ASSUME NEW p \in Budgets
             PROVE  spent'[p] = Spent0[p] + Total(Settled(p)', total', LineCost * MaxLines)
  BY DEF SpentIsStreams
<1>1. Settled(p)' = Settled(p)
  BY DEF Settled
<1>2. \A q \in Settled(p) : total[q] = total'[q]
  BY DEF Settled
<1>3. Total(Settled(p), total, LineCost * MaxLines) = Total(Settled(p), total', LineCost * MaxLines)
  BY <1>2, TotalSame
<1> QED
  BY <1>1, <1>3 DEF SpentIsStreams

(* The settlement of a stream: its payer, if it has a budget, is charged    *)
(* its total, and it counts as settled from then on.                        *)
LEMMA SpentSettle ==
    ASSUME GatewayInv, SpentIsStreams, NEW q \in Requests, StreamSettle(q)
    PROVE  SpentIsStreams'
<1> DEFINE M == LineCost * MaxLines
<1> SUFFICES ASSUME NEW p \in Budgets
             PROVE  spent'[p] = Spent0[p] + Total(Settled(p)', total', M)
  BY DEF SpentIsStreams
<1>1. total' = total /\ (\A r : Payer(r)' = Payer(r))
      /\ stream' = [stream EXCEPT ![q] = "closing"] /\ stream[q] = "settling"
  BY DEF StreamSettle, StreamGoto, request, Payer
<1>3. spent[p] = Spent0[p] + Total(Settled(p), total, M) /\ spent[p] \in Nat
  BY DEF SpentIsStreams, GatewayInv, TypeOK
<1>4. CASE Payer(q) = p
  <2>1. Settled(p)' = Settled(p) \cup {q} /\ q \notin Settled(p)
    BY <1>1, <1>4 DEF Settled, GatewayInv, TypeOK
  <2>2. M \in Nat /\ total[q] \in 0 .. M
    BY AmountsAssumption DEF GatewayInv, TypeOK
  <2>3. Total(Settled(p) \cup {q}, total, M) = Total(Settled(p), total, M) + total[q]
    BY <2>1, <2>2, SettledFinite, TotalAdd
  <2>4. Total(Settled(p), total, M) \in Nat /\ Spent0[p] \in Nat
    BY <2>2, SettledFinite, UnitsFinite, AmountsAssumption
  <2>5. spent'[p] = spent[p] + total[q]
    BY <1>4 DEF StreamSettle, SettleBudget, GatewayInv, TypeOK
  <2> HIDE DEF M
  <2> QED
    BY <1>1, <1>3, <2>1, <2>2, <2>3, <2>4, <2>5
<1>5. CASE Payer(q) # p
  <2>1. Settled(p)' = Settled(p)
    BY <1>1, <1>5 DEF Settled, GatewayInv, TypeOK
  <2>2. spent'[p] = spent[p]
    BY <1>5 DEF StreamSettle, SettleBudget, GatewayInv, TypeOK, ledger
  <2> QED
    BY <1>1, <1>3, <2>1, <2>2
<1> QED
  BY <1>4, <1>5

LEMMA SpentStep == GatewayInv /\ SpentIsStreams /\ [Next]_vars => SpentIsStreams'
<1> SUFFICES ASSUME GatewayInv, SpentIsStreams, [Next]_vars PROVE SpentIsStreams'
  OBVIOUS
<1> USE DEF ledger, request, body, StreamGoto
<1>1. ASSUME NEW q \in Requests, Handler(q) PROVE SpentIsStreams'
  <2>1. UNCHANGED <<spent, project, total>>
        /\ (planned' = planned \/ (pc[q] = "new" /\ \E d \in Decisions : planned' = [planned EXCEPT ![q] = d]))
    BY <1>1 DEF Handler, TurnAway, Refuse, Admit, AdmitUnconfigured, Route, Direct,
       FallBack, BadGateway, PassThrough, StreamBegin, CopyEnd, ClientGone
  <2>2. stream' = stream \/ (stream' = [stream EXCEPT ![q] = "reading"] /\ pc[q] = "sent")
    BY <1>1 DEF Handler, TurnAway, Refuse, Admit, AdmitUnconfigured, Route, Direct,
       FallBack, BadGateway, PassThrough, StreamBegin, CopyEnd, ClientGone
  <2>3. pc[q] \in {"new", "sent"} => stream[q] = "none"
    BY DEF GatewayInv, TypeOK
  <2>4. ASSUME NEW r \in Requests, stream[r] \in {"closing", "ended"}
        PROVE  Payer(r)' = Payer(r)
    BY <2>1, <2>3, <2>4 DEF GatewayInv, TypeOK, Payer
  <2>5. ASSUME NEW r \in Requests
        PROVE  stream'[r] \in {"closing", "ended"} <=> stream[r] \in {"closing", "ended"}
    BY <2>2, <2>3 DEF GatewayInv, TypeOK
  <2> QED
    BY <2>1, <2>4, <2>5, SpentKeeps
<1>2. ASSUME NEW q \in Requests, NEW l \in Lines, ReadLine(q, l) PROVE SpentIsStreams'
  BY <1>2, SpentKeeps DEF ReadLine, Payer, GatewayInv, TypeOK
<1>3. ASSUME NEW q \in Requests,
             ReadEnd(q) \/ RelayFail(q) \/ CheckPass(q) \/ CheckTrip(q) \/ StreamClose(q)
      PROVE  SpentIsStreams'
  BY <1>3, SpentKeeps DEF Payer, ReadEnd, RelayFail, CheckPass, CheckTrip, StreamClose, GatewayInv, TypeOK
<1>4. ASSUME NEW q \in Requests, Relay(q) PROVE SpentIsStreams'
  <2>1. line[q].kind \in {"chunk", "done", "free"}
    BY <1>4 DEF Relay, GatewayInv, Reads, Lines
  <2> QED
    BY <1>4, <2>1, SpentKeeps DEF Payer, Relay, GatewayInv, TypeOK
<1>5. CASE UNCHANGED vars
  BY <1>5, SpentKeeps DEF vars, Payer
<1> QED
  BY <1>1, <1>2, <1>3, <1>4, <1>5, SpentSettle DEF Next, Goroutine

-----------------------------------------------------------------------------
(* The holds *)

LEMMA HolderSets ==
    ASSUME NEW p
    PROVE  IsFiniteSet(Holders(p)) /\ IsFiniteSet(Strangers(p))
<1>1. Holders(p) \subseteq Requests /\ Strangers(p) \subseteq Requests
  BY DEF Holders, Strangers, Settled
<1> QED
  BY <1>1, RequestsAssumption, FS_Subset

LEMMA HoldersStart == Init => FrozenIsHolds
<1> SUFFICES ASSUME Init, NEW p \in Budgets
             PROVE  frozen[p] = Total(Holders(p), held, MaxEstimate)
                                  - Total(Strangers(p), held, MaxEstimate)
  BY DEF FrozenIsHolds
<1>1. Holders(p) = {} /\ Strangers(p) = {}
  BY ProjectsAssumption DEF Init, Holders, Strangers, Settled
<1> QED
  BY <1>1, TotalEmpty DEF Init

(* A step that moves no hold: the same requests hold, and have released, as *)
(* much as before.                                                          *)
LEMMA HoldersKeep ==
    ASSUME FrozenIsHolds, UNCHANGED <<frozen, owner, project>>,
           \A q \in Requests : stream'[q] \in {"closing", "ended"}
                                 <=> stream[q] \in {"closing", "ended"},
           \A q \in Requests : stream[q] \in {"closing", "ended"} => Payer(q)' = Payer(q),
           \A q \in Requests : owner[q] # NoProject \/ stream[q] \in {"closing", "ended"}
                                 => held'[q] = held[q]
    PROVE  FrozenIsHolds'
<1> SUFFICES ASSUME NEW p \in Budgets
             PROVE  frozen'[p] = Total(Holders(p)', held', MaxEstimate)
                                   - Total(Strangers(p)', held', MaxEstimate)
  BY DEF FrozenIsHolds
<1>1. Holders(p)' = Holders(p) /\ Strangers(p)' = Strangers(p)
  BY DEF Holders, Strangers, Settled
<1>2. /\ \A q \in Holders(p) : held[q] = held'[q]
      /\ \A q \in Strangers(p) : held[q] = held'[q]
  BY ProjectsAssumption DEF Holders, Strangers, Settled
<1>3. /\ Total(Holders(p), held, MaxEstimate) = Total(Holders(p), held', MaxEstimate)
      /\ Total(Strangers(p), held, MaxEstimate) = Total(Strangers(p), held', MaxEstimate)
  BY <1>2, TotalSame
<1> QED
  BY <1>1, <1>3 DEF FrozenIsHolds

(* Admission adds to a budget what the request then holds of it.            *)
LEMMA HoldersAdmit ==
    ASSUME GatewayInv, FrozenIsHolds, NEW q \in Requests, NEW d \in Decisions, Admit(q, d)
    PROVE  FrozenIsHolds'
<1> SUFFICES ASSUME NEW p \in Budgets
             PROVE  frozen'[p] = Total(Holders(p)', held', MaxEstimate)
                                   - Total(Strangers(p)', held', MaxEstimate)
  BY DEF FrozenIsHolds
<1> DEFINE amount == Estimate[d.target]
<1>1. /\ owner[q] = NoProject /\ stream[q] = "none" /\ pc[q] = "new"
      /\ amount \in 0 .. MaxEstimate /\ MaxEstimate \in Nat
  BY NoDecisionFound, AmountsAssumption DEF Admit, GatewayInv, TypeOK, Owns
<1>2. /\ owner' = [owner EXCEPT ![q] = project[q]]
      /\ held' = [held EXCEPT ![q] = amount]
      /\ planned' = [planned EXCEPT ![q] = d]
      /\ frozen' = [frozen EXCEPT ![project[q]] = @ + amount]
      /\ project[q] \in Budgets
      /\ UNCHANGED <<project, stream>>
  BY DEF Admit, Route, body
<1>3. Strangers(p)' = Strangers(p) /\ q \notin Strangers(p)
  BY <1>1, <1>2 DEF Strangers, Settled, Payer, GatewayInv, TypeOK
<1>4. q \notin Holders(p) /\ held'[q] = amount
  BY <1>1, <1>2, ProjectsAssumption DEF Holders, GatewayInv, TypeOK
<1>5. /\ \A r \in Holders(p) : held[r] = held'[r]
      /\ \A r \in Strangers(p) : held[r] = held'[r]
  BY <1>2, <1>3, <1>4 DEF GatewayInv, TypeOK
<1>6. /\ Total(Holders(p), held, MaxEstimate) = Total(Holders(p), held', MaxEstimate)
      /\ Total(Strangers(p), held, MaxEstimate) = Total(Strangers(p), held', MaxEstimate)
  BY <1>5, TotalSame
<1>7. /\ frozen[p] = Total(Holders(p), held, MaxEstimate) - Total(Strangers(p), held, MaxEstimate)
      /\ Total(Holders(p), held, MaxEstimate) \in Nat
      /\ Total(Strangers(p), held, MaxEstimate) \in Nat
  BY <1>1, HolderSets, UnitsFinite DEF FrozenIsHolds
<1>8. CASE project[q] = p
  <2>1. Holders(p)' = Holders(p) \cup {q}
    BY <1>2, <1>8 DEF Holders, GatewayInv, TypeOK
  <2>2. Total(Holders(p) \cup {q}, held', MaxEstimate)
          = Total(Holders(p), held', MaxEstimate) + held'[q]
    BY <1>1, <1>4, HolderSets, TotalAdd
  <2>3. frozen'[p] = frozen[p] + amount
    BY <1>2, <1>8 DEF GatewayInv, TypeOK
  <2> QED
    BY <1>1, <1>3, <1>4, <1>6, <1>7, <2>1, <2>2, <2>3
<1>9. CASE project[q] # p
  <2>1. Holders(p)' = Holders(p)
    BY <1>1, <1>2, <1>9, ProjectsAssumption DEF Holders, GatewayInv, TypeOK
  <2>2. frozen'[p] = frozen[p]
    BY <1>2, <1>9 DEF GatewayInv, TypeOK
  <2> QED
    BY <1>3, <1>6, <1>7, <2>1, <2>2
<1> QED
  BY <1>8, <1>9

(* A settlement takes from the payer's budget the amount in the context: a  *)
(* hold of its own, or one of another project's.                            *)
LEMMA HoldersSettle ==
    ASSUME GatewayInv, FrozenIsHolds, NEW q \in Requests, StreamSettle(q)
    PROVE  FrozenIsHolds'
<1> SUFFICES ASSUME NEW p \in Budgets
             PROVE  frozen'[p] = Total(Holders(p)', held, MaxEstimate)
                                   - Total(Strangers(p)', held, MaxEstimate)
  BY DEF FrozenIsHolds, StreamSettle, SettleBudget, ledger
<1>1. /\ \A r : Payer(r)' = Payer(r)
      /\ UNCHANGED project
      /\ stream' = [stream EXCEPT ![q] = "closing"] /\ stream[q] = "settling"
  BY DEF StreamSettle, StreamGoto, request, Payer
<1>2. Held(q) /\ MaxEstimate \in Nat /\ held[q] \in 0 .. MaxEstimate
  BY <1>1, AmountsAssumption DEF GatewayInv, Owns, TypeOK
<1>3. /\ frozen[p] = Total(Holders(p), held, MaxEstimate) - Total(Strangers(p), held, MaxEstimate)
      /\ Total(Holders(p), held, MaxEstimate) \in Nat
      /\ Total(Strangers(p), held, MaxEstimate) \in Nat
  BY <1>2, HolderSets, UnitsFinite DEF FrozenIsHolds
<1>4. q \notin Strangers(p) /\ stream \in [Requests -> {"none", "reading", "relaying", "checking",
                                                       "settling", "closing", "ended"}]
  BY <1>1 DEF Strangers, Settled, GatewayInv, TypeOK
<1>5. CASE Payer(q) = p /\ project[q] = p
  <2>1. owner[q] = p /\ p # NoProject
    BY <1>2, <1>5, ProjectsAssumption DEF Held
  <2>2. frozen'[p] = frozen[p] - held[q] /\ owner' = [owner EXCEPT ![q] = NoProject]
    BY <1>5, <2>1 DEF StreamSettle, SettleBudget, GatewayInv, TypeOK
  <2>3. Holders(p)' = Holders(p) \ {q} /\ q \in Holders(p)
    BY <2>1, <2>2 DEF Holders, GatewayInv, TypeOK
  <2>4. Strangers(p)' = Strangers(p)
    BY <1>1, <1>4, <1>5 DEF Strangers, Settled
  <2>5. Total(Holders(p), held, MaxEstimate)
          = Total(Holders(p) \ {q}, held, MaxEstimate) + held[q]
    BY <1>2, <2>3, HolderSets, TotalRemove
  <2>6. Total(Holders(p) \ {q}, held, MaxEstimate) \in Nat
    BY <1>2, HolderSets, FS_RemoveElement, UnitsFinite
  <2> QED
    BY <1>2, <1>3, <2>2, <2>3, <2>4, <2>5, <2>6
<1>6. CASE Payer(q) = p /\ project[q] # p
  <2>1. owner[q] # p
    BY <1>2, <1>6, ProjectsAssumption DEF Held
  <2>2. frozen'[p] = frozen[p] - held[q] /\ owner' = owner
    BY <1>6, <2>1 DEF StreamSettle, SettleBudget, GatewayInv, TypeOK
  <2>3. Holders(p)' = Holders(p)
    BY <2>2 DEF Holders
  <2>4. Strangers(p)' = Strangers(p) \cup {q}
    BY <1>1, <1>4, <1>6 DEF Strangers, Settled
  <2>5. Total(Strangers(p) \cup {q}, held, MaxEstimate)
          = Total(Strangers(p), held, MaxEstimate) + held[q]
    BY <1>2, <1>4, HolderSets, TotalAdd
  <2> QED
    BY <1>2, <1>3, <2>2, <2>3, <2>4, <2>5
<1>7. CASE Payer(q) # p
  <2>1. frozen'[p] = frozen[p]
    BY <1>7 DEF StreamSettle, SettleBudget, GatewayInv, TypeOK, ledger
  <2>2. owner'[q] = owner[q] \/ (owner[q] # p /\ owner'[q] # p)
    BY <1>7, ProjectsAssumption DEF StreamSettle, SettleBudget, GatewayInv, TypeOK, ledger
  <2>3. \A r \in Requests \ {q} : owner'[r] = owner[r]
    BY DEF StreamSettle, SettleBudget, GatewayInv, TypeOK, ledger
  <2>4. Holders(p)' = Holders(p)
    BY <2>2, <2>3 DEF Holders
  <2>5. Strangers(p)' = Strangers(p)
    BY <1>1, <1>4, <1>7 DEF Strangers, Settled
  <2> QED
    BY <1>3, <2>1, <2>4, <2>5
<1> QED
  BY <1>5, <1>6, <1>7

LEMMA HoldersStep == GatewayInv /\ FrozenIsHolds /\ [Next]_vars => FrozenIsHolds'
<1> SUFFICES ASSUME GatewayInv, FrozenIsHolds, [Next]_vars PROVE FrozenIsHolds'
  OBVIOUS
<1> USE DEF ledger, request, body, StreamGoto
<1>1. ASSUME NEW q \in Requests, Handler(q) PROVE FrozenIsHolds'
  <2>1. CASE \E d \in Decisions : Admit(q, d)
    BY <2>1, HoldersAdmit
  <2>2. CASE \E d \in Decisions : AdmitUnconfigured(q, d)
    <3>1. /\ pc[q] = "new" /\ UNCHANGED <<frozen, owner, project, stream>>
          /\ \E d \in Decisions : /\ held' = [held EXCEPT ![q] = Estimate[d.target]]
                                  /\ planned' = [planned EXCEPT ![q] = d]
      BY <2>2 DEF AdmitUnconfigured, Route
    <3>2. owner[q] = NoProject /\ stream[q] = "none"
      BY <3>1 DEF GatewayInv, TypeOK, Owns
    <3>3. \A r \in Requests \ {q} : held'[r] = held[r] /\ Payer(r)' = Payer(r)
      BY <3>1 DEF GatewayInv, TypeOK, Payer
    <3> QED
      BY <3>1, <3>2, <3>3, HoldersKeep
  <2>3. CASE ~ \E d \in Decisions : Admit(q, d) \/ AdmitUnconfigured(q, d)
    <3>1. UNCHANGED <<frozen, owner, held, project, planned>>
      BY <1>1, <2>3 DEF Handler, TurnAway, Refuse, Direct,
         FallBack, BadGateway, PassThrough, StreamBegin, CopyEnd, ClientGone
    <3>2. stream' = stream \/ (stream' = [stream EXCEPT ![q] = "reading"] /\ pc[q] = "sent")
      BY <1>1, <2>3 DEF Handler, TurnAway, Refuse, Direct,
         FallBack, BadGateway, PassThrough, StreamBegin, CopyEnd, ClientGone
    <3>3. pc[q] = "sent" => stream[q] = "none"
      BY DEF GatewayInv, TypeOK
    <3>4. ASSUME NEW r \in Requests
          PROVE  stream'[r] \in {"closing", "ended"} <=> stream[r] \in {"closing", "ended"}
      BY <3>2, <3>3 DEF GatewayInv, TypeOK
    <3> QED
      BY <3>1, <3>4, HoldersKeep DEF Payer
  <2> QED
    BY <2>1, <2>2, <2>3
<1>2. ASSUME NEW q \in Requests, NEW l \in Lines, ReadLine(q, l) PROVE FrozenIsHolds'
  BY <1>2, HoldersKeep DEF ReadLine, Payer, GatewayInv, TypeOK
<1>3. ASSUME NEW q \in Requests,
             ReadEnd(q) \/ RelayFail(q) \/ CheckPass(q) \/ CheckTrip(q) \/ StreamClose(q)
      PROVE  FrozenIsHolds'
  BY <1>3, HoldersKeep DEF Payer, ReadEnd, RelayFail, CheckPass, CheckTrip, StreamClose,
     GatewayInv, TypeOK
<1>4. ASSUME NEW q \in Requests, Relay(q) PROVE FrozenIsHolds'
  <2>1. line[q].kind \in {"chunk", "done", "free"}
    BY <1>4 DEF Relay, GatewayInv, Reads, Lines
  <2> QED
    BY <1>4, <2>1, HoldersKeep DEF Payer, Relay, GatewayInv, TypeOK
<1>5. CASE UNCHANGED vars
  BY <1>5, HoldersKeep DEF vars, Payer
<1> QED
  BY <1>1, <1>2, <1>3, <1>4, <1>5, HoldersSettle DEF Next, Goroutine

-----------------------------------------------------------------------------
(* Every variable has its type, and a goroutine runs for a request the      *)
(* proxy took.                                                              *)
THEOREM GatewayTypes == Spec => []TypeOK
<1>1. GatewayInv => TypeOK
  BY DEF GatewayInv
<1> QED
  BY <1>1, GatewayAlways, PTL

(* A retry does not retry again: its empty decision has no fallback         *)
(* (server.go:101).                                                         *)
THEOREM AlwaysOneRetry == Spec => []AtMostOneRetry
<1>1. GatewayInv => AtMostOneRetry
  BY DEF GatewayInv, Retries, AtMostOneRetry
<1> QED
  BY <1>1, GatewayAlways, PTL

(* A budget is charged with the totals of the streams it pays for that have *)
(* settled and with nothing else, each of them once (sse.go:45-48).         *)
THEOREM SpentAlwaysStreams == Spec => []SpentIsStreams
  BY GatewayAlways, SpentStart, SpentStep, PTL DEF Spec

(* What a budget has frozen is what its requests hold, less the amounts     *)
(* that streams of other projects released from it (server.go:82,           *)
(* sse.go:47).                                                              *)
THEOREM FrozenAlwaysHolds == Spec => []FrozenIsHolds
  BY GatewayAlways, HoldersStart, HoldersStep, PTL DEF Spec

(* A client that has seen the end of its stream has no hold left, unless    *)
(* another project paid (sse.go:44-48).                                     *)
THEOREM EndSeenAlwaysSettled == Spec => []EndSeenIsSettled
<1>1. GatewayInv => EndSeenIsSettled
  BY DEF GatewayInv, Owns, Released, EndSeenIsSettled
<1> QED
  BY <1>1, GatewayAlways, PTL

(* A hold that outlives its request is one of an answer that is not a       *)
(* stream (server.go:208, sse.go:47), or of a stream another project paid   *)
(* for (server.go:82).                                                      *)
THEOREM StrayHoldsOnly == Spec => []StrayHolds
<1>1. GatewayInv => StrayHolds
  BY DEF GatewayInv, TypeOK, Owns, Released, StrayHolds
<1> QED
  BY <1>1, GatewayAlways, PTL
=============================================================================
