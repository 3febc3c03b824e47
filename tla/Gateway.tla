------------------------------- MODULE Gateway -------------------------------
(***************************************************************************)
(* The life of a request in T-Guard's proxy (internal/proxy/server.go and  *)
(* sse.go): admission by the handler, the reverse proxy's director, round  *)
(* trip and error handler with its fallback, and the goroutine that relays *)
(* a text/event-stream response line by line, prices it, may break it off, *)
(* and settles the request at its end.                                     *)
(*                                                                         *)
(* Allow and SettleBudget are one step here.  What their interleavings do  *)
(* is BudgetController's subject; here requests interleave between those   *)
(* calls.                                                                  *)
(***************************************************************************)
EXTENDS Integers, FiniteSets, Totals

CONSTANTS
    Requests,      \* requests that reach the proxy handler
    Projects,      \* values of X-Project-ID
    Budgets,       \* the projects with a budget
    NoProject,
    Limit,         \* hard limit of each budget, 0 for none
    Spent0,        \* what each budget has spent before
    Targets,       \* names rules route to
    Upstreams,     \* the names with a configured URL
    DefaultTarget, \* Config.DefaultTarget
    NoTarget,      \* the empty string
    Decisions,     \* the decisions of the route engine; charge is the project a
                   \* rule's headers put in X-Project-ID, NoProject for none
    Estimate,      \* CalculateCost(target, 0, 4000)
    MaxEstimate,
    LineCost,      \* largest cost of a priced line
    MaxLines,      \* bound: lines of one response
    Readers        \* requests whose client reads on until its answer ends

ASSUME RequestsAssumption == IsFiniteSet(Requests) /\ Readers \subseteq Requests
ASSUME ProjectsAssumption == Budgets \subseteq Projects /\ NoProject \notin Projects
ASSUME RoutesAssumption ==
    /\ Upstreams \subseteq Targets /\ DefaultTarget \in Targets /\ NoTarget \notin Targets
    /\ Decisions \subseteq [target : Targets, fallback : Targets \cup {NoTarget},
                            charge : Projects \cup {NoProject}]
ASSUME AmountsAssumption ==
    /\ Limit \in [Budgets -> Nat] /\ Spent0 \in [Budgets -> Nat]
    /\ MaxEstimate \in Nat /\ Estimate \in [Targets -> 0 .. MaxEstimate]
    /\ LineCost \in Nat /\ MaxLines \in Nat

VARIABLES
    spent,     \* used of each budget
    frozen,    \* frozen of each budget
    owner,     \* history: the budget whose frozen amount a request stands in
    held,      \* frozen_amount, in the context of the request
    pc,        \* where the handler of the request is
    project,   \* X-Project-ID
    planned,   \* the handler's own decision
    decision,  \* the decision in the request's context
    host,      \* the upstream the director last chose
    attempts,  \* history: round trips made
    answer,    \* what the client was given
    stream,    \* where the goroutine of handleSSE is
    line,      \* the line it has read
    lines,     \* history: lines it has read
    total,     \* totalCost
    tripped    \* StreamWriter.closed

ledger == <<spent, frozen, owner, held>>
request == <<project, planned, decision, host, attempts>>
body == <<stream, line, lines, total, tripped>>
vars == <<ledger, pc, request, answer, body>>

NoDecision == [target |-> NoTarget, fallback |-> NoTarget, charge |-> NoProject]
NoLine == [kind |-> "none", cost |-> 0]

(* What a line means to handleSSE: a priced chunk, the end mark, or any     *)
(* line that costs nothing (blank, comment, unparsable, empty content).     *)
Lines == [kind : {"chunk"}, cost : 0 .. LineCost]
           \cup {[kind |-> "done", cost |-> 0], [kind |-> "free", cost |-> 0]}

Answers == {"none", "turnedAway", "refused", "badGateway", "plain", "stream", "aborted"}

(* The X-Project-ID of the outgoing request, which the goroutine of the     *)
(* stream reads: the headers of the decision have been set on it, and stay  *)
(* there through the retry.                                                 *)
Payer(q) == IF planned[q].charge = NoProject THEN project[q] ELSE planned[q].charge

Init ==
    /\ spent = Spent0
    /\ frozen = [p \in Budgets |-> 0]
    /\ owner = [q \in Requests |-> NoProject]
    /\ held = [q \in Requests |-> 0]
    /\ pc = [q \in Requests |-> "new"]
    /\ project \in [Requests -> Projects]
    /\ planned = [q \in Requests |-> NoDecision]
    /\ decision = [q \in Requests |-> NoDecision]
    /\ host = [q \in Requests |-> NoTarget]
    /\ attempts = [q \in Requests |-> 0]
    /\ answer = [q \in Requests |-> "none"]
    /\ stream = [q \in Requests |-> "none"]
    /\ line = [q \in Requests |-> NoLine]
    /\ lines = [q \in Requests |-> 0]
    /\ total = [q \in Requests |-> 0]
    /\ tripped = [q \in Requests |-> FALSE]

Answer(q, a) ==
    /\ pc' = [pc EXCEPT ![q] = "over"]
    /\ answer' = [answer EXCEPT ![q] = a]

StreamGoto(q, label) == stream' = [stream EXCEPT ![q] = label]

-----------------------------------------------------------------------------
(* The handler *)

(* 401 or 429, before any routing or budget. *)
TurnAway(q) ==
    /\ pc[q] = "new"
    /\ Answer(q, "turnedAway")
    /\ UNCHANGED <<ledger, request, body>>

Room(p, amount) == Limit[p] = 0 \/ spent[p] + frozen[p] + amount <= Limit[p]

(* Decide, the estimate for its target, Allow: 402 when there is no room. *)
Refuse(q, d) ==
    /\ pc[q] = "new"
    /\ project[q] \in Budgets
    /\ ~Room(project[q], Estimate[d.target])
    /\ Answer(q, "refused")
    /\ UNCHANGED <<ledger, request, body>>

(* The estimate goes into the context, whether or not it was frozen.        *)
Route(q, d) ==
    /\ held' = [held EXCEPT ![q] = Estimate[d.target]]
    /\ pc' = [pc EXCEPT ![q] = "directing"]
    /\ planned' = [planned EXCEPT ![q] = d]
    /\ decision' = [decision EXCEPT ![q] = d]
    /\ UNCHANGED <<project, host, attempts, answer, body>>

Admit(q, d) ==
    /\ pc[q] = "new"
    /\ project[q] \in Budgets
    /\ Room(project[q], Estimate[d.target])
    /\ frozen' = [frozen EXCEPT ![project[q]] = @ + Estimate[d.target]]
    /\ owner' = [owner EXCEPT ![q] = project[q]]
    /\ UNCHANGED spent
    /\ Route(q, d)

AdmitUnconfigured(q, d) ==
    /\ pc[q] = "new"
    /\ project[q] \notin Budgets
    /\ Route(q, d)
    /\ UNCHANGED <<spent, frozen, owner>>

(* The director looks the decision's target up, falls back on the default   *)
(* one, and leaves the URL alone when neither is configured.                *)
Direct(q) ==
    LET t == decision[q].target IN
    /\ pc[q] = "directing"
    /\ pc' = [pc EXCEPT ![q] = "sent"]
    /\ host' = [host EXCEPT ![q] =
                  IF t \in Upstreams THEN t
                  ELSE IF DefaultTarget \in Upstreams THEN DefaultTarget ELSE @]
    /\ attempts' = [attempts EXCEPT ![q] = @ + 1]
    /\ UNCHANGED <<ledger, project, planned, decision, answer, body>>

(* A slip: the retry keeps the decision in its context. *)
FallBackAgain(q) ==
    LET f == decision[q].fallback IN
    /\ pc[q] = "sent"
    /\ attempts[q] <= 2
    /\ f \in Upstreams
    /\ pc' = [pc EXCEPT ![q] = "directing"]
    /\ host' = [host EXCEPT ![q] = f]
    /\ UNCHANGED <<ledger, project, planned, decision, attempts, answer, body>>

(* A slip: the fallback's estimate is frozen too, and never released. *)
FallBackFreezes(q) ==
    LET f == decision[q].fallback IN
    /\ pc[q] = "sent"
    /\ f \in Upstreams
    /\ pc' = [pc EXCEPT ![q] = "directing"]
    /\ host' = [host EXCEPT ![q] = f]
    /\ decision' = [decision EXCEPT ![q] = NoDecision]
    /\ frozen' = IF project[q] \in Budgets
                 THEN [frozen EXCEPT ![project[q]] = @ + Estimate[f]] ELSE frozen
    /\ UNCHANGED <<spent, owner, held, project, planned, attempts, answer, body>>

(* ErrorHandler: one more pass through the proxy with the fallback's URL    *)
(* and an empty decision ...                                                *)
FallBack(q) ==
    LET f == decision[q].fallback IN
    /\ pc[q] = "sent"
    /\ f \in Upstreams
    /\ pc' = [pc EXCEPT ![q] = "directing"]
    /\ host' = [host EXCEPT ![q] = f]
    /\ decision' = [decision EXCEPT ![q] = NoDecision]
    /\ UNCHANGED <<ledger, project, planned, attempts, answer, body>>

(* ... or 502. *)
BadGateway(q) ==
    /\ pc[q] = "sent"
    /\ decision[q].fallback \notin Upstreams
    /\ Answer(q, "badGateway")
    /\ UNCHANGED <<ledger, request, body>>

(* A response of any other content type passes through untouched.  Without  *)
(* a host no round trip succeeds.                                           *)
PassThrough(q) ==
    /\ pc[q] = "sent"
    /\ host[q] \in Upstreams
    /\ Answer(q, "plain")
    /\ UNCHANGED <<ledger, request, body>>

StreamBegin(q) ==
    /\ pc[q] = "sent"
    /\ host[q] \in Upstreams
    /\ pc' = [pc EXCEPT ![q] = "copying"]
    /\ StreamGoto(q, "reading")
    /\ UNCHANGED <<ledger, request, answer, line, lines, total, tripped>>

(* The reverse proxy copies the pipe to the client until the goroutine      *)
(* closes it, or until the client is gone; it then closes its own end.      *)
CopyEnd(q) ==
    /\ pc[q] = "copying"
    /\ stream[q] = "ended"
    /\ Answer(q, "stream")
    /\ UNCHANGED <<ledger, request, body>>

ClientGone(q) ==
    /\ pc[q] = "copying"
    /\ Answer(q, "aborted")
    /\ UNCHANGED <<ledger, request, body>>

-----------------------------------------------------------------------------
(* The goroutine of handleSSE *)

ReadLine(q, l) ==
    /\ stream[q] = "reading"
    /\ lines[q] < MaxLines
    /\ StreamGoto(q, "relaying")
    /\ line' = [line EXCEPT ![q] = l]
    /\ lines' = [lines EXCEPT ![q] = @ + 1]
    /\ UNCHANGED <<ledger, pc, request, answer, total, tripped>>

(* The upstream ends the response or fails; an unterminated last line is    *)
(* dropped.                                                                 *)
ReadEnd(q) ==
    /\ stream[q] = "reading"
    /\ StreamGoto(q, "settling")
    /\ UNCHANGED <<ledger, pc, request, answer, line, lines, total, tripped>>

(* StreamWriter.Write: the pipe takes the line while the client reads it.   *)
Relay(q) ==
    /\ stream[q] = "relaying"
    /\ pc[q] = "copying"
    /\ ~tripped[q]
    /\ total' = [total EXCEPT ![q] = @ + line[q].cost]
    /\ StreamGoto(q, CASE line[q].kind = "chunk" -> "checking"
                       [] line[q].kind = "done" -> "settling"
                       [] line[q].kind = "free" -> "reading")
    /\ UNCHANGED <<ledger, pc, request, answer, line, lines, tripped>>

(* A slip: a broken pipe returns before the settlement is deferred. *)
RelayFailUnsettled(q) ==
    /\ stream[q] = "relaying"
    /\ pc[q] = "over" \/ tripped[q]
    /\ StreamGoto(q, "closing")
    /\ UNCHANGED <<ledger, pc, request, answer, line, lines, total, tripped>>

(* The pipe is closed at the other end, or the writer has been tripped. *)
RelayFail(q) ==
    /\ stream[q] = "relaying"
    /\ pc[q] = "over" \/ tripped[q]
    /\ StreamGoto(q, "settling")
    /\ UNCHANGED <<ledger, pc, request, answer, line, lines, total, tripped>>

(* CheckBudget compares the budget's used amount and the cost of this line  *)
(* with the limit.                                                          *)
Exceeds(q) ==
    /\ Payer(q) \in Budgets
    /\ Limit[Payer(q)] > 0
    /\ spent[Payer(q)] + line[q].cost > Limit[Payer(q)]

(* A slip: the increment is charged to the budget as it comes. *)
CheckPassCharges(q) ==
    /\ stream[q] = "checking"
    /\ ~Exceeds(q)
    /\ StreamGoto(q, "reading")
    /\ spent' = IF Payer(q) \in Budgets
                THEN [spent EXCEPT ![Payer(q)] = @ + line[q].cost] ELSE spent
    /\ UNCHANGED <<frozen, owner, held, pc, request, answer, line, lines, total, tripped>>

CheckPass(q) ==
    /\ stream[q] = "checking"
    /\ ~Exceeds(q)
    /\ StreamGoto(q, "reading")
    /\ UNCHANGED <<ledger, pc, request, answer, line, lines, total, tripped>>

(* A slip: the error of the check is ignored and the loop goes on. *)
CheckTripGoesOn(q) ==
    /\ stream[q] = "checking"
    /\ Exceeds(q)
    /\ tripped' = [tripped EXCEPT ![q] = TRUE]
    /\ StreamGoto(q, "reading")
    /\ UNCHANGED <<ledger, pc, request, answer, line, lines, total>>

CheckTrip(q) ==
    /\ stream[q] = "checking"
    /\ Exceeds(q)
    /\ tripped' = [tripped EXCEPT ![q] = TRUE]
    /\ StreamGoto(q, "settling")
    /\ UNCHANGED <<ledger, pc, request, answer, line, lines, total>>

(* The budget of the payer thaws the amount in the request's context,       *)
(* whichever budget froze it, and is charged the total.                     *)
SettleBudget(q) ==
    IF Payer(q) \in Budgets
    THEN /\ spent' = [spent EXCEPT ![Payer(q)] = @ + total[q]]
         /\ frozen' = [frozen EXCEPT ![Payer(q)] = @ - held[q]]
         /\ owner' = IF owner[q] = Payer(q) THEN [owner EXCEPT ![q] = NoProject] ELSE owner
         /\ UNCHANGED held
    ELSE UNCHANGED ledger

(* The deferred calls, last one first: SettleBudget ...                     *)
StreamSettle(q) ==
    /\ stream[q] = "settling"
    /\ StreamGoto(q, "closing")
    /\ SettleBudget(q)
    /\ UNCHANGED <<pc, request, answer, line, lines, total, tripped>>

(* A slip: the pipe is closed before the settlement. *)
StreamCloseFirst(q) ==
    /\ stream[q] \in {"settling", "closing"}
    /\ StreamGoto(q, "ended")
    /\ UNCHANGED <<ledger, pc, request, answer, line, lines, total, tripped>>

(* ... and the pipe's Close, which is the end of the body to the client.    *)
StreamClose(q) ==
    /\ stream[q] = "closing"
    /\ StreamGoto(q, "ended")
    /\ UNCHANGED <<ledger, pc, request, answer, line, lines, total, tripped>>

-----------------------------------------------------------------------------
Handler(q) ==
    \/ TurnAway(q)
    \/ \E d \in Decisions : Refuse(q, d) \/ Admit(q, d) \/ AdmitUnconfigured(q, d)
    \/ Direct(q)
    \/ FallBack(q) \/ BadGateway(q) \/ PassThrough(q) \/ StreamBegin(q)
    \/ CopyEnd(q) \/ ClientGone(q)

Goroutine(q) ==
    \/ Relay(q) \/ RelayFail(q)
    \/ CheckPass(q) \/ CheckTrip(q)
    \/ StreamSettle(q) \/ StreamClose(q)

Next ==
    \E q \in Requests :
        \/ Handler(q)
        \/ Goroutine(q)
        \/ \E l \in Lines : ReadLine(q, l)
        \/ ReadEnd(q)

Spec == Init /\ [][Next]_vars

(* A goroutine that needs nobody goes on running.  Neither the upstream nor *)
(* the client need ever do anything: the transport has no response timeout, *)
(* and the server no write timeout (server.go:299), so that a client that   *)
(* stalls without leaving keeps the copy, and with it the unbuffered pipe,  *)
(* waiting for ever.  Only when the handler has returned is the outgoing    *)
(* request's context cancelled, and the goroutine's read ends.              *)
AfterClient(q) == pc[q] = "over" /\ (ReadEnd(q) \/ RelayFail(q) \/ CheckTrip(q))

Unaided(q) == CheckPass(q) \/ StreamSettle(q) \/ StreamClose(q)

(* What a client that reads on brings about: its lines and the breaker's    *)
(* notice go through the pipe, and the copy comes to its end.               *)
Copied(q) == Relay(q) \/ CheckTrip(q) \/ CopyEnd(q)

Fairness ==
    /\ \A q \in Requests : WF_vars(Unaided(q)) /\ WF_vars(AfterClient(q))
    /\ \A q \in Readers : WF_vars(Copied(q))

FairSpec == Spec /\ Fairness

-----------------------------------------------------------------------------
(* Properties *)

(* Every variable has its type; a goroutine runs for a request the proxy    *)
(* took, and a line is being handled only while the writer is not tripped.  *)
TypeOK ==
    /\ spent \in [Budgets -> Nat]
    /\ frozen \in [Budgets -> Int]
    /\ owner \in [Requests -> Budgets \cup {NoProject}]
    /\ held \in [Requests -> 0 .. MaxEstimate]
    /\ pc \in [Requests -> {"new", "directing", "sent", "copying", "over"}]
    /\ project \in [Requests -> Projects]
    /\ planned \in [Requests -> Decisions \cup {NoDecision}]
    /\ decision \in [Requests -> Decisions \cup {NoDecision}]
    /\ host \in [Requests -> Upstreams \cup {NoTarget}]
    /\ attempts \in [Requests -> Nat]
    /\ answer \in [Requests -> Answers]
    /\ stream \in [Requests -> {"none", "reading", "relaying", "checking",
                                "settling", "closing", "ended"}]
    /\ line \in [Requests -> Lines \cup {NoLine}]
    /\ lines \in [Requests -> 0 .. MaxLines]
    /\ total \in [Requests -> 0 .. LineCost * MaxLines]
    /\ tripped \in [Requests -> BOOLEAN]
    /\ \A q \in Requests :
         /\ stream[q] # "none" => pc[q] \in {"copying", "over"}
         /\ tripped[q] => stream[q] \in {"settling", "closing", "ended"}

(* A retry does not retry again (server.go:101 "avoid an infinite loop"):   *)
(* the fallback's own failure is the client's 502.                          *)
AtMostOneRetry == \A q \in Requests : attempts[q] <= 2

(* A budget is charged with the totals of the streams that settled and were *)
(* to be paid by it, however they ended (upstream failure, [DONE], broken   *)
(* pipe, tripped), and with nothing else (sse.go:45-48).                    *)
Settled(p) ==
    {q \in Requests : Payer(q) = p /\ stream[q] \in {"closing", "ended"}}

SpentIsStreams ==
    \A p \in Budgets :
        spent[p] = Spent0[p] + Total(Settled(p), total, LineCost * MaxLines)

(* What a budget has frozen is what requests hold of it, less what streams  *)
(* that held nothing of it released when a rule made it their payer         *)
(* (server.go:82, sse.go:18 and 47): such a settlement takes another        *)
(* project's hold for its own, and can leave the amount below zero.         *)
Holders(p) == {q \in Requests : owner[q] = p}
Strangers(p) == {q \in Settled(p) : project[q] # p}

FrozenIsHolds ==
    \A p \in Budgets :
        frozen[p] = Total(Holders(p), held, MaxEstimate)
                      - Total(Strangers(p), held, MaxEstimate)

(* A client that has seen the end of its stream can rely on the settlement: *)
(* no hold of its own stands against its next request, unless a rule made   *)
(* another project pay.  It rests on the order in which handleSSE defers    *)
(* SettleBudget and the pipe's Close.                                       *)
EndSeenIsSettled ==
    \A q \in Requests :
        answer[q] = "stream" => owner[q] = NoProject \/ Payer(q) # project[q]

(* The only holds that outlive their request are those nothing settles:     *)
(* answers that are not streams (server.go:208, sse.go:47), and streams     *)
(* settled with another project (server.go:82).                             *)
StrayHolds ==
    \A q \in Requests :
        owner[q] # NoProject =>
            \/ pc[q] \in {"directing", "sent"}
            \/ stream[q] \in {"reading", "relaying", "checking", "settling"}
            \/ answer[q] \in {"plain", "badGateway"}
            \/ Payer(q) # project[q]

(* A client that goes away does not keep its hold: the goroutine it leaves  *)
(* behind notices, settles what was relayed, and ends.                      *)
AbortedSettles ==
    \A q \in Requests :
        answer[q] = "aborted" ~>
            stream[q] = "ended" /\ (owner[q] = NoProject \/ Payer(q) # project[q])

(* A stream that exceeds its budget is broken off for a client that reads   *)
(* on, even when the upstream has stopped sending and other clients stall.  *)
TrippedEnds ==
    \A q \in Readers : stream[q] = "checking" /\ Exceeds(q) ~> pc[q] = "over"

(* sse.go:96 "based on the consumption accumulated so far": a stream that   *)
(* passes the check has not consumed more than its budget has left.         *)
CheckCountsStream ==
    [][\A q \in Requests :
          CheckPass(q) /\ Payer(q) \in Budgets /\ Limit[Payer(q)] > 0
            => spent[Payer(q)] + total[q] <= Limit[Payer(q)]]_vars

(* CONTEXT.md:50 "retried on the fallback upstream": the second round trip  *)
(* of a request is made to its decision's fallback.                         *)
FallbackReached ==
    \A q \in Requests :
        pc[q] = "sent" /\ attempts[q] = 2 => host[q] = planned[q].fallback

(* server.go:213 "Daily budget limit reached": a request is refused only    *)
(* when what was spent, what requests still under way hold and its own      *)
(* estimate exceed the limit.                                               *)
UnderWay(p) ==
    {q \in Holders(p) : pc[q] # "over" \/ stream[q] \notin {"none", "ended"}}

RefusalsAreReal ==
    [][\A q \in Requests, d \in Decisions :
          Refuse(q, d) =>
            spent[project[q]] + Total(UnderWay(project[q]), held, MaxEstimate)
              + Estimate[d.target] > Limit[project[q]]]_vars

=============================================================================
