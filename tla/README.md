# T-Guard in TLA+

A verification project for T-Guard, the AI gateway of this repository: TLA+ modules translated from
its Go sources, TLC configurations that model-check them on small instances, and proofs that TLAPS
checks for every value of the constants.

Paths are relative to the repository's root (`src/` in `PROJECT.json`). `PROJECT.json` lists the
components, the runs, the lines each definition stands for, the mutated definitions that show each
property can fail, the hazards and the theorems.

## 1. The system

T-Guard is one Go process. A reverse proxy receives AI requests, asks a route engine where to send
them and a budget controller whether their project may spend an estimated cost, forwards them,
prices event streams as they pass, and settles the real cost. Costs go through an asynchronous
SQLite store, from which the budgets are loaded at the next start. A dashboard shows the store's
snapshots, and a child process may run under the gateway's protection.

| Component | State it keeps | Operations | Talks to |
|---|---|---|---|
| Budget controller `pkg/budget` | per project `used`, `frozen`, `lastState` (atomics), subscriber list, gauges | `NewController`, `Allow`, `SettleBudget`, `Record`, `Status`, `Subscribe`, `notify`, `StreamWriter` | called by proxy and UI; calls `Store.Write`, `GetDailyStats` |
| Store `pkg/store` | bounded channel, batch per worker, `closed`, tables `records`, `daily_budgets`, `model_stats`, one connection | `Write`, workers, `flushBatch`, `Close`, `DeductBudget`, `Archive`, queries | called by controller, UI, security |
| Proxy server `internal/proxy/server.go` | auth key, listener, the decision in each request's context | handler, director, error handler, `modifyResponse`, `Start` | limiter, router, pricing, billing, upstreams |
| Stream relay `internal/proxy/sse.go` | pipe, `totalCost`, the tripped writer of each stream | `handleSSE` and its goroutine | pricing, token engine, billing |
| Route engine `pkg/route` | published matcher (rules, keyword automaton) | `LoadRules`, `Decide` | called by the handler |
| Rate limiter `pkg/ratelimit` | token bucket per user and address, created on first use | `Allow` | called by the handler |
| Pricing `pkg/pricing` | price table under a lock | `CalculateCost`, `UpdatePrices` | called by handler and relay |
| Token engine `pkg/token` | copy-on-write encoder table, counters | `Warmup`, `Calculate` | called by the relay |
| Process manager `internal/process` | the command | `Run`, `ForwardSignal`, `Cleanup` | called by `main.go`, `run.go` |
| Lifecycle `internal/app`, `main.go`, `cmd` | the context, channels of signals and errors | `InitializeApp`, start, wait, shut down | everything |
| Security `internal/security` | licence file, nonce table, keyring | `Activate`, `Verify`, `CanUse` | store |
| Dashboard `internal/ui` | last snapshot, log lines | bubbletea's `Update`, `ListenBudget`, `FetchSnapshot` | store, controller |
| Configuration, logging, errors, mocks | none that others depend on | | |

### What is hard in it, and what makes it correct

* **Budget controller.** Handlers share the amounts without a lock, so a check and the freeze it
  permits, a release and the charge that replaces it, a charge and the state computed from it are
  all separate steps. Correct means: holds and charges balance; the limit is kept, or overshot by a
  known amount; crossing it is announced; no subscriber can block a settlement.
* **Store.** Records are accepted in memory and made durable later, by several workers, through one
  connection, while calls deduct and archive, flushes fail, `Close` runs and the process dies.
  Correct means: an accepted record is durable once or known to be lost; the daily totals, from
  which budgets are loaded, are those of the rows; closing drains the channel.
* **Proxy and relay.** A request lives in the handler, in the reverse proxy's copy loop and in a
  goroutine, and ends in many ways: refused, 502, retried, plain body, stream ended, cut off by the
  budget, abandoned by its client. Correct means: charged once, for what was relayed; its hold given
  back; at most one retry; streams that are cut off end for clients that read on.
* **Route engine.** Tables are replaced while decisions are taken, and the keyword automaton keeps
  scratch marks in shared nodes. Correct means: a decision is that of the first matching rule of one
  table in force, whatever keywords concurrent decisions cost each other.
* **Lifecycle and process group.** The server's shutdown may take 5 s and nobody waits for it; the
  process is gone 500 ms after the signal. `Cleanup` waits for a command that `Run` waits for
  already, twice, and signals a group whose leader may have been reaped. Correct means: a signal or
  the child's end ends T-Guard, no child outlives it, the store is drained, no child runs where no
  gateway answers.
* **Days.** The counter is loaded at start-up and never reset, the totals on disk are per UTC day,
  and between the two is a queue that a crash empties. Correct means: a restart counts on, a day
  passes the limit by no more than the requests in flight, and a refusal is about today.
* **Rate limiter, licences, metering.** Maps filled by concurrent first requests, a licence cache
  and a nonce table without a common lock, prices and encoders replaced under running streams,
  integer division per chunk. Correct means: nobody gets more than its rate, a licence is accepted
  once, a hold covers its stream.
* **Dashboard.** Snapshots read two components at two times and overtake one another. Correct means:
  what is shown catches up.

`PROJECT.json` lists every hazard at its line with the properties that watch it, or the reason there
is none.

## 2. The modules

| Module | Models | State and actions |
|---|---|---|
| `Totals` | nothing of the code: `Total(S, f, bound)` and `SumOf(S, f)`, the sums of bounded and of arbitrary natural amounts over a finite set | defined by counting the unit cells below each amount, so that they need no recursion and can be proved about |
| `Ledger` | what a controller promises | `Reserve` an amount, `Settle` it against a cost in one step |
| `BudgetController` | `pkg/budget/controller.go` | one action per access to an atomic, the store or a channel |
| `WriteBehind` | what an asynchronous store promises | `Accept`, `Persist`, `GiveUp`, each record once |
| `AsyncStore` | `pkg/store/sqlite.go`, `budget.go` | callers of `Write` and `DeductBudget`, workers, transactions, `Close`, death and reopening |
| `Gateway` | `internal/proxy/server.go`, `sse.go`, and the stream writer of `controller.go` | handler, director, error handler, copy loop and stream goroutine of each request |
| `RouteEngine` | `pkg/route/engine.go` | loaders that build and publish, deciders that load, match and choose |
| `ProcessGroup` | `internal/process` and what it uses of os/exec | `Run`, `ForwardSignal`, two `Cleanup`s, three `Cmd.Wait`s, the context's watcher, the processes |
| `Lifecycle` | `internal/app`, `cmd/tokenflow/run.go`, `main.go` | the main goroutine from `InitializeApp` to its return; EXTENDS `ProcessGroup`; its store is a `WriteBehind` |
| `Accounts` | the counter of `controller.go` against the daily totals of `sqlite.go` | the steps of concurrent requests, flushes, midnights, starts, stops and crashes |
| `Dashboard` | `internal/ui/model.go`, `fetcher.go` | ticks, snapshots, the subscription; EXTENDS `Accounts`, which it reads |
| `License` | `internal/security` | calls of `Activate` and `Deactivate` between window, nonce and cache; `CanUse` |
| `RateLimit` | `pkg/ratelimit/limiter.go` | the user's bucket, then the address's; refills |
| `Metering` | `pkg/token`, `pkg/pricing` and their use in `sse.go` | holds, chunks, new prices, warm-ups |
| `*_proofs` | | theorems and lemmas about the module of that name; `Lifecycle_proofs` is about `ProcessGroup` too, `Accounts_proofs` about `Dashboard`, `Services_proofs` about `License`, `RateLimit` and `Metering` |
| `MCBudget`, `MCStore`, `MCGateway`, `MCLifecycle`, `MCRoute`, `MCServices` | | instances for TLC |

Operators whose comment starts with "A slip" are faulty variants of the definition after them. No
specification uses them: they are what a property has to be able to tell from the code.

### BudgetController

`used`, `frozen`, `lastState`, `subs` and `chan` are the fields of `projectBudget`; `gauge` is the
Prometheus gauge. `pc[c]` says between which two accesses the handler in slot `c` is:

| Actions | Lines of `controller.go` |
|---|---|
| `AllowUnconfigured` | 61-64 no budget: let through |
| `AllowLoadUsed`, `AllowReject`/`AllowCheck`, `AllowFreeze` | 68 load `used`, 69-73 load `frozen` and check, 76 freeze |
| `SettleBudget` | 98 release the hold |
| `RecordAdd`, `RecordPublish` | 109 charge, 112-122 gauge and store |
| `RecordSameState`, `RecordNewState` | 124-132 swap `lastState` and spawn `notify` |
| `NotifyStart`, `NotifySend`, `NotifyEnd` | 193-215, non-blocking sends |
| `Subscribe`, `Receive` | 180-191; the reader is `ui/fetcher.go` |

The history variables `base`, `written`, `refused` and `announced` record what was loaded, what the
store took or refused, and which states were announced. A slot is reused when its request's
settlement and notification are over, so behaviours have unboundedly many requests.

### AsyncStore

`call[r]` is the call that writes record `r` (`Write` checks `closed` and sends in two steps),
`wpc[w]` a worker's place in its select loop, `conn` the single connection (`SetMaxOpenConns(1)`). A
flush is a transaction: begun, then committed or failed as a whole. A failed flush drops its batch,
which is what the code does after logging the error. `WritePanic` is the send on the closed channel,
which ends the process. `lost` records what the code gives up.

### Gateway

`pc` is the handler, `stream` the goroutine of `handleSSE`. A line of a stream is priced, free or
the end mark; what it costs is a small number. `Admit` and `SettleBudget` are single steps, because
their inner steps are `BudgetController`'s subject. The admission goes by the project of the
client's request; the settlement by `Payer`, the `X-Project-ID` of the outgoing request, which a
rule's headers may have replaced (`server.go:82`, `sse.go:18`). `frozen` is the budget's amount as
the code has it; the history variable `owner` says in whose amount a request still stands. The
transport has no response timeout and the server no write timeout (`server.go:299`), so neither
upstream nor client need ever act.

### RouteEngine

Every matcher ever published stays reachable by those that loaded it. `Sorted` is the set of results
`sort.Slice` may give. `MatchRead`, `MatchWrite` and `MatchWord` are the automaton's counter and
marks, which belong to a library outside the repository and are modelled as external. `built[l]`
holds the matcher a loader is about to publish; an admin may load an empty table. A prompt is the
set of the keywords in it.

### ProcessGroup and Lifecycle

`platform` chooses the build (Linux, macOS, Windows), `entry` the program (`run.go`, `main.go`),
`mode` whether it runs a child or the dashboard, and `address` whether the proxy's address is free,
taken by another T-Guard, or by something that gives no 200. `main` is the main goroutine's place:

| `main` | Lines |
|---|---|
| initializing | `InitializeApp`: store, then everything else; a failure is `Fatalf` |
| selecting, probing | `run.go` 82-89: the listener's error or 100 ms; `WaitForHealth` |
| ready, waiting | the child or the dashboard is started; one read of `sigChan` |
| stopping, cleaning | `cancel()`, the first `Cleanup`, 500 ms |
| returning | the deferred `cleanup`: the second `Cleanup`, then `Store.Close` in three steps |

`waits[w]` is one call of `Cmd.Wait`: `Run`'s and one per `Cleanup`. The kernel reports the end of a
process to one of them (`WaitReap`), the watcher of the command's context hands its result to one of
them (`WaitResult`); a `Wait` that comes second at the watcher hangs, which is what the grace period
of `Cleanup` has to cover. `Getpgid` finds no group once the leader is `reaped`, and then the
SIGKILL of the grace period goes to nobody. `Exit` is where the kernel takes over: `Pdeathsig` on
Linux, the job object on Windows. A stream is, to the store, one `Write` at its end.

### Accounts and Dashboard

`used` is the controller's field, `total` the table `daily_budgets`, `queued` what the store has
accepted and not written. `slot[s]` is where a request is: `Allow` in three steps (`LoadUsed`,
`Check` or `Reject`, `Freeze`), `SettleBudget`'s release, then `Record`'s charge and its write. What
a request costs is not bounded by what it was admitted for, only by `MaxCost`. `Start(ok)` is
`NewController`, with a failing `GetDailyStats` when `ok` is false; `missed` is what such a start
would have loaded, `blind` how many such starts a day has had. `Midnight` changes the date and, like
the code, nothing else. The states a budget announces are `BudgetController`'s subject and left out.
A snapshot of the dashboard reads `total` and `used` in two steps and arrives in any order; a run
with a command to start has no dashboard (`Headless`).

### License, RateLimit, Metering

The fields of the licence cache are written one by one, in either order, since nothing guards them.
A token bucket is a number of tokens that grows with time up to its burst; creation and first use
are one step because `LoadOrStore` lets all racers share one bucket; a request without a user, or
without an address, has no bucket there. A text is its length and a price table a function to the
price of a thousand tokens; the tokenizer is external and counts from one token in all to one per
byte.

## 3. The runs

| Run | Instance | What it shows |
|---|---|---|
| `budget` | 2 slots, one budget of 3 loaded with 1, estimates 1-2, costs 0-2, a project with no budget, a subscriber with a channel of 2 | balances, the bound on the overshoot, announcements, the refinement `IsLedger`, settlements end, exhaustion is delivered |
| `budget_hardlimit` | 2 slots, costs within the estimate | counterexample to `HardLimitKept` |
| `store_async` | 3 records over 2 days, 2 workers, channel of 2, batch of 2, a limit for deductions | places, totals, draining, the refinement `KeepsPromise`, records settle, `Close` returns |
| `store_close` | 2 records, 1 worker | counterexample to `CloseDrains` |
| `gateway` | 2 requests, with and without budget, 3 plans, streams of 2 lines, one client that reads on | one retry, exact charges, what is frozen, settled before the end is seen, which holds stray; abandoned streams settle, those over the budget end for a client that reads on |
| `gateway_check`, `gateway_fallback`, `gateway_refusal` | 1-3 requests | counterexamples to `CheckCountsStream`, `FallbackReached`, `RefusalsAreReal` |
| `lifecycle` | both programs, three platforms, an address that is free or taken, a child that may start one process, 2 streams | the child behind a gateway, no leader left, a signal or the child's end always ends T-Guard |
| `lifecycle_tree` | the Unix builds | counterexample to `TreeStopped` |
| `services` | a budget of 2 over two days with 2 concurrent requests that cost 0-2; the same with 2 snapshots of a dashboard over smaller requests; 4 licences, 2 callers, a restart; 2 requests, 1 user, 2 addresses, 3 configurations; 1 stream of 2 chunks, 2 warm-ups, 2 price tables; 2 deciders, 1 loader, 2 tables and the empty one, 3 requests | the properties of `Accounts`, `Dashboard`, `License`, `RateLimit`, `Metering` and `RouteEngine` |
| `days_reset` | the accounts of `services` alone | counterexample to `RefusalsOfToday` |

The type invariants of `BudgetController`, `AsyncStore`, `Gateway`, `Lifecycle`, `RouteEngine`,
`Accounts` and `Dashboard`, and the strengthenings `OvershootInductive` and `AnnouncedInductive`,
held in these runs too; they are proved for every value of the constants (section 5), so that the
configurations no longer list them.

**How `MCServices` composes.** The parts share no variable, but for the accounts and the dashboard,
so a behaviour of their product adds nothing to the behaviours of each. `focus`, chosen at the
start, names the part that moves; the others stay in one initial state. The accounts move once
alone, in full, and once with the dashboard that reads them; there `Quiet` keeps the requests one
after the other, their costs to 1, the counter within the limit and every start able to read its
total, so that two snapshots and a status still overtake one another around every kind of accounting
step. `SnapshotInOrder` is proved without `Quiet` (section 5).

**Why the bounds are enough.** Two slots are what the races in the controller need (two checks
before a charge, two settlements that cross), the project without a budget takes the second, and the
limit is small enough to be crossed by one charge, by two, and by the loaded amount together with a
charge. The channel of the store is as large as a batch and smaller than the number of records, so
it can be full, a batch can fill or be flushed by the ticker, and a record can wait behind both
workers. Two lines let a stream pass the check on its first chunk and fail, end or lose its client
on its second; the plans have a configured fallback, a target that is not configured, and a rule
that makes another project pay; one of the two clients reads on, the other may stall for ever.
`SpecCharged` gives at least one of the two requests a budget; which of them makes no difference. In
`lifecycle`, `SpecApart` opens streams only in dashboard mode: the group and the streams meet only
in the phases of the main goroutine, and these are in both modes. One process beside the leader is
enough to outlive it. Two days and any number of runs let a total be carried over a restart and over
midnight, with two concurrent requests in each that may cost twice what they were admitted for, so
that the bound of `DailyOvershoot`, `Overshoot` = 5 for a limit of 2, is reached (two requests let
through at 1); one start (`MaxBlind`) may be unable to read its total, after which the day reaches
the 10 it is then allowed. Four licences cover a shared nonce, a missing one, a later window and an
earlier end. The limit of a call of the token engine is scaled to 5000, and the lengths 1, 7998 and
30000 are one rounding up, one text below the rule of thumb's cap but above the tokenizer's, and one
above both; a chunk of two tokens is free at every price given. Two loads are enough for the
published table to change twice during a decision, and two deciders to race for the marks of one
automaton (`MaxMatches`, 1, is read before it is written: both may pass it). `UsedCap`, `MaxLines`,
`MaxLoads`, `MaxMatches`, `MaxDay`, `MaxBlind`, `MaxTime`, `MaxRestarts`, `MaxTries`, `MaxTaken` and
`MaxChunks` bound counters in the guards of the actions that raise them; a budget with a limit needs
no cap, its own check bounds it. `CHECK_DEADLOCK FALSE` stands where every request or load of the
instance may be over, or the process has exited.

**Fairness.** `BudgetController`: the steps of `Record` and `Notify` (Go runs a runnable goroutine
eventually), never the arrival of a request, the answer of an upstream, a subscription or its
reader. `AsyncStore`: workers and calls in progress, with strong fairness for the beginning of a
flush because `database/sql` hands the connection to waiters in order of arrival; nothing forces a
call, an archive, a `Close`, a crash or a restart. `Gateway`: the steps a goroutine takes without
anybody else, and its failing writes and the end of its read once the handler has returned and so
cancelled the outgoing request; neither an upstream nor a client has to act. The pipe has no buffer
and the server no write timeout, so a client that stalls without leaving keeps its stream waiting
for ever: only for the requests in `Readers`, whose clients read on until their answer ends, do the
writes into the pipe and the copy go on by fairness, and only for them is `TrippedEnds` claimed,
whatever the other clients do. `Lifecycle`: the main goroutine, the goroutines of `Run`, of each
`Wait` and of each `Cleanup`, timers, the context's watcher once the context is done, and the
workers of the store; no process ends by itself, no signal comes, no stream ends. `Dashboard`: ticks
fire, and commands and the event loop run; no request comes and no batch is written.

## 4. What the counterexamples say

Each is a disagreement between the code and a sentence of the repository.

* `HardLimitKept` (`controller.go:71`): "the amount used cannot exceed the hard limit"
  (`budget_manager_test.go:62`). Two requests pass the same check before either freezes. The
  positive counterpart, `BoundedOvershoot`, is checked and proved: the excess is less than one
  charge per slot; `DailyOvershoot` says it of whole days and costs past the estimate.
* `CloseDrains` (`sqlite.go:96`): "drains the queue" (`types.go:53`). A `Write` that races `Close`
  panics, and buffered records go with the process.
* `CheckCountsStream` (`sse.go:97`): "based on the actual consumption accumulated so far"
  (`sse.go:96`); the check sees one chunk.
* `FallbackReached` (`server.go:103`): "retry on the fallback upstream" (`CONTEXT.md:50`); the
  director overwrites the fallback's URL with the default upstream's.
* `RefusalsAreReal` (`server.go:208`): "Daily budget limit reached" is answered because of holds
  nobody will release. `StrayHolds` says exactly which answers leave one behind.
* `TreeStopped` (`manager_unix.go:85`): "forcibly clean up the child" (`types.go:35`), "to manage
  the whole process tree" (`manager_unix.go:34`). `Cleanup` returns when the leader has been waited
  for, and its SIGKILL looks for the group of a leader that `Run`'s `Wait` has reaped: what the
  child started and ignores SIGTERM goes on. `LeaderEnds` is what does hold.
* `RefusalsOfToday` (`controller.go:52`): "reset period (by default every day)"
  (`budget/types.go:13`). `ResetCron` is read nowhere, so after midnight requests are refused for
  what was spent the day before. `CounterIsDays` says what the counter is instead.

Seen while modelling, without a run of their own:

* Budget: between `SettleBudget`'s release and `Record`'s charge the cost is in no counter, although
  `types.go:44` calls the settlement atomic (the mapping of `IsLedger` has to add it). Settlements
  that swap `lastState` or set the gauge in the other order leave an older state or amount in force
  until the next charge; exhaustion is announced all the same. A rule that injects `X-Project-ID`
  makes one project pay and release what another holds; the payer's frozen amount may fall below
  zero (`FrozenIsHolds` says by how much). The application hands the controller no budgets
  (`app.go:85`) and the pricing engine no prices, so that `AllowUnconfigured` and the default price
  are what a default build uses.
* Routing: with two deciders on one automaton `DecidesFirstMatch` fails, because one finds the word
  marked by the other (the proxy passes no messages, so its own calls never reach a word);
  `DecidesFirstFound` is what holds. A rule without a priority has 0, not the 100 of
  `route/types.go:57` ("the smaller the sooner, by default 100"), so that it comes before one with
  99.
* Metering: `pricing/engine.go:7-10` and `:45` say prices are per million tokens, the code divides
  by a thousand: either the comments or every charge is off by that factor; at the default price a
  chunk of up to six tokens is free; `CalculateImageTokens` announces a scaling that it does not do,
  and its fallback of 1105 is six tiles, not the 2x2 of its comment.
* Start-up: `WaitForHealth` asks the address, not its own listener, and `main.go` does not wait for
  `Listen`: with another T-Guard at the address a child is started behind that one, before the own
  listener's failure ends the process (`main.go`) or instead of it, when the failure comes after the
  100 ms (`run.go`). The wizard saves its upstream under the name "default" while `DefaultTarget` is
  "openai"; the child is given the key of the configuration even when the proxy uses the keyring's
  (`run.go:102`).
* Process: the executor's default timeout of 30 s ends the leader only; the loser of the two `Wait`s
  at the watcher stays behind until the process ends.
* Licences: nonces live in memory only, so a licence can be activated again after a restart and not
  after a `Deactivate`; `GetFeatureLimit` does not look at the expiry.

## 5. What is proved

`tlapm` proves all of the eight `*_proofs` modules, for every value of the constants that satisfies
the assumptions named in the modules; TLC evaluates these in the runs.

| Module | Theorems | Assumptions |
|---|---|---|
| `BudgetController_proofs` (with `Totals_proofs`) | `TypeCorrect`, `HoldsBalanced`, `ChargesBalanced`, `OvershootBounded`, `ExhaustionNeverMissed`, `ImplementsLedger` | finitely many slots; budgets are projects and the mark of an idle slot is not; amounts are natural numbers |
| `AsyncStore_proofs` | `StoreTypes`, `AlwaysOnePlace`, `DailyAlwaysRows`, `ClosedAlwaysDrained`, `DeductAlwaysWithin`, `ImplementsWriteBehind` | some worker; workers, records and `Nobody` are told apart; finitely many records; natural sizes |
| `Gateway_proofs` | `GatewayTypes`, `AlwaysOneRetry`, `SpentAlwaysStreams`, `FrozenAlwaysHolds`, `EndSeenAlwaysSettled`, `StrayHoldsOnly` | finitely many requests; decisions name targets, the empty name is none; natural amounts |
| `Lifecycle_proofs` | `TypesAlwaysOK`, `LeaderAlwaysEnds`, `ChildAlwaysBehindGateway` | the leader is not one of the members |
| `RouteEngine_proofs` | `RouteTypesAlwaysOK`, `AlwaysDecidesFirstFound`, `SilentDecidesFirstMatch` | tables are finite sets of rules with integer priorities and ids; the empty keyword is no word. The last theorem assumes no words in the requests |
| `Accounts_proofs` | of `Accounts`: `AccountsTypesAlwaysOK`, `CounterAlwaysDays`, `DailyOvershootIsBounded`, `RefusalsOfFirstDay`; of `Dashboard`: `DashTypesAlwaysOK`, `SnapshotAlwaysInOrder` | finitely many slots; a positive limit, an estimate no larger, some bound of the costs |
| `Services_proofs` | of `RateLimit`: `RatesAlwaysKept`, `UserAlwaysPays` | finitely many clients; natural rates and bursts; `NoUser` is no user |
| | of `Metering`: `HoldAlwaysCovers`, `RoughAlwaysEnough` | natural prices, lengths and limits |
| | of `License`: `NonceAlwaysOnce`, `EarlyAlwaysUsable`, `PaidAlwaysLicensed` | licences are records of tier, times and nonce |

**BudgetController.** `Total` is defined over unit cells, and the lemmas `TotalEmpty`, `TotalAdd`,
`TotalRemove` and `TotalSame` say how it moves when one caller enters or leaves a set or when no
amount of the set changes. `TypeOK` is inductive: its last part, `Placed`, is what lets
`frozen[project[c]]` be an access to a budget. `FrozenIsHeld` and `UsedIsAccounted` are inductive
next to `TypeOK`: every action of a caller moves that caller alone (`OneCaller`), and only
`AllowFreeze`/`SettleBudget`, respectively `RecordAdd`/`RecordPublish`, move it into or out of the
set summed. `BoundedOvershoot` is not inductive: a state within the bound may hold any number of
callers who have passed the check. `OvershootInductive` adds them up: as long as there is room for
an estimate nothing is owed; once there is none, nobody new becomes exposed, because a caller that
reads `used` now fails the check (this is where `FrozenIsHeld` is needed, `frozen` must not be
negative), and each charge made moves one caller out of `Exposed`. `ExhaustionAnnounced` is not
inductive either: a caller may leave without announcing because `lastState` is already exhausted, so
`AnnouncedInductive` adds that an exhausted `lastState` has been announced. For `ImplementsLedger`
the mapping books a cost as soon as its hold is released (`Booked`), so that `AllowFreeze` is the
ledger's `Reserve`, `SettleBudget` its `Settle` and everything else a stutter; the one invariant it
needs beside `TypeOK` is that what Allow is about to freeze is an estimate.

**AsyncStore.** `OnePlace` speaks of sets; the proof speaks of one record at a time (`PlaceOf`,
shown equivalent by `OnePlaceOf`), so that each action moves one record or one batch. It needs
`AcceptedReturned` (a record that is being written is nowhere yet) and `Winding`: a worker exits
only when the channel is closed and empty and its batch flushed, and `Close` returns after all have
exited, which gives `ClosedIsDrained`. `DailyIsRows` follows the cardinality of the rows of one day
through insertion and archiving. `DeductWithinLimit` needs that what the holder of the connection
has read is still the total (`ReadIsCurrent`), because every writer of a total holds the connection.
The mapping to `WriteBehind` hides channel, batches and transactions: sends are `Accept`, commits
`Persist`, failed flushes and deaths `GiveUp`, and deductions, which write without the queue, are
stutters.

**Gateway.** The invariant says of each request that its total fits what its lines may cost (`Fits`,
`Reads`), that the retry is known by its empty decision (`Retries`), which has no fallback and so
bounds the attempts, and who holds what (`Owns`): from its admission a request stands in the amount
of its own project, until that project settles it. `SpentIsStreams` is inductive next to it:
`StreamSettle` moves one request into `Settled`, whose `Total` grows by what its payer is charged,
and no other step touches either. `FrozenIsHolds` has two such sums: an admission enters one, a
settlement by the project that holds leaves it, and a settlement by another enters the other.

**Lifecycle.** Whoever got past the kernel's wait, and whoever set `ProcessState`, has seen the
leader end (`WaitsSawExit`, for any of the three `Wait`s in any order), a `Cleanup` that signals has
found a command (`FoundCommand`), and before the fork nothing runs (`NotBornYet`): so a `Cleanup`
that returns does so because the leader ended, was reaped or was killed. `Phases` ties the child to
the health check, and that to a listener of the process or to the gateway that has the address. That
a returning `Close` has drained the store is `ClosedIsDrained` of `AsyncStore`, whose workers
`Lifecycle` only counts on.

**RouteEngine.** A matcher is one of the results a stable or unstable sort of some table may give
(`Publishable`), so the rules of one matcher are in order (`PublishableSorted`) and the least index
that matches exists (`Least`, by induction over the natural numbers) and is that of a least rule
(`DecisionFirst`). `RouteInv` holds for any deciders and loaders: what one has found are words of
its prompt that its automaton knows, its matcher was published before it decided, and the decision
is the first match for what was found. That is `DecidesFirstFound`. With no word in the request
nothing can be lost, and the same invariant gives the first match of `types.go:37`
(`SilentDecidesFirstMatch`): the race can cost a keyword rule, never misapplies one, and never
matters on the calls the proxy makes.

**Accounts and Dashboard.** `SumOf` needs no bound on the amounts, and its lemmas (`SumChange`,
`SumSplit`, `SumOfOne`, `SumZero`) say how it moves when one day changes. Each day's bill is its
total and its queue: a flush moves an amount inside a bill, a record adds what was due to today's or
to what is lost, and so `CounterIsDays` follows `used` through all of them. A midnight changes no
bill, because days to come are empty (`FutureIsEmpty`). `DailyOvershoot` is not inductive. A request
is exposed once it has been let through, or will be whatever happens, because it has seen an amount
with room for an estimate, until it is charged; `ExposedIsCovered` says that the counter and
`MaxCost` for each exposed request stay within `Overshoot`. A request becomes exposed only at an
amount that leaves room, where that holds even if every slot is exposed, and a charge takes one
request out of the set for at most `MaxCost`. `ChargedIsCovered` says that whenever anybody is
exposed or has a charge to write, the counter itself is within `Overshoot`. The recorded total of a
day is no more than the counter and what the start missed, and what a start missed is no more than
what a day may have had by then (`MissedIsBlind`), which is where the factor `1 + blind` comes from;
a run that starts above the limit lets nothing through. `RefusalsOfFirstDay` is the other side of
the run `days_reset`: as long as `since` is today, the sum has one term, and a refusal is about
today. The dashboard only reads (`DashboardOnlyReads`), so all this holds beside it; a snapshot
between its two readings knows that what it read of the store was no more than the counter and what
was missed (`InOrder`), and the counter of a run never falls.

**RateLimit, Metering, License.** A bucket is balanced by what left and entered it, whoever made it;
a request between the two buckets is counted by the cardinality of `Between`. The truncated costs of
chunks add up to no more than the cost of all their tokens (`Division`), so that at one price the
hold is the same division of a larger number; the rule of thumb rounds a quarter up per chunk
(`RuleOfThumb`), which adds up to `RoughNeverShort`. For the torn licence cache each field is
accounted for by itself (`CacheAccounted`), which is as much as can be said and enough for
`PaidIsLicensed`, which permits the rights of one accepted licence with the term of another, as the
code does.

**Only model-checked.** Liveness, which is out of the prover's reach (`SettlementEnds`,
`ExhaustionDelivered`, `AcceptedSettles`, `CloseReturns`, `AbortedSettles`, `TrippedEnds`,
`SignalEnds`, `ChildEndEnds`, `ShownCatchesUp`). Every invariant, every action property and every
refinement that a passing run checks is also proved. Induction over data in general is beyond the
installed provers, because the library's induction theorems take an operator; the sums and the least
index of a set of numbers are proved all the same, by taking the least member of one concrete set of
counterexamples (`Least`, `IntervalCells`).

## 6. What is not modelled

* Controller: `Close`, `Remaining`, warning texts. Store: the read-only queries other than
  `GetDailyStats`, `VACUUM`, the `model_stats` column. Proxy: readiness and metrics endpoints, panic
  recovery. Route engine: `ModelMap` and injected headers of a rule.
* Of the headers a rule may inject only `X-Project-ID` is modelled, and it stays what the director
  set: `X-Model-Target` changes only the price of a stream, which is any small number anyway, and
  that a client may have the reverse proxy strip a header by naming it in `Connection` is left out.
* The address of the proxy stays free, or taken by the same kind of program, as long as a run of
  T-Guard lasts.
* In `Lifecycle` a worker writes or gives up a record in one step; batches and transactions are
  `AsyncStore`'s.
* Integers are unbounded: amounts are millicents in 64 bits, far from overflow for any daily total
  and, at the capped token counts, for any price.
* Images (`multimodal.go`), which no caller passes to the token engine, and its call counters.
* Configuration: a file, environment variables and a form, read in order before anything runs.
  Logging, error values and test mocks keep no state that others depend on. The dashboard's
  rendering, sorting and window size are layout.

## 7. Plan

1. `Accounts` with the announced state: what a run that starts exhausted has announced, over
   restarts.
2. `Gateway` with a project that the reverse proxy strips from the outgoing request.
3. `License` with an order of the cache's fields that a reader could rely on, to state what a lock
   would add.
