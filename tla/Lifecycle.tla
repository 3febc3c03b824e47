------------------------------ MODULE Lifecycle ------------------------------
(***************************************************************************)
(* T-Guard from its start to its end: InitializeApp (internal/app/app.go)  *)
(* and the two programs that call it, cmd/tokenflow/run.go and main.go.    *)
(* The main goroutine opens the store, starts the proxy, waits for its     *)
(* health, starts a child or the dashboard, waits for a signal, cancels    *)
(* the context, cleans up and closes the store.  Meanwhile the proxy       *)
(* serves streams, whose goroutines settle into the store whenever they    *)
(* end, and the store's workers write what it accepted.                    *)
(*                                                                         *)
(* The child is ProcessGroup; the store is what AsyncStore implements,     *)
(* WriteBehind, with the flags of its Close; a stream is what Gateway      *)
(* shows of it to the store, a Write at its end.                           *)
(***************************************************************************)
EXTENDS ProcessGroup, Naturals

CONSTANT Streams   \* event streams the proxy relays

ASSUME StreamsAssumption == IsFiniteSet(Streams)

VARIABLES
    entry,     \* the program: run.go or main.go
    address,   \* Config.Listen: free, or taken, by a T-Guard that answers its
               \* health checks or by anything that does not
    mode,      \* with a command in its arguments, or with the dashboard
    main,      \* where the main goroutine is
    exit,      \* how the process has ended
    server,    \* the proxy's listener; failed when its error is in errSrv
    sigs,      \* signals in sigChan, which has room for one
    ender,     \* the goroutine of the child or the dashboard
    stream,    \* where the goroutine of each stream is
    store,     \* none, open, marked closed, channel closed, database closed
    accepted, durable, gone  \* the store's records, one per stream

program == <<entry, address, mode>>
disk == <<accepted, durable, gone>>
signals == <<sigs, ender>>
vars == <<group, program, main, exit, server, signals, stream, store, disk>>

Disk == INSTANCE WriteBehind WITH Records <- Streams

Init ==
    /\ GroupInit
    /\ entry \in {"run", "main"} /\ mode \in {"child", "dashboard"}
    /\ address \in {"free", "gateway", "deaf"}
    /\ main = "initializing" /\ exit = "no"
    /\ server = "down"
    /\ sigs = 0 /\ ender = "none"
    /\ stream = [s \in Streams |-> "none"]
    /\ store = "none"
    /\ Disk!Init

MainGoto(label) == main' = label

(* The end of the process.  Linux kills a leader whose parent dies          *)
(* (Pdeathsig), Windows the members of a job whose last handle is closed.   *)
Exit(how) ==
    /\ exit' = how
    /\ up' = FALSE
    /\ running' = running \ (IF platform = "linux" THEN {Leader}
                             ELSE IF job = "open" THEN inJob ELSE {})
    /\ UNCHANGED <<platform, cancelled, run, born, reaped, job, inJob, osexec, clean>>

-----------------------------------------------------------------------------
(* Starting *)

(* InitializeApp: the store first.  Nothing else in it fails (NewController *)
(* and security.Init return no errors), nor does Verify.                    *)
InitializeApp ==
    /\ up /\ main = "initializing"
    /\ store' = "open"
    /\ MainGoto(IF entry = "run" THEN "selecting" ELSE "probing")
    /\ server' = "starting"
    /\ UNCHANGED <<group, program, exit, signals, stream, disk>>

(* An empty DataDir or Listen, or a database that does not open: Fatalf.    *)
InitializeFail ==
    /\ up /\ main = "initializing"
    /\ Exit("fatal")
    /\ UNCHANGED <<program, main, server, signals, stream, store, disk>>

(* Proxy.Start, in a goroutine of its own.                                  *)
Listen ==
    /\ up /\ server = "starting"
    /\ address = "free"
    /\ server' = "listening"
    /\ UNCHANGED <<group, program, main, exit, signals, stream, store, disk>>

(* run.go puts the error into the channel errSrv, main.go exits on the      *)
(* spot.                                                                    *)
ListenFail ==
    /\ up /\ server = "starting"
    /\ address # "free"
    /\ server' = "failed"
    /\ IF entry = "run" THEN UNCHANGED <<group, exit>> ELSE Exit("fatal")
    /\ UNCHANGED <<program, main, signals, stream, store, disk>>

(* run.go: the error, or 100 ms.                                            *)
SelectError ==
    /\ up /\ main = "selecting"
    /\ server = "failed"
    /\ Exit("fatal")
    /\ UNCHANGED <<program, main, server, signals, stream, store, disk>>

SelectTimeout ==
    /\ up /\ main = "selecting"
    /\ MainGoto("probing")
    /\ UNCHANGED <<group, program, exit, server, signals, stream, store, disk>>

(* A slip: any end of the probing counts as healthy. *)
HealthAssumed ==
    /\ up /\ main = "probing"
    /\ MainGoto("ready")
    /\ UNCHANGED <<group, program, exit, server, signals, stream, store, disk>>

(* WaitForHealth: /healthz answers 200 within five seconds, or Fatalf.      *)
(* Whoever listens at the address may answer, and main.go does not wait for *)
(* its own listener first.                                                  *)
HealthPass ==
    /\ up /\ main = "probing"
    /\ server = "listening" \/ address = "gateway"
    /\ MainGoto("ready")
    /\ UNCHANGED <<group, program, exit, server, signals, stream, store, disk>>

HealthTimeout ==
    /\ up /\ main = "probing"
    /\ Exit("fatal")
    /\ UNCHANGED <<program, main, server, signals, stream, store, disk>>

(* signal.Notify, and the goroutine that calls Process.Run or the           *)
(* dashboard's.                                                             *)
Launch ==
    /\ up /\ main = "ready"
    /\ MainGoto("waiting")
    /\ ender' = "running"
    /\ RunGoto(IF mode = "child" THEN "called" ELSE run)
    /\ UNCHANGED <<host, tree, osexec, clean, program, exit, server, sigs, stream, store, disk>>

-----------------------------------------------------------------------------
(* Signals *)

(* sigChan is read once: what comes after that read stays in it or is       *)
(* dropped, and is left out here.                                           *)

(* SIGINT or SIGTERM from outside: before signal.Notify they end the        *)
(* process, and afterwards they go into sigChan if it has room.             *)
Interrupt ==
    /\ up
    /\ \/ main \in {"initializing", "selecting", "probing", "ready"}
          /\ Exit("signalled") /\ UNCHANGED sigs
       \/ main = "waiting"
          /\ sigs' = 1 /\ UNCHANGED <<group, exit>>
    /\ UNCHANGED <<program, main, server, ender, stream, store, disk>>

(* The dashboard is quit with a key, or cannot run.                         *)
Quit ==
    /\ up /\ main = "waiting" /\ mode = "dashboard" /\ ender = "running"
    /\ ender' = "sending"
    /\ UNCHANGED <<group, program, main, exit, server, sigs, stream, store, disk>>

(* A slip: a command that could not be started is logged and no more. *)
ChildEndedStarted ==
    /\ up /\ main = "waiting" /\ mode = "child" /\ ender = "running"
    /\ run = "returned" /\ Started
    /\ ender' = "sending"
    /\ UNCHANGED <<group, program, main, exit, server, sigs, stream, store, disk>>

(* Run has returned, with an error or without.                              *)
ChildEnded ==
    /\ up /\ main = "waiting" /\ mode = "child" /\ ender = "running"
    /\ run = "returned"
    /\ ender' = "sending"
    /\ UNCHANGED <<group, program, main, exit, server, sigs, stream, store, disk>>

Send ==
    /\ up /\ main = "waiting" /\ ender = "sending"
    /\ sigs = 0
    /\ sigs' = 1 /\ ender' = "sent"
    /\ UNCHANGED <<group, program, main, exit, server, stream, store, disk>>

-----------------------------------------------------------------------------
(* Stopping *)

(* The first signal; run.go forwards it to the child, which may ignore it.  *)
TakeSignal ==
    /\ up /\ main = "waiting"
    /\ sigs = 1
    /\ sigs' = 0
    /\ MainGoto("stopping")
    /\ UNCHANGED <<group, program, exit, server, ender, stream, store, disk>>

(* cancel(), then the first Process.Cleanup.                                *)
Cancel ==
    /\ up /\ main = "stopping"
    /\ cancelled' = TRUE
    /\ CleanGoto("first", "called")
    /\ MainGoto("cleaning")
    /\ UNCHANGED <<platform, up, run, tree, osexec, program, exit, server, signals,
                   stream, store, disk>>

CleanupOver(k) == clean[k] \in {"returned", "nothing"}

(* 500 ms later main returns and its deferred cleanup calls Cleanup again.  *)
Return ==
    /\ up /\ main = "cleaning"
    /\ CleanupOver("first")
    /\ CleanGoto("second", "called")
    /\ MainGoto("returning")
    /\ UNCHANGED <<host, run, tree, osexec, program, exit, server, signals, stream, store, disk>>

(* Store.Close, in three steps, and the end of the process.                 *)
StoreMark ==
    /\ up /\ main = "returning" /\ store = "open"
    /\ CleanupOver("second")
    /\ store' = "marked"
    /\ UNCHANGED <<group, program, main, exit, server, signals, stream, disk>>

StoreShut ==
    /\ up /\ store = "marked"
    /\ store' = "shut"
    /\ UNCHANGED <<group, program, main, exit, server, signals, stream, disk>>

StoreClosed ==
    /\ up /\ store = "shut"
    /\ Disk!Buffered = {}
    /\ store' = "closed"
    /\ Exit("returned")
    /\ UNCHANGED <<program, main, server, signals, stream, disk>>

(* The goroutine of server.go:305: no new requests.  Whether Shutdown then  *)
(* waits for the running ones, 5 s at most, nobody waits for Shutdown.      *)
Shutdown ==
    /\ up /\ server = "listening"
    /\ cancelled
    /\ server' = "stopped"
    /\ UNCHANGED <<group, program, main, exit, signals, stream, store, disk>>

-----------------------------------------------------------------------------
(* Streams and the store *)

StreamGoto(s, label) == stream' = [stream EXCEPT ![s] = label]

StreamOpen(s) ==
    /\ up /\ server = "listening" /\ stream[s] = "none"
    /\ StreamGoto(s, "open")
    /\ UNCHANGED <<group, program, main, exit, server, signals, store, disk>>

(* The settlement's Write: is the store closed?                             *)
StreamEnd(s) ==
    /\ up /\ stream[s] = "open"
    /\ StreamGoto(s, IF store = "open" THEN "writing" ELSE "refused")
    /\ UNCHANGED <<group, program, main, exit, server, signals, store, disk>>

StreamAccepted(s) ==
    /\ up /\ stream[s] = "writing"
    /\ store \in {"open", "marked"}
    /\ accepted' = accepted \cup {s}
    /\ StreamGoto(s, "accepted")
    /\ UNCHANGED <<group, program, main, exit, server, signals, store, durable, gone>>

StreamFull(s) ==
    /\ up /\ stream[s] = "writing"
    /\ store \in {"open", "marked"}
    /\ StreamGoto(s, "refused")
    /\ UNCHANGED <<group, program, main, exit, server, signals, store, disk>>

(* A send on the closed channel.                                            *)
StreamPanic(s) ==
    /\ up /\ stream[s] = "writing"
    /\ store = "shut"
    /\ Exit("panicked")
    /\ UNCHANGED <<program, main, server, signals, stream, store, disk>>

WorkerPersist(s) ==
    /\ up /\ s \in Disk!Buffered
    /\ durable' = durable \cup {s}
    /\ UNCHANGED <<accepted, gone, group, program, main, exit, server, signals, stream, store>>

WorkerGiveUp(s) ==
    /\ up /\ s \in Disk!Buffered
    /\ gone' = gone \cup {s}
    /\ UNCHANGED <<accepted, durable, group, program, main, exit, server, signals, stream, store>>

-----------------------------------------------------------------------------
(* The steps of the main goroutine that wait for nothing but time.          *)
MainSteps ==
    \/ InitializeApp \/ InitializeFail
    \/ SelectError \/ SelectTimeout
    \/ HealthPass \/ HealthTimeout
    \/ Launch \/ TakeSignal \/ Cancel \/ Return
    \/ StoreMark \/ StoreShut \/ StoreClosed

Proxy == Listen \/ ListenFail \/ Shutdown
Ender == Quit \/ ChildEnded \/ Send
Stream(s) == StreamOpen(s) \/ StreamEnd(s) \/ StreamAccepted(s) \/ StreamFull(s) \/ StreamPanic(s)
Worker(s) == WorkerPersist(s) \/ WorkerGiveUp(s)

Group == GroupNext /\ UNCHANGED <<program, main, exit, server, signals, stream, store, disk>>

Next ==
    \/ MainSteps \/ Proxy \/ Interrupt \/ Ender \/ Group
    \/ \E s \in Streams : Stream(s) \/ Worker(s)

Spec == Init /\ [][Next]_vars

(* Goroutines run on and timers fire.  No signal, no end of a process, of a *)
(* stream or of the dashboard is owed to anyone.                            *)
Fairness ==
    /\ GroupFairness
    /\ WF_vars(MainSteps)
    /\ WF_vars(Listen \/ ListenFail)
    /\ WF_vars(ChildEnded) /\ WF_vars(Send)
    /\ \A s \in Streams : WF_vars(Worker(s))

FairSpec == Spec /\ Fairness

-----------------------------------------------------------------------------
(* Properties *)

(* Every variable has its type, and the process is up until it has exited.  *)
TypeOK ==
    /\ GroupTypeOK
    /\ entry \in {"run", "main"} /\ address \in {"free", "gateway", "deaf"}
    /\ mode \in {"child", "dashboard"}
    /\ main \in {"initializing", "selecting", "probing", "ready", "waiting",
                 "stopping", "cleaning", "returning"}
    /\ exit \in {"no", "fatal", "signalled", "returned", "panicked"}
    /\ up <=> exit = "no"
    /\ server \in {"down", "starting", "listening", "failed", "stopped"}
    /\ sigs \in 0 .. 1
    /\ ender \in {"none", "running", "sending", "sent"}
    /\ stream \in [Streams -> {"none", "open", "writing", "accepted", "refused"}]
    /\ store \in {"none", "open", "marked", "shut", "closed"}
    /\ accepted \subseteq Streams /\ durable \subseteq accepted /\ gone \subseteq accepted

(* run.go:80, main.go:69: a child is started only when a gateway has        *)
(* answered at its proxy address - its own, or, when the address is taken,  *)
(* the T-Guard that has it: utils.go:22 asks for a 200 and nothing else.    *)
ChildBehindGateway ==
    Started => server \in {"listening", "stopped"} \/ address = "gateway"

(* The leader of the child does not outlive T-Guard: on Linux however it    *)
(* ends, and elsewhere when main returned with a Cleanup that saw it.       *)
LeaderEnds ==
    /\ LeaderStopped
    /\ ~up /\ platform = "linux" => Leader \notin running

(* The first signal is the end: main never hangs in a Cleanup, whoever won  *)
(* the race between its Wait and Run's, nor in Close.                       *)
SignalEnds == main = "waiting" /\ sigs = 1 ~> ~up

(* run.go:97-108: a child that has ended, or was never started, takes       *)
(* T-Guard with it.                                                         *)
ChildEndEnds == Exited \/ run = "returned" ~> ~up
=============================================================================
