-------------------------- MODULE Lifecycle_proofs --------------------------
(***************************************************************************)
(* The safety of a run of T-Guard from start to end, for any number of     *)
(* streams and any processes the child may start.                          *)
(***************************************************************************)
EXTENDS Lifecycle, TLAPS

(* Nothing exists before the fork.                                          *)
NotBornYet == run \in {"idle", "called", "made", "starting"} => born = {}

(* Whoever got past the kernel's wait, and whoever set the process state,   *)
(* has seen the leader end.                                                 *)
WaitsSawExit ==
    /\ status => Exited
    /\ \A w \in Waiters : waits[w] \in {"ended", "failed", "result", "done"} => Exited

(* A Cleanup that signals has found a command.                              *)
FoundCommand == \A k \in Cleanups : clean[k] \in {"grace", "returned"} => Started

GroupInv == GroupTypeOK /\ NotBornYet /\ WaitsSawExit /\ FoundCommand /\ LeaderStopped

(* Run is called from Launch on, and Launch follows the health check.       *)
Phases ==
    /\ main \in {"initializing", "selecting", "probing", "ready"} => run = "idle"
    /\ main \notin {"initializing", "selecting", "probing"} =>
         server \in {"listening", "stopped"} \/ address = "gateway"

ProgramTypeOK ==
    /\ entry \in {"run", "main"} /\ address \in {"free", "gateway", "deaf"}
    /\ mode \in {"child", "dashboard"}
    /\ main \in {"initializing", "selecting", "probing", "ready", "waiting",
                 "stopping", "cleaning", "returning"}
    /\ exit \in {"no", "fatal", "signalled", "returned", "panicked"}
    /\ up <=> exit = "no"
    /\ server \in {"down", "starting", "listening", "failed", "stopped"}
    /\ sigs \in 0 .. 1
    /\ ender \in {"none", "running", "sending", "sent"}
    /\ stream \in [Streams -> {"none", "open", "writing", "accepted", "refused"}]
    /\ store \in {"none", "open", "marked", "shut", "closed"}

DiskTypeOK == accepted \subseteq Streams /\ durable \subseteq accepted /\ gone \subseteq accepted

LinuxKills == ~up /\ platform = "linux" => Leader \notin running

LifecycleInv ==
    /\ GroupInv /\ ProgramTypeOK /\ DiskTypeOK
    /\ Phases /\ LinuxKills

-----------------------------------------------------------------------------
(* The process group *)

USE DEF Processes, Cleanups, Waiters, Platforms, Unix, Started, Exited, Seen

LEMMA GroupStart == GroupInit => GroupInv
  BY DEF GroupInit, GroupInv, GroupTypeOK, NotBornYet, WaitsSawExit, FoundCommand, LeaderStopped

(* The steps of Run up to the fork.                                         *)
LEMMA RunStepsKeep == GroupInv /\ RunSteps => GroupInv'
<1> SUFFICES ASSUME GroupInv, RunSteps PROVE GroupInv'
  OBVIOUS
<1> USE DEF GroupInv, GroupTypeOK, NotBornYet, WaitsSawExit, FoundCommand, LeaderStopped,
            RunGoto, host, tree, osexec
<1>1. CASE RunRefuse
  BY <1>1 DEF RunRefuse
<1>2. CASE RunPrepare
  BY <1>2 DEF RunPrepare
<1>3. CASE StartFail
  BY <1>3 DEF StartFail
<1>4. CASE StartCheck
  BY <1>4 DEF StartCheck
<1>5. CASE StartFork
  BY <1>5, MembersAssumption DEF StartFork
<1>6. CASE Assign
  BY <1>6 DEF Assign
<1>7. CASE RunReturn
  BY <1>7 DEF RunReturn
<1> QED
  BY <1>1, <1>2, <1>3, <1>4, <1>5, <1>6, <1>7 DEF RunSteps

(* The processes, and the watcher.                                          *)
LEMMA ProcessesKeep ==
    ASSUME GroupInv,
           \/ \E m \in Members : MemberStart(m)
           \/ \E p \in Processes : ProcessExit(p)
           \/ WatchFire
    PROVE  GroupInv'
<1> USE DEF GroupInv, GroupTypeOK, NotBornYet, WaitsSawExit, FoundCommand, LeaderStopped,
            host, tree, osexec
<1>1. ASSUME NEW m \in Members, MemberStart(m) PROVE GroupInv'
  BY <1>1, MembersAssumption DEF MemberStart
<1>2. ASSUME NEW p \in Processes, ProcessExit(p) PROVE GroupInv'
  BY <1>2 DEF ProcessExit
<1>3. CASE WatchFire
  BY <1>3 DEF WatchFire
<1> QED
  BY <1>1, <1>2, <1>3

(* The waits: one that ends has seen the leader end.                        *)
LEMMA WaitStepsKeep ==
    ASSUME GroupInv, NEW w \in Waiters, WaitSteps(w)
    PROVE  GroupInv'
<1> USE DEF GroupInv, GroupTypeOK, NotBornYet, WaitsSawExit, FoundCommand, LeaderStopped,
            WaitGoto, host, tree, osexec
<1>1. CASE WaitEnter(w)
  BY <1>1 DEF WaitEnter
<1>2. CASE WaitReap(w)
  BY <1>2 DEF WaitReap
<1>3. CASE WaitStatus(w)
  BY <1>3 DEF WaitStatus
<1>4. CASE WaitResult(w)
  BY <1>4 DEF WaitResult
<1> QED
  BY <1>1, <1>2, <1>3, <1>4 DEF WaitSteps

(* A Cleanup returns from its grace period because its Wait saw the leader  *)
(* end, or because it killed whatever ran: a leader that has been reaped    *)
(* already has ended, and the misdirected kill does not matter to it.       *)
LEMMA CleanupStepsKeep ==
    ASSUME GroupInv, NEW k \in Cleanups, CleanupSteps(k)
    PROVE  GroupInv'
<1> USE DEF GroupInv, GroupTypeOK, NotBornYet, WaitsSawExit, FoundCommand, LeaderStopped,
            CleanGoto, WaitGoto, host, tree, osexec
<1>1. CASE CleanupNothing(k)
  BY <1>1 DEF CleanupNothing
<1>2. CASE CleanupTerm(k)
  BY <1>2 DEF CleanupTerm
<1>3. CASE CleanupDone(k)
  BY <1>3 DEF CleanupDone
<1>4. CASE CleanupKill(k)
  BY <1>4 DEF CleanupKill
<1>5. CASE CleanupJob(k)
  BY <1>5 DEF CleanupJob
<1> QED
  BY <1>1, <1>2, <1>3, <1>4, <1>5 DEF CleanupSteps

LEMMA GroupNextKeeps == GroupInv /\ GroupNext => GroupInv'
  BY RunStepsKeep, ProcessesKeep, WaitStepsKeep, CleanupStepsKeep DEF GroupNext

(* What every step of the group leaves to the program: T-Guard stays up,    *)
(* and Run is not called from in here.                                      *)
LEMMA GroupNextKeepsHost == GroupInv /\ GroupNext => up /\ up' = up /\ (run = "idle" => run' = "idle")
<1> SUFFICES ASSUME GroupInv, GroupNext PROVE up /\ up' = up /\ (run = "idle" => run' = "idle")
  OBVIOUS
<1>1. CASE RunSteps
  BY <1>1 DEF RunSteps, RunRefuse, RunPrepare, StartFail, StartCheck, StartFork, Assign, RunReturn, host
<1>2. ASSUME NEW w \in Waiters, WaitSteps(w) PROVE up /\ up' = up /\ run' = run
  BY <1>2 DEF WaitSteps, WaitEnter, WaitReap, WaitStatus, WaitResult, host
<1>3. ASSUME NEW k \in Cleanups, CleanupSteps(k) PROVE up /\ up' = up /\ run' = run
  BY <1>3 DEF CleanupSteps, CleanupNothing, CleanupTerm, CleanupDone, CleanupKill, CleanupJob, host
<1>4. CASE WatchFire \/ (\E m \in Members : MemberStart(m)) \/ (\E p \in Processes : ProcessExit(p))
  BY <1>4 DEF WatchFire, MemberStart, ProcessExit, host
<1> QED
  BY <1>1, <1>2, <1>3, <1>4 DEF GroupNext

(* The end of the process stops nothing but processes.                      *)
LEMMA ExitKeeps ==
    ASSUME GroupInv, NEW how, Exit(how)
    PROVE  GroupInv' /\ LinuxKills' /\ ~up' /\ exit' = how /\ run' = run
<1>1. ~up' /\ exit' = how /\ run' = run /\ born' = born /\ reaped' = reaped /\ inJob' = inJob
      /\ job' = job /\ platform' = platform /\ cancelled' = cancelled /\ clean' = clean
      /\ watch' = watch /\ status' = status /\ waits' = waits
      /\ up' = FALSE
  BY DEF Exit, osexec
<1>2. running' \subseteq running /\ (platform = "linux" => Leader \notin running')
  BY DEF Exit
<1>3. GroupTypeOK'
  <2>1. Exited => Exited'
    BY <1>1, <1>2 DEF Exited, Started
  <2>2. platform \in Platforms /\ running' \subseteq born
    BY <1>2 DEF GroupInv, GroupTypeOK
  <2>3. GroupTypeOK
    BY DEF GroupInv
  <2>4. reaped' => Exited'
    BY <1>1, <2>1, <2>3 DEF GroupTypeOK
  <2> HIDE DEF Exited
  <2>5. up' \in BOOLEAN /\ UNCHANGED <<platform, cancelled, reaped, status, run, born, inJob, job,
                                      watch, waits, clean>>
    BY <1>1
  <2> QED
    BY <2>2, <2>3, <2>4, <2>5 DEF GroupTypeOK
<1>4. NotBornYet' /\ WaitsSawExit' /\ FoundCommand' /\ LeaderStopped'
  BY <1>1, <1>2 DEF GroupInv, GroupTypeOK, NotBornYet, WaitsSawExit, FoundCommand, LeaderStopped
<1> QED
  BY <1>1, <1>2, <1>3, <1>4 DEF GroupInv, LinuxKills

(* What the main goroutine does to the group: nothing, a call of Run, or a  *)
(* call of Cleanup.                                                         *)
LEMMA GroupUnchanged == GroupInv /\ UNCHANGED group => GroupInv'
  BY DEF group, host, tree, osexec, GroupInv, GroupTypeOK, NotBornYet, WaitsSawExit,
         FoundCommand, LeaderStopped

-----------------------------------------------------------------------------
(* The program *)

LEMMA LifecycleStart == Init => LifecycleInv
<1> SUFFICES ASSUME Init PROVE LifecycleInv
  OBVIOUS
<1>1. GroupInv /\ up
  BY GroupStart DEF Init, GroupInit
<1>2. run = "idle"
  BY DEF Init, GroupInit
<1> QED
  BY <1>1, <1>2 DEF Init, Disk!Init, LifecycleInv, ProgramTypeOK, DiskTypeOK, Phases,
     LinuxKills

(* While T-Guard is up, the end of the program is vacuous: a step keeps the *)
(* invariant if it keeps the group's, the types and the phases.             *)
LEMMA StillUp ==
    ASSUME GroupInv', ProgramTypeOK', DiskTypeOK', Phases', up'
    PROVE  LifecycleInv'
  BY DEF LifecycleInv, ProgramTypeOK, LinuxKills

(* A step that ends the process and leaves the rest of the program alone.   *)
LEMMA Ends ==
    ASSUME LifecycleInv, NEW how \in {"fatal", "signalled", "panicked"}, Exit(how),
           UNCHANGED <<program, main, sigs, ender, stream, store, disk>>,
           server' = server \/ (server = "starting" /\ server' = "failed")
    PROVE  LifecycleInv'
<1>1. GroupInv' /\ LinuxKills' /\ ~up' /\ exit' = how /\ run' = run
  BY ExitKeeps DEF LifecycleInv
<1>2. ProgramTypeOK' /\ Phases' /\ DiskTypeOK'
  BY <1>1 DEF LifecycleInv, ProgramTypeOK, Phases, DiskTypeOK, disk, program
<1> QED
  BY <1>1, <1>2 DEF LifecycleInv

(* The start, up to the launch of the child.                                *)
LEMMA StartKeeps ==
    ASSUME LifecycleInv,
           \/ InitializeApp \/ InitializeFail \/ Listen \/ ListenFail
           \/ SelectError \/ SelectTimeout \/ HealthPass \/ HealthTimeout
    PROVE  LifecycleInv'
<1> USE DEF program, signals
<1>1. ASSUME UNCHANGED group, UNCHANGED <<program, exit, sigs, ender, stream, disk>>,
             up, main' \in {"selecting", "probing", "ready"},
             store' \in {"open", store},
             server' \in {"down", "starting", "listening", "failed", "stopped"},
             main \in {"initializing", "selecting", "probing"},
             main' = "ready" => server' = "listening" \/ address = "gateway"
      PROVE  LifecycleInv'
  <2>1. GroupInv'
    BY <1>1, GroupUnchanged DEF LifecycleInv
  <2>2. up' = up /\ run' = run
    BY <1>1 DEF group, host
  <2>3. ProgramTypeOK' /\ Phases' /\ DiskTypeOK'
    BY <1>1, <2>2 DEF LifecycleInv, ProgramTypeOK, Phases, DiskTypeOK, disk
  <2> QED
    BY <1>1, <2>1, <2>2, <2>3, StillUp
<1>2. CASE InitializeApp
  BY <1>1, <1>2 DEF InitializeApp, MainGoto
<1>3. CASE InitializeFail
  BY <1>3, Ends DEF InitializeFail
<1>4. CASE Listen
  <2>1. GroupInv' /\ up' = up /\ run' = run
    BY <1>4, GroupUnchanged DEF Listen, LifecycleInv, group, host
  <2>2. ProgramTypeOK' /\ Phases' /\ DiskTypeOK'
    BY <1>4, <2>1 DEF Listen, LifecycleInv, ProgramTypeOK, Phases, DiskTypeOK, disk
  <2> QED
    BY <1>4, <2>1, <2>2, StillUp DEF Listen
<1>5. CASE ListenFail
  <2>1. CASE entry = "run"
    <3>1. GroupInv' /\ up' = up /\ run' = run
      BY <1>5, <2>1, GroupUnchanged DEF ListenFail, LifecycleInv, group, host
    <3>2. ProgramTypeOK' /\ Phases' /\ DiskTypeOK'
      BY <1>5, <2>1, <3>1 DEF ListenFail, LifecycleInv, ProgramTypeOK, Phases, DiskTypeOK, disk
    <3> QED
      BY <1>5, <3>1, <3>2, StillUp DEF ListenFail
  <2>2. CASE entry # "run"
    BY <1>5, <2>2, Ends DEF ListenFail
  <2> QED
    BY <2>1, <2>2
<1>6. CASE SelectError
  BY <1>6, Ends DEF SelectError
<1>7. CASE SelectTimeout
  BY <1>1, <1>7 DEF SelectTimeout, MainGoto, LifecycleInv, ProgramTypeOK
<1>8. CASE HealthPass
  BY <1>1, <1>8 DEF HealthPass, MainGoto, LifecycleInv, ProgramTypeOK
<1>9. CASE HealthTimeout
  BY <1>9, Ends DEF HealthTimeout
<1> QED
  BY <1>2, <1>3, <1>4, <1>5, <1>6, <1>7, <1>8, <1>9

(* The launch, signals and the end of what was launched.                    *)
LEMMA WaitingKeeps ==
    ASSUME LifecycleInv,
           Launch \/ Interrupt \/ Quit \/ ChildEnded \/ Send \/ TakeSignal
    PROVE  LifecycleInv'
<1> USE DEF program, signals
<1>1. ASSUME UNCHANGED group, UNCHANGED <<program, exit, server, stream, store, disk>>,
             up, sigs' \in 0 .. 1, ender' \in {"none", "running", "sending", "sent"},
             main = "waiting", main' \in {"waiting", "stopping"}
      PROVE  LifecycleInv'
  <2>1. GroupInv' /\ up' = up /\ run' = run
    BY <1>1, GroupUnchanged DEF LifecycleInv, group, host
  <2>2. ProgramTypeOK' /\ Phases' /\ DiskTypeOK'
    BY <1>1, <2>1 DEF LifecycleInv, ProgramTypeOK, Phases, DiskTypeOK, disk
  <2> QED
    BY <1>1, <2>1, <2>2, StillUp
<1>2. CASE Launch
  <2>1. GroupInv' /\ up' = up
    BY <1>2 DEF Launch, RunGoto, host, tree, osexec, LifecycleInv, Phases, GroupInv,
       GroupTypeOK, NotBornYet, WaitsSawExit, FoundCommand, LeaderStopped
  <2>2. ProgramTypeOK' /\ Phases' /\ DiskTypeOK'
    BY <1>2, <2>1 DEF Launch, MainGoto, LifecycleInv, ProgramTypeOK, Phases, DiskTypeOK, disk
  <2> QED
    BY <1>2, <2>1, <2>2, StillUp DEF Launch
<1>3. CASE Interrupt
  <2>1. CASE main = "waiting"
    BY <1>1, <1>3, <2>1 DEF Interrupt, LifecycleInv, ProgramTypeOK
  <2>2. CASE main # "waiting"
    BY <1>3, <2>2, Ends DEF Interrupt
  <2> QED
    BY <2>1, <2>2
<1>4. CASE Quit
  BY <1>1, <1>4 DEF Quit, LifecycleInv, ProgramTypeOK
<1>5. CASE ChildEnded
  BY <1>1, <1>5 DEF ChildEnded, LifecycleInv, ProgramTypeOK
<1>6. CASE Send
  BY <1>1, <1>6 DEF Send, LifecycleInv, ProgramTypeOK
<1>7. CASE TakeSignal
  BY <1>1, <1>7 DEF TakeSignal, MainGoto, LifecycleInv, ProgramTypeOK
<1> QED
  BY <1>2, <1>3, <1>4, <1>5, <1>6, <1>7

(* A call of Cleanup from the main goroutine.                               *)
LEMMA CallKeepsGroup ==
    ASSUME GroupInv, NEW k \in Cleanups, CleanGoto(k, "called"),
           cancelled' \in BOOLEAN, UNCHANGED <<platform, up, run, tree, osexec>>
    PROVE  GroupInv'
  BY DEF CleanGoto, tree, osexec, GroupInv, GroupTypeOK, NotBornYet, WaitsSawExit,
         FoundCommand, LeaderStopped

(* The shutdown.                                                            *)
LEMMA StopKeeps ==
    ASSUME LifecycleInv,
           Cancel \/ Return \/ StoreMark \/ StoreShut \/ StoreClosed \/ Shutdown
    PROVE  LifecycleInv'
<1> USE DEF program, signals
<1>1. CASE Cancel
  <2>1. GroupInv' /\ up' = up /\ run' = run
    BY <1>1, CallKeepsGroup DEF Cancel, LifecycleInv
  <2>2. ProgramTypeOK' /\ Phases' /\ DiskTypeOK'
    BY <1>1, <2>1 DEF Cancel, MainGoto, LifecycleInv, ProgramTypeOK, Phases, DiskTypeOK, disk
  <2> QED
    BY <1>1, <2>1, <2>2, StillUp DEF Cancel
<1>2. CASE Return
  <2>1. GroupInv' /\ up' = up /\ run' = run
    BY <1>2, CallKeepsGroup DEF Return, LifecycleInv, host, GroupInv, GroupTypeOK
  <2>2. ProgramTypeOK' /\ Phases' /\ DiskTypeOK'
    BY <1>2, <2>1 DEF Return, MainGoto, LifecycleInv, ProgramTypeOK, Phases, DiskTypeOK, disk
  <2> QED
    BY <1>2, <2>1, <2>2, StillUp DEF Return
<1>3. CASE StoreMark \/ StoreShut \/ Shutdown
  <2>1. GroupInv' /\ up' = up /\ run' = run /\ up
    BY <1>3, GroupUnchanged DEF StoreMark, StoreShut, Shutdown, LifecycleInv, group, host
  <2>2. ProgramTypeOK' /\ Phases' /\ DiskTypeOK'
    BY <1>3, <2>1 DEF StoreMark, StoreShut, Shutdown, LifecycleInv, ProgramTypeOK, Phases,
       DiskTypeOK, disk
  <2> QED
    BY <2>1, <2>2, StillUp
<1>4. CASE StoreClosed
  <2>1. GroupInv' /\ LinuxKills' /\ ~up' /\ exit' = "returned" /\ run' = run
    BY <1>4, ExitKeeps DEF StoreClosed, LifecycleInv
  <2>2. ProgramTypeOK' /\ Phases' /\ DiskTypeOK'
    BY <1>4, <2>1 DEF StoreClosed, LifecycleInv, ProgramTypeOK, Phases, DiskTypeOK, disk
  <2> QED
    BY <2>1, <2>2 DEF LifecycleInv
<1> QED
  BY <1>1, <1>2, <1>3, <1>4

(* The streams and the store's workers.                                     *)
LEMMA StreamsKeep ==
    ASSUME LifecycleInv, NEW s \in Streams, Stream(s) \/ Worker(s)
    PROVE  LifecycleInv'
<1> USE DEF program, signals
<1>1. ASSUME UNCHANGED group, UNCHANGED <<program, main, exit, server, sigs, ender, store>>,
             up, DiskTypeOK',
             stream' \in [Streams -> {"none", "open", "writing", "accepted", "refused"}]
      PROVE  LifecycleInv'
  <2>1. GroupInv' /\ up' = up /\ run' = run
    BY <1>1, GroupUnchanged DEF LifecycleInv, group, host
  <2>2. ProgramTypeOK' /\ Phases'
    BY <1>1, <2>1 DEF LifecycleInv, ProgramTypeOK, Phases
  <2> QED
    BY <1>1, <2>1, <2>2, StillUp
<1>2. stream \in [Streams -> {"none", "open", "writing", "accepted", "refused"}] /\ DiskTypeOK
  BY DEF LifecycleInv, ProgramTypeOK
<1>3. CASE StreamOpen(s)
  BY <1>1, <1>2, <1>3 DEF StreamOpen, StreamGoto, DiskTypeOK, disk
<1>4. CASE StreamEnd(s)
  BY <1>1, <1>2, <1>4 DEF StreamEnd, StreamGoto, DiskTypeOK, disk
<1>5. CASE StreamAccepted(s)
  BY <1>1, <1>2, <1>5 DEF StreamAccepted, StreamGoto, DiskTypeOK
<1>6. CASE StreamFull(s)
  BY <1>1, <1>2, <1>6 DEF StreamFull, StreamGoto, DiskTypeOK, disk
<1>7. CASE StreamPanic(s)
  BY <1>7, Ends DEF StreamPanic
<1>8. CASE WorkerPersist(s)
  BY <1>1, <1>2, <1>8 DEF WorkerPersist, DiskTypeOK, Disk!Buffered
<1>9. CASE WorkerGiveUp(s)
  BY <1>1, <1>2, <1>9 DEF WorkerGiveUp, DiskTypeOK, Disk!Buffered
<1> QED
  BY <1>3, <1>4, <1>5, <1>6, <1>7, <1>8, <1>9 DEF Stream, Worker

(* The steps of the group, under the program's phases.                      *)
LEMMA GroupKeeps == LifecycleInv /\ Group => LifecycleInv'
<1> SUFFICES ASSUME LifecycleInv, Group PROVE LifecycleInv'
  OBVIOUS
<1>1. GroupInv' /\ up' = up /\ up /\ (run = "idle" => run' = "idle")
  BY GroupNextKeeps, GroupNextKeepsHost DEF Group, LifecycleInv
<1>2. ProgramTypeOK' /\ Phases' /\ DiskTypeOK'
  BY <1>1 DEF Group, program, signals, LifecycleInv, ProgramTypeOK, Phases, DiskTypeOK, disk
<1> QED
  BY <1>1, <1>2, StillUp

LEMMA LifecycleStep == LifecycleInv /\ [Next]_vars => LifecycleInv'
<1> SUFFICES ASSUME LifecycleInv, [Next]_vars PROVE LifecycleInv'
  OBVIOUS
<1>1. CASE Next
  BY <1>1, StartKeeps, WaitingKeeps, StopKeeps, StreamsKeep, GroupKeeps
     DEF Next, MainSteps, Proxy, Ender
<1>2. CASE UNCHANGED vars
  <2>1. GroupInv'
    BY <1>2, GroupUnchanged DEF vars, LifecycleInv
  <2>2. ProgramTypeOK' /\ Phases' /\ DiskTypeOK' /\ LinuxKills'
    BY <1>2 DEF vars, group, host, tree, program, signals, disk, LifecycleInv, ProgramTypeOK,
       Phases, DiskTypeOK, LinuxKills
  <2> QED
    BY <2>1, <2>2 DEF LifecycleInv
<1> QED
  BY <1>1, <1>2

LEMMA LifecycleAlways == Spec => []LifecycleInv
  BY LifecycleStart, LifecycleStep, PTL DEF Spec

-----------------------------------------------------------------------------
(* Every variable has its type, and the process is up until it has exited.  *)
THEOREM TypesAlwaysOK == Spec => []TypeOK
<1>1. LifecycleInv => TypeOK
  BY DEF LifecycleInv, GroupInv, ProgramTypeOK, DiskTypeOK, TypeOK
<1> QED
  BY <1>1, LifecycleAlways, PTL

(* A Cleanup that found a command leaves no leader, however the two Waits   *)
(* and the watcher interleave, and on Linux the leader never outlives       *)
(* T-Guard (manager_unix.go:66-101, platform_linux.go).                     *)
THEOREM LeaderAlwaysEnds == Spec => []LeaderEnds
<1>1. LifecycleInv => LeaderEnds
  BY DEF LifecycleInv, GroupInv, LinuxKills, LeaderEnds
<1> QED
  BY <1>1, LifecycleAlways, PTL

(* A child is started only when a gateway has answered at the proxy         *)
(* address: this program's, or, as the health check asks nobody's name, the *)
(* one that had taken it (run.go:80, main.go:69, utils.go:14-31).           *)
THEOREM ChildAlwaysBehindGateway == Spec => []ChildBehindGateway
<1>1. LifecycleInv => ChildBehindGateway
  BY DEF LifecycleInv, GroupInv, NotBornYet, Phases, ProgramTypeOK, ChildBehindGateway
<1> QED
  BY <1>1, LifecycleAlways, PTL
=============================================================================
