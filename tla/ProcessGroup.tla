---------------------------- MODULE ProcessGroup ----------------------------
(***************************************************************************)
(* The child T-Guard runs, and the processes the child starts in turn      *)
(* (internal/process: manager_unix.go, manager_windows.go, executor.go).   *)
(* Run, in one goroutine, starts the command and waits for it in another;  *)
(* Cleanup, called twice by the main goroutine, signals it and waits for   *)
(* it once more.  Both waits are os/exec's Cmd.Wait on the same command,   *)
(* and the command carries a context that kills its leader, and only its   *)
(* leader, when it is cancelled or its time is up.                         *)
(*                                                                         *)
(* Who calls Run and Cleanup, and when the context is cancelled, is for    *)
(* the module that instantiates this one.                                  *)
(***************************************************************************)
EXTENDS FiniteSets

CONSTANTS
    Leader,    \* the process Run starts
    Members    \* the processes it may start

ASSUME MembersAssumption == IsFiniteSet(Members) /\ Leader \notin Members

VARIABLES
    platform,   \* the build: manager_unix.go with platform_linux.go or
                \* platform_darwin.go, or manager_windows.go
    up,         \* T-Guard itself is running
    cancelled,  \* the context given to Run is done
    run,        \* where Run is
    born,       \* processes that have been started
    running,    \* those that have not ended
    reaped,     \* the leader has been waited for
    job,        \* windowsManager.job
    inJob,      \* processes assigned to the job object, or started by one that is
    watch,      \* os/exec: the goroutine that watches the command's context
    status,     \* os/exec: Cmd.ProcessState is set
    waits,      \* where each call of Cmd.Wait is
    clean       \* where each call of Cleanup is

host == <<platform, up, cancelled>>
tree == <<born, running, reaped, job, inJob>>
osexec == <<watch, status, waits>>
group == <<host, run, tree, osexec, clean>>

Platforms == {"linux", "darwin", "windows"}
Unix == platform \in {"linux", "darwin"}
Processes == Members \cup {Leader}
Cleanups == {"first", "second"}   \* run.go:130 and the deferred cleanup of app.go:128
Waiters == Cleanups \cup {"run"}

GroupInit ==
    /\ platform \in Platforms
    /\ up = TRUE
    /\ cancelled = FALSE
    /\ run = "idle"
    /\ born = {} /\ running = {} /\ reaped = FALSE
    /\ job = "none" /\ inJob = {}
    /\ watch = "none" /\ status = FALSE
    /\ waits = [w \in Waiters |-> "idle"]
    /\ clean = [k \in Cleanups |-> "idle"]

Started == Leader \in born       \* m.cmd.Process is set
Exited == Started /\ Leader \notin running
Seen(k) == clean[k] = "returned" \* a Cleanup that found a command

-----------------------------------------------------------------------------
(* Run *)

RunGoto(label) == run' = label

(* The command is not in the whitelist. *)
RunRefuse ==
    /\ up /\ run = "called"
    /\ RunGoto("returned")
    /\ UNCHANGED <<host, tree, osexec, clean>>

(* m.cmd is set; on Windows the job object is created first.                *)
RunPrepare ==
    /\ up /\ run = "called"
    /\ RunGoto("made")
    /\ job' = IF platform = "windows" THEN "open" ELSE job
    /\ UNCHANGED <<host, born, running, reaped, inJob, osexec, clean>>

(* Cmd.Start looks at the context, then forks.  It fails when the context   *)
(* is done or the file cannot be executed.                                  *)
StartFail ==
    /\ up /\ run = "made"
    /\ RunGoto("returned")
    /\ job' = IF platform = "windows" THEN "closed" ELSE job
    /\ UNCHANGED <<host, born, running, reaped, inJob, osexec, clean>>

StartCheck ==
    /\ up /\ run = "made"
    /\ ~cancelled
    /\ RunGoto("starting")
    /\ UNCHANGED <<host, tree, osexec, clean>>

StartFork ==
    /\ up /\ run = "starting"
    /\ born' = {Leader} /\ running' = {Leader}
    /\ watch' = "watching"
    /\ IF Unix THEN /\ RunGoto("waiting")
                    /\ waits' = [waits EXCEPT !["run"] = "called"]
               ELSE RunGoto("assigning") /\ UNCHANGED waits
    /\ UNCHANGED <<host, reaped, job, inJob, status, clean>>

(* Windows: OpenProcess and AssignProcessToJobObject, errors dropped.       *)
Assign ==
    /\ up /\ run = "assigning"
    /\ inJob' = IF job = "open" /\ Leader \in running THEN {Leader} ELSE inJob
    /\ RunGoto("waiting")
    /\ waits' = [waits EXCEPT !["run"] = "called"]
    /\ UNCHANGED <<host, born, running, reaped, job, watch, status, clean>>

RunReturn ==
    /\ up /\ run = "waiting"
    /\ waits["run"] = "done" \/ cancelled
    /\ RunGoto("returned")
    /\ UNCHANGED <<host, tree, osexec, clean>>

-----------------------------------------------------------------------------
(* The processes, while T-Guard is there to see.  A signal they may ignore  *)
(* (SIGTERM, SIGINT) and their own end look the same: a running process may *)
(* end at any time.                                                         *)

MemberStart(m) ==
    /\ up /\ Leader \in running
    /\ m \in Members \ born
    /\ born' = born \cup {m}
    /\ running' = running \cup {m}
    /\ inJob' = IF Leader \in inJob THEN inJob \cup {m} ELSE inJob
    /\ UNCHANGED <<host, run, reaped, job, osexec, clean>>

ProcessExit(p) ==
    /\ up /\ p \in running
    /\ running' = running \ {p}
    /\ UNCHANGED <<host, run, born, reaped, job, inJob, osexec, clean>>

-----------------------------------------------------------------------------
(* os/exec: the watcher of the command's context, and Cmd.Wait *)

(* The context is cancelled, or the time of executor.go:76 has passed: the  *)
(* leader is killed, and the result waits for one Wait to take it.          *)
WatchFire ==
    /\ up /\ watch = "watching"
    /\ watch' = "fired"
    /\ running' = running \ {Leader}
    /\ UNCHANGED <<host, run, born, reaped, job, inJob, status, waits, clean>>

WaitGoto(w, label) == waits' = [waits EXCEPT ![w] = label]

(* "Wait was already called", or wait for the process ... *)
WaitEnter(w) ==
    /\ up /\ waits[w] = "called"
    /\ WaitGoto(w, IF status THEN "done" ELSE "waiting")
    /\ UNCHANGED <<host, run, tree, watch, status, clean>>

(* ... which the kernel tells one of them only; the others get an error.    *)
WaitReap(w) ==
    /\ up /\ waits[w] = "waiting"
    /\ Exited
    /\ reaped' = TRUE
    /\ WaitGoto(w, IF reaped THEN "failed" ELSE "ended")
    /\ UNCHANGED <<host, run, born, running, job, inJob, watch, status, clean>>

(* ProcessState is set to what the process's Wait returned, nil on error.   *)
WaitStatus(w) ==
    /\ up /\ waits[w] \in {"ended", "failed"}
    /\ status' = (waits[w] = "ended")
    /\ WaitGoto(w, "result")
    /\ UNCHANGED <<host, run, tree, watch, clean>>

(* The watcher gives its result once: a second Wait waits for ever.         *)
WaitResult(w) ==
    /\ up /\ waits[w] = "result"
    /\ watch \in {"watching", "fired"}
    /\ watch' = "taken"
    /\ WaitGoto(w, "done")
    /\ UNCHANGED <<host, run, tree, status, clean>>

-----------------------------------------------------------------------------
(* Cleanup *)

CleanGoto(k, label) == clean' = [clean EXCEPT ![k] = label]

CleanupNothing(k) ==
    /\ up /\ clean[k] = "called"
    /\ Unix /\ ~Started
    /\ CleanGoto(k, "nothing")
    /\ UNCHANGED <<host, run, tree, osexec>>

(* SIGTERM to the group if Getpgid finds its leader, and a Wait of its own. *)
CleanupTerm(k) ==
    /\ up /\ clean[k] = "called"
    /\ Unix /\ Started
    /\ CleanGoto(k, "grace")
    /\ WaitGoto(k, "called")
    /\ UNCHANGED <<host, run, tree, watch, status>>

CleanupDone(k) ==
    /\ up /\ clean[k] = "grace"
    /\ waits[k] = "done"
    /\ CleanGoto(k, "returned")
    /\ UNCHANGED <<host, run, tree, osexec>>

(* Slips: the grace period ends without a kill, or never. *)
CleanupKillNot(k) ==
    /\ up /\ clean[k] = "grace"
    /\ CleanGoto(k, "returned")
    /\ UNCHANGED <<host, run, tree, osexec>>

CleanupKillNever(k) == FALSE /\ UNCHANGED group

(* Five seconds later: SIGKILL to the group, if Getpgid still finds its     *)
(* leader (its error is dropped, and the signal then misses the group).     *)
CleanupKill(k) ==
    /\ up /\ clean[k] = "grace"
    /\ running' = IF reaped THEN running ELSE {}
    /\ CleanGoto(k, "returned")
    /\ UNCHANGED <<host, run, born, reaped, job, inJob, osexec>>

(* Windows: the job is terminated and closed once, then the leader killed.  *)
CleanupJob(k) ==
    /\ up /\ clean[k] = "called"
    /\ platform = "windows"
    /\ running' = (running \ {Leader}) \ (IF job = "open" THEN inJob ELSE {})
    /\ job' = IF job = "open" THEN "closed" ELSE job
    /\ CleanGoto(k, IF Started THEN "returned" ELSE "nothing")
    /\ UNCHANGED <<host, run, born, reaped, inJob, osexec>>

-----------------------------------------------------------------------------
RunSteps == RunRefuse \/ RunPrepare \/ StartFail \/ StartCheck \/ StartFork
              \/ Assign \/ RunReturn
WaitSteps(w) == WaitEnter(w) \/ WaitReap(w) \/ WaitStatus(w) \/ WaitResult(w)
CleanupSteps(k) == CleanupNothing(k) \/ CleanupTerm(k) \/ CleanupDone(k)
                     \/ CleanupKill(k) \/ CleanupJob(k)

GroupNext ==
    \/ RunSteps
    \/ \E m \in Members : MemberStart(m)
    \/ \E p \in Processes : ProcessExit(p)
    \/ WatchFire
    \/ \E w \in Waiters : WaitSteps(w)
    \/ \E k \in Cleanups : CleanupSteps(k)

(* Goroutines run on, a done context is noticed, and timers fire.  Nothing  *)
(* makes a process end by itself.                                           *)
GroupFairness ==
    /\ WF_group(RunSteps)
    /\ WF_group(cancelled /\ WatchFire)
    /\ \A w \in Waiters : WF_group(WaitSteps(w))
    /\ \A k \in Cleanups : WF_group(CleanupSteps(k))

-----------------------------------------------------------------------------
(* Properties *)

GroupTypeOK ==
    /\ platform \in Platforms
    /\ up \in BOOLEAN /\ cancelled \in BOOLEAN /\ reaped \in BOOLEAN /\ status \in BOOLEAN
    /\ run \in {"idle", "called", "made", "starting", "assigning", "waiting", "returned"}
    /\ born \subseteq Processes /\ running \subseteq born /\ inJob \subseteq born
    /\ job \in {"none", "open", "closed"}
    /\ watch \in {"none", "watching", "fired", "taken"}
    /\ waits \in [Waiters -> {"idle", "called", "waiting", "ended", "failed", "result", "done"}]
    /\ clean \in [Cleanups -> {"idle", "called", "grace", "returned", "nothing"}]
    /\ born # {} => Leader \in born
    /\ reaped => Exited

(* types.go:35 "forcibly clean up the child": a Cleanup that found a        *)
(* command leaves no leader running, whichever of the two Waits the kernel  *)
(* and the watcher served and whether or not the grace period ran out.      *)
LeaderStopped == \A k \in Cleanups : Seen(k) => Leader \notin running

(* manager_unix.go:34 "to manage the whole process tree", types.go:35       *)
(* "forcibly clean up": after such a Cleanup nothing of the tree runs.      *)
TreeStopped == \A k \in Cleanups : Seen(k) => running = {}
=============================================================================
