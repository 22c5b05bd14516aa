---------------------------- MODULE ProcessManager ----------------------------
(***************************************************************************)
(* The process lifecycle of manager.go: what StartProcess, StopProcess and *)
(* the goroutines they spawn (monitorProcess, the delayed restart,         *)
(* trackStartupCompletion, the waiter of StopProcess) do to one Process    *)
(* record, interleaved in every order the lock process.mu allows.          *)
(*                                                                         *)
(* An action is one critical section of process.mu, or one step of a call  *)
(* of cmd.Wait.  StopProcess is the only code that keeps the lock while it *)
(* waits: the lock of p is held exactly when stop[p] # "idle".             *)
(*                                                                         *)
(* Callers of StartProcess and StopProcess (StartAll, StopAll,             *)
(* RestartProcess) are left open: anyone may call either at any time.      *)
(***************************************************************************)
EXTENDS ExecCmd, FiniteSets

CONSTANTS
  Configs,      \* the restart settings a Process may be configured with
  MaxRequests   \* bound: how often StartProcess is called from outside

Policies == {"always", "on-failure", "never"}
Infinite == -1

ASSUME ConfigsAssumption ==
  Configs \subseteq [policy : Policies,
                     startRetries : Nat,
                     maxRestarts : Nat \cup {Infinite}]

ASSUME MaxRequestsAssumption == MaxRequests \in Nat

VARIABLES
  config,           \* process.Config: chosen once, never changed
  state,            \* process.State
  cmd,              \* process.Cmd: number of the command, or NoCmd
  startupAttempts,  \* process.StartupAttempts
  runtimeRestarts,  \* process.RuntimeRestarts
  startupComplete,  \* process.StartupComplete
  launched,         \* how many commands of the process were started so far
  requested,        \* how often StartProcess was called from outside
  mon,              \* phase of the monitor goroutine spawned with command n
  monCmd,           \* its local cmd
  monErr,           \* its local err
  track,            \* phase of the tracker goroutine spawned with command n
  stop              \* phase of the StopProcess call holding process.mu

procVars == <<config, state, cmd, startupAttempts, runtimeRestarts,
              startupComplete, launched, requested>>
monVars == <<mon, monCmd, monErr>>
vars == <<execVars, procVars, monVars, track, stop>>

NoCmd == 0

\* "starting" is set and replaced within one critical section.
ProcessState == {"stopped", "running", "stopping", "failed"}
WaitPhase == {"call", "wait", "ctx", "drain", "returned"}
MonPhase == {"none", "begin", "restarting", "done"} \cup WaitPhase
TrackPhase == {"none", "armed", "done"}
StopPhase == {"idle"} \cup WaitPhase

\* process.mu is free.
Unlocked(p) == stop[p] = "idle"

TypeOK ==
  /\ ExecTypeOK
  /\ config \in [Proc -> Configs]
  /\ state \in [Proc -> ProcessState]
  /\ cmd \in [Proc -> CmdId \cup {NoCmd}]
  /\ startupAttempts \in [Proc -> Nat]
  /\ runtimeRestarts \in [Proc -> Nat]
  /\ startupComplete \in [Proc -> BOOLEAN]
  /\ launched \in [Proc -> 0 .. MaxStarts]
  /\ requested \in [Proc -> 0 .. MaxRequests]
  /\ mon \in [Proc -> [CmdId -> MonPhase]]
  /\ monCmd \in [Proc -> [CmdId -> CmdId \cup {NoCmd}]]
  /\ monErr \in [Proc -> [CmdId -> WaitResult]]
  /\ track \in [Proc -> [CmdId -> TrackPhase]]
  /\ stop \in [Proc -> StopPhase]

\* Initialize: every configured process is stopped.
Init ==
  /\ ExecInit
  /\ config \in [Proc -> Configs]
  /\ state = [p \in Proc |-> "stopped"]
  /\ cmd = [p \in Proc |-> NoCmd]
  /\ startupAttempts = [p \in Proc |-> 0]
  /\ runtimeRestarts = [p \in Proc |-> 0]
  /\ startupComplete = [p \in Proc |-> FALSE]
  /\ launched = [p \in Proc |-> 0]
  /\ requested = [p \in Proc |-> 0]
  /\ mon = [p \in Proc |-> [n \in CmdId |-> "none"]]
  /\ monCmd = [p \in Proc |-> [n \in CmdId |-> NoCmd]]
  /\ monErr = [p \in Proc |-> [n \in CmdId |-> "ok"]]
  /\ track = [p \in Proc |-> [n \in CmdId |-> "none"]]
  /\ stop = [p \in Proc |-> "idle"]

-----------------------------------------------------------------------------
(* StartProcess.  Its caller passes the phases of the monitors of p, with  *)
(* its own already updated when it is one of them.                         *)

\* The process is running already: nothing to do.
AlreadyRunning(p, phases) ==
  /\ state[p] = "running"
  /\ mon' = [mon EXCEPT ![p] = phases]
  /\ UNCHANGED <<execVars, state, cmd, startupComplete, launched, track>>

\* cmd.Start succeeds: the monitor and the tracker are spawned with it.
Launch(p, phases) ==
  /\ state[p] # "running"
  /\ launched[p] < MaxStarts
  /\ LET n == launched[p] + 1
     IN  /\ CmdStart(p, n)
         /\ launched' = [launched EXCEPT ![p] = n]
         /\ cmd' = [cmd EXCEPT ![p] = n]
         /\ mon' = [mon EXCEPT ![p] = [phases EXCEPT ![n] = "begin"]]
         /\ track' = [track EXCEPT ![p][n] = "armed"]
  /\ state' = [state EXCEPT ![p] = "running"]
  /\ startupComplete' = [startupComplete EXCEPT ![p] = FALSE]

\* Mutants: the error paths forget to record StateFailed.
LaunchFailsStarting(p, phases) ==
  /\ state[p] # "running"
  /\ state' = [state EXCEPT ![p] = "starting"]
  /\ mon' = [mon EXCEPT ![p] = phases]
  /\ UNCHANGED <<execVars, cmd, startupComplete, launched, track>>

LaunchFailsRunning(p, phases) ==
  /\ state[p] # "running"
  /\ state' = [state EXCEPT ![p] = "running"]
  /\ mon' = [mon EXCEPT ![p] = phases]
  /\ UNCHANGED <<execVars, cmd, startupComplete, launched, track>>

\* The logger or cmd.Start fails (always so once the context is cancelled):
\* process.Cmd keeps its old value and no goroutine is spawned.
LaunchFails(p, phases) ==
  /\ state[p] # "running"
  /\ state' = [state EXCEPT ![p] = "failed"]
  /\ mon' = [mon EXCEPT ![p] = phases]
  /\ UNCHANGED <<execVars, cmd, startupComplete, launched, track>>

StartProcess(p, phases) ==
  /\ Unlocked(p)
  /\ \/ AlreadyRunning(p, phases)
     \/ Launch(p, phases)
     \/ LaunchFails(p, phases)
  /\ UNCHANGED <<config, startupAttempts, runtimeRestarts, monCmd, monErr, stop>>

\* StartProcess called by StartAll or RestartProcess.
RequestStart(p) ==
  /\ requested[p] < MaxRequests
  /\ requested' = [requested EXCEPT ![p] = @ + 1]
  /\ StartProcess(p, mon[p])

-----------------------------------------------------------------------------
(* monitorProcess, one goroutine per launched command.                     *)

MonitorGoes(p, n, phase) == mon' = [mon EXCEPT ![p][n] = phase]

\* cmd := process.Cmd under the read lock; a StopProcess that has already
\* finished leaves nothing to monitor.
MonitorBegin(p, n) ==
  /\ mon[p][n] = "begin"
  /\ Unlocked(p)
  /\ monCmd' = [monCmd EXCEPT ![p][n] = cmd[p]]
  /\ MonitorGoes(p, n, IF cmd[p] = NoCmd THEN "done" ELSE "call")
  /\ UNCHANGED <<execVars, procVars, monErr, track, stop>>

MonitorWaitCall(p, n) ==
  /\ mon[p][n] = "call"
  /\ MonitorGoes(p, n, WaitEntry(p, monCmd[p][n]))
  /\ monErr' = [monErr EXCEPT ![p][n] = "other"]
  /\ UNCHANGED <<execVars, procVars, monCmd, track, stop>>

\* Mutant: the monitor stops waiting before the child has exited.
MonitorGivesUp(p, n) ==
  /\ mon[p][n] = "wait"
  /\ MonitorGoes(p, n, "returned")
  /\ monErr' = [monErr EXCEPT ![p][n] = "other"]
  /\ UNCHANGED <<execVars, procVars, monCmd, track, stop>>

MonitorReaps(p, n) ==
  /\ mon[p][n] = "wait"
  /\ WaitReap(p, monCmd[p][n])
  /\ MonitorGoes(p, n, "ctx")
  /\ monErr' = [monErr EXCEPT ![p][n] = ReapResult(p, monCmd[p][n])]
  /\ UNCHANGED <<procVars, monCmd, track, stop>>

MonitorTakesCtx(p, n) ==
  /\ mon[p][n] = "ctx"
  /\ WaitCtx(p, monCmd[p][n])
  /\ MonitorGoes(p, n, "drain")
  /\ UNCHANGED <<procVars, monCmd, monErr, track, stop>>

MonitorDrains(p, n) ==
  /\ mon[p][n] = "drain"
  /\ WaitDrain(p, monCmd[p][n])
  /\ MonitorGoes(p, n, "returned")
  /\ \E r \in DrainResults(monErr[p][n]) :
       monErr' = [monErr EXCEPT ![p][n] = r]
  /\ UNCHANGED <<procVars, monCmd, track, stop>>

\* Mutant: an error that is not an *ExitError leaves State alone.
OnlyExitErrorsCount(p, err) ==
  CASE err = "ok"   -> "stopped"
    [] err = "exit" -> "failed"
    [] OTHER        -> state[p]

\* The State recorded for an exit that nobody asked for.
StateAfterExit(p, err) == IF err = "ok" THEN "stopped" ELSE "failed"

\* exitCode stays zero unless err is an *ExitError.
ExitCodeIsZero(err) == err # "exit"

\* Mutant: one startup attempt and one restart too many.
ShouldRestartOffByOne(p, err) ==
  LET c == config[p]
  IN  /\ c.policy # "never"
      /\ IF ~startupComplete[p]
         THEN startupAttempts[p] <= c.startRetries
         ELSE /\ c.maxRestarts # Infinite => runtimeRestarts[p] <= c.maxRestarts
              /\ c.policy = "always" \/ ~ExitCodeIsZero(err)

ShouldRestart(p, err) ==
  LET c == config[p]
  IN  /\ c.policy # "never"
      /\ IF ~startupComplete[p]
         THEN startupAttempts[p] < c.startRetries
         ELSE /\ c.maxRestarts # Infinite => runtimeRestarts[p] < c.maxRestarts
              /\ c.policy = "always" \/ ~ExitCodeIsZero(err)

\* The critical section after cmd.Wait: record the exit, decide and charge
\* the restart.  The restart itself follows after the delay, unlocked.
MonitorExit(p, n) ==
  /\ mon[p][n] = "returned"
  /\ Unlocked(p)
  /\ LET stopping == state[p] = "stopping"
         err      == monErr[p][n]
         restart  == ~stopping /\ ShouldRestart(p, err)
         add(c)   == [c EXCEPT ![p] = @ + 1]
     IN  /\ state' = [state EXCEPT ![p] =
              IF stopping THEN "stopped" ELSE StateAfterExit(p, err)]
         /\ startupAttempts' = IF restart /\ ~startupComplete[p]
                               THEN add(startupAttempts) ELSE startupAttempts
         /\ runtimeRestarts' = IF restart /\ startupComplete[p]
                               THEN add(runtimeRestarts) ELSE runtimeRestarts
         /\ MonitorGoes(p, n, IF restart THEN "restarting" ELSE "done")
  /\ UNCHANGED <<execVars, config, cmd, startupComplete, launched, requested,
                 monCmd, monErr, track, stop>>

\* Mutant: the restart goroutine tries again after a first call.
MonitorRestartsAgain(p, n) ==
  /\ mon[p][n] = "restarting"
  /\ StartProcess(p, mon[p])
  /\ UNCHANGED requested

\* After time.Sleep(restartDelay) the restart goroutine calls StartProcess.
\* Nothing looks at what happened to the process during the delay.
MonitorRestart(p, n) ==
  /\ mon[p][n] = "restarting"
  /\ StartProcess(p, [mon[p] EXCEPT ![n] = "done"])
  /\ UNCHANGED requested

Monitor(p, n) ==
  \/ MonitorBegin(p, n)
  \/ MonitorWaitCall(p, n)
  \/ MonitorReaps(p, n)
  \/ MonitorTakesCtx(p, n)
  \/ MonitorDrains(p, n)
  \/ MonitorExit(p, n)
  \/ MonitorRestart(p, n)

-----------------------------------------------------------------------------
(* trackStartupCompletion, one goroutine per launched command.             *)

\* StartupTime has passed since command n was started.
TrackFires(p, n) ==
  /\ track[p][n] = "armed"
  /\ Unlocked(p)
  /\ track' = [track EXCEPT ![p][n] = "done"]
  /\ startupComplete' = [startupComplete EXCEPT ![p] = @ \/ state[p] = "running"]
  /\ UNCHANGED <<execVars, config, state, cmd, startupAttempts, runtimeRestarts,
                 launched, requested, monVars, stop>>

TrackCancelled(p, n) ==
  /\ track[p][n] = "armed"
  /\ cancelled
  /\ track' = [track EXCEPT ![p][n] = "done"]
  /\ UNCHANGED <<execVars, procVars, monVars, stop>>

-----------------------------------------------------------------------------
(* StopProcess, which holds process.mu from StopBegin to StopEnd.          *)

StopGoes(p, phase) == stop' = [stop EXCEPT ![p] = phase]

\* Mark the process and send SIGTERM.  The child may react or not; since it
\* may exit at any time by itself the signal needs no state of its own.
StopBegin(p) ==
  /\ Unlocked(p)
  /\ state[p] = "running"
  /\ state' = [state EXCEPT ![p] = "stopping"]
  /\ StopGoes(p, "call")
  /\ UNCHANGED <<execVars, config, cmd, startupAttempts, runtimeRestarts,
                 startupComplete, launched, requested, monVars, track>>

\* Any other state: return at once.
StopIgnored(p) ==
  /\ Unlocked(p)
  /\ state[p] # "running"
  /\ UNCHANGED vars

StopWaitCall(p) ==
  /\ stop[p] = "call"
  /\ StopGoes(p, WaitEntry(p, cmd[p]))
  /\ UNCHANGED <<execVars, procVars, monVars, track>>

StopReaps(p) ==
  /\ stop[p] = "wait"
  /\ WaitReap(p, cmd[p])
  /\ StopGoes(p, "ctx")
  /\ UNCHANGED <<procVars, monVars, track>>

StopTakesCtx(p) ==
  /\ stop[p] = "ctx"
  /\ WaitCtx(p, cmd[p])
  /\ StopGoes(p, "drain")
  /\ UNCHANGED <<procVars, monVars, track>>

StopDrains(p) ==
  /\ stop[p] = "drain"
  /\ WaitDrain(p, cmd[p])
  /\ StopGoes(p, "returned")
  /\ UNCHANGED <<procVars, monVars, track>>

\* Mutants: no SIGKILL is sent; after SIGKILL the waiter is not waited for.
StopTimeoutOnlyWarns(p) ==
  /\ ~Unlocked(p)
  /\ UNCHANGED vars

StopTimeoutGivesUp(p) ==
  /\ ~Unlocked(p)
  /\ CmdKill(p, cmd[p])
  /\ StopGoes(p, "returned")
  /\ UNCHANGED <<procVars, monVars, track>>

\* time.After(ShutdownTimeout): SIGKILL, then keep waiting for the waiter.
StopTimeout(p) ==
  /\ ~Unlocked(p)
  /\ CmdKill(p, cmd[p])
  /\ UNCHANGED <<procVars, monVars, track, stop>>

\* <-done: the waiter has returned.
StopEnd(p) ==
  /\ stop[p] = "returned"
  /\ state' = [state EXCEPT ![p] = "stopped"]
  /\ cmd' = [cmd EXCEPT ![p] = NoCmd]
  /\ StopGoes(p, "idle")
  /\ UNCHANGED <<execVars, config, startupAttempts, runtimeRestarts,
                 startupComplete, launched, requested, monVars, track>>

StopProcess(p) ==
  \/ StopBegin(p)
  \/ StopIgnored(p)

StopContinues(p) ==
  \/ StopWaitCall(p)
  \/ StopReaps(p)
  \/ StopTakesCtx(p)
  \/ StopDrains(p)
  \/ StopTimeout(p)
  \/ StopEnd(p)

-----------------------------------------------------------------------------
\* m.cancel(), the last step of StopAll.
Cancel ==
  /\ ~cancelled
  /\ cancelled' = TRUE
  /\ UNCHANGED <<child, pipeOpen, procState, ctxTaken, procVars, monVars, track,
                 stop>>

\* The operating system and the library's own goroutines.
ChildStep(p, n) ==
  /\ ChildExits(p, n) \/ PipeCloses(p, n)
  /\ UNCHANGED <<procVars, monVars, track, stop>>

WatcherStep(p, n) ==
  /\ CtxKills(p, n)
  /\ UNCHANGED <<procVars, monVars, track, stop>>

Next ==
  \/ \E p \in Proc : RequestStart(p) \/ StopProcess(p) \/ StopContinues(p)
  \/ \E p \in Proc, n \in CmdId :
       \/ Monitor(p, n)
       \/ TrackFires(p, n)
       \/ TrackCancelled(p, n)
       \/ ChildStep(p, n)
       \/ WatcherStep(p, n)
  \/ Cancel

Spec == Init /\ [][Next]_vars

(***************************************************************************)
(* Fairness.  A goroutine that can run does (weak fairness); one that      *)
(* waits for process.mu gets it if it is released again and again, since a *)
(* sync.RWMutex serves a starving waiter first (strong fairness).  Timers  *)
(* fire, a killed child dies and the context watcher runs.  Nothing is     *)
(* assumed of a child or of its descendants that were sent SIGTERM.        *)
(***************************************************************************)
MonitorFairness(p, n) ==
  /\ SF_vars(MonitorBegin(p, n))
  /\ WF_vars(MonitorWaitCall(p, n))
  /\ WF_vars(MonitorReaps(p, n))
  /\ WF_vars(MonitorTakesCtx(p, n))
  /\ WF_vars(MonitorDrains(p, n))
  /\ SF_vars(MonitorExit(p, n))
  /\ SF_vars(MonitorRestart(p, n))

EnvironmentFairness(p, n) ==
  /\ WF_vars(child[p][n] = "killed" /\ ChildStep(p, n))
  /\ WF_vars(WatcherStep(p, n))

FairSpec ==
  /\ Spec
  /\ \A p \in Proc : WF_vars(StopContinues(p))
  /\ \A p \in Proc, n \in CmdId : MonitorFairness(p, n) /\ EnvironmentFairness(p, n)

\* The descendants that inherited the output pipes of a child end as well:
\* only assumed to show that StopReturns fails without their help.
PipesCloseSpec ==
  /\ FairSpec
  /\ \A p \in Proc, n \in CmdId : WF_vars(~Live(p, n) /\ ChildStep(p, n))

-----------------------------------------------------------------------------
(* Safety.                                                                 *)

\* State is "stopping" exactly while a StopProcess holds the lock: the state
\* is set and replaced within one critical section, so nobody else, the
\* monitor included, ever reads it (manager.go:238, 266, 375).
StoppingIsLocked ==
  \A p \in Proc : state[p] = "stopping" <=> ~Unlocked(p)

\* A process that is running or being stopped has the Cmd launched last, so
\* the signals of StopProcess go to the newest child (manager.go:205, 241).
SignalsGoToNewest ==
  \A p \in Proc :
    state[p] \in {"running", "stopping"} => cmd[p] = launched[p] /\ cmd[p] # NoCmd

\* Restarts never exceed the configured budgets, whatever the interleaving
\* of monitors, trackers and stops (manager.go:411-417, 457-518).
WithinBudget ==
  \A p \in Proc :
    LET c == config[p]
    IN  /\ startupAttempts[p] <= c.startRetries
        /\ c.maxRestarts # Infinite => runtimeRestarts[p] <= c.maxRestarts
        /\ c.policy = "never" => startupAttempts[p] + runtimeRestarts[p] = 0

\* Every launch was either asked for or charged to one of the budgets, and
\* every restart still pending is charged already (manager.go:411-453).
Pending(p) == {n \in CmdId : mon[p][n] = "restarting"}

LaunchesAccountedFor ==
  \A p \in Proc :
    launched[p] + Cardinality(Pending(p))
      <= requested[p] + startupAttempts[p] + runtimeRestarts[p]

\* A process started from outside only once never has two live children: a
\* restart happens only after the child it replaces is gone, also when the
\* monitor, StopProcess and the restart goroutine race (manager.go:371, 447).
OneLiveChild ==
  \A p \in Proc : requested[p] <= 1 =>
    \A m, n \in CmdId : Live(p, m) /\ Live(p, n) => m = n

\* Monitor n will learn of the exit of the current command of p: it is on
\* its way to cmd.Wait, or inside it and the context value it needs is left.
Watches(p, n) ==
  \/ mon[p][n] = "begin"
  \/ /\ monCmd[p][n] = cmd[p]
     /\ \/ mon[p][n] = "call" /\ (procState[p][cmd[p]] \/ ~ctxTaken[p][cmd[p]])
        \/ mon[p][n] \in {"wait", "ctx"} /\ ~ctxTaken[p][cmd[p]]
        \/ mon[p][n] \in {"drain", "returned"}

\* A process reported as running is being watched by some monitor, even when
\* an explicit restart made two monitors wait for one Cmd (manager.go:363-371).
RunningIsWatched ==
  \A p \in Proc : state[p] = "running" => \E n \in CmdId : Watches(p, n)

\* When StopProcess returns, the child it was asked to stop has been reaped,
\* also when the waiter lost the race to the monitor (manager.go:245-267).
StopReapsChild ==
  [][\A p \in Proc :
       ~Unlocked(p) /\ Unlocked(p)' => child[p][cmd[p]] = "reaped"]_vars

-----------------------------------------------------------------------------
(* Liveness.                                                               *)

\* The waiter of StopProcess blocks for ever on the context value that the
\* monitor's call of Wait has received.
LostContext(p) == stop[p] = "ctx" /\ ctxTaken[p][cmd[p]]

\* SIGTERM, the timeout and SIGKILL get StopProcess to return in every case
\* but two: the monitor has taken the context value of the same Cmd, or a
\* descendant holds the output pipes (manager.go:245-264).
StopReturnsOrLosesWait ==
  \A p \in Proc :
    ~Unlocked(p) ~> Unlocked(p) \/ LostContext(p)
                    \/ (stop[p] = "drain" /\ pipeOpen[p][cmd[p]])

\* The exit of a running process is noticed once nobody holds its output any
\* more: State leaves "running", by the monitor or by a stop
\* (manager.go:371-406).
ExitNoticed ==
  \A p \in Proc :
    LET n == launched[p]
    IN  (state[p] = "running" /\ ~Live(p, n) /\ ~pipeOpen[p][n])
          ~> state[p] # "running"

-----------------------------------------------------------------------------
(* What the documentation says and the code does not do.                   *)

\* README.md:41: the shutdown timeout bounds the time a stop takes.
StopReturns == \A p \in Proc : ~Unlocked(p) ~> Unlocked(p)
=============================================================================
