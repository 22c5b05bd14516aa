------------------------------- MODULE Wardend -------------------------------
(***************************************************************************)
(* The whole supervisor: the main goroutine (StartAll, then Wait), the     *)
(* goroutine of HandleSignals (RestartAll, StopAll) and the goroutines of  *)
(* every process, which are those of ProcessManager.  The three ways the   *)
(* program ends are modelled, and what is left behind when it does.        *)
(*                                                                         *)
(* The health checker and the HTTP server only read the state of the       *)
(* processes; what is left of them here is that StopAll stops them first,  *)
(* and that the checker may hold it up (see HealthChecker, HttpServer).    *)
(***************************************************************************)
EXTENDS ProcessManager, Sequences, Functions

CONSTANTS
  DependsOn,   \* the dependency list of every process
  Signals,     \* the kinds of signals the supervisor receives
  MaxSignals   \* bound: how many signals are sent to it

\* Validate rejects a configuration without processes.
ASSUME ProcAssumption == IsFiniteSet(Proc) /\ Proc # {}
ASSUME DependsOnAssumption == DependsOn \in [Proc -> Seq(Proc)]
ASSUME SignalsAssumption == Signals \subseteq {"TERM", "USR1", "USR2"}
ASSUME MaxSignalsAssumption == MaxSignals \in Nat

VARIABLES
  order,     \* what getStartOrder returned
  main,      \* phase of the main goroutine
  next,      \* position in order of the process StartAll is at
  looked,    \* how many of its dependencies this round has seen running
  sigChan,   \* the one signal the channel can hold
  sent,      \* how many signals have been sent
  sig,       \* phase of the goroutine of HandleSignals
  todo,      \* the processes RestartAll has not dealt with yet
  target,    \* the process RestartAll is restarting
  stopper,   \* phase of the goroutine StopAll spawned for each process
  exited     \* how the supervisor ended

mainVars == <<main, next, looked>>
sigVars == <<sig, todo, target, stopper>>
appVars == <<vars, order, mainVars, sigChan, sent, sigVars, exited>>

CallersTypeOK ==
  /\ order \in Seq(Proc)
  /\ main \in {"start", "deps", "wait", "woken", "failed"}
  /\ next \in 1 .. Len(order) + 1
  /\ main \in {"start", "deps"} => next <= Len(order)
  /\ looked \in Nat
  /\ sigChan \in Signals \cup {"none"}
  /\ sent \in 0 .. MaxSignals
  /\ sig \in {"idle", "restart", "stopping", "delay", "forked", "server", "checker",
              "held", "shutdown", "cancelled"}
  /\ todo \in SUBSET Proc
  /\ target \in Proc
  /\ stopper \in [Proc -> {"none", "begin", "busy", "done"}]
  /\ exited \in {"no", "finished", "panicked", "failed", "shutdown"}

AppTypeOK == TypeOK /\ CallersTypeOK

\* Mutant: the processes in the order the map is iterated.
AnyOrder ==
  {o \in [1 .. Cardinality(Proc) -> Proc] : Range(o) = Proc}

\* getStartOrder: what topologicalSort returns (see StartOrder).
StartOrders ==
  {o \in [1 .. Cardinality(Proc) -> Proc] :
     /\ Range(o) = Proc
     /\ \A i \in DOMAIN o : \A q \in Range(DependsOn[o[i]]) :
          \E j \in 1 .. i - 1 : o[j] = q}

AppInit ==
  /\ Init
  /\ order \in StartOrders
  /\ main = "start"
  /\ next = 1
  /\ looked = 0
  /\ sigChan = "none"
  /\ sent = 0
  /\ sig = "idle"
  /\ todo = {}
  /\ target = order[1]
  /\ stopper = [p \in Proc |-> "none"]
  /\ exited = "no"

-----------------------------------------------------------------------------
(* The main goroutine: StartAll, then Wait.                                *)

Current == order[next]
Deps == DependsOn[Current]

\* RestartAll has forked a command of p and still holds the lock of p: the
\* counter of m.wg does not include the new goroutines yet.
Uncounted(p) == sig = "forked" /\ target = p

\* StartProcess, whose error ends StartAll.
MainStarts ==
  /\ main = "start"
  /\ ~Uncounted(Current)
  /\ RequestStart(Current)
  /\ main' = IF state'[Current] = "failed" THEN "failed" ELSE "deps"
  /\ looked' = 0
  /\ UNCHANGED <<order, next, sigChan, sent, sigVars, exited>>

\* waitForDependencies reads the State of one dependency after the other,
\* without taking a lock; a round that meets one that is not running ends.
MainLooks ==
  /\ main = "deps"
  /\ looked < Len(Deps)
  /\ looked' = IF state[Deps[looked + 1]] = "running" THEN looked + 1 ELSE 0
  /\ UNCHANGED <<vars, order, main, next, sigChan, sent, sigVars, exited>>

MainProceeds ==
  /\ main = "deps"
  /\ looked = Len(Deps)
  /\ looked' = 0
  /\ next' = next + 1
  /\ main' = IF next = Len(order) THEN "wait" ELSE "start"
  /\ UNCHANGED <<vars, order, sigChan, sent, sigVars, exited>>

\* Mutant: there is no timeout.
MainNeverTimesOut == FALSE /\ UNCHANGED appVars

\* The 30 seconds are over between two rounds.
MainTimesOut ==
  /\ main = "deps"
  /\ Deps # <<>>
  /\ looked = 0
  /\ main' = "failed"
  /\ UNCHANGED <<vars, order, next, looked, sigChan, sent, sigVars, exited>>

\* Mutant: the monitors do not count.
OnlyTrackersCount == \A p \in Proc, n \in CmdId : track[p][n] \in {"none", "done"}

\* The counter of m.wg: monitors, pending restarts and trackers.  A start by
\* StartAll or by a restart goroutine need not tell the fork from the count:
\* nobody waits during the one, and the other is counted itself.  Nor does a
\* late wg.Done matter, which only keeps the counter up for longer.
WaitGroupIsZero ==
  \A p \in Proc, n \in CmdId :
    \/ mon[p][n] \in {"none", "done"} /\ track[p][n] \in {"none", "done"}
    \/ Uncounted(p) /\ n = launched[p]

\* The counter is zero, now or at this moment: Wait is to return.
MainWakes ==
  /\ main = "wait"
  /\ WaitGroupIsZero
  /\ main' = "woken"
  /\ UNCHANGED <<vars, order, next, looked, sigChan, sent, sigVars, exited>>

\* Wait returns, and so does main; it panics if it had to wait and finds that
\* wg.Add was called meanwhile.  Or StartAll has failed: os.Exit(1).  None of
\* this stops a process.
MainExits ==
  /\ \/ main = "woken" /\ exited' = "finished"
     \/ main = "woken" /\ ~WaitGroupIsZero /\ exited' = "panicked"
     \/ main = "failed" /\ exited' = "failed"
  /\ UNCHANGED <<vars, order, mainVars, sigChan, sent, sigVars>>

Main ==
  \/ MainStarts \/ MainLooks \/ MainProceeds \/ MainTimesOut
  \/ MainWakes \/ MainExits

-----------------------------------------------------------------------------
(* The goroutine of HandleSignals.                                         *)

\* signal.Notify does not block: a signal that finds the channel full is
\* dropped.
SignalArrives(s) ==
  /\ sent < MaxSignals
  /\ sent' = sent + 1
  /\ sigChan' = IF sigChan = "none" THEN s ELSE sigChan
  /\ UNCHANGED <<vars, order, mainVars, sigVars, exited>>

\* USR1 is only logged.
SignalHandled ==
  /\ sig = "idle"
  /\ sigChan # "none"
  /\ sigChan' = "none"
  /\ CASE sigChan = "TERM" ->
            /\ sig' = "server"
            /\ UNCHANGED todo
       [] sigChan = "USR2" ->
            /\ sig' = "restart"
            /\ todo' = Proc
       [] OTHER -> UNCHANGED <<sig, todo>>
  /\ UNCHANGED <<vars, order, mainVars, sent, target, stopper, exited>>

\* RestartAll takes the processes in the order of a Go map.
RestartStops(p) ==
  /\ sig = "restart"
  /\ p \in todo
  /\ target' = p
  /\ \/ StopBegin(p) /\ sig' = "stopping"
     \/ StopIgnored(p) /\ sig' = "delay"
  /\ UNCHANGED <<order, mainVars, sigChan, sent, todo, stopper, exited>>

RestartStopped ==
  /\ sig = "stopping"
  /\ StopEnd(target)
  /\ sig' = "delay"
  /\ UNCHANGED <<order, mainVars, sigChan, sent, todo, target, stopper, exited>>

\* StartProcess up to wg.Add; with nothing launched there is nothing to count.
\* The first error ends RestartAll.
RestartStarts ==
  /\ sig = "delay"
  /\ RequestStart(target)
  /\ todo' = IF state'[target] = "failed" THEN {} ELSE todo \ {target}
  /\ sig' = IF launched' # launched THEN "forked"
            ELSE IF todo' = {} THEN "idle" ELSE "restart"
  /\ UNCHANGED <<order, mainVars, sigChan, sent, target, stopper, exited>>

\* wg.Add for the monitor and the tracker, and the unlock.
RestartCounts ==
  /\ sig = "forked"
  /\ sig' = IF todo = {} THEN "idle" ELSE "restart"
  /\ UNCHANGED <<vars, order, mainVars, sigChan, sent, todo, target, stopper, exited>>

\* StopAll: the HTTP server stops, after five seconds at the latest; then
\* Stop of the health checker is called.  It waits if StartAll has started the
\* checker and a descendant of a health command holds its output.
ServerStopped ==
  /\ sig = "server"
  /\ \/ sig' = "checker"
     \/ main = "wait" /\ sig' = "held"
  /\ UNCHANGED <<vars, order, mainVars, sigChan, sent, todo, target, stopper, exited>>

\* Step of a descendant of the health command: it ends.
CheckReleased ==
  /\ sig = "held"
  /\ sig' = "checker"
  /\ UNCHANGED <<vars, order, mainVars, sigChan, sent, todo, target, stopper, exited>>

\* Then all processes are stopped at the same time.
CheckerStopped ==
  /\ sig = "checker"
  /\ sig' = "shutdown"
  /\ stopper' = [p \in Proc |-> "begin"]
  /\ UNCHANGED <<vars, order, mainVars, sigChan, sent, todo, target, exited>>

StopperBegins(p) ==
  /\ stopper[p] = "begin"
  /\ \/ StopBegin(p) /\ stopper' = [stopper EXCEPT ![p] = "busy"]
     \/ StopIgnored(p) /\ stopper' = [stopper EXCEPT ![p] = "done"]
  /\ UNCHANGED <<order, mainVars, sigChan, sent, sig, todo, target, exited>>

StopperEnds(p) ==
  /\ stopper[p] = "busy"
  /\ StopEnd(p)
  /\ stopper' = [stopper EXCEPT ![p] = "done"]
  /\ UNCHANGED <<order, mainVars, sigChan, sent, sig, todo, target, exited>>

AllStopped ==
  /\ sig = "shutdown"
  /\ \A p \in Proc : stopper[p] = "done"
  /\ Cancel
  /\ sig' = "cancelled"
  /\ UNCHANGED <<order, mainVars, sigChan, sent, todo, target, stopper, exited>>

\* os.Exit(0).
ShutdownExits ==
  /\ sig = "cancelled"
  /\ exited' = "shutdown"
  /\ UNCHANGED <<vars, order, mainVars, sigChan, sent, sigVars>>

SignalLoop ==
  \/ SignalHandled
  \/ \E p \in Proc : RestartStops(p) \/ StopperBegins(p) \/ StopperEnds(p)
  \/ RestartStopped
  \/ RestartStarts
  \/ RestartCounts
  \/ ServerStopped
  \/ CheckerStopped
  \/ AllStopped
  \/ ShutdownExits

-----------------------------------------------------------------------------
(* The goroutines of the processes, and the processes themselves.          *)

appOnly == <<order, mainVars, sigChan, sent, sigVars, exited>>

StopWaits(p) ==
  /\ StopWaitCall(p) \/ StopReaps(p) \/ StopTakesCtx(p) \/ StopDrains(p) \/ StopTimeout(p)
  /\ UNCHANGED appOnly

\* Those that want the lock of p wait for RestartAll to let go of it.
Watcher(p, n) ==
  /\ \/ /\ ~Uncounted(p)
        /\ \/ MonitorBegin(p, n) \/ MonitorExit(p, n) \/ MonitorRestart(p, n)
           \/ TrackFires(p, n)
     \/ MonitorWaitCall(p, n) \/ MonitorReaps(p, n)
     \/ MonitorTakesCtx(p, n) \/ MonitorDrains(p, n)
     \/ TrackCancelled(p, n)
     \/ WatcherStep(p, n)
  /\ UNCHANGED appOnly

Child(p, n) ==
  /\ ChildStep(p, n)
  /\ UNCHANGED appOnly

\* os.Exit and the return of main end every goroutine at once.  The children
\* are processes of their own and outlive the supervisor, unwatched: what they
\* do then is not followed.
AppNext ==
  /\ exited = "no"
  /\ \/ Main
     \/ SignalLoop
     \/ \E s \in Signals : SignalArrives(s)
     \/ CheckReleased
     \/ \E p \in Proc : StopWaits(p)
     \/ \E p \in Proc, n \in CmdId : Watcher(p, n) \/ Child(p, n)

AppSpec == AppInit /\ [][AppNext]_appVars

(***************************************************************************)
(* Fairness.  The two goroutines of the program run when they can, their   *)
(* timers fire, and so it is with the calls of StopProcess.  The select of *)
(* waitForDependencies chooses at random between the timeout, which stays  *)
(* ready, and the next round: strong fairness.  A child that got SIGKILL   *)
(* dies.  Nothing else is assumed of children, nor of the descendants of a *)
(* health command.                                                         *)
(***************************************************************************)
AppFairness ==
  /\ WF_appVars(exited = "no" /\ Main)
  /\ SF_appVars(exited = "no" /\ MainTimesOut)
  /\ WF_appVars(exited = "no" /\ SignalLoop)
  /\ \A p \in Proc :
       /\ WF_appVars(exited = "no" /\ StopWaits(p))
       /\ \A n \in CmdId :
            WF_appVars(exited = "no" /\ child[p][n] = "killed" /\ Child(p, n))

AppFairSpec == AppSpec /\ AppFairness

-----------------------------------------------------------------------------
\* StartAll launches no process before the processes it depends on, whatever
\* has become of those since (manager.go:118-126, 520-554).
DependenciesLaunchedFirst ==
  \A p \in Proc : \A q \in Range(DependsOn[p]) : launched[p] > 0 => launched[q] > 0

\* When main returns from Wait, or panics in it, no child is left behind of a
\* process that SIGUSR2 has not started again: its live child would have a
\* monitor that kept the wait group above zero.  SIGUSR2 may fork after the
\* counter was zero, and wg.Add comes after the fork (manager.go:200, 209, 447).
MainExitLeavesNothing ==
  exited \in {"finished", "panicked"} =>
    \A p \in Proc : requested[p] <= 1 => \A n \in CmdId : ~Live(p, n)

\* When StopAll is done with a process that was asked for once, no command of
\* it runs, also if it passed the process over because its State was not
\* running; what a delayed restart launches comes later (manager.go:232, 330).
StoppedMeansGone ==
  [][\A p \in Proc :
       requested[p] <= 1 /\ stopper[p] # "done" /\ stopper'[p] = "done"
         => \A n \in CmdId : ~Live(p, n)]_appVars

\* A call of StopProcess that never returns: the monitor has received what
\* its waiter waits for, or a descendant of the child holds the pipes.
Stuck ==
  \E p \in Proc : LostContext(p) \/ (stop[p] = "drain" /\ pipeOpen[p][cmd[p]])

\* A SIGTERM that is in the channel ends the supervisor, also when it arrived
\* during StartAll or behind a SIGUSR2, unless a stop hangs or the health
\* checker cannot be stopped (signals.go:13-37, manager.go:311-357).
TermEndsSupervisor == sigChan = "TERM" ~> exited # "no" \/ Stuck \/ sig = "held"

\* StartAll comes to an end, with an error if need be, although processes exit
\* while it waits for them, one being up while the other is down.  (Without
\* SIGUSR2: RestartAll may hold the lock of the process it is about to start;
\* manager.go:118-126, 150, 537-553.)
StartAllEnds == main = "start" ~> main \in {"wait", "failed"} \/ exited # "no"

-----------------------------------------------------------------------------
(* What the documentation says and the code does not do.                   *)

\* signals.go:28: SIGUSR2 is "restarting all processes", so a process that was
\* stopped for it is started again: the program does not end in between.
RestartAllCompletes ==
  ~(exited = "finished" /\ sig = "delay" /\ cmd[target] = NoCmd)

\* manager.go:323 and main.go:76: the shutdown is "stopping all processes"
\* with "proper signal handling", so it leaves none behind.
ShutdownLeavesNoChild ==
  exited = "shutdown" => \A p \in Proc, n \in CmdId : ~Live(p, n)
=============================================================================
