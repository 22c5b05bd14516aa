---------------------------- MODULE Wardend_proofs ----------------------------
(***************************************************************************)
(* Proofs about the whole supervisor, for any processes, dependencies,     *)
(* settings, signals and bounds.  Every step of it is a step of            *)
(* ProcessManager, whose theorems hold here therefore, or leaves the       *)
(* variables of ProcessManager alone.                                      *)
(***************************************************************************)
EXTENDS Wardend, ProcessManager_proofs, FiniteSetTheorems

-----------------------------------------------------------------------------
(* The supervisor is a caller of ProcessManager.                           *)

\* The steps in which the main goroutine and the signal goroutine start or
\* stop nothing.
LEMMA OnlyWaits ==
  ASSUME MainLooks \/ MainProceeds \/ MainTimesOut \/ MainWakes \/ MainExits
         \/ SignalHandled \/ RestartCounts \/ ServerStopped \/ CheckerStopped
         \/ ShutdownExits \/ CheckReleased \/ \E s \in Signals : SignalArrives(s)
  PROVE  UNCHANGED vars
BY DEF MainLooks, MainProceeds, MainTimesOut, MainWakes, MainExits, SignalHandled,
   RestartCounts, ServerStopped, CheckerStopped, ShutdownExits, CheckReleased, SignalArrives

\* Every step of the supervisor is one of ProcessManager, or none.
LEMMA StepOfManager ==
  ASSUME CallersTypeOK, [AppNext]_appVars
  PROVE  [Next]_vars
<1>1. CASE MainStarts
  <2>1. Current \in Proc
    BY <1>1 DEF MainStarts, Current, CallersTypeOK
  <2> QED
    BY <1>1, <2>1 DEF MainStarts, Next
<1>2. ASSUME NEW p \in Proc, RestartStops(p) \/ StopperBegins(p) \/ StopperEnds(p)
      PROVE  Next
  BY <1>2 DEF RestartStops, StopperBegins, StopperEnds, Next, StopProcess, StopContinues
<1>3. CASE RestartStopped \/ RestartStarts
  BY <1>3 DEF CallersTypeOK, RestartStopped, RestartStarts, Next, StopContinues
<1>4. CASE AllStopped
  BY <1>4 DEF AllStopped, Next
<1>5. ASSUME NEW p \in Proc, StopWaits(p)
      PROVE  Next
  BY <1>5 DEF StopWaits, Next, StopContinues
<1>6. ASSUME NEW p \in Proc, NEW n \in CmdId, Watcher(p, n) \/ Child(p, n)
      PROVE  Next
  BY <1>6 DEF Watcher, Monitor, Child, Next
<1>7. CASE UNCHANGED appVars
  BY <1>7 DEF appVars
<1> QED
  BY <1>1, <1>2, <1>3, <1>4, <1>5, <1>6, <1>7, OnlyWaits DEF AppNext, Main, SignalLoop

\* StartAll works through a list that names every process.
LEMMA OrderIsList ==
  ASSUME order \in StartOrders
  PROVE  /\ order \in Seq(Proc)
         /\ Len(order) \in Nat \ {0}
         /\ DOMAIN order = 1 .. Len(order)
         /\ order[1] \in Proc
<1>1. Cardinality(Proc) \in Nat \ {0}
  BY ProcAssumption, FS_CardinalityType, FS_EmptySet
<1>2. order \in [1 .. Cardinality(Proc) -> Proc]
  BY DEF StartOrders
<1>3. order \in Seq(Proc)
  BY <1>1, <1>2
<1>4. Len(order) = Cardinality(Proc)
  BY <1>1, <1>2, <1>3
<1> QED
  BY <1>1, <1>2, <1>3, <1>4

LEMMA CallersTyped ==
  ASSUME CallersTypeOK, [AppNext]_appVars
  PROVE  CallersTypeOK'
<1>1. CASE MainStarts
  BY <1>1 DEF MainStarts, CallersTypeOK, sigVars
<1>2. CASE MainLooks \/ MainTimesOut \/ MainWakes \/ MainExits
  BY <1>2 DEF MainLooks, MainTimesOut, MainWakes, MainExits, CallersTypeOK, mainVars, sigVars
<1>3. CASE MainProceeds
  BY <1>3 DEF MainProceeds, CallersTypeOK, sigVars
<1>4. ASSUME NEW s \in Signals, SignalArrives(s)
      PROVE  CallersTypeOK'
  BY <1>4, MaxSignalsAssumption DEF SignalArrives, CallersTypeOK, mainVars, sigVars
<1>5. CASE SignalHandled
  <2>1. sig' \in {sig, "server", "restart"} /\ todo' \in {todo, Proc} /\ sigChan' = "none"
    BY <1>5 DEF SignalHandled
  <2>2. UNCHANGED <<order, mainVars, sent, target, stopper, exited>>
    BY <1>5 DEF SignalHandled
  <2> QED
    BY <2>1, <2>2 DEF CallersTypeOK, mainVars
<1>6. ASSUME NEW p \in Proc, RestartStops(p) \/ StopperBegins(p) \/ StopperEnds(p)
      PROVE  CallersTypeOK'
  BY <1>6 DEF RestartStops, StopperBegins, StopperEnds, CallersTypeOK, mainVars
<1>7. CASE RestartStopped \/ RestartCounts \/ ServerStopped \/ CheckReleased
           \/ CheckerStopped \/ AllStopped \/ ShutdownExits
  BY <1>7 DEF RestartStopped, RestartCounts, ServerStopped, CheckReleased, CheckerStopped,
     AllStopped, ShutdownExits, CallersTypeOK, mainVars, sigVars
<1>8. CASE RestartStarts
  BY <1>8 DEF RestartStarts, CallersTypeOK, mainVars
<1>9. ASSUME NEW p \in Proc, StopWaits(p) \/ \E n \in CmdId : Watcher(p, n) \/ Child(p, n)
      PROVE  CallersTypeOK'
  BY <1>9 DEF StopWaits, Watcher, Child, appOnly, CallersTypeOK, mainVars, sigVars
<1>10. CASE UNCHANGED appVars
  BY <1>10 DEF appVars, CallersTypeOK, mainVars, sigVars
<1> QED
  BY <1>1, <1>2, <1>3, <1>4, <1>5, <1>6, <1>7, <1>8, <1>9, <1>10
     DEF AppNext, Main, SignalLoop

LEMMA CallersTyping == AppSpec => []CallersTypeOK
<1>1. AppInit => CallersTypeOK
  BY OrderIsList, MaxSignalsAssumption DEF AppInit, CallersTypeOK
<1> QED
  BY <1>1, CallersTyped, PTL DEF AppSpec

\* The supervisor with its start-up, its signals and its shutdown is one of
\* the callers ProcessManager leaves open, so everything proved of
\* ProcessManager holds of the supervisor (manager.go:110-139, 311-357,
\* signals.go:40-56).
THEOREM ManagerImplemented == AppSpec => Spec
<1>1. AppInit => Init
  BY DEF AppInit
<1> QED
  BY <1>1, CallersTyping, StepOfManager, PTL DEF AppSpec, Spec

\* Type correctness of the supervisor, in every reachable state.
THEOREM AppTyping == AppSpec => []AppTypeOK
BY ManagerImplemented, CallersTyping, Typing, PTL DEF AppTypeOK

-----------------------------------------------------------------------------
(* The order in which StartAll launches.                                   *)

\* StartProcess launches p or nothing, and does not undo a launch.
LEMMA StartLaunches ==
  ASSUME TypeOK, NEW p \in Proc, NEW phases, StartProcess(p, phases)
  PROVE  /\ \A q \in Proc : launched[q] > 0 => launched'[q] > 0
         /\ \A q \in Proc \ {p} : launched'[q] = launched[q]
<1>1. CASE AlreadyRunning(p, phases) \/ LaunchFails(p, phases)
  BY <1>1 DEF AlreadyRunning, LaunchFails
<1>2. CASE Launch(p, phases)
  <2>1. launched' = [launched EXCEPT ![p] = launched[p] + 1] /\ launched[p] \in Nat
    BY <1>2 DEF Launch, TypeOK
  <2> QED
    BY <2>1 DEF TypeOK
<1> QED
  BY <1>1, <1>2 DEF StartProcess

\* A call of StartProcess that does not end in "failed" leaves a process that
\* has been launched.
LEMMA StartedOrFailed ==
  ASSUME TypeOK, SignalsGoToNewest, NEW p \in Proc, RequestStart(p), state'[p] # "failed"
  PROVE  launched'[p] > 0
<1>1. StartProcess(p, mon[p])
  BY DEF RequestStart
<1>2. CASE AlreadyRunning(p, mon[p])
  <2>1. launched[p] = cmd[p] /\ cmd[p] # NoCmd /\ cmd[p] \in CmdId \cup {NoCmd}
    BY <1>2 DEF AlreadyRunning, SignalsGoToNewest, TypeOK
  <2> QED
    BY <1>2, <2>1, MaxStartsAssumption DEF AlreadyRunning, CmdId, NoCmd
<1>3. CASE Launch(p, mon[p])
  BY <1>3 DEF Launch, TypeOK
<1>4. ~LaunchFails(p, mon[p])
  BY DEF LaunchFails, TypeOK
<1> QED
  BY <1>1, <1>2, <1>3, <1>4 DEF StartProcess

\* Nothing but a call of StartProcess from outside launches the first command
\* of a process: a restart follows a launch.
LEMMA OthersRelaunch ==
  ASSUME TypeOK, Spawned, CallersTypeOK, [AppNext]_appVars, ~MainStarts, ~RestartStarts,
         NEW q \in Proc
  PROVE  launched'[q] > 0 <=> launched[q] > 0
<1>1. CASE UNCHANGED launched
  BY <1>1
<1>2. ASSUME NEW p \in Proc, NEW n \in CmdId, MonitorRestart(p, n)
      PROVE  launched'[q] > 0 <=> launched[q] > 0
  <2>1. StartProcess(p, [mon[p] EXCEPT ![n] = "done"]) /\ mon[p][n] # "none"
    BY <1>2 DEF MonitorRestart
  <2>2. launched[p] > 0
    BY <2>1, MaxStartsAssumption DEF Spawned, CmdId, TypeOK
  <2> QED
    BY <2>1, <2>2, StartLaunches
<1>3. ASSUME NEW p \in Proc, NEW n \in CmdId, Watcher(p, n), ~MonitorRestart(p, n)
      PROVE  UNCHANGED launched
  BY <1>3 DEF Watcher, Monitor, MonitorBegin, MonitorWaitCall, MonitorReaps, MonitorTakesCtx,
     MonitorDrains, MonitorExit, TrackFires, TrackCancelled, WatcherStep, procVars
<1>4. ASSUME NEW p \in Proc, NEW n \in CmdId, Child(p, n)
      PROVE  UNCHANGED launched
  BY <1>4 DEF Child, ChildStep, procVars
<1>5. ASSUME NEW p \in Proc, StopWaits(p)
      PROVE  UNCHANGED launched
  BY <1>5 DEF StopWaits, StopWaitCall, StopReaps, StopTakesCtx, StopDrains, StopTimeout,
     procVars
<1>6. ASSUME NEW p \in Proc, RestartStops(p) \/ StopperBegins(p) \/ StopperEnds(p)
             \/ RestartStopped \/ AllStopped
      PROVE  UNCHANGED launched
  BY <1>6 DEF RestartStops, StopperBegins, StopperEnds, RestartStopped, AllStopped,
     StopBegin, StopIgnored, StopEnd, Cancel, procVars, vars
<1>7. CASE UNCHANGED vars
  BY <1>1, <1>7 DEF vars, procVars
<1>8. CASE UNCHANGED appVars
  BY <1>7, <1>8 DEF appVars
<1> QED
  BY <1>1, <1>2, <1>3, <1>4, <1>5, <1>6, <1>7, <1>8, OnlyWaits DEF AppNext, Main, SignalLoop

\* Without SIGUSR2, StartAll alone makes first launches, and in its order: the
\* processes launched are among those it has reached, and those it has passed
\* have been launched.
Reached(i) == i < next \/ (i = next /\ main # "start")

NoRestartAll == sig \notin {"restart", "stopping", "delay", "forked"}

OrderInv ==
  /\ order \in StartOrders
  /\ NoRestartAll
  /\ \A p \in Proc : launched[p] > 0 => \E i \in DOMAIN order : order[i] = p /\ Reached(i)
  /\ \A i \in DOMAIN order : i < next => launched[order[i]] > 0
  /\ main = "deps" => launched[order[next]] > 0

LEMMA StaysWithoutRestartAll ==
  ASSUME "USR2" \notin Signals, CallersTypeOK, NoRestartAll, [AppNext]_appVars
  PROVE  NoRestartAll'
<1>1. CASE SignalHandled
  <2>1. sigChan # "USR2"
    BY DEF CallersTypeOK
  <2>2. sig' \in {sig, "server"}
    BY <1>1, <2>1 DEF SignalHandled
  <2> QED
    BY <2>2 DEF NoRestartAll
<1>2. ASSUME NEW p \in Proc, RestartStops(p) \/ RestartStopped \/ RestartStarts \/ RestartCounts
      PROVE  FALSE
  BY <1>2 DEF RestartStops, RestartStopped, RestartStarts, RestartCounts, NoRestartAll
<1>3. ASSUME NEW p \in Proc, StopperBegins(p) \/ StopperEnds(p) \/ ServerStopped
             \/ CheckReleased \/ CheckerStopped \/ AllStopped \/ ShutdownExits
      PROVE  NoRestartAll'
  BY <1>3 DEF StopperBegins, StopperEnds, ServerStopped, CheckReleased, CheckerStopped,
     AllStopped, ShutdownExits, NoRestartAll, sigVars
<1>4. CASE Main \/ \E s \in Signals : SignalArrives(s)
  BY <1>4 DEF Main, MainStarts, MainLooks, MainProceeds, MainTimesOut, MainWakes, MainExits,
     SignalArrives, sigVars, NoRestartAll
<1>5. ASSUME NEW p \in Proc, StopWaits(p) \/ \E n \in CmdId : Watcher(p, n) \/ Child(p, n)
      PROVE  NoRestartAll'
  BY <1>5 DEF StopWaits, Watcher, Child, appOnly, sigVars, NoRestartAll
<1>6. CASE UNCHANGED appVars
  BY <1>6 DEF appVars, sigVars, NoRestartAll
<1> QED
  BY <1>1, <1>2, <1>3, <1>4, <1>5, <1>6, ProcAssumption DEF AppNext, SignalLoop

\* Only the main goroutine moves along the order.
LEMMA OthersLeaveMain ==
  ASSUME [AppNext]_appVars, ~Main
  PROVE  UNCHANGED mainVars
BY DEF AppNext, SignalLoop, SignalHandled, RestartStops, RestartStopped, RestartStarts,
   RestartCounts, ServerStopped, CheckReleased, CheckerStopped, StopperBegins, StopperEnds, AllStopped,
   ShutdownExits, SignalArrives, StopWaits, Watcher, Child, appOnly, appVars

LEMMA OrderNeverChanges ==
  ASSUME [AppNext]_appVars
  PROVE  UNCHANGED order
BY DEF AppNext, Main, MainStarts, MainLooks, MainProceeds, MainTimesOut, MainWakes,
   MainExits, SignalLoop, SignalHandled, RestartStops, RestartStopped, RestartStarts,
   RestartCounts, ServerStopped, CheckReleased, CheckerStopped, StopperBegins, StopperEnds, AllStopped,
   ShutdownExits, SignalArrives, StopWaits, Watcher, Child, appOnly, appVars

LEMMA MainStartsKeepsOrder ==
  ASSUME TypeOK, SignalsGoToNewest, CallersTypeOK, OrderInv, NoRestartAll', MainStarts
  PROVE  OrderInv'
<1>1. Current \in Proc /\ next \in DOMAIN order /\ next \in Nat
  BY DEF MainStarts, CallersTypeOK, Current
<1>2. StartProcess(Current, mon[Current])
  BY DEF MainStarts, RequestStart
<1>3. /\ \A q \in Proc : launched[q] > 0 => launched'[q] > 0
      /\ \A q \in Proc \ {Current} : launched'[q] = launched[q]
  BY <1>1, <1>2, StartLaunches
<1>4. order' = order /\ next' = next /\ main' # "start"
  BY DEF MainStarts
<1>5. main' = "deps" => launched'[order[next]] > 0
  BY <1>1, StartedOrFailed DEF MainStarts, Current
<1>6. ASSUME NEW p \in Proc, launched'[p] > 0
      PROVE  \E i \in DOMAIN order : order[i] = p /\ Reached(i)'
  <2>1. CASE p = Current
    BY <1>1, <1>4, <2>1 DEF Current, Reached
  <2>2. CASE p # Current
    <3>1. PICK i \in DOMAIN order : order[i] = p /\ Reached(i)
      BY <1>3, <1>6, <2>2 DEF OrderInv
    <3> QED
      BY <1>4, <3>1 DEF Reached
  <2> QED
    BY <2>1, <2>2
<1>7. ASSUME NEW i \in DOMAIN order, i < next
      PROVE  launched'[order[i]] > 0
  <2>1. order[i] \in Proc
    BY DEF CallersTypeOK
  <2> QED
    BY <1>3, <1>7, <2>1 DEF OrderInv
<1>8. order \in StartOrders
  BY DEF OrderInv
<1> QED
  BY <1>4, <1>5, <1>6, <1>7, <1>8 DEF OrderInv, StartOrders

LEMMA MainProceedsKeepsOrder ==
  ASSUME CallersTypeOK, OrderInv, NoRestartAll', MainProceeds
  PROVE  OrderInv'
<1>1. order' = order /\ launched' = launched /\ next' = next + 1 /\ main = "deps"
      /\ main' # "deps"
  BY DEF MainProceeds, vars, procVars
<1>2. next \in Nat /\ DOMAIN order \subseteq Int
  BY DEF CallersTypeOK
<1>3. \A i \in DOMAIN order : Reached(i) => Reached(i)'
  BY <1>1, <1>2 DEF Reached
<1>4. \A i \in DOMAIN order : i < next + 1 => launched[order[i]] > 0
  BY <1>1, <1>2 DEF OrderInv
<1>5. order \in StartOrders
  BY DEF OrderInv
<1> QED
  BY <1>1, <1>3, <1>4, <1>5 DEF OrderInv, StartOrders

LEMMA OrderInvariant ==
  ASSUME "USR2" \notin Signals
  PROVE  AppSpec => []OrderInv
<1>1. AppInit => OrderInv
  <2> SUFFICES ASSUME AppInit
               PROVE  OrderInv
    OBVIOUS
  <2>1. DOMAIN order \subseteq 1 .. Len(order) /\ Len(order) \in Nat
    BY OrderIsList DEF AppInit
  <2> QED
    BY <2>1 DEF AppInit, Init, OrderInv, NoRestartAll
<1>2. TypeOK /\ Spawned /\ SignalsGoToNewest /\ CallersTypeOK /\ OrderInv
        /\ [AppNext]_appVars => OrderInv'
  <2> SUFFICES ASSUME TypeOK, Spawned, SignalsGoToNewest, CallersTypeOK, OrderInv,
                      [AppNext]_appVars
               PROVE  OrderInv'
    OBVIOUS
  <2>1. NoRestartAll /\ NoRestartAll'
    BY StaysWithoutRestartAll DEF OrderInv
  <2>2. ~RestartStarts
    BY <2>1 DEF RestartStarts, NoRestartAll
  <2>3. ASSUME ~MainStarts, UNCHANGED next, main' = main \/ (main # "start" /\ main' \in {"failed", "woken"})
        PROVE  OrderInv'
    <3>1. \A q \in Proc : launched'[q] > 0 <=> launched[q] > 0
      BY <2>2, <2>3, OthersRelaunch
    <3>2. order' = order /\ order \in StartOrders
      BY OrderNeverChanges DEF OrderInv
    <3>3. \A i \in DOMAIN order : order[i] \in Proc /\ (Reached(i) => Reached(i)')
      BY <2>3 DEF Reached, CallersTypeOK
    <3>4. \A p \in Proc : launched[p] > 0
             => \E i \in DOMAIN order : order[i] = p /\ Reached(i)
      BY DEF OrderInv
    <3>5. \A i \in DOMAIN order : i < next => launched'[order[i]] > 0
      BY <3>1, <3>3 DEF OrderInv
    <3>6. main' = "deps" => launched'[order[next]] > 0
      <4>1. main = "deps" => order[next] \in Proc
        BY DEF CallersTypeOK
      <4> QED
        BY <2>3, <3>1, <4>1 DEF OrderInv
    <3>7. \A p \in Proc : launched'[p] > 0
             => \E i \in DOMAIN order : order[i] = p /\ Reached(i)'
      BY <3>1, <3>3, <3>4
    <3> QED
      BY <2>1, <2>3, <3>2, <3>5, <3>6, <3>7 DEF OrderInv, StartOrders
  <2>4. CASE MainStarts
    BY <2>1, <2>4, MainStartsKeepsOrder
  <2>5. CASE MainProceeds
    BY <2>1, <2>5, MainProceedsKeepsOrder
  <2>6. CASE MainLooks \/ MainTimesOut \/ MainWakes \/ MainExits
    <3>1. ~MainStarts
      BY <2>6, SMT DEF MainLooks, MainTimesOut, MainWakes, MainExits, MainStarts, mainVars,
         vars, procVars
    <3> QED
      BY <2>3, <2>6, <3>1 DEF MainLooks, MainTimesOut, MainWakes, MainExits, mainVars
  <2>7. CASE ~Main
    BY <2>3, <2>7, OthersLeaveMain DEF Main, mainVars
  <2> QED
    BY <2>4, <2>5, <2>6, <2>7 DEF Main
<1> QED
  BY <1>1, <1>2, ManagerImplemented, CallersTyping, Typing, SpawnedInvariant, LockDiscipline,
     PTL DEF AppSpec

\* Without a SIGUSR2, StartAll launches no process before the processes it
\* depends on, whatever has become of those since, and whatever restarts there
\* are (manager.go:118-126, 520-554).
THEOREM DependenciesLaunched ==
  ASSUME "USR2" \notin Signals
  PROVE  AppSpec => []DependenciesLaunchedFirst
<1>1. CallersTypeOK /\ OrderInv => DependenciesLaunchedFirst
  <2> SUFFICES ASSUME CallersTypeOK, OrderInv, NEW p \in Proc, NEW q \in Range(DependsOn[p]),
                      launched[p] > 0
               PROVE  launched[q] > 0
    BY DEF DependenciesLaunchedFirst
  <2>1. PICK i \in DOMAIN order : order[i] = p /\ Reached(i)
    BY DEF OrderInv
  <2>2. PICK j \in 1 .. i - 1 : order[j] = q
    BY <2>1 DEF OrderInv, StartOrders
  <2>3. i \in 1 .. Len(order) /\ Len(order) \in Nat /\ DOMAIN order = 1 .. Len(order)
    BY DEF CallersTypeOK
  <2>4. j \in DOMAIN order /\ j < next
    BY <2>1, <2>2, <2>3 DEF Reached, CallersTypeOK
  <2> QED
    BY <2>2, <2>4 DEF OrderInv
<1> QED
  BY <1>1, OrderInvariant, CallersTyping, PTL

-----------------------------------------------------------------------------
(* Who asks for a process.                                                 *)

LEMMA OthersAskNothing ==
  ASSUME [AppNext]_appVars, ~MainStarts, ~RestartStarts
  PROVE  UNCHANGED requested
<1>1. ASSUME NEW p \in Proc, NEW n \in CmdId, Watcher(p, n)
      PROVE  UNCHANGED requested
  BY <1>1 DEF Watcher, Monitor, MonitorBegin, MonitorWaitCall, MonitorReaps, MonitorTakesCtx,
     MonitorDrains, MonitorExit, MonitorRestart, TrackFires, TrackCancelled, WatcherStep,
     procVars
<1>2. ASSUME NEW p \in Proc, StopWaits(p) \/ \E n \in CmdId : Child(p, n)
      PROVE  UNCHANGED requested
  BY <1>2 DEF StopWaits, StopWaitCall, StopReaps, StopTakesCtx, StopDrains, StopTimeout,
     Child, ChildStep, procVars
<1>3. ASSUME NEW p \in Proc, RestartStops(p) \/ StopperBegins(p) \/ StopperEnds(p)
             \/ RestartStopped \/ AllStopped
      PROVE  UNCHANGED requested
  BY <1>3 DEF RestartStops, StopperBegins, StopperEnds, RestartStopped, AllStopped,
     StopBegin, StopIgnored, StopEnd, Cancel, procVars, vars
<1>4. CASE UNCHANGED vars
  BY <1>4 DEF vars, procVars
<1>5. CASE UNCHANGED appVars
  BY <1>4, <1>5 DEF appVars
<1> QED
  BY <1>1, <1>2, <1>3, <1>4, <1>5, OnlyWaits, ProcAssumption DEF AppNext, Main, SignalLoop

-----------------------------------------------------------------------------
(* What main leaves behind.                                                *)

\* The children of a process started from outside once are gone when none of
\* its monitors is under way.
LEMMA WatchedIfLive ==
  ASSUME TypeOK, Spawned, NEW p \in Proc, Chain(p), NEW n \in CmdId, Live(p, n)
  PROVE  mon[p][n] \notin {"none", "done"}
<1>1. ~(n > launched[p]) /\ ~(n < launched[p])
  BY DEF Chain, Live
<1>2. launched[p] \in Int /\ n \in Int /\ n # 0
  BY MaxStartsAssumption DEF TypeOK, CmdId
<1>3. n = launched[p] /\ launched[p] # 0
  BY <1>1, <1>2
<1> QED
  BY <1>1, <1>3 DEF Spawned, Chain

\* StartAll has asked for every process it has reached, so one that RestartAll
\* has forked and not counted yet was asked for twice.
Asked(i) == requested[order[i]] >= IF Uncounted(order[i]) THEN 2 ELSE 1

AskedInv ==
  /\ order \in StartOrders
  /\ main \in {"wait", "woken"} => next > Len(order)
  /\ \A i \in DOMAIN order : Reached(i) => Asked(i)

\* The steps of the others neither ask for a process nor leave one uncounted.
LEMMA OthersCount ==
  ASSUME [AppNext]_appVars, ~RestartStarts, NEW p, Uncounted(p)'
  PROVE  Uncounted(p)
<1>1. CASE UNCHANGED sigVars
  BY <1>1 DEF sigVars, Uncounted
<1>2. CASE SignalHandled
  <2>1. sig = "idle"
    BY <1>2 DEF SignalHandled
  <2>2. sig' \in {"server", "restart"} \/ sig' = sig
    BY <1>2 DEF SignalHandled
  <2> QED
    BY <2>1, <2>2 DEF Uncounted
<1>3. CASE RestartCounts
  BY <1>3 DEF RestartCounts, Uncounted
<1>4. ASSUME NEW q \in Proc, RestartStops(q) \/ StopperBegins(q) \/ StopperEnds(q)
      PROVE  Uncounted(p)
  <2>1. CASE RestartStops(q)
    BY <2>1 DEF RestartStops, Uncounted
  <2>2. CASE StopperBegins(q) \/ StopperEnds(q)
    BY <2>2 DEF StopperBegins, StopperEnds, Uncounted
  <2> QED
    BY <1>4, <2>1, <2>2
<1>5. CASE \/ RestartStopped \/ ServerStopped \/ CheckReleased \/ CheckerStopped \/ AllStopped
  BY <1>5 DEF RestartStopped, ServerStopped, CheckReleased, CheckerStopped, AllStopped, Uncounted
<1>6. CASE Main \/ ShutdownExits
  BY <1>6, <1>1 DEF Main, MainStarts, MainLooks, MainProceeds, MainTimesOut, MainWakes, MainExits,
     ShutdownExits, sigVars
<1>7. CASE AppNext /\ ~SignalLoop /\ ~Main /\ ~CheckReleased
  BY <1>7, <1>1 DEF AppNext, SignalArrives, StopWaits, Watcher, Child, appOnly, sigVars
<1> QED
  BY <1>1, <1>2, <1>3, <1>4, <1>5, <1>6, <1>7 DEF AppNext, SignalLoop, appVars

LEMMA AskedInvariant == AppSpec => []AskedInv
<1>1. AppInit => AskedInv
  <2> SUFFICES ASSUME AppInit
               PROVE  AskedInv
    OBVIOUS
  <2>1. DOMAIN order = 1 .. Len(order) /\ Len(order) \in Nat
    BY OrderIsList DEF AppInit
  <2> QED
    BY <2>1 DEF AppInit, AskedInv, Reached
<1>2. TypeOK /\ CallersTypeOK /\ AskedInv /\ [AppNext]_appVars => AskedInv'
  <2> SUFFICES ASSUME TypeOK, CallersTypeOK, AskedInv, [AppNext]_appVars
               PROVE  AskedInv'
    OBVIOUS
  <2>1. order' = order /\ order \in StartOrders
    BY OrderNeverChanges DEF AskedInv
  <2>2. ASSUME NEW i \in DOMAIN order
        PROVE  /\ order[i] \in Proc /\ i \in 1 .. Len(order) /\ next \in Int
               /\ requested[order[i]] \in Nat
    <3>1. order \in Seq(Proc) /\ DOMAIN order = 1 .. Len(order) /\ next \in Int
      BY OrderIsList, <2>1 DEF CallersTypeOK
    <3>2. order[i] \in Proc
      BY <3>1
    <3>3. requested[order[i]] \in Nat
      BY <3>2, MaxRequestsAssumption DEF TypeOK
    <3> QED
      BY <3>1, <3>2, <3>3
  <2>3. ASSUME NEW i \in DOMAIN order, Reached(i), UNCHANGED requested, ~RestartStarts
        PROVE  Asked(i)'
    <3>1. Asked(i)
      BY <2>3 DEF AskedInv
    <3> QED
      BY <2>1, <2>2, <2>3, <3>1, OthersCount DEF Asked
  <2>4. CASE MainStarts
    <3>1. /\ next' = next /\ main = "start" /\ main' \notin {"start", "wait", "woken"}
          /\ requested' = [requested EXCEPT ![order[next]] = @ + 1]
          /\ UNCHANGED sigVars /\ ~Uncounted(order[next])
      BY <2>4 DEF MainStarts, RequestStart, Current
    <3>2. ASSUME NEW i \in DOMAIN order, Reached(i)'
          PROVE  Asked(i)'
      <4>1. Uncounted(order[i])' <=> Uncounted(order[i])
        BY <2>1, <3>1 DEF sigVars, Uncounted
      <4>2. CASE order[i] = order[next]
        BY <2>1, <2>2, <3>1, <4>1, <4>2 DEF Asked, TypeOK
      <4>3. CASE order[i] # order[next]
        <5>1. Asked(i)
          BY <2>1, <3>1, <3>2, <4>3 DEF AskedInv, Reached
        <5> QED
          BY <2>1, <2>2, <3>1, <4>1, <4>3, <5>1 DEF Asked, TypeOK
      <4> QED
        BY <4>2, <4>3
    <3> QED
      BY <2>1, <3>1, <3>2 DEF AskedInv, StartOrders
  <2>5. CASE RestartStarts
    <3>1. /\ requested' = [requested EXCEPT ![target] = @ + 1]
          /\ UNCHANGED <<mainVars, target>> /\ sig = "delay"
      BY <2>5 DEF RestartStarts, RequestStart
    <3>2. ASSUME NEW i \in DOMAIN order, Reached(i)'
          PROVE  Asked(i)'
      <4>1. Asked(i) /\ ~Uncounted(order[i])
        BY <2>1, <3>1, <3>2 DEF AskedInv, Reached, mainVars, Uncounted
      <4>2. CASE order[i] = target
        BY <2>1, <2>2, <3>1, <4>1, <4>2 DEF Asked, TypeOK
      <4>3. CASE order[i] # target
        BY <2>1, <2>2, <3>1, <4>1, <4>3 DEF Asked, TypeOK, Uncounted
      <4> QED
        BY <4>2, <4>3
    <3> QED
      BY <2>1, <3>1, <3>2 DEF AskedInv, StartOrders, mainVars
  <2>6. ASSUME ~MainStarts, ~RestartStarts, \A i \in DOMAIN order : Reached(i)' => Reached(i),
               main' \in {"wait", "woken"} => next' > Len(order)
        PROVE  AskedInv'
    <3>1. UNCHANGED requested
      BY <2>6, OthersAskNothing
    <3> QED
      BY <2>1, <2>3, <2>6, <3>1 DEF AskedInv, StartOrders
  <2>7. CASE MainProceeds
    <3>1. /\ next' = next + 1 /\ main = "deps"
          /\ main' = IF next = Len(order) THEN "wait" ELSE "start"
      BY <2>7 DEF MainProceeds
    <3>2. \A i \in DOMAIN order : Reached(i)' => Reached(i)
      BY <2>2, <3>1 DEF Reached
    <3>3. ~MainStarts /\ ~RestartStarts
      BY <2>7, <3>1 DEF MainStarts, RestartStarts, mainVars, CallersTypeOK
    <3>4. main' \in {"wait", "woken"} => next' > Len(order)
      BY <3>1 DEF CallersTypeOK
    <3> QED
      BY <2>6, <3>2, <3>3, <3>4
  <2>8. CASE MainLooks \/ MainTimesOut \/ MainWakes \/ MainExits
    <3>1. /\ next' = next /\ main # "start"
          /\ main' \in {"wait", "woken"} => main \in {"wait", "woken"}
      BY <2>8 DEF MainLooks, MainTimesOut, MainWakes, MainExits, mainVars
    <3>2. ~MainStarts
      BY <3>1 DEF MainStarts
    <3>3. CASE RestartStarts
      BY <2>5, <3>3
    <3>4. CASE ~RestartStarts
      BY <2>6, <3>1, <3>2, <3>4 DEF Reached, AskedInv
    <3> QED
      BY <3>3, <3>4
  <2>9. CASE ~Main
    <3>1. UNCHANGED mainVars
      BY <2>9, OthersLeaveMain
    <3>2. CASE ~RestartStarts
      BY <2>6, <2>9, <3>1, <3>2 DEF Reached, AskedInv, mainVars, Main
    <3> QED
      BY <2>5, <3>2
  <2> QED
    BY <2>4, <2>7, <2>8, <2>9 DEF Main
<1> QED
  BY <1>1, <1>2, ManagerImplemented, CallersTyping, Typing, PTL DEF AppSpec

\* The goroutines of p have ended.
Ended(p) == \A n \in CmdId : mon[p][n] \in {"none", "done"}

\* No monitor comes back to life but by a call of StartProcess from outside.
LEMMA OthersStayEnded ==
  ASSUME TypeOK, [AppNext]_appVars, ~MainStarts, ~RestartStarts, NEW p \in Proc, Ended(p)
  PROVE  Ended(p)'
<1>1. CASE UNCHANGED mon
  BY <1>1 DEF Ended
<1>2. ASSUME NEW q \in Proc, NEW n \in CmdId, Monitor(q, n)
      PROVE  Ended(p)'
  <2>1. mon[q][n] \notin {"none", "done"}
    BY <1>2 DEF Monitor, MonitorBegin, MonitorWaitCall, MonitorReaps, MonitorTakesCtx,
       MonitorDrains, MonitorExit, MonitorRestart
  <2>2. q # p
    BY <2>1 DEF Ended
  <2>3. mon'[p] = mon[p]
    BY <1>2, <2>2 DEF Monitor, MonitorBegin, MonitorWaitCall, MonitorReaps, MonitorTakesCtx,
       MonitorDrains, MonitorExit, MonitorRestart, MonitorGoes, StartProcess, AlreadyRunning,
       Launch, LaunchFails, TypeOK
  <2> QED
    BY <2>3 DEF Ended
<1>3. ASSUME NEW q \in Proc, NEW n \in CmdId, Watcher(q, n), ~Monitor(q, n)
      PROVE  UNCHANGED mon
  BY <1>3 DEF Watcher, Monitor, TrackFires, TrackCancelled, WatcherStep, monVars
<1>4. ASSUME NEW q \in Proc, StopWaits(q) \/ \E n \in CmdId : Child(q, n)
      PROVE  UNCHANGED mon
  BY <1>4 DEF StopWaits, StopWaitCall, StopReaps, StopTakesCtx, StopDrains, StopTimeout,
     Child, ChildStep, monVars
<1>5. ASSUME NEW q \in Proc, RestartStops(q) \/ StopperBegins(q) \/ StopperEnds(q)
             \/ RestartStopped \/ AllStopped
      PROVE  UNCHANGED mon
  BY <1>5 DEF RestartStops, StopperBegins, StopperEnds, RestartStopped, AllStopped,
     StopBegin, StopIgnored, StopEnd, Cancel, monVars, vars
<1>6. CASE UNCHANGED vars
  BY <1>1, <1>6 DEF vars, monVars
<1>7. CASE UNCHANGED appVars
  BY <1>6, <1>7 DEF appVars
<1> QED
  BY <1>1, <1>2, <1>3, <1>4, <1>5, <1>6, <1>7, OnlyWaits, ProcAssumption
     DEF AppNext, Main, SignalLoop

\* From the moment Wait is woken the goroutines of the processes that were
\* asked for once have ended.
WokenInv ==
  main = "woken" => \A p \in Proc : requested[p] <= 1 => Ended(p)

LEMMA WokenInvariant == AppSpec => []WokenInv
<1>1. AppInit => WokenInv
  BY DEF AppInit, WokenInv
<1>2. TypeOK /\ CallersTypeOK /\ AskedInv /\ WokenInv /\ [AppNext]_appVars => WokenInv'
  <2> SUFFICES ASSUME TypeOK, CallersTypeOK, AskedInv, WokenInv, [AppNext]_appVars,
                      main' = "woken", NEW p \in Proc, requested'[p] <= 1
               PROVE  Ended(p)'
    BY DEF WokenInv
  <2>1. requested[p] \in Nat
    BY MaxRequestsAssumption DEF TypeOK
  <2>2. ASSUME main \in {"wait", "woken"}
        PROVE  requested[p] >= IF Uncounted(p) THEN 2 ELSE 1
    <3>1. PICK i \in DOMAIN order : order[i] = p
      BY DEF AskedInv, StartOrders, Range
    <3>2. i \in 1 .. Len(order) /\ Len(order) \in Nat /\ next \in Nat
      BY <3>1 DEF CallersTypeOK
    <3>3. Reached(i)
      BY <2>2, <3>2 DEF AskedInv, Reached
    <3> QED
      BY <3>1, <3>3 DEF AskedInv, Asked
  <2>3. CASE main = "woken"
    <3>1. ~MainStarts
      BY <2>3 DEF MainStarts
    <3>2. CASE RestartStarts
      <4>1. requested' = [requested EXCEPT ![target] = @ + 1] /\ StartProcess(target, mon[target])
            /\ target \in Proc
        BY <3>2 DEF RestartStarts, RequestStart, CallersTypeOK
      <4>2. p # target
        BY <2>1, <2>2, <2>3, <4>1 DEF TypeOK
      <4>3. mon'[p] = mon[p] /\ requested'[p] = requested[p]
        BY <4>1, <4>2 DEF StartProcess, AlreadyRunning, Launch, LaunchFails, TypeOK
      <4> QED
        BY <2>3, <4>3 DEF WokenInv, Ended
    <3>3. CASE ~RestartStarts
      <4>1. Ended(p)
        BY <2>3, <3>1, <3>3, OthersAskNothing DEF WokenInv
      <4> QED
        BY <3>1, <3>3, <4>1, OthersStayEnded
    <3> QED
      BY <3>2, <3>3
  <2>4. CASE MainWakes
    <3>1. UNCHANGED <<requested, mon>> /\ WaitGroupIsZero /\ main = "wait"
      BY <2>4 DEF MainWakes, vars, procVars, monVars
    <3>2. ~Uncounted(p)
      BY <2>1, <2>2, <3>1
    <3> QED
      BY <3>1, <3>2 DEF WaitGroupIsZero, Ended
  <2>5. CASE main # "woken" /\ ~MainWakes
    <3>1. CASE Main
      BY <2>5, <3>1 DEF Main, MainStarts, MainLooks, MainProceeds, MainTimesOut, MainExits,
         mainVars
    <3>2. CASE ~Main
      BY <2>5, <3>2, OthersLeaveMain DEF mainVars
    <3> QED
      BY <3>1, <3>2
  <2> QED
    BY <2>3, <2>4, <2>5
<1> QED
  BY <1>1, <1>2, ManagerImplemented, CallersTyping, Typing, AskedInvariant, PTL DEF AppSpec

\* A supervisor that has ended does nothing, and only the return of main from
\* Wait makes it end as finished, or a panic there.
LEMMA FinishedByWait ==
  ASSUME [AppNext]_appVars, exited' \in {"finished", "panicked"}
  PROVE  UNCHANGED vars /\ (exited \in {"finished", "panicked"} \/ main = "woken")
<1>1. CASE MainExits
  BY <1>1 DEF MainExits
<1>2. CASE UNCHANGED exited
  <2>1. CASE UNCHANGED appVars
    BY <2>1 DEF appVars
  <2>2. CASE AppNext
    BY <1>2, <2>2 DEF AppNext
  <2> QED
    BY <1>2, <2>1, <2>2
<1>3. CASE ShutdownExits
  BY <1>3 DEF ShutdownExits
<1>4. ASSUME ~MainExits, ~ShutdownExits
      PROVE  UNCHANGED exited
  BY <1>4 DEF AppNext, Main, MainStarts, MainLooks, MainProceeds, MainTimesOut, MainWakes,
     SignalLoop, SignalHandled, RestartStops, RestartStopped, RestartStarts, RestartCounts,
     ServerStopped, CheckReleased, CheckerStopped, StopperBegins, StopperEnds, AllStopped,
     SignalArrives, StopWaits, Watcher, Child, appOnly, appVars
<1> QED
  BY <1>1, <1>2, <1>3, <1>4

\* When main returns from Wait, or panics there, no child is left behind of a
\* process that SIGUSR2 did not start again, whatever stops, restarts and
\* calls of Wait overlapped (manager.go:209, 447, signals.go:58-60).
THEOREM NothingLeftBehind == AppSpec => []MainExitLeavesNothing
<1>1. AppInit => MainExitLeavesNothing
  BY DEF AppInit, MainExitLeavesNothing
<1>2. TypeOK /\ Spawned /\ ChainInv /\ WokenInv /\ MainExitLeavesNothing
        /\ [AppNext]_appVars => MainExitLeavesNothing'
  <2> SUFFICES ASSUME TypeOK, Spawned, ChainInv, WokenInv, MainExitLeavesNothing,
                      [AppNext]_appVars, exited' \in {"finished", "panicked"},
                      NEW p \in Proc, requested'[p] <= 1, NEW n \in CmdId
               PROVE  ~Live(p, n)'
    BY DEF MainExitLeavesNothing
  <2>1. UNCHANGED <<requested, child>>
    BY FinishedByWait DEF vars, execVars, procVars
  <2>2. CASE exited \in {"finished", "panicked"}
    BY <2>1, <2>2 DEF MainExitLeavesNothing, Live
  <2>3. CASE main = "woken"
    <3>1. Chain(p) /\ mon[p][n] \in {"none", "done"}
      BY <2>1, <2>3 DEF ChainInv, WokenInv, Ended
    <3>2. ~Live(p, n)
      BY <3>1, WatchedIfLive
    <3> QED
      BY <2>1, <3>2 DEF Live
  <2> QED
    BY <2>2, <2>3, FinishedByWait
<1> QED
  BY <1>1, <1>2, ManagerImplemented, Typing, SpawnedInvariant, ChainInvariant, WokenInvariant,
     PTL DEF AppSpec

\* When StopAll is done with a process that was asked for once, no command of
\* it runs: not the one it stopped, and none it passed over because State was
\* not running (manager.go:229-234, 266, 330).
THEOREM NoneRunsWhenStopped == AppSpec => StoppedMeansGone
<1>1. TypeOK /\ CallersTypeOK /\ LockInv /\ ReapInv /\ ChainInv /\ LiveInv /\ [AppNext]_appVars
        => [\A p \in Proc : requested[p] <= 1 /\ stopper[p] # "done" /\ stopper'[p] = "done"
              => \A n \in CmdId : ~Live(p, n)]_appVars
  <2> SUFFICES ASSUME TypeOK, CallersTypeOK, LockInv, ReapInv, ChainInv, LiveInv, AppNext,
                      NEW p \in Proc, requested[p] <= 1, stopper[p] # "done",
                      stopper'[p] = "done", NEW n \in CmdId
               PROVE  ~Live(p, n)
    BY DEF appVars, sigVars
  <2>1. (StopperBegins(p) /\ StopIgnored(p)) \/ StopperEnds(p)
    <3>1. ASSUME NEW q \in Proc, StopperBegins(q)
          PROVE  q = p /\ StopIgnored(p)
      <4>1. stopper \in [Proc -> {"none", "begin", "busy", "done"}]
        BY DEF CallersTypeOK
      <4>2. CASE stopper' = [stopper EXCEPT ![q] = "busy"]
        BY <4>1, <4>2
      <4>3. CASE StopIgnored(q) /\ stopper' = [stopper EXCEPT ![q] = "done"]
        BY <4>1, <4>3
      <4> QED
        BY <3>1, <4>2, <4>3 DEF StopperBegins
    <3>2. ASSUME NEW q \in Proc, StopperEnds(q)
          PROVE  q = p
      BY <3>2 DEF StopperEnds
    <3>3. ASSUME \A q \in Proc : ~StopperBegins(q) /\ ~StopperEnds(q)
          PROVE  FALSE
      BY <3>3 DEF AppNext, Main, MainStarts, MainLooks, MainProceeds, MainTimesOut, MainWakes,
         MainExits, SignalLoop, SignalHandled, RestartStops, RestartStopped, RestartStarts,
         RestartCounts, ServerStopped, CheckReleased, CheckerStopped, AllStopped,
         ShutdownExits, SignalArrives, StopWaits, Watcher, Child, appOnly, sigVars
    <3> QED
      BY <3>1, <3>2, <3>3
  <2>2. CASE StopIgnored(p)
    BY <2>2 DEF StopIgnored, LiveInv, LockInv, StoppingIsLocked
  <2>3. CASE StopperEnds(p)
    <3>1. stop[p] = "returned"
      BY <2>3 DEF StopperEnds, StopEnd
    <3>2. cmd[p] = launched[p] /\ child[p][cmd[p]] = "reaped"
      BY <3>1 DEF ReapInv, LockInv, StoppingIsLocked, SignalsGoToNewest, Unlocked
    <3>3. n = launched[p] \/ n > launched[p] \/ n < launched[p]
      BY MaxStartsAssumption DEF TypeOK, CmdId
    <3> QED
      BY <3>2, <3>3 DEF ChainInv, Chain, Live
  <2> QED
    BY <2>1, <2>2, <2>3
<1> QED
  BY <1>1, ManagerImplemented, CallersTyping, Typing, LockDiscipline, ReapInvariant,
     ChainInvariant, LiveInvariant, PTL DEF AppSpec, StoppedMeansGone, LockInv

-----------------------------------------------------------------------------
(* Without SIGUSR2 every process is started from outside once.             *)

StartsOnce ==
  \A i \in DOMAIN order : requested[order[i]] <= IF Reached(i) THEN 1 ELSE 0

\* The order names no process twice.
LEMMA OrderIsInjective ==
  ASSUME order \in StartOrders, NEW i \in DOMAIN order, NEW j \in DOMAIN order,
         order[i] = order[j]
  PROVE  i = j
<1> DEFINE n == Cardinality(Proc)
<1>1. n \in Nat
  BY ProcAssumption, FS_CardinalityType
<1>2. order \in [1 .. n -> Proc] /\ Range(order) = Proc
  BY DEF StartOrders
<1>3. order \in Surjection(1 .. n, Proc)
  BY <1>2 DEF Surjection, Range
<1>4. IsFiniteSet(1 .. n) /\ Cardinality(1 .. n) = n
  BY <1>1, FS_Interval
<1>5. order \in Injection(1 .. n, Proc)
  BY <1>3, <1>4, FS_SurjSameCardinalityImpliesInj
<1> QED
  BY <1>2, <1>5 DEF Injection, IsInjective

LEMMA OnceInvariant ==
  ASSUME "USR2" \notin Signals
  PROVE  AppSpec => []StartsOnce
<1>1. AppInit => StartsOnce
  <2> SUFFICES ASSUME AppInit, NEW i \in DOMAIN order
               PROVE  requested[order[i]] = 0 /\ ~Reached(i)
    BY DEF StartsOnce
  <2>1. DOMAIN order = 1 .. Len(order) /\ Len(order) \in Nat /\ order \in Seq(Proc)
    BY OrderIsList DEF AppInit
  <2> QED
    BY <2>1 DEF AppInit, Init, Reached
<1>2. TypeOK /\ CallersTypeOK /\ OrderInv /\ StartsOnce /\ [AppNext]_appVars => StartsOnce'
  <2> SUFFICES ASSUME TypeOK, CallersTypeOK, OrderInv, StartsOnce, [AppNext]_appVars,
                      NEW i \in DOMAIN order
               PROVE  requested'[order[i]] <= IF Reached(i)' THEN 1 ELSE 0
    BY OrderNeverChanges DEF StartsOnce
  <2>1. order[i] \in Proc /\ i \in Int /\ next \in Int /\ requested[order[i]] \in Nat
    <3>1. order[i] \in Proc /\ i \in Int /\ next \in Int
      BY DEF CallersTypeOK
    <3> QED
      BY <3>1, MaxRequestsAssumption DEF TypeOK
  <2>2. requested[order[i]] <= IF Reached(i) THEN 1 ELSE 0
    BY DEF StartsOnce
  <2>3. ASSUME UNCHANGED requested, Reached(i) => Reached(i)'
        PROVE  requested'[order[i]] <= IF Reached(i)' THEN 1 ELSE 0
    BY <2>1, <2>2, <2>3
  <2>4. CASE MainStarts
    <3>1. /\ next' = next /\ main = "start" /\ main' # "start"
          /\ requested' = [requested EXCEPT ![order[next]] = @ + 1]
          /\ next \in DOMAIN order
      BY <2>4 DEF MainStarts, RequestStart, Current, CallersTypeOK
    <3>2. CASE i = next
      BY <2>1, <2>2, <3>1, <3>2 DEF Reached, TypeOK
    <3>3. CASE i # next
      <4>1. order[i] # order[next]
        BY <3>1, <3>3, OrderIsInjective DEF OrderInv
      <4>2. requested'[order[i]] = requested[order[i]]
        BY <2>1, <3>1, <4>1 DEF TypeOK
      <4> QED
        BY <2>1, <2>2, <3>1, <3>3, <4>2 DEF Reached
    <3> QED
      BY <3>2, <3>3
  <2>5. CASE ~MainStarts
    <3>1. UNCHANGED requested
      BY <2>5, OthersAskNothing DEF OrderInv, NoRestartAll, RestartStarts
    <3>2. CASE MainProceeds
      <4>1. next' = next + 1
        BY <3>2 DEF MainProceeds
      <4>2. Reached(i) => Reached(i)'
        BY <2>1, <4>1 DEF Reached
      <4> QED
        BY <2>3, <3>1, <4>2
    <3>3. CASE MainLooks \/ MainTimesOut \/ MainWakes \/ MainExits
      <4>1. Reached(i) => Reached(i)'
        BY <3>3 DEF MainLooks, MainTimesOut, MainWakes, MainExits, mainVars, Reached
      <4> QED
        BY <2>3, <3>1, <4>1
    <3>4. CASE ~Main
      <4>1. Reached(i) => Reached(i)'
        BY <3>4, OthersLeaveMain DEF mainVars, Reached
      <4> QED
        BY <2>3, <3>1, <4>1
    <3> QED
      BY <2>5, <3>2, <3>3, <3>4 DEF Main
  <2> QED
    BY <2>4, <2>5
<1> QED
  BY <1>1, <1>2, ManagerImplemented, CallersTyping, Typing, OrderInvariant, PTL DEF AppSpec

\* Without a SIGUSR2, the return of main from Wait leaves no child at all
\* behind: every process is started from outside at most once (main.go:154-161,
\* manager.go:110-139).
THEOREM NothingLeftWithoutRestartAll ==
  ASSUME "USR2" \notin Signals
  PROVE  AppSpec => [](exited \in {"finished", "panicked"}
                          => \A p \in Proc, n \in CmdId : ~Live(p, n))
<1>1. TypeOK /\ OrderInv /\ StartsOnce /\ MainExitLeavesNothing
        => (exited \in {"finished", "panicked"} => \A p \in Proc, n \in CmdId : ~Live(p, n))
  <2> SUFFICES ASSUME TypeOK, OrderInv, StartsOnce, NEW p \in Proc
               PROVE  requested[p] <= 1
    BY DEF MainExitLeavesNothing
  <2>1. PICK i \in DOMAIN order : order[i] = p
    BY DEF OrderInv, StartOrders, Range
  <2>2. requested[p] \in Nat
    BY MaxRequestsAssumption DEF TypeOK
  <2> QED
    BY <2>1, <2>2 DEF StartsOnce
<1> QED
  BY <1>1, ManagerImplemented, Typing, OrderInvariant, OnceInvariant, NothingLeftBehind, PTL

=============================================================================
