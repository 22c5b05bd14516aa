------------------------ MODULE ProcessManager_proofs ------------------------
(***************************************************************************)
(* Proofs about ProcessManager, for any number of processes, commands and  *)
(* requests and any restart settings.                                      *)
(***************************************************************************)
EXTENDS ProcessManager, FiniteSetTheorems, TLAPS

-----------------------------------------------------------------------------
(* Typing.                                                                 *)

LEMMA InitTyped == Init => TypeOK
<1> SUFFICES ASSUME Init PROVE TypeOK
  OBVIOUS
<1>1. ExecTypeOK
  BY DEF Init, ExecInit, ExecTypeOK, ChildState
<1>2. 0 \in 0 .. MaxStarts /\ 0 \in 0 .. MaxRequests
  BY MaxStartsAssumption, MaxRequestsAssumption
<1>3. /\ config \in [Proc -> Configs]
      /\ state \in [Proc -> ProcessState]
      /\ cmd \in [Proc -> CmdId \cup {NoCmd}]
      /\ stop \in [Proc -> StopPhase]
  BY DEF Init, ProcessState, StopPhase
<1>4. /\ startupAttempts \in [Proc -> Nat]
      /\ runtimeRestarts \in [Proc -> Nat]
      /\ startupComplete \in [Proc -> BOOLEAN]
      /\ launched \in [Proc -> 0 .. MaxStarts]
      /\ requested \in [Proc -> 0 .. MaxRequests]
  BY <1>2 DEF Init
<1>5. /\ mon \in [Proc -> [CmdId -> MonPhase]]
      /\ monCmd \in [Proc -> [CmdId -> CmdId \cup {NoCmd}]]
      /\ monErr \in [Proc -> [CmdId -> WaitResult]]
      /\ track \in [Proc -> [CmdId -> TrackPhase]]
  BY DEF Init, MonPhase, WaitResult, TrackPhase
<1> QED
  BY <1>1, <1>3, <1>4, <1>5 DEF TypeOK

\* The steps of a call of Wait keep the types; a Cmd that is nil (NoCmd)
\* would leave the state of all commands alone.
LEMMA ReapTyped ==
  ASSUME ExecTypeOK, NEW p \in Proc, NEW n \in CmdId \cup {NoCmd}, WaitReap(p, n)
  PROVE  ExecTypeOK'
<1>1. Zombie(p, n) \in BOOLEAN
  BY DEF Zombie
<1>2. child' \in [Proc -> [CmdId -> ChildState]]
  BY DEF WaitReap, ExecTypeOK, ChildState
<1>3. procState' \in [Proc -> [CmdId -> BOOLEAN]]
  <2> DEFINE b == Zombie(p, n)
  <2>1. procState' = [procState EXCEPT ![p][n] = b]
    BY DEF WaitReap
  <2>2. b \in BOOLEAN
    BY <1>1
  <2> HIDE DEF b
  <2> QED
    BY <2>1, <2>2 DEF ExecTypeOK
<1> QED
  BY <1>2, <1>3 DEF WaitReap, ExecTypeOK

\* StartProcess keeps the types, for any caller that passes proper phases.
LEMMA StartTyped ==
  ASSUME TypeOK, NEW p \in Proc, NEW phases \in [CmdId -> MonPhase],
         StartProcess(p, phases), requested' \in [Proc -> 0 .. MaxRequests]
  PROVE  TypeOK'
<1>1. CASE AlreadyRunning(p, phases)
  BY <1>1 DEF TypeOK, ExecTypeOK, execVars, StartProcess, AlreadyRunning
<1>2. CASE Launch(p, phases)
  <2>1. launched[p] + 1 \in CmdId
    BY <1>2, MaxStartsAssumption DEF TypeOK, Launch, CmdId
  <2>2. ExecTypeOK'
    BY <1>2, <2>1, MaxStartsAssumption DEF TypeOK, ExecTypeOK, Launch, CmdStart, ChildState
  <2>3. mon' \in [Proc -> [CmdId -> MonPhase]]
    BY <1>2, <2>1, MaxStartsAssumption DEF TypeOK, Launch, MonPhase
  <2>4. track' \in [Proc -> [CmdId -> TrackPhase]]
    BY <1>2, <2>1, MaxStartsAssumption DEF TypeOK, Launch, TrackPhase
  <2>5. launched' \in [Proc -> 0 .. MaxStarts] /\ cmd' \in [Proc -> CmdId \cup {NoCmd}]
    BY <1>2, <2>1, MaxStartsAssumption DEF TypeOK, Launch, CmdId
  <2>6. state' \in [Proc -> ProcessState] /\ startupComplete' \in [Proc -> BOOLEAN]
    BY <1>2 DEF TypeOK, Launch, ProcessState
  <2> QED
    BY <2>2, <2>3, <2>4, <2>5, <2>6 DEF TypeOK, StartProcess
<1>3. CASE LaunchFails(p, phases)
  BY <1>3 DEF TypeOK, ExecTypeOK, execVars, StartProcess, LaunchFails, ProcessState
<1> QED
  BY <1>1, <1>2, <1>3 DEF StartProcess

LEMMA MonitorTyped ==
  ASSUME TypeOK, NEW p \in Proc, NEW n \in CmdId, Monitor(p, n)
  PROVE  TypeOK'
<1> USE DEF TypeOK, ExecTypeOK, execVars, procVars, monVars, MonitorGoes, MonPhase, WaitPhase
<1>1. CASE MonitorBegin(p, n)
  BY <1>1 DEF MonitorBegin
<1>2. CASE MonitorWaitCall(p, n)
  BY <1>2 DEF MonitorWaitCall, WaitEntry, WaitResult
<1>3. CASE MonitorReaps(p, n)
  <2>1. ExecTypeOK'
    BY <1>3, ReapTyped DEF MonitorReaps
  <2>2. ReapResult(p, monCmd[p][n]) \in WaitResult
    BY DEF ReapResult, WaitResult
  <2>3. monErr' \in [Proc -> [CmdId -> WaitResult]]
    BY <1>3, <2>2 DEF MonitorReaps
  <2>4. mon' \in [Proc -> [CmdId -> MonPhase]]
    BY <1>3 DEF MonitorReaps
  <2> QED
    BY <1>3, <2>1, <2>3, <2>4 DEF MonitorReaps
<1>4. CASE MonitorTakesCtx(p, n)
  BY <1>4 DEF MonitorTakesCtx, WaitCtx
<1>5. CASE MonitorDrains(p, n)
  <2>1. DrainResults(monErr[p][n]) \subseteq WaitResult
    BY DEF DrainResults, WaitResult
  <2>2. monErr' \in [Proc -> [CmdId -> WaitResult]]
    BY <1>5, <2>1 DEF MonitorDrains
  <2>3. mon' \in [Proc -> [CmdId -> MonPhase]]
    BY <1>5 DEF MonitorDrains
  <2> QED
    BY <1>5, <2>2, <2>3 DEF MonitorDrains, WaitDrain
<1>6. CASE MonitorExit(p, n)
  BY <1>6 DEF MonitorExit, StateAfterExit, ProcessState
<1>7. CASE MonitorRestart(p, n)
  <2>1. [mon[p] EXCEPT ![n] = "done"] \in [CmdId -> MonPhase]
    OBVIOUS
  <2> QED
    BY <1>7, <2>1, StartTyped DEF MonitorRestart
<1> QED
  BY <1>1, <1>2, <1>3, <1>4, <1>5, <1>6, <1>7 DEF Monitor

LEMMA StopTyped ==
  ASSUME TypeOK, NEW p \in Proc, StopProcess(p) \/ StopContinues(p)
  PROVE  TypeOK'
<1> USE DEF TypeOK, ExecTypeOK, execVars, procVars, monVars, StopGoes, StopPhase, WaitPhase
<1>1. CASE StopBegin(p)
  BY <1>1 DEF StopBegin, ProcessState
<1>2. CASE StopIgnored(p)
  BY <1>2 DEF StopIgnored, vars
<1>3. CASE StopWaitCall(p)
  BY <1>3 DEF StopWaitCall, WaitEntry
<1>4. CASE StopReaps(p)
  <2>1. ExecTypeOK'
    BY <1>4, ReapTyped DEF StopReaps
  <2> QED
    BY <1>4, <2>1 DEF StopReaps
<1>5. CASE StopTakesCtx(p)
  BY <1>5 DEF StopTakesCtx, WaitCtx
<1>6. CASE StopDrains(p)
  BY <1>6 DEF StopDrains, WaitDrain
<1>7. CASE StopTimeout(p)
  BY <1>7 DEF StopTimeout, CmdKill, ChildState
<1>8. CASE StopEnd(p)
  BY <1>8 DEF StopEnd, ProcessState
<1> QED
  BY <1>1, <1>2, <1>3, <1>4, <1>5, <1>6, <1>7, <1>8 DEF StopProcess, StopContinues

\* Type correctness of the process lifecycle, in every reachable state.
THEOREM Typing == Spec => []TypeOK
<1>1. TypeOK /\ [Next]_vars => TypeOK'
  <2> SUFFICES ASSUME TypeOK, [Next]_vars
               PROVE  TypeOK'
    OBVIOUS
  <2>1. ASSUME NEW p \in Proc, RequestStart(p)
        PROVE  TypeOK'
    <3>1. requested' \in [Proc -> 0 .. MaxRequests]
      <4>1. requested[p] + 1 \in 0 .. MaxRequests
        BY <2>1, MaxRequestsAssumption DEF RequestStart, TypeOK
      <4> QED
        BY <2>1, <4>1 DEF RequestStart, TypeOK
    <3>2. mon[p] \in [CmdId -> MonPhase]
      BY <2>1 DEF TypeOK
    <3> QED
      BY <2>1, <3>1, <3>2, StartTyped DEF RequestStart
  <2>2. ASSUME NEW p \in Proc, StopProcess(p) \/ StopContinues(p)
        PROVE  TypeOK'
    BY <2>2, StopTyped
  <2>3. ASSUME NEW p \in Proc, NEW n \in CmdId, Monitor(p, n)
        PROVE  TypeOK'
    BY <2>3, MonitorTyped
  <2>4. ASSUME NEW p \in Proc, NEW n \in CmdId, TrackFires(p, n) \/ TrackCancelled(p, n)
        PROVE  TypeOK'
    <3>1. CASE TrackFires(p, n)
      <4>1. track' \in [Proc -> [CmdId -> TrackPhase]]
        BY <3>1 DEF TrackFires, TypeOK, TrackPhase
      <4>2. startupComplete' \in [Proc -> BOOLEAN]
        <5> DEFINE b == startupComplete[p] \/ state[p] = "running"
        <5>1. startupComplete' = [startupComplete EXCEPT ![p] = b]
          BY <3>1 DEF TrackFires
        <5>2. b \in BOOLEAN
          OBVIOUS
        <5> HIDE DEF b
        <5> QED
          BY <5>1, <5>2 DEF TypeOK
      <4> QED
        BY <3>1, <4>1, <4>2 DEF TrackFires, TypeOK, ExecTypeOK, execVars, monVars
    <3>2. CASE TrackCancelled(p, n)
      BY <3>2 DEF TrackCancelled, TypeOK, TrackPhase, ExecTypeOK, execVars, procVars, monVars
    <3> QED
      BY <2>4, <3>1, <3>2
  <2>5. ASSUME NEW p \in Proc, NEW n \in CmdId, ChildStep(p, n) \/ WatcherStep(p, n)
        PROVE  TypeOK'
    <3>1. ExecTypeOK'
      <4>1. CASE ChildExits(p, n)
        BY <2>5, <4>1 DEF ChildExits, TypeOK, ExecTypeOK, ChildState
      <4>2. CASE PipeCloses(p, n)
        BY <2>5, <4>2 DEF PipeCloses, TypeOK, ExecTypeOK
      <4>3. CASE CtxKills(p, n)
        BY <2>5, <4>3 DEF CtxKills, CmdKill, TypeOK, ExecTypeOK, ChildState
      <4> QED
        BY <2>5, <4>1, <4>2, <4>3 DEF ChildStep, WatcherStep
    <3> QED
      BY <2>5, <3>1 DEF ChildStep, WatcherStep, TypeOK, procVars, monVars
  <2>6. CASE Cancel
    BY <2>6 DEF Cancel, TypeOK, ExecTypeOK, procVars, monVars
  <2>7. CASE UNCHANGED vars
    BY <2>7 DEF vars, TypeOK, ExecTypeOK, execVars, procVars, monVars
  <2> QED
    BY <2>1, <2>2, <2>3, <2>4, <2>5, <2>6, <2>7 DEF Next
<1> QED
  BY InitTyped, <1>1, PTL DEF Spec

-----------------------------------------------------------------------------
(* The lock discipline.  With TypeOK, the two properties are inductive     *)
(* together: StartProcess and the monitor change State only when the lock  *)
(* is free, hence never while it is "stopping".                            *)

LockInv == StoppingIsLocked /\ SignalsGoToNewest

\* The variables the lock discipline speaks of.
lockVars == <<state, cmd, launched, stop>>

LEMMA StartKeepsLockInv ==
  ASSUME TypeOK, LockInv, NEW p \in Proc, NEW phases, StartProcess(p, phases)
  PROVE  LockInv'
<1> USE DEF LockInv, StoppingIsLocked, SignalsGoToNewest, Unlocked, TypeOK
<1>1. CASE AlreadyRunning(p, phases)
  BY <1>1 DEF StartProcess, AlreadyRunning
<1>2. CASE Launch(p, phases)
  <2>1. /\ state' = [state EXCEPT ![p] = "running"]
        /\ cmd' = [cmd EXCEPT ![p] = launched[p] + 1]
        /\ launched' = [launched EXCEPT ![p] = launched[p] + 1]
        /\ stop' = stop
        /\ stop[p] = "idle"
        /\ launched[p] \in Nat
    BY <1>2 DEF StartProcess, Launch
  <2> QED
    BY <2>1 DEF NoCmd
<1>3. CASE LaunchFails(p, phases)
  BY <1>3 DEF StartProcess, LaunchFails
<1> QED
  BY <1>1, <1>2, <1>3 DEF StartProcess

LEMMA MonitorKeepsLockInv ==
  ASSUME TypeOK, LockInv, NEW p \in Proc, NEW n \in CmdId, Monitor(p, n)
  PROVE  LockInv'
<1>1. CASE MonitorExit(p, n)
  BY <1>1 DEF MonitorExit, StateAfterExit, LockInv, StoppingIsLocked, SignalsGoToNewest,
              Unlocked, TypeOK
<1>2. CASE MonitorRestart(p, n)
  BY <1>2, StartKeepsLockInv DEF MonitorRestart
<1>3. CASE UNCHANGED lockVars
  BY <1>3 DEF lockVars, LockInv, StoppingIsLocked, SignalsGoToNewest, Unlocked
<1> QED
  BY <1>1, <1>2, <1>3 DEF Monitor, MonitorBegin, MonitorWaitCall, MonitorReaps,
     MonitorTakesCtx, MonitorDrains, procVars, lockVars

LEMMA StopKeepsLockInv ==
  ASSUME TypeOK, LockInv, NEW p \in Proc, StopProcess(p) \/ StopContinues(p)
  PROVE  LockInv'
<1> USE DEF LockInv, StoppingIsLocked, SignalsGoToNewest, Unlocked, TypeOK, StopGoes
<1>1. CASE StopBegin(p)
  BY <1>1 DEF StopBegin
<1>2. CASE StopEnd(p)
  BY <1>2 DEF StopEnd
<1>3. CASE UNCHANGED <<state, cmd, launched>> /\ \E phase \in WaitPhase :
             stop[p] # "idle" /\ stop' = [stop EXCEPT ![p] = phase]
  BY <1>3 DEF WaitPhase
<1>4. CASE UNCHANGED lockVars
  BY <1>4 DEF lockVars
<1> QED
  BY <1>1, <1>2, <1>3, <1>4 DEF StopProcess, StopContinues, StopIgnored, StopWaitCall,
     StopReaps, StopTakesCtx, StopDrains, StopTimeout, WaitEntry, WaitPhase, procVars,
     vars, lockVars

\* State is "stopping" exactly while StopProcess holds process.mu, and a
\* process that runs or is being stopped has the command launched last.
THEOREM LockDiscipline == Spec => [](StoppingIsLocked /\ SignalsGoToNewest)
<1>1. Init => LockInv
  BY DEF Init, LockInv, StoppingIsLocked, SignalsGoToNewest, Unlocked
<1>2. TypeOK /\ LockInv /\ [Next]_vars => LockInv'
  <2> SUFFICES ASSUME TypeOK, LockInv, [Next]_vars
               PROVE  LockInv'
    OBVIOUS
  <2>1. ASSUME NEW p \in Proc, RequestStart(p)
        PROVE  LockInv'
    BY <2>1, StartKeepsLockInv DEF RequestStart
  <2>2. ASSUME NEW p \in Proc, StopProcess(p) \/ StopContinues(p)
        PROVE  LockInv'
    BY <2>2, StopKeepsLockInv
  <2>3. ASSUME NEW p \in Proc, NEW n \in CmdId, Monitor(p, n)
        PROVE  LockInv'
    BY <2>3, MonitorKeepsLockInv
  <2>4. CASE UNCHANGED lockVars
    BY <2>4 DEF lockVars, LockInv, StoppingIsLocked, SignalsGoToNewest, Unlocked
  <2> QED
    BY <2>1, <2>2, <2>3, <2>4 DEF Next, TrackFires, TrackCancelled, ChildStep, WatcherStep,
       Cancel, vars, procVars, lockVars
<1> QED
  BY <1>1, <1>2, Typing, PTL DEF Spec, LockInv

-----------------------------------------------------------------------------
(* The restart budgets.                                                    *)

LEMMA ExitKeepsBudget ==
  ASSUME TypeOK, WithinBudget, NEW p \in Proc, NEW n \in CmdId, MonitorExit(p, n)
  PROVE  WithinBudget'
<1> DEFINE c == config[p]
           restart == state[p] # "stopping" /\ ShouldRestart(p, monErr[p][n])
<1>1. /\ c \in Configs
      /\ c.startRetries \in Nat
      /\ c.maxRestarts \in Nat \cup {Infinite}
      /\ startupAttempts[p] \in Nat /\ runtimeRestarts[p] \in Nat
  BY ConfigsAssumption DEF TypeOK
<1>2. config' = config
  BY DEF MonitorExit
<1>3. CASE restart /\ ~startupComplete[p]
  <2>1. /\ startupAttempts' = [startupAttempts EXCEPT ![p] = startupAttempts[p] + 1]
        /\ runtimeRestarts' = runtimeRestarts
    BY <1>3 DEF MonitorExit
  <2>2. c.policy # "never" /\ startupAttempts[p] < c.startRetries
    BY <1>3 DEF ShouldRestart
  <2> QED
    BY <1>1, <1>2, <2>1, <2>2 DEF WithinBudget, TypeOK
<1>4. CASE restart /\ startupComplete[p]
  <2>1. /\ startupAttempts' = startupAttempts
        /\ runtimeRestarts' = [runtimeRestarts EXCEPT ![p] = runtimeRestarts[p] + 1]
    BY <1>4 DEF MonitorExit
  <2>2. c.policy # "never" /\ (c.maxRestarts # Infinite => runtimeRestarts[p] < c.maxRestarts)
    BY <1>4 DEF ShouldRestart
  <2> QED
    BY <1>1, <1>2, <2>1, <2>2 DEF WithinBudget, TypeOK, Infinite
<1>5. CASE ~restart
  BY <1>5 DEF MonitorExit, WithinBudget
<1> QED
  BY <1>3, <1>4, <1>5

\* No interleaving of monitors, trackers, stops and starts makes a process
\* exceed its startup retries or its maximal number of restarts.
THEOREM Budgets == Spec => []WithinBudget
<1>1. Init => WithinBudget
  <2> SUFFICES ASSUME Init, NEW p \in Proc
               PROVE  LET c == config[p]
                      IN  /\ startupAttempts[p] <= c.startRetries
                          /\ c.maxRestarts # Infinite => runtimeRestarts[p] <= c.maxRestarts
                          /\ c.policy = "never" =>
                               startupAttempts[p] + runtimeRestarts[p] = 0
    BY DEF WithinBudget
  <2>1. startupAttempts[p] = 0 /\ runtimeRestarts[p] = 0 /\ config[p] \in Configs
    BY DEF Init
  <2>2. config[p].startRetries \in Nat /\ config[p].maxRestarts \in Nat \cup {Infinite}
    BY <2>1, ConfigsAssumption
  <2> QED
    BY <2>1, <2>2
<1>2. TypeOK /\ WithinBudget /\ [Next]_vars => WithinBudget'
  <2> SUFFICES ASSUME TypeOK, WithinBudget, [Next]_vars
               PROVE  WithinBudget'
    OBVIOUS
  <2>1. ASSUME NEW p \in Proc, NEW n \in CmdId, MonitorExit(p, n)
        PROVE  WithinBudget'
    BY <2>1, ExitKeepsBudget
  <2>2. CASE UNCHANGED <<config, startupAttempts, runtimeRestarts>>
    BY <2>2 DEF WithinBudget
  <2>3. ASSUME NEW p \in Proc, StopProcess(p) \/ StopContinues(p)
        PROVE  UNCHANGED <<config, startupAttempts, runtimeRestarts>>
    BY <2>3 DEF StopProcess, StopContinues, StopBegin, StopIgnored, StopWaitCall, StopReaps,
       StopTakesCtx, StopDrains, StopTimeout, StopEnd, procVars, vars
  <2>4. ASSUME NEW p \in Proc, NEW n \in CmdId, Monitor(p, n), ~MonitorExit(p, n)
        PROVE  UNCHANGED <<config, startupAttempts, runtimeRestarts>>
    BY <2>4 DEF Monitor, MonitorBegin, MonitorWaitCall, MonitorReaps, MonitorTakesCtx,
       MonitorDrains, MonitorRestart, StartProcess, procVars
  <2> QED
    BY <2>1, <2>2, <2>3, <2>4 DEF Next, RequestStart, StartProcess, TrackFires,
       TrackCancelled, ChildStep, WatcherStep, Cancel, vars, procVars
<1> QED
  BY <1>1, <1>2, Typing, PTL DEF Spec

-----------------------------------------------------------------------------
(* Accounting for launches.                                                *)

LEMMA PendingFinite ==
  ASSUME NEW p \in Proc
  PROVE  /\ IsFiniteSet(Pending(p))
         /\ Cardinality(Pending(p)) \in Nat
<1>1. IsFiniteSet(CmdId)
  BY FS_Interval, MaxStartsAssumption DEF CmdId
<1> QED
  BY <1>1, FS_Subset, FS_CardinalityType DEF Pending

LEMMA PendingFiniteNext ==
  ASSUME NEW p \in Proc
  PROVE  /\ IsFiniteSet(Pending(p)')
         /\ Cardinality(Pending(p)') \in Nat
<1>1. IsFiniteSet(CmdId)
  BY FS_Interval, MaxStartsAssumption DEF CmdId
<1> QED
  BY <1>1, FS_Subset, FS_CardinalityType DEF Pending

\* The account of one process.
Balanced(p) ==
  launched[p] + Cardinality(Pending(p))
    <= requested[p] + startupAttempts[p] + runtimeRestarts[p]

\* A call of StartProcess launches at most one command, and it leaves no
\* monitor pending that was not pending among the phases it is given.
LEMMA StartTakesOne ==
  ASSUME TypeOK, NEW p \in Proc, NEW phases \in [CmdId -> MonPhase],
         StartProcess(p, phases)
  PROVE  /\ launched'[p] <= launched[p] + 1
         /\ Pending(p)' \subseteq {n \in CmdId : phases[n] = "restarting"}
<1>1. CASE AlreadyRunning(p, phases) \/ LaunchFails(p, phases)
  BY <1>1 DEF AlreadyRunning, LaunchFails, Pending, TypeOK
<1>2. CASE Launch(p, phases)
  <2>1. launched'[p] = launched[p] + 1
    BY <1>2 DEF Launch, TypeOK
  <2>2. mon'[p] = [phases EXCEPT ![launched[p] + 1] = "begin"]
    BY <1>2 DEF Launch, TypeOK
  <2> QED
    BY <2>1, <2>2 DEF Pending, TypeOK
<1> QED
  BY <1>1, <1>2 DEF StartProcess

\* The counters of p: what was asked for, charged and launched.
counters(p) == <<requested[p], startupAttempts[p], runtimeRestarts[p], launched[p]>>

LEMMA QuietStaysBalanced ==
  ASSUME TypeOK, TypeOK', NEW p \in Proc, Balanced(p), UNCHANGED counters(p),
         Pending(p)' \subseteq Pending(p)
  PROVE  Balanced(p)'
<1>1. Cardinality(Pending(p)') <= Cardinality(Pending(p))
  BY PendingFinite, FS_Subset
<1> QED
  BY <1>1, PendingFinite, PendingFiniteNext DEF counters, Balanced, TypeOK

\* Asking for a start pays for the launch.
LEMMA RequestStaysBalanced ==
  ASSUME TypeOK, TypeOK', NEW p \in Proc, Balanced(p), RequestStart(p)
  PROVE  Balanced(p)'
<1>1. launched'[p] <= launched[p] + 1 /\ Pending(p)' \subseteq Pending(p)
  <2>1. mon[p] \in [CmdId -> MonPhase] /\ StartProcess(p, mon[p])
    BY DEF RequestStart, TypeOK
  <2> QED
    BY <2>1, StartTakesOne DEF Pending
<1>2. Cardinality(Pending(p)') <= Cardinality(Pending(p))
  BY <1>1, PendingFinite, FS_Subset
<1>3. /\ requested'[p] = requested[p] + 1
      /\ startupAttempts' = startupAttempts
      /\ runtimeRestarts' = runtimeRestarts
  BY DEF RequestStart, StartProcess, TypeOK
<1> QED
  BY <1>1, <1>2, <1>3, PendingFinite, PendingFiniteNext DEF Balanced, TypeOK

\* A monitor that decides to restart pays for the restart it makes pending.
LEMMA ExitStaysBalanced ==
  ASSUME TypeOK, TypeOK', NEW p \in Proc, NEW n \in CmdId, Balanced(p), MonitorExit(p, n)
  PROVE  Balanced(p)'
<1> DEFINE restart == state[p] # "stopping" /\ ShouldRestart(p, monErr[p][n])
<1>1. launched' = launched /\ requested' = requested /\ mon[p][n] = "returned"
  BY DEF MonitorExit
<1>2. CASE restart
  <2>1. Pending(p)' = Pending(p) \cup {n}
    BY <1>2 DEF MonitorExit, MonitorGoes, Pending, TypeOK
  <2>2. Cardinality(Pending(p)') = Cardinality(Pending(p)) + 1
    BY <1>1, <2>1, PendingFinite, FS_AddElement DEF Pending
  <2>3. startupAttempts'[p] + runtimeRestarts'[p]
          = startupAttempts[p] + runtimeRestarts[p] + 1
    BY <1>2 DEF MonitorExit, TypeOK
  <2> QED
    BY <1>1, <2>2, <2>3, PendingFinite, PendingFiniteNext DEF Balanced, TypeOK
<1>3. CASE ~restart
  <2>1. UNCHANGED counters(p)
    BY <1>3 DEF MonitorExit, counters
  <2>2. Pending(p)' \subseteq Pending(p)
    BY <1>3 DEF MonitorExit, MonitorGoes, Pending, TypeOK
  <2> QED
    BY <2>1, <2>2, QuietStaysBalanced
<1> QED
  BY <1>2, <1>3

\* A pending restart is used up by the launch it was charged for.
LEMMA RestartStaysBalanced ==
  ASSUME TypeOK, TypeOK', NEW p \in Proc, NEW n \in CmdId, Balanced(p), MonitorRestart(p, n)
  PROVE  Balanced(p)'
<1> DEFINE phases == [mon[p] EXCEPT ![n] = "done"]
<1>1. phases \in [CmdId -> MonPhase] /\ StartProcess(p, phases)
  BY DEF MonitorRestart, TypeOK, MonPhase
<1>2. launched'[p] <= launched[p] + 1 /\ Pending(p)' \subseteq Pending(p) \ {n}
  <2>1. {k \in CmdId : phases[k] = "restarting"} \subseteq Pending(p) \ {n}
    BY DEF Pending, TypeOK
  <2> QED
    BY <1>1, <2>1, StartTakesOne
<1>3. n \in Pending(p)
  BY DEF MonitorRestart, Pending
<1>4. Cardinality(Pending(p)') <= Cardinality(Pending(p)) - 1
  <2>1. /\ IsFiniteSet(Pending(p) \ {n})
        /\ Cardinality(Pending(p) \ {n}) = Cardinality(Pending(p)) - 1
    BY <1>3, PendingFinite, FS_RemoveElement
  <2>2. Cardinality(Pending(p)') <= Cardinality(Pending(p) \ {n})
    BY <1>2, <2>1, FS_Subset
  <2> QED
    BY <2>1, <2>2
<1>5. requested' = requested /\ startupAttempts' = startupAttempts /\ runtimeRestarts' = runtimeRestarts
  BY DEF MonitorRestart, StartProcess
<1> QED
  BY <1>2, <1>4, <1>5, PendingFinite, PendingFiniteNext DEF Balanced, TypeOK

\* Every launch was asked for or charged to a budget, and so is every restart
\* that is still pending.
THEOREM Accounting == Spec => []LaunchesAccountedFor
<1>1. Init => LaunchesAccountedFor
  <2> SUFFICES ASSUME Init, NEW p \in Proc
               PROVE  launched[p] + Cardinality(Pending(p))
                        <= requested[p] + startupAttempts[p] + runtimeRestarts[p]
    BY DEF LaunchesAccountedFor
  <2>1. Pending(p) = {}
    BY DEF Init, Pending
  <2> QED
    BY <2>1, FS_EmptySet DEF Init
<1>2. TypeOK /\ TypeOK' /\ LaunchesAccountedFor /\ [Next]_vars => LaunchesAccountedFor'
  <2> SUFFICES ASSUME TypeOK, TypeOK', LaunchesAccountedFor, [Next]_vars, NEW q \in Proc
               PROVE  Balanced(q)'
    BY DEF LaunchesAccountedFor, Balanced
  <2>1. Balanced(q)
    BY DEF LaunchesAccountedFor, Balanced
  <2>2. CASE UNCHANGED counters(q) /\ Pending(q)' \subseteq Pending(q)
    BY <2>1, <2>2, QuietStaysBalanced
  <2>3. ASSUME NEW p \in Proc, RequestStart(p)
        PROVE  Balanced(q)'
    <3>1. CASE p # q
      BY <2>2, <2>3, <3>1 DEF RequestStart, StartProcess, AlreadyRunning, Launch, LaunchFails,
         counters, Pending, TypeOK
    <3> QED
      BY <2>1, <2>3, <3>1, RequestStaysBalanced
  <2>4. ASSUME NEW p \in Proc, NEW n \in CmdId, MonitorExit(p, n)
        PROVE  Balanced(q)'
    <3>1. CASE p # q
      BY <2>2, <2>4, <3>1 DEF MonitorExit, MonitorGoes, counters, Pending, TypeOK
    <3> QED
      BY <2>1, <2>4, <3>1, ExitStaysBalanced
  <2>5. ASSUME NEW p \in Proc, NEW n \in CmdId, MonitorRestart(p, n)
        PROVE  Balanced(q)'
    <3>1. CASE p # q
      BY <2>2, <2>5, <3>1 DEF MonitorRestart, StartProcess, AlreadyRunning, Launch, LaunchFails,
         counters, Pending, TypeOK
    <3> QED
      BY <2>1, <2>5, <3>1, RestartStaysBalanced
  <2>6. ASSUME NEW p \in Proc, NEW n \in CmdId,
               Monitor(p, n), ~MonitorExit(p, n), ~MonitorRestart(p, n)
        PROVE  Balanced(q)'
    <3>1. UNCHANGED procVars
      BY <2>6 DEF Monitor, MonitorBegin, MonitorWaitCall, MonitorReaps, MonitorTakesCtx,
         MonitorDrains
    <3>2. \E phase \in MonPhase \ {"restarting"} : MonitorGoes(p, n, phase)
      BY <2>6 DEF Monitor, MonitorBegin, MonitorWaitCall, MonitorReaps, MonitorTakesCtx,
         MonitorDrains, WaitEntry, MonPhase, WaitPhase
    <3>3. Pending(q)' \subseteq Pending(q)
      BY <3>2 DEF MonitorGoes, Pending, TypeOK
    <3> QED
      BY <2>2, <3>1, <3>3 DEF procVars, counters
  <2>7. ASSUME NEW p \in Proc, StopProcess(p) \/ StopContinues(p)
        PROVE  Balanced(q)'
    BY <2>2, <2>7 DEF StopProcess, StopContinues, StopBegin, StopIgnored, StopWaitCall,
       StopReaps, StopTakesCtx, StopDrains, StopTimeout, StopEnd, procVars, monVars, vars,
       counters, Pending
  <2>8. CASE UNCHANGED <<launched, requested, startupAttempts, runtimeRestarts, mon>>
    BY <2>2, <2>8 DEF counters, Pending
  <2> QED
    BY <2>3, <2>4, <2>5, <2>6, <2>7, <2>8 DEF Next, TrackFires, TrackCancelled, ChildStep,
       WatcherStep, Cancel, vars, procVars, monVars
<1> QED
  BY <1>1, <1>2, Typing, PTL DEF Spec

-----------------------------------------------------------------------------
(* What the calls of Wait guarantee.                                       *)

\* c.ProcessState is only set once the child has been reaped, and a waiter of
\* StopProcess that is past wait4 has nothing left to wait for: one of the
\* two callers of Wait has reaped the child.
ReapInv ==
  \A p \in Proc :
    /\ \A n \in CmdId : procState[p][n] => child[p][n] = "reaped"
    /\ \A n \in CmdId : n > launched[p] => child[p][n] = "unborn"
    /\ stop[p] \in {"ctx", "drain", "returned"} => child[p][cmd[p]] = "reaped"

\* A step of the commands that neither launches nor un-reaps one.
Harmless ==
  \A p \in Proc, n \in CmdId :
    /\ procState'[p][n] => child'[p][n] = "reaped"
    /\ child[p][n] \in {"unborn", "reaped"} => child'[p][n] = child[p][n]

LEMMA WaitReapHarmless ==
  ASSUME TypeOK, ReapInv, NEW p \in Proc, NEW n \in CmdId \cup {NoCmd}, WaitReap(p, n)
  PROVE  Harmless
<1>1. CASE n \in CmdId
  <2>1. child' = [child EXCEPT ![p][n] = "reaped"]
    BY DEF WaitReap
  <2>2. child[p][n] # "unborn"
    BY DEF WaitReap, Zombie
  <2>3. \A q \in Proc, m \in CmdId : (q # p \/ m # n) => procState'[q][m] = procState[q][m]
    BY DEF WaitReap, TypeOK, ExecTypeOK
  <2>4. \A q \in Proc, m \in CmdId : (q # p \/ m # n) => child'[q][m] = child[q][m]
    BY <2>1 DEF TypeOK, ExecTypeOK
  <2>5. child'[p][n] = "reaped"
    BY <1>1, <2>1 DEF TypeOK, ExecTypeOK
  <2> QED
    BY <2>2, <2>3, <2>4, <2>5 DEF Harmless, ReapInv
<1>2. CASE n \notin CmdId
  <2>1. child' = child
    BY <1>2 DEF WaitReap, TypeOK, ExecTypeOK
  <2>2. \A q \in Proc, m \in CmdId : procState'[q][m] = procState[q][m]
    BY <1>2 DEF WaitReap, TypeOK, ExecTypeOK
  <2> QED
    BY <2>1, <2>2 DEF Harmless, ReapInv
<1> QED
  BY <1>1, <1>2

LEMMA UnchangedHarmless ==
  ASSUME ReapInv, UNCHANGED <<child, procState>>
  PROVE  Harmless
BY DEF ReapInv, Harmless

LEMMA EnvironmentHarmless ==
  ASSUME TypeOK, ReapInv, NEW p \in Proc, NEW n \in CmdId \cup {NoCmd},
         ChildExits(p, n) \/ PipeCloses(p, n) \/ CmdKill(p, n)
  PROVE  Harmless
<1>1. CASE ChildExits(p, n)
  <2>1. procState' = procState
    BY <1>1 DEF ChildExits
  <2>2. child[p][n] \in {"running", "killed"}
    BY <1>1 DEF ChildExits, Live
  <2>3. \E x \in ChildState : child' = [child EXCEPT ![p][n] = x]
    BY <1>1 DEF ChildExits, ChildState
  <2> QED
    BY <2>1, <2>2, <2>3 DEF Harmless, ReapInv, TypeOK, ExecTypeOK
<1>2. CASE PipeCloses(p, n)
  BY <1>2, UnchangedHarmless DEF PipeCloses
<1>3. CASE CmdKill(p, n)
  BY <1>3 DEF CmdKill, Harmless, ReapInv, TypeOK, ExecTypeOK
<1> QED
  BY <1>1, <1>2, <1>3

\* A harmless step keeps the invariant unless it moves the waiter, and moves
\* it only forward past a reaped child.
LEMMA HarmlessKeepsReapInv ==
  ASSUME TypeOK, ReapInv, LockInv, Harmless, UNCHANGED <<cmd, launched>>,
         \A p \in Proc : \/ stop'[p] = stop[p]
                        \/ stop'[p] \notin {"ctx", "drain", "returned"}
                        \/ child'[p][cmd[p]] = "reaped"
  PROVE  ReapInv'
<1> SUFFICES ASSUME NEW p \in Proc,
                    stop'[p] \in {"ctx", "drain", "returned"}
             PROVE  child'[p][cmd[p]] = "reaped"
  BY DEF Harmless, ReapInv
<1>1. CASE stop'[p] = stop[p]
  <2>1. cmd[p] \in CmdId
    BY <1>1 DEF LockInv, StoppingIsLocked, SignalsGoToNewest, Unlocked, TypeOK
  <2> QED
    BY <1>1, <2>1 DEF ReapInv, Harmless
<1> QED
  BY <1>1

LEMMA StartKeepsReapInv ==
  ASSUME TypeOK, ReapInv, LockInv, NEW p \in Proc, NEW phases, StartProcess(p, phases)
  PROVE  ReapInv'
<1>1. CASE UNCHANGED <<child, procState, cmd, launched>>
  BY <1>1, UnchangedHarmless, HarmlessKeepsReapInv DEF StartProcess
<1>2. CASE Launch(p, phases)
  <2> DEFINE n == launched[p] + 1
  <2>1. /\ n \in CmdId
        /\ child' = [child EXCEPT ![p][n] = "running"]
        /\ launched' = [launched EXCEPT ![p] = n]
        /\ cmd' = [cmd EXCEPT ![p] = n]
        /\ UNCHANGED <<procState, stop>>
        /\ stop[p] = "idle"
    BY <1>2, MaxStartsAssumption DEF StartProcess, Launch, CmdStart, Unlocked, TypeOK, CmdId
  <2>2. child[p][n] = "unborn" /\ ~procState[p][n]
    BY <2>1 DEF ReapInv, TypeOK, CmdId
  <2> QED
    BY <2>1, <2>2 DEF ReapInv, TypeOK, ExecTypeOK, CmdId
<1> QED
  BY <1>1, <1>2 DEF StartProcess, AlreadyRunning, LaunchFails, execVars

LEMMA MonitorKeepsReapInv ==
  ASSUME TypeOK, ReapInv, LockInv, NEW p \in Proc, NEW n \in CmdId, Monitor(p, n)
  PROVE  ReapInv'
<1>1. CASE MonitorRestart(p, n)
  BY <1>1, StartKeepsReapInv DEF MonitorRestart
<1>2. CASE MonitorReaps(p, n)
  <2>1. Harmless
    BY <1>2, WaitReapHarmless DEF MonitorReaps, TypeOK
  <2> QED
    BY <1>2, <2>1, HarmlessKeepsReapInv DEF MonitorReaps, procVars
<1>3. CASE UNCHANGED <<child, procState, cmd, launched, stop>>
  BY <1>3, UnchangedHarmless, HarmlessKeepsReapInv
<1> QED
  BY <1>1, <1>2, <1>3 DEF Monitor, MonitorBegin, MonitorWaitCall, MonitorTakesCtx,
     MonitorDrains, MonitorExit, WaitCtx, WaitDrain, execVars, procVars

LEMMA StopKeepsReapInv ==
  ASSUME TypeOK, ReapInv, LockInv, NEW p \in Proc, StopProcess(p) \/ StopContinues(p)
  PROVE  ReapInv'
<1> USE DEF StopGoes, procVars, execVars
<1>1. ~Unlocked(p) => cmd[p] \in CmdId
  BY DEF LockInv, StoppingIsLocked, SignalsGoToNewest, TypeOK
<1>2. CASE StopReaps(p)
  <2>1. Harmless
    BY <1>2, WaitReapHarmless DEF StopReaps, TypeOK
  <2>2. child'[p][cmd[p]] = "reaped"
    BY <1>1, <1>2 DEF StopReaps, WaitReap, Unlocked, TypeOK, ExecTypeOK
  <2> QED
    BY <1>2, <2>1, <2>2, HarmlessKeepsReapInv DEF StopReaps, TypeOK
<1>3. CASE StopTimeout(p)
  <2>1. Harmless
    BY <1>3, EnvironmentHarmless DEF StopTimeout, TypeOK
  <2> QED
    BY <1>3, <2>1, HarmlessKeepsReapInv DEF StopTimeout
<1>4. CASE StopWaitCall(p)
  <2>1. procState[p][cmd[p]] => child'[p][cmd[p]] = "reaped"
    BY <1>1, <1>4 DEF StopWaitCall, Unlocked, ReapInv
  <2>2. \/ stop' = [stop EXCEPT ![p] = "wait"]
        \/ child'[p][cmd[p]] = "reaped" /\ stop' = [stop EXCEPT ![p] = "returned"]
    BY <1>4, <2>1 DEF StopWaitCall, WaitEntry
  <2> QED
    BY <1>4, <2>2, UnchangedHarmless, HarmlessKeepsReapInv DEF StopWaitCall, TypeOK
<1>5. CASE StopTakesCtx(p) \/ StopDrains(p)
  <2>1. child'[p][cmd[p]] = "reaped"
    BY <1>5 DEF StopTakesCtx, StopDrains, WaitCtx, WaitDrain, ReapInv
  <2>2. UNCHANGED <<child, procState, cmd, launched>>
    BY <1>5 DEF StopTakesCtx, StopDrains, WaitCtx, WaitDrain
  <2>3. \A q \in Proc : q # p => stop'[q] = stop[q]
    BY <1>5 DEF StopTakesCtx, StopDrains, TypeOK
  <2> QED
    BY <2>1, <2>2, <2>3, UnchangedHarmless, HarmlessKeepsReapInv
<1>6. CASE StopBegin(p) \/ StopIgnored(p)
  BY <1>6, UnchangedHarmless, HarmlessKeepsReapInv DEF StopBegin, StopIgnored, vars, TypeOK
<1>7. CASE StopEnd(p)
  BY <1>7 DEF StopEnd, ReapInv, TypeOK
<1> QED
  BY <1>2, <1>3, <1>4, <1>5, <1>6, <1>7 DEF StopProcess, StopContinues

LEMMA ReapInvariant == Spec => []ReapInv
<1>1. Init => ReapInv
  <2> SUFFICES ASSUME Init, NEW p \in Proc
               PROVE  /\ \A n \in CmdId : ~procState[p][n] /\ child[p][n] = "unborn"
                      /\ stop[p] = "idle"
    BY DEF ReapInv
  <2> QED
    BY DEF Init, ExecInit
<1>2. TypeOK /\ LockInv /\ ReapInv /\ [Next]_vars => ReapInv'
  <2> SUFFICES ASSUME TypeOK, LockInv, ReapInv, [Next]_vars
               PROVE  ReapInv'
    OBVIOUS
  <2>1. ASSUME NEW p \in Proc, RequestStart(p)
        PROVE  ReapInv'
    BY <2>1, StartKeepsReapInv DEF RequestStart
  <2>2. ASSUME NEW p \in Proc, StopProcess(p) \/ StopContinues(p)
        PROVE  ReapInv'
    BY <2>2, StopKeepsReapInv
  <2>3. ASSUME NEW p \in Proc, NEW n \in CmdId, Monitor(p, n)
        PROVE  ReapInv'
    BY <2>3, MonitorKeepsReapInv
  <2>4. ASSUME NEW p \in Proc, NEW n \in CmdId, ChildStep(p, n) \/ WatcherStep(p, n)
        PROVE  ReapInv'
    <3>1. Harmless
      BY <2>4, EnvironmentHarmless DEF ChildStep, WatcherStep, CtxKills
    <3> QED
      BY <2>4, <3>1, HarmlessKeepsReapInv DEF ChildStep, WatcherStep, procVars
  <2>5. CASE UNCHANGED <<child, procState, cmd, launched, stop>>
    BY <2>5, UnchangedHarmless, HarmlessKeepsReapInv
  <2> QED
    BY <2>1, <2>2, <2>3, <2>4, <2>5 DEF Next, TrackFires, TrackCancelled, Cancel, vars,
       execVars, procVars
<1> QED
  BY <1>1, <1>2, Typing, LockDiscipline, PTL DEF Spec, LockInv

\* StopProcess returns only when the child it was asked to stop has been
\* reaped, whoever of the two callers of Wait did it.
THEOREM StopComplete == Spec => StopReapsChild
<1>1. TypeOK /\ LockInv /\ ReapInv /\ [Next]_vars
        => [\A p \in Proc :
              ~Unlocked(p) /\ Unlocked(p)' => child[p][cmd[p]] = "reaped"]_vars
  <2> SUFFICES ASSUME TypeOK, LockInv, ReapInv, [Next]_vars, NEW p \in Proc,
                      ~Unlocked(p), Unlocked(p)'
               PROVE  child[p][cmd[p]] = "reaped"
    OBVIOUS
  <2>1. \E q \in Proc : StopEnd(q)
    <3>1. ASSUME NEW q \in Proc, StopProcess(q) \/ StopContinues(q), ~StopEnd(q)
          PROVE  ~Unlocked(p)'
      <4>1. \/ stop' = stop
            \/ \E phase \in WaitPhase : stop' = [stop EXCEPT ![q] = phase]
        BY <3>1 DEF StopProcess, StopBegin, StopIgnored, StopContinues, StopWaitCall,
           StopReaps, StopTakesCtx, StopDrains, StopTimeout, StopGoes, WaitEntry,
           WaitPhase, vars
      <4> QED
        BY <4>1 DEF Unlocked, WaitPhase, TypeOK
    <3>2. ASSUME NEW q \in Proc, NEW n \in CmdId, Monitor(q, n)
          PROVE  ~Unlocked(p)'
      BY <3>2 DEF Monitor, MonitorBegin, MonitorWaitCall, MonitorReaps, MonitorTakesCtx,
         MonitorDrains, MonitorExit, MonitorRestart, StartProcess, Unlocked
    <3> QED
      BY <3>1, <3>2 DEF Next, RequestStart, StartProcess, TrackFires, TrackCancelled,
         ChildStep, WatcherStep, Cancel, Unlocked, vars
  <2>2. StopEnd(p)
    BY <2>1, ZenonT(40) DEF StopEnd, StopGoes, Unlocked, TypeOK
  <2> QED
    BY <2>2 DEF StopEnd, ReapInv
<1> QED
  BY <1>1, Typing, LockDiscipline, ReapInvariant, PTL DEF Spec, LockInv, StopReapsChild

-----------------------------------------------------------------------------
(* One live child.                                                         *)

\* A process started from outside once has its monitors one after another:
\* those of earlier commands are done and their children are gone, and the
\* last one moves past its wait only when its own child is gone.
Chain(p) ==
  LET last == launched[p]
  IN  /\ cmd[p] \in {NoCmd, last}
      /\ requested[p] = 0 => last = 0
      /\ \A n \in CmdId : n > last => mon[p][n] = "none" /\ child[p][n] = "unborn"
      /\ \A n \in CmdId : n < last => mon[p][n] = "done" /\ ~Live(p, n)
      /\ last # 0 =>
           /\ mon[p][last] \in WaitPhase => monCmd[p][last] = last
           /\ mon[p][last] \in {"ctx", "drain", "returned", "restarting", "done"}
                => ~Live(p, last)
           /\ cmd[p] = NoCmd => ~Live(p, last)
           /\ mon[p][last] \in {"restarting", "done"} => state[p] # "running"

ChainInv == \A p \in Proc : requested[p] <= 1 => Chain(p)

\* What Chain(p) speaks of, the children apart.
chainVars(p) == <<launched[p], cmd[p], requested[p], mon[p], monCmd[p], state[p]>>

\* Children may end and be reaped at any time.
LEMMA EndingKeepsChain ==
  ASSUME TypeOK, NEW p \in Proc, Chain(p), UNCHANGED chainVars(p),
         \A n \in CmdId : /\ Live(p, n)' => Live(p, n)
                          /\ child[p][n] = "unborn" => child'[p][n] = "unborn"
  PROVE  Chain(p)'
<1>1. launched[p] # 0 => launched[p] \in CmdId
  BY DEF TypeOK, CmdId
<1> QED
  BY <1>1 DEF Chain, chainVars

LEMMA StartKeepsChain ==
  ASSUME TypeOK, LockInv, NEW p \in Proc, NEW phases \in [CmdId -> MonPhase],
         StartProcess(p, phases), requested'[p] # 0,
         \A n \in CmdId : n > launched[p] => phases[n] = "none" /\ child[p][n] = "unborn",
         \A n \in CmdId : n <= launched[p] => phases[n] = "done" /\ ~Live(p, n),
         cmd[p] \in {NoCmd, launched[p]}, state[p] # "running"
  PROVE  Chain(p)'
<1>1. CASE LaunchFails(p, phases)
  <2>1. /\ UNCHANGED <<child, cmd, launched, monCmd>>
        /\ mon'[p] = phases
        /\ state'[p] = "failed"
    BY <1>1 DEF StartProcess, LaunchFails, execVars, TypeOK
  <2>2. launched[p] # 0 => launched[p] \in CmdId
    BY DEF TypeOK, CmdId
  <2>3. launched[p] \in Nat
    BY DEF TypeOK
  <2> QED
    BY <2>1, <2>2, <2>3 DEF Chain, Live, WaitPhase, CmdId
<1>2. CASE Launch(p, phases)
  <2> DEFINE last == launched[p] + 1
  <2>1. /\ last \in CmdId
        /\ launched'[p] = last
        /\ cmd'[p] = last
        /\ mon'[p] = [phases EXCEPT ![last] = "begin"]
        /\ child'[p] = [child[p] EXCEPT ![last] = "running"]
    BY <1>2, MaxStartsAssumption
       DEF Launch, CmdStart, TypeOK, ExecTypeOK, CmdId
  <2>2. \A n \in CmdId : n # last => mon'[p][n] = phases[n] /\ child'[p][n] = child[p][n]
    BY <2>1 DEF TypeOK, ExecTypeOK
  <2>3. mon'[p][last] = "begin"
    BY <2>1
  <2>4. launched[p] \in Nat
    BY DEF TypeOK
  <2> QED
    BY <2>1, <2>2, <2>3, <2>4 DEF Chain, Live, WaitPhase, CmdId, NoCmd
<1> QED
  BY <1>1, <1>2 DEF StartProcess, AlreadyRunning

\* The first start: nothing has happened to the process before.
LEMMA RequestKeepsChain ==
  ASSUME TypeOK, LockInv, NEW p \in Proc, RequestStart(p), Chain(p), requested'[p] <= 1
  PROVE  Chain(p)'
<1>1. requested[p] = 0 /\ requested'[p] = 1
  <2>1. requested[p] \in Nat
    BY MaxRequestsAssumption DEF TypeOK
  <2>2. requested'[p] = requested[p] + 1
    BY DEF RequestStart, TypeOK
  <2> QED
    BY <2>1, <2>2
<1>2. launched[p] = 0 /\ state[p] # "running"
  BY <1>1 DEF Chain, LockInv, SignalsGoToNewest, NoCmd
<1>3. /\ mon[p] \in [CmdId -> MonPhase]
      /\ StartProcess(p, mon[p])
      /\ \A n \in CmdId : mon[p][n] = "none" /\ child[p][n] = "unborn" /\ n > launched[p]
      /\ cmd[p] \in {NoCmd, launched[p]}
  BY <1>2, MaxStartsAssumption DEF Chain, RequestStart, TypeOK, CmdId
<1>4. \A n \in CmdId : n <= launched[p] => FALSE
  BY <1>2 DEF CmdId
<1> QED
  BY <1>1, <1>2, <1>3, <1>4, StartKeepsChain

LEMMA MonitorKeepsChain ==
  ASSUME TypeOK, LockInv, ReapInv, NEW p \in Proc, NEW n \in CmdId, Monitor(p, n), Chain(p)
  PROVE  Chain(p)'
<1> DEFINE last == launched[p]
<1>1. mon[p][n] \notin {"none", "done"}
  BY DEF Monitor, MonitorBegin, MonitorWaitCall, MonitorReaps, MonitorTakesCtx,
     MonitorDrains, MonitorExit, MonitorRestart
<1>2. n = last /\ last # 0 /\ last \in CmdId
  <2>1. n \in Int /\ n >= 1 /\ last \in Nat
    BY MaxStartsAssumption DEF CmdId, TypeOK
  <2>2. ~(n > last) /\ ~(n < last)
    BY <1>1 DEF Chain
  <2> QED
    BY <2>1, <2>2
<1>3. requested[p] # 0
  BY <1>2 DEF Chain
\* The steps that leave the children alone and move monitor n to a phase
\* whose conditions hold.
<1>4. ASSUME NEW phase \in MonPhase \ {"none"}, MonitorGoes(p, n, phase),
             UNCHANGED <<launched, cmd, requested>>,
             \A m \in CmdId : /\ Live(p, m)' => Live(p, m)
                              /\ child[p][m] = "unborn" => child'[p][m] = "unborn",
             phase \in WaitPhase => monCmd'[p][n] = n,
             phase \in {"ctx", "drain", "returned", "restarting", "done"} => ~Live(p, n)',
             phase \in {"restarting", "done"} => state'[p] # "running"
      PROVE  Chain(p)'
  <2>1. /\ mon'[p][n] = phase
        /\ \A m \in CmdId : m # n => mon'[p][m] = mon[p][m]
    BY <1>4 DEF MonitorGoes, TypeOK
  <2> QED
    BY <1>2, <1>4, <2>1 DEF Chain
<1>5. CASE MonitorBegin(p, n)
  <2>1. CASE cmd[p] = NoCmd
    <3>1. ~Live(p, n) /\ state[p] # "running" /\ MonitorGoes(p, n, "done")
      BY <1>2, <1>5, <2>1 DEF MonitorBegin, Chain, LockInv, SignalsGoToNewest
    <3> QED
      BY <1>4, <1>5, <3>1 DEF MonitorBegin, execVars, procVars, Live, MonPhase, WaitPhase
  <2>2. CASE cmd[p] # NoCmd
    <3>1. monCmd'[p][n] = n /\ MonitorGoes(p, n, "call")
      BY <1>2, <1>5, <2>2 DEF MonitorBegin, Chain, TypeOK
    <3> QED
      BY <1>4, <1>5, <3>1 DEF MonitorBegin, execVars, procVars, Live, MonPhase, WaitPhase
  <2> QED
    BY <2>1, <2>2
<1>6. CASE MonitorWaitCall(p, n)
  <2>1. monCmd[p][n] = n
    BY <1>2, <1>6 DEF MonitorWaitCall, Chain, WaitPhase
  <2>2. CASE procState[p][n]
    <3>1. MonitorGoes(p, n, "returned") /\ ~Live(p, n)
      BY <1>6, <2>1, <2>2 DEF MonitorWaitCall, WaitEntry, ReapInv, Live
    <3> QED
      BY <1>4, <1>6, <2>1, <3>1 DEF MonitorWaitCall, execVars, procVars, Live, MonPhase, WaitPhase
  <2>3. CASE ~procState[p][n]
    <3>1. MonitorGoes(p, n, "wait")
      BY <1>6, <2>1, <2>3 DEF MonitorWaitCall, WaitEntry
    <3> QED
      BY <1>4, <1>6, <2>1, <3>1 DEF MonitorWaitCall, execVars, procVars, Live, MonPhase, WaitPhase
  <2> QED
    BY <2>2, <2>3
<1>7. CASE MonitorReaps(p, n)
  <2>1. monCmd[p][n] = n
    BY <1>2, <1>7 DEF MonitorReaps, Chain, WaitPhase
  <2>2. child' = [child EXCEPT ![p][n] = "reaped"] /\ child[p][n] # "unborn"
    BY <1>7, <2>1 DEF MonitorReaps, WaitReap, Zombie
  <2>3. \A m \in CmdId : /\ m # n => child'[p][m] = child[p][m]
                         /\ child'[p][n] = "reaped"
    BY <2>2 DEF TypeOK, ExecTypeOK
  <2>4. MonitorGoes(p, n, "ctx") /\ UNCHANGED <<launched, cmd, requested, monCmd>>
    BY <1>7 DEF MonitorReaps, procVars
  <2> QED
    BY <1>4, <2>1, <2>2, <2>3, <2>4 DEF Live, MonPhase, WaitPhase
<1>8. CASE MonitorTakesCtx(p, n) \/ MonitorDrains(p, n)
  <2>1. mon[p][n] \in {"ctx", "drain"}
    BY <1>8 DEF MonitorTakesCtx, MonitorDrains
  <2>2. monCmd[p][n] = n /\ ~Live(p, n)
    BY <1>2, <2>1 DEF Chain, WaitPhase
  <2>3. /\ UNCHANGED <<child, launched, cmd, requested, monCmd>>
        /\ MonitorGoes(p, n, "drain") \/ MonitorGoes(p, n, "returned")
    BY <1>8 DEF MonitorTakesCtx, MonitorDrains, WaitCtx, WaitDrain, execVars, procVars
  <2> QED
    BY <1>4, <2>2, <2>3 DEF Live, MonPhase, WaitPhase
<1>9. CASE MonitorExit(p, n)
  <2>1. ~Live(p, n)
    BY <1>2, <1>9 DEF MonitorExit, Chain
  <2>2. state'[p] # "running"
    BY <1>9 DEF MonitorExit, StateAfterExit, TypeOK
  <2>3. /\ UNCHANGED <<child, launched, cmd, requested, monCmd>>
        /\ MonitorGoes(p, n, "restarting") \/ MonitorGoes(p, n, "done")
    BY <1>9 DEF MonitorExit, execVars
  <2> QED
    BY <1>4, <2>1, <2>2, <2>3 DEF Live, MonPhase, WaitPhase
<1>10. CASE MonitorRestart(p, n)
  <2> DEFINE phases == [mon[p] EXCEPT ![n] = "done"]
  <2>1. /\ phases \in [CmdId -> MonPhase]
        /\ StartProcess(p, phases)
        /\ requested'[p] # 0
    BY <1>3, <1>10 DEF MonitorRestart, TypeOK, MonPhase
  <2>2. ~Live(p, n) /\ state[p] # "running"
    BY <1>2, <1>10 DEF MonitorRestart, Chain
  <2>3. \A m \in CmdId : m > last => phases[m] = "none" /\ child[p][m] = "unborn"
    BY <1>2 DEF Chain, TypeOK, CmdId
  <2>4. \A m \in CmdId : m <= last => phases[m] = "done" /\ ~Live(p, m)
    <3>1. ASSUME NEW m \in CmdId, m <= last, m # last
          PROVE  m < last
      BY <3>1, <1>2, MaxStartsAssumption DEF CmdId
    <3>2. \A m \in CmdId : m < last => mon[p][m] = "done" /\ ~Live(p, m)
      BY DEF Chain
    <3>3. phases[n] = "done" /\ \A m \in CmdId : m # n => phases[m] = mon[p][m]
      BY DEF TypeOK
    <3> HIDE DEF phases
    <3> QED
      BY <1>2, <2>2, <3>1, <3>2, <3>3
  <2>5. cmd[p] \in {NoCmd, last}
    BY DEF Chain
  <2> HIDE DEF phases
  <2> QED
    BY <2>1, <2>2, <2>3, <2>4, <2>5, StartKeepsChain
<1> QED
  BY <1>5, <1>6, <1>7, <1>8, <1>9, <1>10 DEF Monitor

LEMMA StopKeepsChain ==
  ASSUME TypeOK, LockInv, ReapInv, NEW p \in Proc, StopProcess(p) \/ StopContinues(p),
         Chain(p)
  PROVE  Chain(p)'
<1>1. CASE StopBegin(p)
  <2>1. /\ UNCHANGED <<child, launched, cmd, requested, mon, monCmd>>
        /\ state[p] = "running" /\ state'[p] = "stopping"
    BY <1>1 DEF StopBegin, execVars, monVars, TypeOK
  <2> QED
    BY <2>1 DEF Chain, Live
<1>2. CASE StopEnd(p)
  <2>1. /\ UNCHANGED <<child, launched, requested, mon, monCmd>>
        /\ state'[p] = "stopped" /\ cmd'[p] = NoCmd
    BY <1>2 DEF StopEnd, execVars, monVars, TypeOK
  <2>2. cmd[p] = launched[p] /\ child[p][cmd[p]] = "reaped"
    BY <1>2 DEF StopEnd, ReapInv, LockInv, StoppingIsLocked, SignalsGoToNewest, Unlocked
  <2> QED
    BY <2>1, <2>2 DEF Chain, Live
<1>3. CASE StopReaps(p)
  <2>1. UNCHANGED chainVars(p)
    BY <1>3 DEF StopReaps, procVars, monVars, chainVars
  <2>2. child' = [child EXCEPT ![p][cmd[p]] = "reaped"] /\ child[p][cmd[p]] # "unborn"
    BY <1>3 DEF StopReaps, WaitReap, Zombie
  <2> QED
    BY <2>1, <2>2, EndingKeepsChain DEF Live, TypeOK, ExecTypeOK
<1>4. CASE StopTimeout(p)
  <2>1. UNCHANGED chainVars(p)
    BY <1>4 DEF StopTimeout, procVars, monVars, chainVars
  <2>2. child' = [child EXCEPT ![p][cmd[p]] = "killed"] /\ child[p][cmd[p]] = "running"
    BY <1>4 DEF StopTimeout, CmdKill
  <2> QED
    BY <2>1, <2>2, EndingKeepsChain DEF Live, TypeOK, ExecTypeOK
<1>5. CASE UNCHANGED <<child, procVars, monVars>>
  BY <1>5, EndingKeepsChain DEF procVars, monVars, chainVars, Live
<1> QED
  BY <1>1, <1>2, <1>3, <1>4, <1>5 DEF StopProcess, StopContinues, StopIgnored, StopWaitCall,
     StopTakesCtx, StopDrains, WaitCtx, WaitDrain, execVars, vars

LEMMA EnvironmentKeepsChain ==
  ASSUME TypeOK, NEW p \in Proc, NEW n \in CmdId, ChildStep(p, n) \/ WatcherStep(p, n),
         Chain(p)
  PROVE  Chain(p)'
<1>1. UNCHANGED chainVars(p)
  BY DEF ChildStep, WatcherStep, procVars, monVars, chainVars
<1>2. \/ UNCHANGED child
      \/ /\ Live(p, n)
         /\ \E x \in ChildState \ {"unborn"} : child' = [child EXCEPT ![p][n] = x]
  BY DEF ChildStep, WatcherStep, ChildExits, PipeCloses, CtxKills, CmdKill, ChildState, Live
<1>3. \A m \in CmdId : /\ Live(p, m)' => Live(p, m)
                       /\ child[p][m] = "unborn" => child'[p][m] = "unborn"
  <2> TAKE m \in CmdId
  <2>1. CASE UNCHANGED child
    BY <2>1 DEF Live
  <2>2. CASE ~UNCHANGED child
    <3>1. PICK x \in ChildState \ {"unborn"} : child' = [child EXCEPT ![p][n] = x]
      BY <1>2, <2>2
    <3>2. Live(p, n)
      BY <1>2, <2>2
    <3>3. m # n => child'[p][m] = child[p][m]
      BY <3>1 DEF TypeOK, ExecTypeOK
    <3> QED
      BY <3>2, <3>3 DEF Live
  <2> QED
    BY <2>1, <2>2
<1> QED
  BY <1>1, <1>3, EndingKeepsChain

\* Steps of one process do not disturb another.
LEMMA OthersKeepChain ==
  ASSUME TypeOK, NEW q \in Proc, Chain(q), UNCHANGED <<chainVars(q), child[q]>>
  PROVE  Chain(q)'
BY EndingKeepsChain DEF Live

LEMMA StepsAreLocal ==
  ASSUME TypeOK, NEW p \in Proc, NEW q \in Proc, p # q, NEW n,
         \/ RequestStart(p)
         \/ StopProcess(p)
         \/ StopContinues(p)
         \/ Monitor(p, n)
         \/ ChildStep(p, n)
         \/ WatcherStep(p, n)
  PROVE  UNCHANGED <<chainVars(q), child[q]>>
<1> USE DEF TypeOK, ExecTypeOK, execVars, procVars, monVars, chainVars
<1>1. ASSUME NEW phases, StartProcess(p, phases)
      PROVE  UNCHANGED <<launched[q], cmd[q], mon[q], monCmd[q], state[q], child[q]>>
  BY <1>1 DEF StartProcess, AlreadyRunning, Launch, LaunchFails, CmdStart
<1>2. CASE RequestStart(p)
  BY <1>1, <1>2 DEF RequestStart
<1>3. CASE Monitor(p, n)
  BY <1>1, <1>3 DEF Monitor, MonitorBegin, MonitorWaitCall, MonitorReaps, MonitorTakesCtx,
     MonitorDrains, MonitorExit, MonitorRestart, MonitorGoes, WaitReap, WaitCtx, WaitDrain
<1>4. CASE StopProcess(p)
  BY <1>4 DEF StopProcess, StopBegin, StopIgnored, vars
<1>5. CASE StopContinues(p)
  BY <1>5 DEF StopContinues, StopWaitCall, StopReaps, StopTakesCtx, StopDrains, StopTimeout,
     StopEnd, WaitReap, WaitCtx, WaitDrain, CmdKill
<1>6. CASE ChildStep(p, n) \/ WatcherStep(p, n)
  BY <1>6 DEF ChildStep, WatcherStep, ChildExits, PipeCloses, CtxKills, CmdKill
<1> QED
  BY <1>2, <1>3, <1>4, <1>5, <1>6

LEMMA ChainInvariant == Spec => []ChainInv
<1>1. Init => ChainInv
  <2> SUFFICES ASSUME Init, NEW p \in Proc
               PROVE  Chain(p)
    BY DEF ChainInv
  <2>1. launched[p] = 0 /\ cmd[p] = NoCmd
    BY DEF Init
  <2>2. \A n \in CmdId : mon[p][n] = "none" /\ child[p][n] = "unborn" /\ ~(n < 0)
    BY MaxStartsAssumption DEF Init, ExecInit, CmdId
  <2> QED
    BY <2>1, <2>2 DEF Chain
<1>2. TypeOK /\ LockInv /\ ReapInv /\ ChainInv /\ [Next]_vars => ChainInv'
  <2> SUFFICES ASSUME TypeOK, LockInv, ReapInv, ChainInv, [Next]_vars, NEW q \in Proc,
                      requested'[q] <= 1
               PROVE  Chain(q)'
    BY DEF ChainInv
  <2>1. ASSUME UNCHANGED <<chainVars(q), child[q]>>
        PROVE  Chain(q)'
    <3>1. Chain(q)
      BY <2>1 DEF ChainInv, chainVars
    <3> QED
      BY <2>1, <3>1, OthersKeepChain
  <2>2. ASSUME UNCHANGED requested
        PROVE  Chain(q)
    BY <2>2 DEF ChainInv
  <2>3. ASSUME NEW p \in Proc, RequestStart(p)
        PROVE  Chain(q)'
    <3>1. CASE p = q
      <4>1. requested[q] \in Nat /\ requested'[q] = requested[q] + 1
        BY <2>3, <3>1, MaxRequestsAssumption DEF RequestStart, TypeOK
      <4>2. Chain(q)
        BY <4>1 DEF ChainInv
      <4> QED
        BY <2>3, <3>1, <4>2, RequestKeepsChain
    <3> QED
      BY <2>1, <2>3, <3>1, StepsAreLocal
  <2>4. ASSUME NEW p \in Proc, StopProcess(p) \/ StopContinues(p)
        PROVE  Chain(q)'
    <3>1. UNCHANGED requested
      BY <2>4 DEF StopProcess, StopContinues, StopBegin, StopIgnored, StopWaitCall, StopReaps,
         StopTakesCtx, StopDrains, StopTimeout, StopEnd, procVars, vars
    <3> QED
      BY <2>1, <2>2, <2>4, <3>1, StepsAreLocal, StopKeepsChain
  <2>5. ASSUME NEW p \in Proc, NEW n \in CmdId, Monitor(p, n)
        PROVE  Chain(q)'
    <3>1. UNCHANGED requested
      BY <2>5 DEF Monitor, MonitorBegin, MonitorWaitCall, MonitorReaps, MonitorTakesCtx,
         MonitorDrains, MonitorExit, MonitorRestart, procVars
    <3> QED
      BY <2>1, <2>2, <2>5, <3>1, StepsAreLocal, MonitorKeepsChain
  <2>6. ASSUME NEW p \in Proc, NEW n \in CmdId, ChildStep(p, n) \/ WatcherStep(p, n)
        PROVE  Chain(q)'
    <3>1. UNCHANGED requested
      BY <2>6 DEF ChildStep, WatcherStep, procVars
    <3> QED
      BY <2>1, <2>2, <2>6, <3>1, StepsAreLocal, EnvironmentKeepsChain
  <2>7. CASE UNCHANGED <<child, cmd, launched, requested, state, monVars>>
    BY <2>1, <2>7 DEF chainVars, monVars
  <2> QED
    BY <2>3, <2>4, <2>5, <2>6, <2>7 DEF Next, TrackFires, TrackCancelled, Cancel, vars,
       execVars, procVars
<1> QED
  BY <1>1, <1>2, Typing, LockDiscipline, ReapInvariant, PTL DEF Spec, LockInv

\* A process that was asked to start at most once never has two live
\* children: every restart waits until the child it replaces is gone.
THEOREM SingleChild == Spec => []OneLiveChild
<1>1. TypeOK /\ ChainInv => OneLiveChild
  <2> SUFFICES ASSUME TypeOK, NEW p \in Proc, Chain(p),
                      NEW m \in CmdId, NEW n \in CmdId, Live(p, m), Live(p, n)
               PROVE  m = n
    BY DEF ChainInv, OneLiveChild
  <2>1. \A k \in CmdId : Live(p, k) => ~(k < launched[p]) /\ ~(k > launched[p])
    BY DEF Chain, Live
  <2>2. launched[p] \in Int /\ CmdId \subseteq Int
    BY MaxStartsAssumption DEF TypeOK, CmdId
  <2> QED
    BY <2>1, <2>2
<1> QED
  BY <1>1, Typing, ChainInvariant, PTL

-----------------------------------------------------------------------------
(* Who watches a running process.                                          *)

\* A Cmd can only be waited for, and its context value taken, once it has
\* been launched.
PastInv ==
  \A p \in Proc :
    /\ \A n \in CmdId : n > launched[p] => ~ctxTaken[p][n]
    /\ \A n \in CmdId : monCmd[p][n] <= launched[p]
    /\ cmd[p] <= launched[p]

\* Monitor n is on its way from its launch to the exit it is to record.
OnItsWay(p, n) ==
  \/ mon[p][n] = "begin"
  \/ mon[p][n] \in WaitPhase /\ monCmd[p][n] = cmd[p]

\* Monitor n needs no context value any more.
HasIt(p, n) == mon[p][n] \in {"drain", "returned"} /\ monCmd[p][n] = cmd[p]

\* Some monitor is on its way while a process runs; and if the context value
\* of its Cmd is gone, it is a monitor that has received it.
Watched(p) ==
  state[p] = "running" =>
    /\ \E n \in CmdId : OnItsWay(p, n)
    /\ ctxTaken[p][cmd[p]] => \E n \in CmdId : HasIt(p, n)

WatchInv == \A p \in Proc : Watched(p)

\* What Watched(p) speaks of.
watchVars(p) == <<state[p], cmd[p], mon[p], monCmd[p], ctxTaken[p]>>

LEMMA PastInvariant == Spec => []PastInv
<1>1. Init => PastInv
  <2> SUFFICES ASSUME Init PROVE PastInv
    OBVIOUS
  <2>1. \A p \in Proc : cmd[p] = 0 /\ launched[p] = 0
    BY DEF Init, NoCmd
  <2>2. \A p \in Proc, n \in CmdId : ~ctxTaken[p][n] /\ monCmd[p][n] = 0
    BY DEF Init, ExecInit, NoCmd
  <2>3. ASSUME NEW p \in Proc
        PROVE  cmd[p] <= launched[p]
    <3>1. cmd[p] = 0 /\ launched[p] = 0
      BY <2>1
    <3> QED
      BY <3>1
  <2>4. ASSUME NEW p \in Proc, NEW n \in CmdId
        PROVE  monCmd[p][n] <= launched[p]
    <3>1. monCmd[p][n] = 0 /\ launched[p] = 0
      BY <2>1, <2>2
    <3> QED
      BY <3>1
  <2> QED
    BY <2>2, <2>3, <2>4 DEF PastInv
<1>2. TypeOK /\ PastInv /\ [Next]_vars => PastInv'
  <2> SUFFICES ASSUME TypeOK, PastInv, [Next]_vars
               PROVE  PastInv'
    OBVIOUS
  <2> USE MaxStartsAssumption DEF NoCmd
  <2>1. ASSUME NEW p \in Proc, NEW phases, StartProcess(p, phases)
        PROVE  PastInv'
    <3>1. CASE UNCHANGED <<ctxTaken, monCmd, cmd, launched>>
      BY <3>1 DEF PastInv
    <3>2. CASE Launch(p, phases)
      <4>1. /\ launched' = [launched EXCEPT ![p] = launched[p] + 1]
            /\ cmd' = [cmd EXCEPT ![p] = launched[p] + 1]
            /\ UNCHANGED <<ctxTaken, monCmd>>
        BY <2>1, <3>2 DEF StartProcess, Launch, CmdStart
      <4>2. \A q \in Proc : /\ launched[q] <= launched'[q]
                            /\ launched[q] \in Int /\ launched'[q] \in Int
                            /\ cmd'[q] = cmd[q] \/ cmd'[q] = launched'[q]
        BY <4>1 DEF TypeOK
      <4>3. /\ \A q \in Proc : cmd[q] \in Int
            /\ \A q \in Proc, n \in CmdId : n \in Int /\ monCmd[q][n] \in Int
        <5>1. \A n \in CmdId : n \in Int
          BY DEF CmdId
        <5>2. \A q \in Proc : /\ cmd[q] \in CmdId \cup {0}
                              /\ \A n \in CmdId : monCmd[q][n] \in CmdId \cup {0}
          BY DEF TypeOK
        <5> QED
          BY <5>1, <5>2
      <4>4. ASSUME NEW q \in Proc, NEW n \in CmdId
            PROVE  /\ n > launched'[q] => ~ctxTaken'[q][n]
                   /\ monCmd'[q][n] <= launched'[q]
        BY <4>1, <4>2, <4>3 DEF PastInv
      <4>5. ASSUME NEW q \in Proc
            PROVE  cmd'[q] <= launched'[q]
        BY <4>2, <4>3 DEF PastInv
      <4> QED
        BY <4>4, <4>5 DEF PastInv
    <3> QED
      BY <2>1, <3>1, <3>2 DEF StartProcess, AlreadyRunning, LaunchFails, execVars
  <2>2. ASSUME NEW p \in Proc, NEW n \in CmdId \cup {NoCmd}, WaitCtx(p, n), n <= launched[p],
               UNCHANGED <<monCmd, cmd, launched>>
        PROVE  PastInv'
    BY <2>2 DEF WaitCtx, PastInv, TypeOK, ExecTypeOK, CmdId
  <2>3. CASE UNCHANGED <<ctxTaken, monCmd, cmd, launched>>
    BY <2>3 DEF PastInv
  <2>4. ASSUME NEW p \in Proc, NEW n \in CmdId, Monitor(p, n)
        PROVE  PastInv'
    <3>1. CASE MonitorBegin(p, n)
      <4>1. /\ UNCHANGED <<ctxTaken, cmd, launched>>
            /\ monCmd' = [monCmd EXCEPT ![p][n] = cmd[p]]
        BY <3>1 DEF MonitorBegin, execVars, procVars
      <4>2. \A q \in Proc, m \in CmdId :
              monCmd'[q][m] = monCmd[q][m] \/ (q = p /\ monCmd'[q][m] = cmd[p])
        BY <4>1 DEF TypeOK
      <4> QED
        BY <4>1, <4>2 DEF PastInv
    <3>2. CASE MonitorTakesCtx(p, n)
      <4> DEFINE k == monCmd[p][n]
      <4>1. k \in CmdId \cup {NoCmd} /\ k <= launched[p]
        BY DEF PastInv, TypeOK
      <4>2. WaitCtx(p, k) /\ UNCHANGED <<monCmd, cmd, launched>>
        BY <3>2 DEF MonitorTakesCtx, procVars
      <4> HIDE DEF k
      <4> QED
        BY <2>2, <4>1, <4>2
    <3>3. CASE MonitorRestart(p, n)
      BY <2>1, <3>3 DEF MonitorRestart
    <3> QED
      BY <2>3, <2>4, <3>1, <3>2, <3>3 DEF Monitor, MonitorWaitCall, MonitorReaps, MonitorDrains,
         MonitorExit, WaitReap, WaitDrain, execVars, procVars
  <2>5. ASSUME NEW p \in Proc, StopProcess(p) \/ StopContinues(p)
        PROVE  PastInv'
    <3>1. CASE StopTakesCtx(p)
      BY <2>2, <3>1 DEF StopTakesCtx, PastInv, TypeOK, procVars, monVars
    <3>2. CASE StopEnd(p)
      BY <3>2 DEF StopEnd, PastInv, TypeOK, execVars, monVars
    <3> QED
      BY <2>3, <2>5, <3>1, <3>2 DEF StopProcess, StopContinues, StopBegin, StopIgnored,
         StopWaitCall, StopReaps, StopDrains, StopTimeout, WaitReap, WaitDrain, CmdKill, execVars,
         procVars, monVars, vars
  <2>6. ASSUME NEW p \in Proc, RequestStart(p)
        PROVE  PastInv'
    BY <2>1, <2>6 DEF RequestStart
  <2> QED
    BY <2>3, <2>4, <2>5, <2>6 DEF Next, TrackFires, TrackCancelled, ChildStep, WatcherStep,
       ChildExits, PipeCloses, CtxKills, CmdKill, Cancel, execVars, procVars, monVars, vars
<1> QED
  BY <1>1, <1>2, Typing, PTL DEF Spec

\* A step that leaves state, cmd and the context values of p alone, and
\* moves its monitors only forward on their way.
LEMMA QuietKeepsWatched ==
  ASSUME TypeOK, NEW p \in Proc, Watched(p),
         UNCHANGED <<cmd[p], ctxTaken[p]>>, state'[p] = "running" => state[p] = "running",
         \A n \in CmdId : state[p] = "running" =>
            (OnItsWay(p, n) => OnItsWay(p, n)') /\ (HasIt(p, n) => HasIt(p, n)')
  PROVE  Watched(p)'
BY DEF Watched

LEMMA StartKeepsWatched ==
  ASSUME TypeOK, PastInv, NEW p \in Proc, Watched(p), NEW phases \in [CmdId -> MonPhase],
         StartProcess(p, phases),
         \A n \in CmdId : mon[p][n] # "restarting" => phases[n] = mon[p][n]
  PROVE  Watched(p)'
<1>1. CASE AlreadyRunning(p, phases)
  <2>1. /\ UNCHANGED <<cmd, ctxTaken, state, monCmd>>
        /\ mon'[p] = phases
    BY <1>1 DEF StartProcess, AlreadyRunning, execVars, TypeOK
  <2>2. \A n \in CmdId : (OnItsWay(p, n) => OnItsWay(p, n)') /\ (HasIt(p, n) => HasIt(p, n)')
    BY <2>1 DEF OnItsWay, HasIt, WaitPhase
  <2> QED
    BY <2>1, <2>2, QuietKeepsWatched
<1>2. CASE Launch(p, phases)
  <2> DEFINE last == launched[p] + 1
  <2>1. /\ last \in CmdId
        /\ cmd'[p] = last
        /\ mon'[p] = [phases EXCEPT ![last] = "begin"]
        /\ ctxTaken' = ctxTaken
    BY <1>2, MaxStartsAssumption DEF Launch, CmdStart, TypeOK, CmdId
  <2>2. ~ctxTaken[p][last]
    BY <2>1 DEF PastInv, TypeOK, CmdId
  <2>3. mon'[p][last] = "begin"
    BY <2>1
  <2> HIDE DEF last
  <2> QED
    BY <2>1, <2>2, <2>3 DEF Watched, OnItsWay
<1>3. CASE LaunchFails(p, phases)
  BY <1>3 DEF LaunchFails, Watched, TypeOK
<1> QED
  BY <1>1, <1>2, <1>3 DEF StartProcess

LEMMA MonitorKeepsWatched ==
  ASSUME TypeOK, LockInv, PastInv, NEW p \in Proc, NEW n \in CmdId, Monitor(p, n), Watched(p)
  PROVE  Watched(p)'
<1>1. ASSUME NEW phase \in WaitPhase, MonitorGoes(p, n, phase), mon[p][n] \in WaitPhase,
             mon[p][n] \in {"drain", "returned"} => phase \in {"drain", "returned"},
             UNCHANGED <<cmd, ctxTaken, state, monCmd>>
      PROVE  Watched(p)'
  <2>1. /\ mon'[p][n] = phase
        /\ \A m \in CmdId : m # n => mon'[p][m] = mon[p][m]
    BY <1>1 DEF MonitorGoes, TypeOK
  <2>2. \A m \in CmdId : (OnItsWay(p, m) => OnItsWay(p, m)') /\ (HasIt(p, m) => HasIt(p, m)')
    BY <1>1, <2>1 DEF OnItsWay, HasIt, WaitPhase
  <2> QED
    BY <1>1, <2>2, QuietKeepsWatched
<1>2. CASE MonitorBegin(p, n)
  <2>1. /\ UNCHANGED <<cmd, ctxTaken, state>>
        /\ monCmd'[p][n] = cmd[p]
        /\ mon[p][n] = "begin"
        /\ mon'[p][n] = IF cmd[p] = NoCmd THEN "done" ELSE "call"
        /\ \A m \in CmdId : m # n => mon'[p][m] = mon[p][m] /\ monCmd'[p][m] = monCmd[p][m]
    BY <1>2 DEF MonitorBegin, MonitorGoes, execVars, procVars, TypeOK
  <2>2. state[p] = "running" => cmd[p] # NoCmd
    BY DEF LockInv, SignalsGoToNewest
  <2>3. \A m \in CmdId : state[p] = "running" =>
           (OnItsWay(p, m) => OnItsWay(p, m)') /\ (HasIt(p, m) => HasIt(p, m)')
    BY <2>1, <2>2 DEF OnItsWay, HasIt, WaitPhase
  <2> QED
    BY <2>1, <2>3, QuietKeepsWatched
<1>3. CASE MonitorWaitCall(p, n)
  BY <1>1, <1>3 DEF MonitorWaitCall, WaitEntry, WaitPhase, execVars, procVars
<1>4. CASE MonitorReaps(p, n)
  BY <1>1, <1>4 DEF MonitorReaps, WaitReap, WaitPhase, procVars
<1>5. CASE MonitorDrains(p, n)
  BY <1>1, <1>5 DEF MonitorDrains, WaitDrain, WaitPhase, execVars, procVars
<1>6. CASE MonitorTakesCtx(p, n)
  <2>1. /\ UNCHANGED <<cmd, state, monCmd>>
        /\ mon[p][n] = "ctx" /\ mon'[p][n] = "drain"
        /\ \A m \in CmdId : m # n => mon'[p][m] = mon[p][m]
        /\ ctxTaken' = [ctxTaken EXCEPT ![p][monCmd[p][n]] = TRUE]
    BY <1>6 DEF MonitorTakesCtx, WaitCtx, MonitorGoes, procVars, TypeOK
  <2>2. \A m \in CmdId : (OnItsWay(p, m) => OnItsWay(p, m)') /\ (HasIt(p, m) => HasIt(p, m)')
    BY <2>1 DEF OnItsWay, HasIt, WaitPhase
  <2>3. CASE monCmd[p][n] = cmd[p]
    <3>1. HasIt(p, n)' /\ OnItsWay(p, n)'
      BY <2>1, <2>3 DEF HasIt, OnItsWay, WaitPhase
    <3> QED
      BY <3>1 DEF Watched
  <2>4. CASE monCmd[p][n] # cmd[p]
    <3>1. state[p] = "running" => ctxTaken'[p][cmd[p]] = ctxTaken[p][cmd[p]]
      <4>1. state[p] = "running" => cmd[p] \in CmdId
        BY DEF LockInv, SignalsGoToNewest, TypeOK
      <4> QED
        BY <2>1, <2>4, <4>1 DEF TypeOK, ExecTypeOK
    <3> QED
      BY <2>1, <2>2, <3>1 DEF Watched
  <2> QED
    BY <2>3, <2>4
<1>7. CASE MonitorExit(p, n)
  BY <1>7 DEF MonitorExit, StateAfterExit, Watched, TypeOK
<1>8. CASE MonitorRestart(p, n)
  <2> DEFINE phases == [mon[p] EXCEPT ![n] = "done"]
  <2>1. /\ phases \in [CmdId -> MonPhase]
        /\ StartProcess(p, phases)
        /\ mon[p][n] = "restarting"
    BY <1>8 DEF MonitorRestart, TypeOK, MonPhase
  <2>2. \A m \in CmdId : mon[p][m] # "restarting" => phases[m] = mon[p][m]
    BY <2>1 DEF TypeOK
  <2> HIDE DEF phases
  <2> QED
    BY <2>1, <2>2, StartKeepsWatched
<1> QED
  BY <1>2, <1>3, <1>4, <1>5, <1>6, <1>7, <1>8 DEF Monitor

LEMMA WatchInvariant == Spec => []WatchInv
<1>1. Init => WatchInv
  BY DEF Init, WatchInv, Watched
<1>2. TypeOK /\ LockInv /\ PastInv /\ WatchInv /\ [Next]_vars => WatchInv'
  <2> SUFFICES ASSUME TypeOK, LockInv, PastInv, WatchInv, [Next]_vars, NEW q \in Proc
               PROVE  Watched(q)'
    BY DEF WatchInv
  <2>1. Watched(q)
    BY DEF WatchInv
  <2>2. CASE UNCHANGED watchVars(q)
    BY <2>1, <2>2 DEF watchVars, Watched, OnItsWay, HasIt
  <2>3. CASE state'[q] # "running"
    BY <2>3 DEF Watched
  <2>4. ASSUME NEW p \in Proc, RequestStart(p)
        PROVE  Watched(q)'
    <3>1. CASE p = q
      BY <2>1, <2>4, <3>1, StartKeepsWatched DEF RequestStart, TypeOK
    <3>2. CASE p # q
      BY <2>2, <2>4, <3>2 DEF RequestStart, StartProcess, AlreadyRunning, Launch, LaunchFails,
         CmdStart, execVars, watchVars, TypeOK
    <3> QED
      BY <3>1, <3>2
  <2>5. ASSUME NEW p \in Proc, NEW n \in CmdId, Monitor(p, n)
        PROVE  Watched(q)'
    <3>1. CASE p = q
      BY <2>1, <2>5, <3>1, MonitorKeepsWatched
    <3>2. CASE p # q
      <4>1. UNCHANGED ctxTaken[q]
        BY <2>5, <3>2 DEF Monitor, MonitorBegin, MonitorWaitCall, MonitorReaps, MonitorTakesCtx,
           MonitorDrains, MonitorExit, MonitorRestart, StartProcess, AlreadyRunning, Launch,
           LaunchFails, CmdStart, WaitReap, WaitCtx, WaitDrain, execVars, TypeOK, ExecTypeOK
      <4> QED
        BY <2>2, <2>5, <3>2, <4>1, StepsAreLocal DEF chainVars, watchVars
    <3> QED
      BY <3>1, <3>2
  <2>6. ASSUME NEW p \in Proc, StopProcess(p) \/ StopContinues(p)
        PROVE  Watched(q)'
    <3>1. CASE p = q
      <4>1. state'[q] = "running" => UNCHANGED watchVars(q)
        BY <2>6, <3>1 DEF StopProcess, StopContinues, StopBegin, StopIgnored, StopWaitCall,
           StopReaps, StopTakesCtx, StopDrains, StopTimeout, StopEnd, WaitReap, WaitCtx, WaitDrain,
           CmdKill, execVars, procVars, monVars, vars, watchVars, TypeOK, LockInv,
           StoppingIsLocked, Unlocked
      <4> QED
        BY <2>2, <2>3, <4>1
    <3>2. CASE p # q
      <4>1. UNCHANGED ctxTaken[q]
        BY <2>6, <3>2 DEF StopProcess, StopContinues, StopBegin, StopIgnored, StopWaitCall,
           StopReaps, StopTakesCtx, StopDrains, StopTimeout, StopEnd, WaitReap, WaitCtx, WaitDrain,
           CmdKill, execVars, vars, TypeOK, ExecTypeOK
      <4> QED
        BY <2>2, <2>6, <3>2, <4>1, StepsAreLocal DEF chainVars, watchVars
    <3> QED
      BY <3>1, <3>2
  <2>7. CASE UNCHANGED <<state, cmd, mon, monCmd, ctxTaken>>
    BY <2>2, <2>7 DEF watchVars
  <2> QED
    BY <2>4, <2>5, <2>6, <2>7 DEF Next, TrackFires, TrackCancelled, ChildStep, WatcherStep,
       ChildExits, PipeCloses, CtxKills, CmdKill, Cancel, execVars, procVars, monVars, vars
<1> QED
  BY <1>1, <1>2, Typing, LockDiscipline, PastInvariant, PTL DEF Spec, LockInv

\* A process reported as running is being watched by some monitor, however
\* many restarts, stops and calls of Wait overlap: its exit will be noticed.
THEOREM RunningWatched == Spec => []RunningIsWatched
<1>1. TypeOK /\ WatchInv => RunningIsWatched
  <2> SUFFICES ASSUME TypeOK, WatchInv, NEW p \in Proc, state[p] = "running"
               PROVE  \E n \in CmdId : Watches(p, n)
    BY DEF RunningIsWatched
  <2>1. CASE ctxTaken[p][cmd[p]]
    BY <2>1 DEF WatchInv, Watched, HasIt, Watches
  <2>2. CASE ~ctxTaken[p][cmd[p]]
    BY <2>2 DEF WatchInv, Watched, OnItsWay, Watches, WaitPhase
  <2> QED
    BY <2>1, <2>2
<1> QED
  BY <1>1, Typing, WatchInvariant, PTL
-----------------------------------------------------------------------------
(* Commands and monitors.                                                  *)

\* The commands that have been launched are those that have a monitor.
Spawned ==
  \A p \in Proc, n \in CmdId : mon[p][n] = "none" <=> n > launched[p]

LEMMA StartKeepsSpawned ==
  ASSUME TypeOK, Spawned, NEW p \in Proc, NEW phases \in [CmdId -> MonPhase],
         StartProcess(p, phases),
         \A n \in CmdId : phases[n] = "none" <=> n > launched[p]
  PROVE  Spawned'
<1>1. CASE AlreadyRunning(p, phases) \/ LaunchFails(p, phases)
  BY <1>1 DEF AlreadyRunning, LaunchFails, Spawned, TypeOK
<1>2. CASE Launch(p, phases)
  <2>1. /\ launched' = [launched EXCEPT ![p] = launched[p] + 1]
        /\ mon' = [mon EXCEPT ![p] = [phases EXCEPT ![launched[p] + 1] = "begin"]]
        /\ launched[p] \in Nat
    BY <1>2 DEF Launch, TypeOK
  <2> QED
    BY <2>1 DEF Spawned, TypeOK, CmdId
<1> QED
  BY <1>1, <1>2 DEF StartProcess

LEMMA SpawnedInvariant == Spec => []Spawned
<1>1. Init => Spawned
  BY MaxStartsAssumption DEF Init, Spawned, CmdId
<1>2. TypeOK /\ Spawned /\ [Next]_vars => Spawned'
  <2> SUFFICES ASSUME TypeOK, Spawned, [Next]_vars
               PROVE  Spawned'
    OBVIOUS
  <2>1. ASSUME NEW p \in Proc, RequestStart(p)
        PROVE  Spawned'
    <3>1. mon[p] \in [CmdId -> MonPhase] /\ StartProcess(p, mon[p])
      BY <2>1 DEF RequestStart, TypeOK
    <3>2. \A n \in CmdId : mon[p][n] = "none" <=> n > launched[p]
      BY DEF Spawned
    <3> QED
      BY <3>1, <3>2, StartKeepsSpawned
  <2>2. ASSUME NEW p \in Proc, NEW n \in CmdId, MonitorRestart(p, n)
        PROVE  Spawned'
    <3> DEFINE phases == [mon[p] EXCEPT ![n] = "done"]
    <3>1. mon[p][n] = "restarting" /\ StartProcess(p, phases)
      BY <2>2 DEF MonitorRestart
    <3>2. phases \in [CmdId -> MonPhase]
      BY DEF TypeOK, MonPhase
    <3>3. \A m \in CmdId : mon[p][m] = "none" <=> m > launched[p]
      BY DEF Spawned
    <3>4. \A m \in CmdId : phases[m] = "none" <=> m > launched[p]
      BY <3>1, <3>3 DEF TypeOK
    <3> QED
      BY <3>1, <3>2, <3>4, StartKeepsSpawned
  <2>3. ASSUME NEW p \in Proc, NEW n \in CmdId, NEW phase, mon[p][n] # "none", phase # "none",
               MonitorGoes(p, n, phase), UNCHANGED launched
        PROVE  Spawned'
    BY <2>3 DEF MonitorGoes, Spawned, TypeOK
  <2>4. ASSUME NEW p \in Proc, NEW n \in CmdId, Monitor(p, n), ~MonitorRestart(p, n)
        PROVE  Spawned'
    <3>1. CASE MonitorBegin(p, n)
      BY <2>3, <3>1 DEF MonitorBegin, procVars
    <3>2. CASE MonitorWaitCall(p, n)
      BY <2>3, <3>2 DEF MonitorWaitCall, WaitEntry, procVars
    <3>3. CASE MonitorReaps(p, n) \/ MonitorTakesCtx(p, n) \/ MonitorDrains(p, n)
      BY <2>3, <3>3 DEF MonitorReaps, MonitorTakesCtx, MonitorDrains, procVars
    <3>4. CASE MonitorExit(p, n)
      BY <2>3, <3>4 DEF MonitorExit
    <3> QED
      BY <2>4, <3>1, <3>2, <3>3, <3>4 DEF Monitor
  <2>5. CASE UNCHANGED <<launched, mon>>
    BY <2>5 DEF Spawned
  <2> QED
    BY <2>1, <2>2, <2>4, <2>5 DEF Next, StopProcess, StopContinues, StopBegin, StopIgnored,
       StopWaitCall, StopReaps, StopTakesCtx, StopDrains, StopTimeout, StopEnd, TrackFires,
       TrackCancelled, ChildStep, WatcherStep, Cancel, vars, procVars, monVars
<1> QED
  BY <1>1, <1>2, Typing, PTL DEF Spec

-----------------------------------------------------------------------------
(* State and the children.                                                 *)

\* A child of a process that was asked for once lives only while State says
\* that the process is running or being stopped.
LiveInv ==
  \A p \in Proc : requested[p] <= 1 =>
    \A n \in CmdId : Live(p, n) => state[p] \in {"running", "stopping"}

\* Nothing but a launch brings a child to life.
LEMMA OthersEnd ==
  ASSUME TypeOK, NEW p \in Proc, NEW n \in CmdId \cup {NoCmd},
         WaitReap(p, n) \/ CmdKill(p, n) \/ ChildExits(p, n) \/ UNCHANGED child,
         NEW q \in Proc, NEW m \in CmdId, Live(q, m)'
  PROVE  Live(q, m)
<1>1. CASE UNCHANGED child
  BY <1>1 DEF Live
<1>2. CASE WaitReap(p, n)
  <2>1. child' = [child EXCEPT ![p][n] = "reaped"]
    BY <1>2 DEF WaitReap
  <2> QED
    BY <2>1 DEF Live, TypeOK, ExecTypeOK
<1>3. CASE CmdKill(p, n)
  <2>1. child' = [child EXCEPT ![p][n] = "killed"] /\ child[p][n] = "running"
    BY <1>3 DEF CmdKill
  <2> QED
    BY <2>1 DEF Live, TypeOK, ExecTypeOK
<1>4. CASE ChildExits(p, n)
  <2>1. PICK x \in {"succeeded", "failed"} : child' = [child EXCEPT ![p][n] = x]
    BY <1>4 DEF ChildExits
  <2> QED
    BY <2>1 DEF Live, TypeOK, ExecTypeOK
<1> QED
  BY <1>1, <1>2, <1>3, <1>4

\* A start leaves State as it says, for the process it is about.
LEMMA StartSaysLive ==
  ASSUME TypeOK, StoppingIsLocked, NEW p \in Proc, NEW phases, StartProcess(p, phases),
         \A n \in CmdId : Live(p, n) => state[p] \in {"running", "stopping"},
         NEW n \in CmdId, Live(p, n)'
  PROVE  state'[p] \in {"running", "stopping"}
<1>1. CASE AlreadyRunning(p, phases)
  BY <1>1 DEF AlreadyRunning
<1>2. CASE Launch(p, phases)
  BY <1>2 DEF Launch, TypeOK
<1>3. CASE LaunchFails(p, phases)
  <2>1. UNCHANGED child /\ state[p] # "running"
    BY <1>3 DEF LaunchFails, execVars
  <2>2. state[p] # "stopping"
    BY DEF StartProcess, StoppingIsLocked
  <2> QED
    BY <2>1, <2>2 DEF Live
<1> QED
  BY <1>1, <1>2, <1>3 DEF StartProcess

LEMMA LiveInvariant == Spec => []LiveInv
<1>1. Init => LiveInv
  BY DEF Init, ExecInit, LiveInv, Live
<1>2. TypeOK /\ LockInv /\ ReapInv /\ ChainInv /\ LiveInv /\ [Next]_vars => LiveInv'
  <2> SUFFICES ASSUME TypeOK, LockInv, ReapInv, ChainInv, LiveInv, [Next]_vars,
                      NEW q \in Proc, requested'[q] <= 1, NEW m \in CmdId, Live(q, m)'
               PROVE  state'[q] \in {"running", "stopping"}
    BY DEF LiveInv
  <2>1. ASSUME UNCHANGED requested
        PROVE  /\ Chain(q)
               /\ \A n \in CmdId : Live(q, n) => state[q] \in {"running", "stopping"}
    BY <2>1 DEF ChainInv, LiveInv
  <2>2. ASSUME UNCHANGED <<requested, state>>, Live(q, m)
        PROVE  state'[q] \in {"running", "stopping"}
    BY <2>1, <2>2
  <2>3. ASSUME NEW p \in Proc, NEW phases, StartProcess(p, phases), p # q,
               requested'[q] = requested[q]
        PROVE  state'[q] \in {"running", "stopping"}
    <3>1. state'[q] = state[q] /\ child'[q] = child[q]
      BY <2>3 DEF StartProcess, AlreadyRunning, Launch, LaunchFails, CmdStart, execVars,
         TypeOK, ExecTypeOK
    <3> QED
      BY <2>3, <3>1 DEF LiveInv, Live
  <2>4. ASSUME NEW p \in Proc, RequestStart(p)
        PROVE  state'[q] \in {"running", "stopping"}
    <3>1. requested' = [requested EXCEPT ![p] = @ + 1] /\ StartProcess(p, mon[p])
      BY <2>4 DEF RequestStart
    <3>2. CASE p = q
      <4>1. requested[q] <= 1
        BY <3>1, <3>2, MaxRequestsAssumption DEF TypeOK
      <4> QED
        BY <3>1, <3>2, <4>1, StartSaysLive DEF LiveInv, LockInv
    <3> QED
      BY <2>3, <3>1, <3>2 DEF TypeOK
  <2>5. ASSUME NEW p \in Proc, NEW n \in CmdId, MonitorRestart(p, n)
        PROVE  state'[q] \in {"running", "stopping"}
    <3>1. UNCHANGED requested /\ StartProcess(p, [mon[p] EXCEPT ![n] = "done"])
      BY <2>5 DEF MonitorRestart
    <3> QED
      BY <2>1, <2>3, <3>1, StartSaysLive DEF LockInv
  <2>6. ASSUME NEW p \in Proc, NEW n \in CmdId, MonitorExit(p, n)
        PROVE  state'[q] \in {"running", "stopping"}
    <3>1. UNCHANGED <<requested, child>> /\ mon[p][n] = "returned"
      BY <2>6 DEF MonitorExit, execVars
    <3>2. CASE p # q
      <4>1. state'[q] = state[q]
        BY <2>6, <3>2 DEF MonitorExit, TypeOK
      <4> QED
        BY <2>1, <3>1, <4>1 DEF Live
    <3>3. CASE p = q
      <4>1. Chain(q)
        BY <2>1, <3>1
      <4>2. ~(n > launched[q]) /\ ~(n < launched[q])
        BY <3>1, <3>3, <4>1 DEF Chain
      <4>3. m = launched[q] \/ m > launched[q] \/ m < launched[q]
        BY MaxStartsAssumption DEF TypeOK, CmdId
      <4>4. n = launched[q] /\ launched[q] # 0
        BY <4>2, MaxStartsAssumption DEF TypeOK, CmdId
      <4>5. ~Live(q, m)
        BY <3>1, <3>3, <4>1, <4>3, <4>4 DEF Chain, Live
      <4> QED
        BY <3>1, <4>5 DEF Live
    <3> QED
      BY <3>2, <3>3
  <2>7. ASSUME NEW p \in Proc, NEW n \in CmdId, Monitor(p, n), ~MonitorExit(p, n),
               ~MonitorRestart(p, n)
        PROVE  state'[q] \in {"running", "stopping"}
    <3>1. UNCHANGED <<requested, state>>
      BY <2>7 DEF Monitor, MonitorBegin, MonitorWaitCall, MonitorReaps, MonitorTakesCtx,
         MonitorDrains, procVars
    <3>2. (\E c \in CmdId \cup {NoCmd} : WaitReap(p, c)) \/ UNCHANGED child
      BY <2>7 DEF Monitor, MonitorBegin, MonitorWaitCall, MonitorReaps, MonitorTakesCtx,
         MonitorDrains, WaitCtx, WaitDrain, execVars, TypeOK
    <3>3. Live(q, m)
      BY <3>2, OthersEnd
    <3> QED
      BY <2>2, <3>1, <3>3
  <2>8. ASSUME NEW p \in Proc, StopBegin(p) \/ StopEnd(p)
        PROVE  state'[q] \in {"running", "stopping"}
    <3>1. UNCHANGED <<requested, child>>
      BY <2>8 DEF StopBegin, StopEnd, execVars
    <3>2. CASE p # q
      <4>1. state'[q] = state[q]
        BY <2>8, <3>2 DEF StopBegin, StopEnd, TypeOK
      <4> QED
        BY <2>1, <3>1, <4>1 DEF Live
    <3>3. CASE p = q /\ StopBegin(p)
      BY <3>3 DEF StopBegin, TypeOK
    <3>4. CASE p = q /\ StopEnd(p)
      <4>1. Chain(q)
        BY <2>1, <3>1
      <4>2. cmd[q] = launched[q] /\ child[q][cmd[q]] = "reaped"
        BY <3>4 DEF StopEnd, ReapInv, LockInv, StoppingIsLocked, SignalsGoToNewest, Unlocked
      <4>3. m = launched[q] \/ m > launched[q] \/ m < launched[q]
        BY MaxStartsAssumption DEF TypeOK, CmdId
      <4>4. ~Live(q, m)
        BY <4>1, <4>2, <4>3 DEF Chain, Live
      <4> QED
        BY <3>1, <4>4 DEF Live
    <3> QED
      BY <2>8, <3>2, <3>3, <3>4
  <2>9. ASSUME NEW p \in Proc, StopWaitCall(p) \/ StopReaps(p) \/ StopTakesCtx(p)
               \/ StopDrains(p) \/ StopTimeout(p)
        PROVE  state'[q] \in {"running", "stopping"}
    <3>1. UNCHANGED <<requested, state>>
      BY <2>9 DEF StopWaitCall, StopReaps, StopTakesCtx, StopDrains, StopTimeout, procVars
    <3>2. WaitReap(p, cmd[p]) \/ CmdKill(p, cmd[p]) \/ UNCHANGED child
      BY <2>9 DEF StopWaitCall, StopReaps, StopTakesCtx, StopDrains, StopTimeout, WaitCtx,
         WaitDrain, execVars
    <3>3. Live(q, m)
      BY <3>2, OthersEnd DEF TypeOK
    <3> QED
      BY <2>2, <3>1, <3>3
  <2>10. ASSUME NEW p \in Proc, NEW n \in CmdId, ChildStep(p, n) \/ WatcherStep(p, n)
         PROVE  state'[q] \in {"running", "stopping"}
    <3>1. UNCHANGED <<requested, state>>
      BY <2>10 DEF ChildStep, WatcherStep, procVars
    <3>2. ChildExits(p, n) \/ CmdKill(p, n) \/ UNCHANGED child
      BY <2>10 DEF ChildStep, WatcherStep, PipeCloses, CtxKills
    <3>3. Live(q, m)
      BY <3>2, OthersEnd
    <3> QED
      BY <2>2, <3>1, <3>3
  <2>11. CASE UNCHANGED <<requested, state, child>>
    BY <2>2, <2>11 DEF Live
  <2> QED
    BY <2>4, <2>5, <2>6, <2>7, <2>8, <2>9, <2>10, <2>11 DEF Next, StopProcess,
       StopContinues, StopIgnored, TrackFires, TrackCancelled, Cancel, vars, execVars, procVars
<1> QED
  BY <1>1, <1>2, Typing, LockDiscipline, ReapInvariant, ChainInvariant, PTL DEF Spec, LockInv
=============================================================================
