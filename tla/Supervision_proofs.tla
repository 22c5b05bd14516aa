-------------------------- MODULE Supervision_proofs --------------------------
(***************************************************************************)
(* Proof that ProcessManager implements Supervisor, for any number of      *)
(* processes, commands and requests and any restart settings.              *)
(***************************************************************************)
EXTENDS Supervision, ProcessManager_proofs

-----------------------------------------------------------------------------
(* The invariant of the refinement.                                        *)

\* What the mapping of a step relies on.
MapInv ==
  /\ TypeOK
  /\ LockInv
  /\ WithinBudget
  /\ ReapInv
  /\ ChainInv
  /\ Spawned

-----------------------------------------------------------------------------
(* The steps of one process, as Supervisor sees them.                      *)

\* The children of p that are alive: what Supervisor calls live.
LiveOf(p) == {n \in CmdId : Live(p, n)}

\* What the view of p depends on.
viewVars(p) ==
  <<config[p], state[p], launched[p], LiveOf(p), Pending(p), startupAttempts[p],
    runtimeRestarts[p], requested[p], cancelled>>

Mapped(p) == [Supervised(p)!Next]_(Supervised(p)!supervisorVars)

LEMMA Invisible ==
  ASSUME NEW p \in Proc, UNCHANGED viewVars(p)
  PROVE  Mapped(p)
BY DEF viewVars, Mapped, Supervised!supervisorVars, RestartBudget, LiveOf

\* The restarts that are pending after a start are those pending among the
\* phases it was given.
LEMMA StartsMapped ==
  ASSUME TypeOK, LockInv, NEW p \in Proc, NEW phases \in [CmdId -> MonPhase],
         StartProcess(p, phases),
         \A n \in CmdId : n > launched[p] => phases[n] = "none",
         requested'[p] <= 1 /\ state[p] # "running" => LiveOf(p) = {}
  PROVE  /\ Supervised(p)!Starts
         /\ Pending(p)' = {n \in CmdId : phases[n] = "restarting"}
<1>1. /\ state[p] # "stopping"
      /\ RestartBudget(p)' = RestartBudget(p)
      /\ UNCHANGED <<startupAttempts, runtimeRestarts>>
  BY DEF StartProcess, RestartBudget, LockInv, StoppingIsLocked
<1>2. CASE AlreadyRunning(p, phases)
  <2>1. /\ state[p] = "running"
        /\ UNCHANGED <<state, launched, child, cancelled>>
        /\ mon'[p] = phases
    BY <1>2 DEF AlreadyRunning, execVars, TypeOK
  <2>2. LiveOf(p)' = LiveOf(p)
    BY <2>1 DEF LiveOf, Live
  <2> QED
    BY <1>1, <2>1, <2>2 DEF Supervised!Starts, Pending, LiveOf
<1>3. CASE LaunchFails(p, phases)
  <2>1. /\ state[p] # "running"
        /\ state'[p] = "failed"
        /\ UNCHANGED <<launched, child, cancelled>>
        /\ mon'[p] = phases
    BY <1>3 DEF LaunchFails, execVars, TypeOK
  <2>2. LiveOf(p)' = LiveOf(p)
    BY <2>1 DEF LiveOf, Live
  <2> QED
    BY <1>1, <2>1, <2>2 DEF Supervised!Starts, Pending, LiveOf
<1>4. CASE Launch(p, phases)
  <2> DEFINE last == launched[p] + 1
  <2>1. /\ last \in CmdId
        /\ last > launched[p]
        /\ launched'[p] = last
        /\ state[p] # "running"
        /\ state'[p] = "running"
        /\ mon'[p] = [phases EXCEPT ![last] = "begin"]
        /\ child'[p] = [child[p] EXCEPT ![last] = "running"]
        /\ ~cancelled
        /\ cancelled' = cancelled
    BY <1>4, MaxStartsAssumption DEF Launch, CmdStart, TypeOK, ExecTypeOK, CmdId
  <2>2. LiveOf(p)' = LiveOf(p) \cup {last}
    BY <2>1 DEF LiveOf, Live, TypeOK, ExecTypeOK
  <2>3. Pending(p)' = {n \in CmdId : phases[n] = "restarting"}
    BY <2>1 DEF Pending
  <2>4. requested'[p] <= 1 => LiveOf(p) = {}
    BY <2>1
  <2>5. launched'[p] = launched[p] + 1 /\ LiveOf(p)' = LiveOf(p) \cup {launched'[p]}
    BY <2>1, <2>2
  <2> HIDE DEF last
  <2> QED
    BY <1>1, <2>1, <2>3, <2>4, <2>5 DEF Supervised!Starts, LiveOf
<1> QED
  BY <1>2, <1>3, <1>4 DEF StartProcess

LEMMA RequestMapped ==
  ASSUME MapInv, NEW p \in Proc, RequestStart(p)
  PROVE  Supervised(p)!Request
<1>1. /\ mon[p] \in [CmdId -> MonPhase]
      /\ StartProcess(p, mon[p])
      /\ requested[p] \in Nat
      /\ requested'[p] = requested[p] + 1
  BY MaxRequestsAssumption DEF MapInv, TypeOK, RequestStart
<1>2. requested'[p] <= 1 => LiveOf(p) = {}
  <2> SUFFICES ASSUME requested'[p] <= 1
               PROVE  LiveOf(p) = {}
    OBVIOUS
  <2>1. requested[p] = 0
    BY <1>1
  <2>2. launched[p] = 0 /\ \A n \in CmdId : n > launched[p] => child[p][n] = "unborn"
    BY <2>1 DEF MapInv, ChainInv, Chain
  <2>3. \A n \in CmdId : n > 0
    BY DEF CmdId
  <2> QED
    BY <2>2, <2>3 DEF LiveOf, Live
<1>3. \A n \in CmdId : n > launched[p] => mon[p][n] = "none"
  BY DEF MapInv, Spawned
<1>4. Supervised(p)!Starts /\ Pending(p)' = Pending(p)
  BY <1>1, <1>2, <1>3, StartsMapped DEF MapInv, Pending
<1> QED
  BY <1>1, <1>4 DEF Supervised!Request

LEMMA RestartMapped ==
  ASSUME MapInv, NEW p \in Proc, NEW n \in CmdId, MonitorRestart(p, n)
  PROVE  Supervised(p)!Restart
<1> DEFINE phases == [mon[p] EXCEPT ![n] = "done"]
<1>1. /\ phases \in [CmdId -> MonPhase]
      /\ StartProcess(p, phases)
      /\ mon[p][n] = "restarting"
      /\ requested' = requested
  BY DEF MapInv, TypeOK, MonitorRestart, MonPhase
<1>2. requested'[p] <= 1 => LiveOf(p) = {}
  <2> SUFFICES ASSUME Chain(p)
               PROVE  LiveOf(p) = {}
    BY <1>1 DEF MapInv, ChainInv
  <2>1. launched[p] \in Int /\ CmdId \subseteq Int /\ \A m \in CmdId : m # 0
    BY MaxStartsAssumption DEF MapInv, TypeOK, CmdId
  <2>2. n = launched[p]
    BY <1>1, <2>1 DEF Chain
  <2>3. ~Live(p, n)
    BY <1>1, <2>1, <2>2 DEF Chain
  <2>4. \A m \in CmdId : m # n => ~Live(p, m)
    BY <2>1, <2>2 DEF Chain, Live
  <2> QED
    BY <2>3, <2>4 DEF LiveOf
<1>3. \A m \in CmdId : m > launched[p] => phases[m] = "none"
  BY <1>1 DEF MapInv, Spawned, TypeOK
<1>4. /\ Supervised(p)!Starts
      /\ Pending(p)' = {m \in CmdId : phases[m] = "restarting"}
  <2> HIDE DEF phases
  <2> QED
    BY <1>1, <1>2, <1>3, StartsMapped DEF MapInv
<1>5. {m \in CmdId : phases[m] = "restarting"} = Pending(p) \ {n}
  BY DEF Pending, MapInv, TypeOK
<1>6. n \in Pending(p)
  BY <1>1 DEF Pending
<1> QED
  BY <1>1, <1>4, <1>5, <1>6 DEF Supervised!Restart

\* The monitor's critical section after Wait is the exit Supervisor notices.
LEMMA ExitMapped ==
  ASSUME MapInv, NEW p \in Proc, NEW n \in CmdId, MonitorExit(p, n)
  PROVE  Supervised(p)!ExitNoticed
<1> DEFINE restart == ShouldRestart(p, monErr[p][n])
<1>1. mon[p][n] = "returned" /\ state[p] # "stopping"
  BY DEF MonitorExit, MapInv, LockInv, StoppingIsLocked
<1>2. /\ UNCHANGED <<config, launched, child, cancelled, requested>>
      /\ state'[p] \in {"stopped", "failed"}
      /\ LiveOf(p)' = LiveOf(p)
      /\ RestartBudget(p)' = RestartBudget(p)
  BY DEF MonitorExit, StateAfterExit, execVars, MapInv, TypeOK, LiveOf, Live, RestartBudget
<1>3. requested[p] <= 1 => LiveOf(p) = {}
  <2> SUFFICES ASSUME Chain(p)
               PROVE  LiveOf(p) = {}
    BY DEF MapInv, ChainInv
  <2>1. launched[p] \in Int /\ CmdId \subseteq Int /\ \A m \in CmdId : m # 0
    BY MaxStartsAssumption DEF MapInv, TypeOK, CmdId
  <2>2. n = launched[p]
    BY <1>1, <2>1 DEF Chain
  <2>3. ~Live(p, n)
    BY <1>1, <2>1, <2>2 DEF Chain
  <2>4. \A m \in CmdId : m # n => ~Live(p, m)
    BY <2>1, <2>2 DEF Chain, Live
  <2> QED
    BY <2>3, <2>4 DEF LiveOf
<1>4. n \in 1 .. launched[p] \ Pending(p)
  <2>1. n \in Int /\ 1 <= n /\ launched[p] \in Int
    BY MaxStartsAssumption DEF MapInv, TypeOK, CmdId
  <2>2. ~(n > launched[p]) /\ n \notin Pending(p)
    BY <1>1 DEF MapInv, Spawned, Pending
  <2> QED
    BY <2>1, <2>2
<1>5. CASE restart
  <2> DEFINE c == config[p]
  <2>1. /\ c.policy # "never"
        /\ c.startRetries \in Nat
        /\ c.maxRestarts \in Nat \cup {Infinite}
        /\ startupAttempts[p] \in Nat /\ runtimeRestarts[p] \in Nat
    BY <1>5, ConfigsAssumption DEF MapInv, TypeOK, ShouldRestart
  <2>2. /\ startupAttempts[p] <= c.startRetries
        /\ c.maxRestarts # Infinite => runtimeRestarts[p] <= c.maxRestarts
    BY DEF MapInv, WithinBudget
  <2>3. \/ startupAttempts[p] < c.startRetries
        \/ c.maxRestarts # Infinite => runtimeRestarts[p] < c.maxRestarts
    BY <1>5 DEF ShouldRestart
  <2>4. RestartBudget(p) # Infinite
          => startupAttempts[p] + runtimeRestarts[p] < RestartBudget(p)
    <3> HIDE DEF c
    <3>1. CASE c.maxRestarts = Infinite
      BY <2>1, <3>1 DEF RestartBudget, c
    <3>2. CASE c.maxRestarts # Infinite
      <4>1. RestartBudget(p) = c.startRetries + c.maxRestarts
        BY <2>1, <3>2 DEF RestartBudget, c
      <4> QED
        BY <2>1, <2>2, <2>3, <3>2, <4>1
    <3> QED
      BY <3>1, <3>2
  <2>5. startupAttempts'[p] + runtimeRestarts'[p]
          = startupAttempts[p] + runtimeRestarts[p] + 1
    BY <1>1, <1>5, <2>1 DEF MonitorExit, MapInv, TypeOK
  <2>6. Pending(p)' = Pending(p) \cup {n}
    BY <1>1, <1>5 DEF MonitorExit, MonitorGoes, Pending, MapInv, TypeOK
  <2>7. Supervised(p)!EarnsRestart(n)
    BY <2>4, <2>5, <2>6 DEF Supervised!EarnsRestart, Supervised!Infinite, Infinite
  <2> QED
    BY <1>1, <1>2, <1>3, <1>4, <2>7 DEF Supervised!ExitNoticed, Supervised!NothingLeft, LiveOf
<1>6. CASE ~restart
  <2>1. UNCHANGED <<startupAttempts, runtimeRestarts>> /\ Pending(p)' = Pending(p)
    BY <1>1, <1>6 DEF MonitorExit, MonitorGoes, Pending, MapInv, TypeOK
  <2> QED
    BY <1>1, <1>2, <1>3, <1>4, <2>1 DEF Supervised!ExitNoticed, Supervised!NothingLeft, LiveOf
<1> QED
  BY <1>5, <1>6

-----------------------------------------------------------------------------
(* The other steps.                                                        *)

\* A step of another process, and one that leaves alone what the view of p
\* depends on, is invisible.
LEMMA InvisibleIf ==
  ASSUME NEW p \in Proc,
         UNCHANGED <<config[p], state[p], launched[p], startupAttempts[p],
                     runtimeRestarts[p], requested[p], cancelled>>,
         \A n \in CmdId : /\ Live(p, n)' = Live(p, n)
                          /\ (mon[p][n] = "restarting")' = (mon[p][n] = "restarting")
  PROVE  Mapped(p)
<1>1. LiveOf(p)' = LiveOf(p) /\ Pending(p)' = Pending(p)
  BY DEF LiveOf, Pending
<1> QED
  BY <1>1, Invisible DEF viewVars

LEMMA ReapLeavesLive ==
  ASSUME TypeOK, NEW p \in Proc, NEW n \in CmdId \cup {NoCmd}, WaitReap(p, n)
  PROVE  \A q \in Proc, m \in CmdId : Live(q, m)' = Live(q, m)
<1> SUFFICES ASSUME NEW q \in Proc, NEW m \in CmdId
             PROVE  Live(q, m)' = Live(q, m)
  OBVIOUS
<1>1. child' = [child EXCEPT ![p][n] = "reaped"]
  BY DEF WaitReap
<1>2. CASE q = p /\ m = n
  <2>1. ~Live(q, m) /\ child'[q][m] = "reaped"
    BY <1>1, <1>2 DEF WaitReap, Zombie, Live, TypeOK, ExecTypeOK
  <2> QED
    BY <2>1 DEF Live
<1>3. CASE ~(q = p /\ m = n)
  <2>1. child'[q][m] = child[q][m]
    BY <1>1, <1>3 DEF TypeOK, ExecTypeOK
  <2> QED
    BY <2>1 DEF Live
<1> QED
  BY <1>2, <1>3

LEMMA KillLeavesLive ==
  ASSUME TypeOK, NEW p \in Proc, NEW n \in CmdId \cup {NoCmd}, CmdKill(p, n)
  PROVE  \A q \in Proc, m \in CmdId : Live(q, m)' = Live(q, m)
<1> SUFFICES ASSUME NEW q \in Proc, NEW m \in CmdId
             PROVE  Live(q, m)' = Live(q, m)
  OBVIOUS
<1>1. child[p][n] = "running" /\ child' = [child EXCEPT ![p][n] = "killed"]
  BY DEF CmdKill
<1>2. CASE q = p /\ m = n
  <2>1. child[q][m] = "running" /\ child'[q][m] = "killed"
    BY <1>1, <1>2 DEF TypeOK, ExecTypeOK
  <2> QED
    BY <2>1 DEF Live
<1>3. CASE ~(q = p /\ m = n)
  <2>1. child'[q][m] = child[q][m]
    BY <1>1, <1>3 DEF TypeOK, ExecTypeOK
  <2> QED
    BY <2>1 DEF Live
<1> QED
  BY <1>2, <1>3

\* The end of a child is all that is seen of the operating system.
LEMMA EnvironmentMapped ==
  ASSUME MapInv, NEW p \in Proc, NEW n \in CmdId, ChildStep(p, n) \/ WatcherStep(p, n)
  PROVE  Mapped(p)
<1>1. TypeOK /\ UNCHANGED <<procVars, mon>>
  BY DEF MapInv, ChildStep, WatcherStep, monVars
<1>2. cancelled' = cancelled
  BY DEF ChildStep, WatcherStep, ChildExits, PipeCloses, CtxKills, CmdKill
<1>3. CASE \A m \in CmdId : Live(p, m)' = Live(p, m)
  BY <1>1, <1>2, <1>3, InvisibleIf DEF procVars
<1>4. CASE ChildExits(p, n)
  <2>1. PICK s \in {"succeeded", "failed"} : child' = [child EXCEPT ![p][n] = s]
    BY <1>4 DEF ChildExits
  <2>2. n \in LiveOf(p)
    BY <1>4 DEF ChildExits, LiveOf
  <2>3. LiveOf(p)' = LiveOf(p) \ {n}
    BY <1>1, <2>1 DEF LiveOf, Live, TypeOK, ExecTypeOK
  <2>4. Supervised(p)!CommandEnds
    BY <1>1, <1>2, <2>2, <2>3
       DEF Supervised!CommandEnds, LiveOf, procVars, RestartBudget, Pending
  <2> QED
    BY <2>4 DEF Mapped, Supervised!Next
<1>5. CASE PipeCloses(p, n)
  BY <1>3, <1>5 DEF PipeCloses, Live
<1>6. CASE WatcherStep(p, n)
  BY <1>1, <1>3, <1>6, KillLeavesLive DEF WatcherStep, CtxKills
<1> QED
  BY <1>4, <1>5, <1>6 DEF ChildStep

LEMMA MonitorMapped ==
  ASSUME MapInv, NEW p \in Proc, NEW n \in CmdId, Monitor(p, n)
  PROVE  Mapped(p)
<1>1. CASE MonitorRestart(p, n)
  BY <1>1, RestartMapped DEF Mapped, Supervised!Next
<1>2. CASE MonitorExit(p, n)
  BY <1>2, ExitMapped DEF Mapped, Supervised!Next
<1>3. CASE ~MonitorRestart(p, n) /\ ~MonitorExit(p, n)
  <2>1. TypeOK /\ procVars' = procVars /\ cancelled' = cancelled
    BY <1>3 DEF MapInv, Monitor, MonitorBegin, MonitorWaitCall, MonitorReaps, MonitorTakesCtx,
       MonitorDrains, WaitReap, WaitCtx, WaitDrain, execVars
  <2>2. /\ mon[p][n] # "restarting"
        /\ \E phase \in MonPhase \ {"restarting"} : MonitorGoes(p, n, phase)
    BY <1>3 DEF Monitor, MonitorBegin, MonitorWaitCall, MonitorReaps, MonitorTakesCtx,
       MonitorDrains, WaitEntry, MonPhase, WaitPhase
  <2>3. \A m \in CmdId : (mon[p][m] = "restarting")' = (mon[p][m] = "restarting")
    BY <2>1, <2>2 DEF MonitorGoes, TypeOK
  <2>4. \A m \in CmdId : Live(p, m)' = Live(p, m)
    <3>1. CASE MonitorReaps(p, n)
      <4>1. monCmd[p][n] \in CmdId \cup {NoCmd} /\ WaitReap(p, monCmd[p][n])
        BY <2>1, <3>1 DEF MonitorReaps, TypeOK
      <4> QED
        BY <2>1, <4>1, ReapLeavesLive
    <3>2. CASE UNCHANGED child
      BY <3>2 DEF Live
    <3> QED
      BY <1>3, <3>1, <3>2 DEF Monitor, MonitorBegin, MonitorWaitCall, MonitorTakesCtx,
         MonitorDrains, WaitCtx, WaitDrain, execVars
  <2> QED
    BY <2>1, <2>3, <2>4, InvisibleIf DEF procVars
<1> QED
  BY <1>1, <1>2, <1>3

LEMMA StopMapped ==
  ASSUME MapInv, NEW p \in Proc, StopProcess(p) \/ StopContinues(p)
  PROVE  Mapped(p)
<1>1. TypeOK
  BY DEF MapInv
<1>2. CASE StopBegin(p)
  <2>1. Supervised(p)!StopBegins
    BY <1>1, <1>2 DEF StopBegin, execVars, monVars, TypeOK, Supervised!StopBegins, Live,
       Pending, RestartBudget
  <2> QED
    BY <2>1 DEF Mapped, Supervised!Next
<1>3. CASE StopEnd(p)
  <2>1. /\ state[p] = "stopping"
        /\ cmd[p] = launched[p]
        /\ child[p][cmd[p]] = "reaped"
    BY <1>3 DEF StopEnd, MapInv, LockInv, StoppingIsLocked, SignalsGoToNewest, Unlocked, ReapInv
  <2>2. launched[p] \notin LiveOf(p)
    BY <2>1 DEF LiveOf, Live
  <2>3. /\ state'[p] = "stopped"
        /\ UNCHANGED <<config, startupAttempts, runtimeRestarts, launched, requested, child,
                       cancelled, mon>>
    BY <1>1, <1>3 DEF StopEnd, execVars, monVars, TypeOK
  <2>4. Supervised(p)!StopEnds
    BY <2>1, <2>2, <2>3 DEF Supervised!StopEnds, LiveOf, Live, Pending, RestartBudget
  <2> QED
    BY <2>4 DEF Mapped, Supervised!Next
<1>4. CASE ~StopBegin(p) /\ ~StopEnd(p)
  <2>1. UNCHANGED <<procVars, mon, cancelled>>
    BY <1>4 DEF StopProcess, StopContinues, StopIgnored, StopWaitCall, StopReaps, StopTakesCtx,
       StopDrains, StopTimeout, WaitReap, WaitCtx, WaitDrain, CmdKill, execVars, monVars, vars
  <2>2. cmd[p] \in CmdId \cup {NoCmd}
    BY <1>1 DEF TypeOK
  <2>3. \A m \in CmdId : Live(p, m)' = Live(p, m)
    <3>1. CASE StopReaps(p)
      BY <1>1, <2>2, <3>1, ReapLeavesLive DEF StopReaps
    <3>2. CASE StopTimeout(p)
      BY <1>1, <2>2, <3>2, KillLeavesLive DEF StopTimeout
    <3>3. CASE UNCHANGED child
      BY <3>3 DEF Live
    <3> QED
      BY <1>4, <3>1, <3>2, <3>3 DEF StopProcess, StopContinues, StopIgnored, StopWaitCall,
         StopTakesCtx, StopDrains, WaitCtx, WaitDrain, execVars, vars
  <2> QED
    BY <2>1, <2>3, InvisibleIf DEF procVars
<1> QED
  BY <1>2, <1>3, <1>4

\* The steps of one process are invisible to the others.
LEMMA OthersMapped ==
  ASSUME MapInv, NEW p \in Proc, NEW q \in Proc, p # q, NEW n,
         \/ RequestStart(p)
         \/ StopProcess(p)
         \/ StopContinues(p)
         \/ Monitor(p, n)
         \/ ChildStep(p, n)
         \/ WatcherStep(p, n)
  PROVE  Mapped(q)
<1>1. TypeOK
  BY DEF MapInv
<1>2. UNCHANGED <<chainVars(q), child[q]>>
  BY <1>1, StepsAreLocal
<1>3. UNCHANGED <<config, cancelled, startupAttempts[q], runtimeRestarts[q]>>
  <2> USE DEF execVars, procVars, monVars, vars
  <2>1. ASSUME NEW phases, StartProcess(p, phases)
        PROVE  UNCHANGED <<config, cancelled, startupAttempts, runtimeRestarts>>
    BY <2>1 DEF StartProcess, AlreadyRunning, Launch, LaunchFails, CmdStart
  <2>2. CASE RequestStart(p) \/ MonitorRestart(p, n)
    BY <2>1, <2>2 DEF RequestStart, MonitorRestart
  <2>3. CASE MonitorExit(p, n)
    BY <1>1, <2>3 DEF MonitorExit, TypeOK
  <2>4. CASE Monitor(p, n) /\ ~MonitorExit(p, n) /\ ~MonitorRestart(p, n)
    BY <2>4 DEF Monitor, MonitorBegin, MonitorWaitCall, MonitorReaps, MonitorTakesCtx,
       MonitorDrains, WaitReap, WaitCtx, WaitDrain
  <2>5. CASE StopProcess(p) \/ StopContinues(p)
    BY <2>5 DEF StopProcess, StopBegin, StopIgnored, StopContinues, StopWaitCall, StopReaps,
       StopTakesCtx, StopDrains, StopTimeout, StopEnd, WaitReap, WaitCtx, WaitDrain, CmdKill
  <2>6. CASE ChildStep(p, n) \/ WatcherStep(p, n)
    BY <2>6 DEF ChildStep, WatcherStep, ChildExits, PipeCloses, CtxKills, CmdKill
  <2> QED
    BY <2>2, <2>3, <2>4, <2>5, <2>6
<1> QED
  BY <1>2, <1>3, InvisibleIf DEF chainVars, Live

LEMMA CancelMapped ==
  ASSUME NEW p \in Proc, Cancel
  PROVE  Mapped(p)
<1>1. Supervised(p)!ShutsDown
  BY DEF Cancel, Supervised!ShutsDown, RestartBudget, Live, Pending, procVars, monVars
<1> QED
  BY <1>1 DEF Mapped, Supervised!Next

LEMMA InitMapped ==
  ASSUME Init, NEW p \in Proc
  PROVE  Supervised(p)!Init
<1>1. /\ state[p] = "stopped" /\ launched[p] = 0 /\ requested[p] = 0 /\ cancelled = FALSE
      /\ startupAttempts[p] = 0 /\ runtimeRestarts[p] = 0
      /\ config[p] \in Configs
  BY DEF Init, ExecInit
<1>2. LiveOf(p) = {} /\ Pending(p) = {}
  BY DEF Init, ExecInit, LiveOf, Live, Pending
<1>3. RestartBudget(p) \in Nat \cup {Infinite}
  BY <1>1, ConfigsAssumption DEF RestartBudget
<1> QED
  BY <1>1, <1>2, <1>3 DEF Supervised!Init, Supervised!Infinite, Infinite, LiveOf

\* The goroutines of manager.go implement what Supervisor promises of a
\* process: every step of theirs is one of its steps, or invisible.
THEOREM Refinement == Spec => ImplementsSupervisor
<1>1. Init => \A p \in Proc : Supervised(p)!Init
  BY InitMapped
<1>2. MapInv /\ [Next]_vars
        => [\A p \in Proc : [Supervised(p)!Next]_(Supervised(p)!supervisorVars)]_vars
  <2> SUFFICES ASSUME MapInv, Next, NEW q \in Proc
               PROVE  Mapped(q)
    BY DEF Mapped
  <2>1. ASSUME NEW p \in Proc, RequestStart(p)
        PROVE  Mapped(q)
    <3>1. CASE p = q
      BY <2>1, <3>1, RequestMapped DEF Mapped, Supervised!Next
    <3> QED
      BY <2>1, <3>1, OthersMapped
  <2>2. ASSUME NEW p \in Proc, StopProcess(p) \/ StopContinues(p)
        PROVE  Mapped(q)
    BY <2>2, StopMapped, OthersMapped
  <2>3. ASSUME NEW p \in Proc, NEW n \in CmdId, Monitor(p, n)
        PROVE  Mapped(q)
    BY <2>3, MonitorMapped, OthersMapped
  <2>4. ASSUME NEW p \in Proc, NEW n \in CmdId, ChildStep(p, n) \/ WatcherStep(p, n)
        PROVE  Mapped(q)
    BY <2>4, EnvironmentMapped, OthersMapped
  <2>5. ASSUME NEW p \in Proc, NEW n \in CmdId, TrackFires(p, n) \/ TrackCancelled(p, n)
        PROVE  Mapped(q)
    BY <2>5, InvisibleIf DEF TrackFires, TrackCancelled, execVars, procVars, monVars, Live
  <2>6. CASE Cancel
    BY <2>6, CancelMapped
  <2> QED
    BY <2>1, <2>2, <2>3, <2>4, <2>5, <2>6 DEF Next
<1>3. Spec => []MapInv
  BY Typing, LockDiscipline, Budgets, ReapInvariant, ChainInvariant, SpawnedInvariant, PTL
     DEF MapInv, LockInv
<1> QED
  BY <1>1, <1>2, <1>3, PTL DEF Spec, ImplementsSupervisor
=============================================================================
