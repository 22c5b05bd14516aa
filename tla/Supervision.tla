----------------------------- MODULE Supervision -----------------------------
(***************************************************************************)
(* ProcessManager implements Supervisor for each of its processes: the     *)
(* goroutines of manager.go, seen from outside.                            *)
(***************************************************************************)
EXTENDS ProcessManager

\* How many restarts the settings of p allow, startup and runtime together.
RestartBudget(p) ==
  LET c == config[p]
  IN  IF c.policy = "never" THEN 0
      ELSE IF c.maxRestarts = Infinite THEN Infinite
           ELSE c.startRetries + c.maxRestarts

Supervised(p) == INSTANCE Supervisor WITH
  budget   <- RestartBudget(p),
  phase    <- state[p],
  launched <- launched[p],
  live     <- {n \in CmdId : Live(p, n)},
  owed     <- Pending(p),
  charged  <- startupAttempts[p] + runtimeRestarts[p],
  asked    <- requested[p],
  over     <- cancelled

\* What the goroutines do to a process is what the supervisor promises:
\* commands are launched on request or for an exit that earned it, one at a
\* time if asked for once; stops end with the command gone (manager.go:141-518).
\* This is \A p \in Proc : Supervised(p)!Spec, written as one formula [][A]_v.
ImplementsSupervisor ==
  /\ \A p \in Proc : Supervised(p)!Init
  /\ [][\A p \in Proc :
          [Supervised(p)!Next]_(Supervised(p)!supervisorVars)]_vars
=============================================================================
