---------------------------- MODULE HealthChecker ----------------------------
(***************************************************************************)
(* The health checker (health.go): one goroutine per process that has a    *)
(* health check, the results they store, and what the /health endpoint     *)
(* makes of the results.  Start is called at the end of StartAll, Stop at  *)
(* the beginning of StopAll; a SIGTERM during StartAll makes Stop the      *)
(* first of the two.                                                       *)
(*                                                                         *)
(* Of the manager this module keeps what the checker sees: whether a       *)
(* process is running, and whether a StopProcess holds its lock.           *)
(***************************************************************************)
EXTENDS HealthReport

CONSTANT Proc   \* the processes that have a health check

VARIABLES
  running,    \* the State of the process is "running"
  locked,     \* a StopProcess holds the lock of the process
  ticked,     \* the channel of the ticker holds a tick
  phase,      \* phase of the goroutine running the checks of a process
  status,     \* result.Status of the check it is executing
  results,    \* h.results, by process
  started,    \* Start has been called
  cancelled,  \* h.ctx is done
  stop        \* phase of the call of Stop

vars == <<running, locked, ticked, phase, status, results, started, cancelled, stop>>
managerVars == <<running, locked>>
stopVars == <<started, cancelled, stop>>

\* "command" runs the health command, "drain" waits for its output to end.
Phase == {"none", "check", "command", "drain", "store", "select", "ask", "ended"}

TypeOK ==
  /\ running \in [Proc -> BOOLEAN]
  /\ locked \in [Proc -> BOOLEAN]
  /\ ticked \in [Proc -> BOOLEAN]
  /\ phase \in [Proc -> Phase]
  /\ status \in [Proc -> Status]
  /\ results \in [Proc -> Status \cup {"none"}]
  /\ started \in BOOLEAN
  /\ stop \in {"none", "waiting", "returned"}
  /\ cancelled <=> stop # "none"
  /\ \A p \in Proc : phase[p] = "none" <=> ~started

Init ==
  /\ running = [p \in Proc |-> FALSE]
  /\ locked = [p \in Proc |-> FALSE]
  /\ ticked = [p \in Proc |-> FALSE]
  /\ phase = [p \in Proc |-> "none"]
  /\ status = [p \in Proc |-> "unknown"]
  /\ results = [p \in Proc |-> "none"]
  /\ started = FALSE
  /\ cancelled = FALSE
  /\ stop = "none"

-----------------------------------------------------------------------------
(* The manager.                                                            *)

\* StartProcess and monitorProcess change the State of p under its lock.
StateChanges(p) ==
  /\ ~locked[p]
  /\ running' = [running EXCEPT ![p] = ~@]
  /\ UNCHANGED <<locked, ticked, phase, status, results, stopVars>>

\* StopProcess keeps the lock while it waits for the exit of the child.
StopProcessBegins(p) ==
  /\ ~locked[p]
  /\ running[p]
  /\ locked' = [locked EXCEPT ![p] = TRUE]
  /\ running' = [running EXCEPT ![p] = FALSE]
  /\ UNCHANGED <<ticked, phase, status, results, stopVars>>

StopProcessEnds(p) ==
  /\ locked[p]
  /\ locked' = [locked EXCEPT ![p] = FALSE]
  /\ UNCHANGED <<running, ticked, phase, status, results, stopVars>>

\* Mutant: the first check waits for a tick.
StartWithoutCheck ==
  /\ ~started
  /\ started' = TRUE
  /\ phase' = [p \in Proc |-> "select"]
  /\ UNCHANGED <<managerVars, ticked, status, results, cancelled, stop>>

\* The first check is made at once, whatever the State of the process.
Start ==
  /\ ~started
  /\ started' = TRUE
  /\ phase' = [p \in Proc |-> "check"]
  /\ UNCHANGED <<managerVars, ticked, status, results, cancelled, stop>>

StopCalled ==
  /\ stop = "none"
  /\ stop' = "waiting"
  /\ cancelled' = TRUE
  /\ UNCHANGED <<managerVars, ticked, phase, status, results, started>>

\* h.wg.Wait() returns.
StopReturns ==
  /\ stop = "waiting"
  /\ \A p \in Proc : phase[p] \in {"none", "ended"}
  /\ stop' = "returned"
  /\ UNCHANGED <<managerVars, ticked, phase, status, results, started, cancelled>>

-----------------------------------------------------------------------------
(* runHealthChecks and executeHealthCheck.                                 *)

Goes(p, next) == phase' = [phase EXCEPT ![p] = next]

\* A channel of one element: a tick that nobody took is dropped.
Tick(p) ==
  /\ phase[p] \notin {"none", "ended"}
  /\ ticked' = [ticked EXCEPT ![p] = TRUE]
  /\ UNCHANGED <<managerVars, phase, status, results, stopVars>>

\* Mutant: the command is run with a context of its own.
CommandIgnoresContext(p) ==
  /\ phase[p] = "check"
  /\ Goes(p, "command")
  /\ status' = [status EXCEPT ![p] = "unknown"]
  /\ UNCHANGED <<managerVars, ticked, results, stopVars>>

\* The command is started; this always fails once the context is done.
CommandStarts(p) ==
  /\ phase[p] = "check"
  /\ \E ok \in BOOLEAN :
       /\ ok => ~cancelled
       /\ Goes(p, IF ok THEN "command" ELSE "store")
       /\ status' = [status EXCEPT ![p] = IF ok THEN "unknown" ELSE "unhealthy"]
  /\ UNCHANGED <<managerVars, ticked, results, stopVars>>

\* The shell ends by itself.
CommandEnds(p) ==
  /\ phase[p] = "command"
  /\ Goes(p, "drain")
  /\ \E s \in {"healthy", "unhealthy"} : status' = [status EXCEPT ![p] = s]
  /\ UNCHANGED <<managerVars, ticked, results, stopVars>>

\* It is killed after 30 seconds, or when Stop cancels the context.
CommandKilled(p) ==
  /\ phase[p] = "command"
  /\ Goes(p, "drain")
  /\ status' = [status EXCEPT ![p] = "unhealthy"]
  /\ UNCHANGED <<managerVars, ticked, results, stopVars>>

\* CombinedOutput returns once no descendant of the shell holds the pipe.
OutputEnds(p) ==
  /\ phase[p] = "drain"
  /\ Goes(p, "store")
  /\ UNCHANGED <<managerVars, ticked, status, results, stopVars>>

Store(p) ==
  /\ phase[p] = "store"
  /\ results' = [results EXCEPT ![p] = status[p]]
  /\ Goes(p, "select")
  /\ UNCHANGED <<managerVars, ticked, status, stopVars>>

\* When both channels are ready either is chosen.
TakeTick(p) ==
  /\ phase[p] = "select"
  /\ ticked[p]
  /\ ticked' = [ticked EXCEPT ![p] = FALSE]
  /\ Goes(p, "ask")
  /\ UNCHANGED <<managerVars, status, results, stopVars>>

\* Mutant: the goroutine does not look at the context.
NeverEnds(p) == FALSE /\ Goes(p, "ended")

SeeDone(p) ==
  /\ phase[p] = "select"
  /\ cancelled
  /\ Goes(p, "ended")
  /\ UNCHANGED <<managerVars, ticked, status, results, stopVars>>

\* GetProcessState waits for the lock; the process may change before the
\* command runs.
Ask(p) ==
  /\ phase[p] = "ask"
  /\ ~locked[p]
  /\ Goes(p, IF running[p] THEN "check" ELSE "select")
  /\ UNCHANGED <<managerVars, ticked, status, results, stopVars>>

Checks(p) ==
  \/ CommandStarts(p)
  \/ CommandKilled(p)
  \/ Store(p)
  \/ TakeTick(p)
  \/ SeeDone(p)
  \/ Ask(p)

Next ==
  \/ Start
  \/ StopCalled
  \/ StopReturns
  \/ \E p \in Proc :
       \/ StateChanges(p)
       \/ StopProcessBegins(p)
       \/ StopProcessEnds(p)
       \/ Tick(p)
       \/ Checks(p)
       \/ CommandEnds(p)
       \/ OutputEnds(p)

Spec == Init /\ [][Next]_vars

(***************************************************************************)
(* Fairness.  The goroutines run, the timeout of a command fires, and the  *)
(* select statement, which chooses at random between channels that are     *)
(* ready, does not pass over the context for ever.  A reader that waits    *)
(* for an RWMutex gets it when the writer lets go of it.  Nothing is       *)
(* assumed of the descendants of a health command, nor of the stops of the *)
(* manager.                                                                *)
(***************************************************************************)
FairSpec ==
  /\ Spec
  /\ WF_vars(StopReturns)
  /\ \A p \in Proc : WF_vars(Checks(p)) /\ SF_vars(SeeDone(p)) /\ SF_vars(Ask(p))

-----------------------------------------------------------------------------
\* After Stop has returned no health command runs, although Start may be
\* called after Stop and a tick may be taken after the context is done
\* (health.go:45-61, 73-89, 101).
NoCheckAfterStop ==
  stop = "returned" => \A p \in Proc : phase[p] \notin {"command", "drain"}

\* A descendant of the health command holds its output, or a StopProcess the
\* lock the goroutine is waiting for.  Every command passes through this; it
\* is a hindrance only when it lasts for ever.
Held(p) == phase[p] = "drain" \/ (phase[p] = "ask" /\ locked[p])

\* Stop returns, whatever the goroutines are doing when it is called, unless
\* one of them is held for ever from some moment on (health.go:57-61, 63-92).
StopReturnsUnlessHeld ==
  stop = "waiting" ~> (stop = "returned" \/ \E p \in Proc : []Held(p))

\* Every process with a health check gets a result, also one that is never
\* running, or whose goroutine first runs when Stop has been called, unless
\* its first command holds the output for ever (health.go:69-70, 101-130).
FirstResult ==
  \A p \in Proc : started ~> (results[p] # "none" \/ [](phase[p] = "drain"))
=============================================================================
