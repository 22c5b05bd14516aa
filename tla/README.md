# A verification of wardend

wardend (Go, one binary) starts the processes a container needs, restarts
them, checks their health and stops them on SIGTERM. This directory holds TLA+
models of it, TLC runs that check them on small instances, and TLAPS proofs
for every instance. `PROJECT.json` lists the parts, the runs, the hazards, the
theorems and, definition by definition, the source lines each stands for.

Run from this directory:

    tlc -workers 2 -config MCSupervision.cfg MCProcessManager.tla
    tlapm ProcessManager_proofs.tla

Each module of proofs is named after the module it is about.

## The system

| Part | State | Operations | Talks to |
|---|---|---|---|
| Process lifecycle (`manager.go`) | per process: `State`, `Cmd`, two restart counters, `StartupComplete`, a mutex | `StartProcess`, `StopProcess`, `monitorProcess`, the delayed restart, `trackStartupCompletion`, `shouldRestart` | `os/exec`, the logs |
| Start-up, signals, shutdown (`manager.go`, `signals.go`, `main.go`) | the main goroutine, a channel for one signal, a wait group, a context | `StartAll`, `waitForDependencies`, `RestartAll`, `StopAll`, `Wait`, `os.Exit` | the lifecycle of every process, health checker, HTTP server |
| Dependencies (`config.go`, `manager.go`) | none that lasts | `validateDependencies` (depth first), `topologicalSort` (Kahn) | `StartAll`, `StopAll` |
| Health checker (`health.go`) | a goroutine per checked process, `results`, a context, a wait group | `Start`, `Stop`, `runHealthChecks`, `executeHealthCheck`, summaries | state of the processes, `/health` |
| Process logs (`logging.go`) | per process: the open file, its counted size, the backups | `Write`, `rotate`, `cleanupOldBackups`, `CloseAll`, `MultiWriter` | the copying goroutines of `os/exec` |
| HTTP server (`http_server.go`) | the listener, its connections, a handler per request | `Start`, `Stop`, four read-only handlers | manager, health checker |
| Configuration (`config.go`, `main.go`, `yaml_config.go`) | none that lasts | `buildConfig`, `ToConfig`, `FromConfig`, `Validate` | everything, at start |

What is hard here:

* **One `Cmd`, two waiters.** The monitor and `StopProcess` both call
  `cmd.Wait`, which is made for one call. Who loses gets `ECHILD`, an immediate
  error, or blocks for ever on a channel that carries a single value.
* **Goroutines that outlive their command.** Monitor, tracker and restart of
  one command run on while the process is stopped and started again; they look
  at the `Process` record, not at their own command.
* **A lock held while waiting.** `StopProcess` keeps `process.mu` until the
  child is reaped, so everybody who asks for that process waits too.
* **Start and shutdown at once.** Signals are served from before `StartAll`;
  `StopAll`, `RestartAll`, `StartAll`, delayed restarts and the return of
  `Wait` may all be under way together. A restart by SIGUSR2 may fork when the
  wait group has already been zero, and counts the new goroutines only after
  the fork.
* **Replies made of several moments.** A handler takes one lock after the other
  while processes start and stop between its reads.
* **Options without an owner.** The `flag` package forgets which `--run` an
  option followed, and takes every repetition; `buildConfig` gives them out by
  position.
* **Things that fail halfway**: a rotation, a start, the retention of logs.

The `hazards` of `PROJECT.json` name these one by one, at their lines.

## The modules

`ExecCmd` models Go's `exec.Cmd` (1.21, which `Dockerfile.test` and the CI
workflow pin) as far as the manager depends on it. It is the only external
part: `child`, `pipeOpen`, `procState` (`c.ProcessState # nil`), `ctxTaken`
(the one value of `ctxResult` is gone) and `cancelled` are its state. A call of
`Wait` goes through the phases call, wait, ctx, drain, returned.

`ProcessManager` extends it with the `Process` record and its goroutines. An
action is one critical section of `process.mu` or one phase of a `Wait`. There
is no variable for the lock: only `StopProcess` keeps it over a blocking call,
so it is held exactly when `stop[p] # "idle"`. `mon[p][n]` and `track[p][n]`
are the goroutines spawned with the n-th command of p. Callers are open:
anybody may start and stop a process at any time (`RequestStart`,
`StopProcess`). SIGTERM has no state, since a child may exit at any moment by
itself; SIGKILL has (`"killed"`). `"starting"` never shows: it is set and
replaced within one critical section.

`Supervisor` says what all this is for, without goroutines, locks or calls of
`Wait`: for one process, when a command may be launched, what its exit may earn,
and that a stop ends with the command gone. `Supervision` gives the refinement
mapping from the state of `ProcessManager`: `live` is the set of children not
reaped, `owed` that of monitors on their way to a restart, `charged` the sum of
the two counters, `budget` what the settings of the process allow. Each step of
a goroutine is a step of the supervisor or none of its business.
`ImplementsSupervisor` is the conjunction of `Supervised(p)!Spec` over the
processes, written as one initial and one action formula.

`Wardend` extends `ProcessManager` with the callers: the main goroutine
(`main`, `next`, `looked`), the signal goroutine (`sigChan`, `sig`, `todo`,
`target`), the goroutines of `StopAll` (`stopper`), and `exited`. It replaces
the open `Next` by `AppNext`, in which a process is started and stopped only
where the program does it. `waitForDependencies` reads one dependency per
step and takes no lock. The wait group is not a variable: `WaitGroupIsZero`
counts the goroutines that hold it. Waking `main` (`MainWakes`, at the moment
the counter is zero) and its return (`MainExits`) are two steps, as are the
fork of a SIGUSR2 restart (`RestartStarts`, to the phase "forked") and
`wg.Add` (`RestartCounts`), so a start may fall between; `Wait` that finds the
counter raised again panics (`exited = "panicked"`). For the starts of
`StartAll` and of delayed restarts the fork and the count are one step: nobody
waits during the former, and the goroutine of the latter is counted itself.
`StopAll` first waits for the HTTP server,
which has a deadline, then for the health checker, which has none: a descendant
of a health command may hold it (`sig = "held"`).

`DependencyGraph` says what a circular configuration is, by sets, without an
algorithm. `DependencyCheck` (the recursion of `hasCycle` as an explicit stack)
and `StartOrder` (Kahn's algorithm) are the two searches; `Dependencies` runs
one after the other on the same configuration and compares them with that
definition and with each other. Where the code iterates over a Go map the
models allow every order.

`HealthReport` holds the rule behind `/health`. `HealthChecker` has
one phase per goroutine and the state of the manager it can see: whether the
process runs, whether its lock is held.

`HttpServer` does the same for the handlers. `plan` is the list of reads a
request needs, in the order of the code; `ReadState`, `ReadResults` and
`ReadDetails` do them one lock at a time while the manager moves on, and
`Replies` puts the answer together. `wasRunning` and `restartsThen` are for the
properties. `conn` is the connection as `net/http` treats it in `Shutdown`: a
new one may bring its first request after `Stop` has been called, a request
that was read may find its connection cut, an idle one is closed; `Stop`
returns when none is left ("returned") or after five seconds ("late"). One
connection, with one request after the other, is enough: handlers only read,
and what they lock among themselves they lock for reading.

`Configuration`, `CommandLine` and `YamlConfig` are operators. A text is the
value it denotes, `Malformed` or `Absent`. A command line has the commands of
its `--run` options and, for every option that may be repeated, its occurrences
in the order of the line; an occurrence knows how many `--run` stand before it,
which is what the user wrote and what `Collected` forgets. That of a
`--health-interval` also knows whether white space surrounds its text, because
`buildConfig` trims it and `ToProcessConfig` does not; of the other texts each
kind that a parser tells apart is a value. `Startup` is what `main` does with
them up to `NewManager`, and a later `SaveYAMLConfig`, which the program
exports and does not call; `FileOK` and `LineOK` say what a file and a command
line look like once the YAML library and the `flag` package have taken them
apart. `MCStartup` builds the command lines and files that TLC tries.

`LogRotation` models a log as one record (file, counted size, real size,
backups by second). Each step of `Write` maps a log to the set of logs it may
become, failures included, and one action is a whole `Write` under its mutex.
Output is a sequence of chunks: what a chunk says is irrelevant, which chunks
are where is what the properties are about. `accepted`, `removed`,
`overwritten` and `faulted` are bookkeeping for the properties.

The `MC...` modules give the constants their values. Operators marked
"Mutant" in comments are deliberate mistakes in the code; `PROJECT.json` pairs
each property with one that it must catch. No specification uses them.

## What the runs show

| Run | Instance | Shows |
|---|---|---|
| `MCSupervision` | one process, 3 commands, every policy and budgets 0, 1, unlimited | `WithinBudget`, `LaunchesAccountedFor`, `OneLiveChild`, `ImplementsSupervisor`, types |
| `MCLifecycle` | one process started twice from outside, 2 commands, fair | `SignalsGoToNewest`, `RunningIsWatched`, `StopReapsChild`, `ExitNoticed`, `StopReturnsOrLosesWait` |
| `MCStartAll` | app depends on db and cache, cache on db, all may exit, fair | `DependenciesLaunchedFirst`, `StartAllEnds` |
| `MCSignals` | one process, any two of SIGTERM, SIGUSR1, SIGUSR2 at any moment, fair | `MainExitLeavesNothing`, `StoppedMeansGone`, `TermEndsSupervisor` |
| `MCDependencies` | all graphs of 4 processes, lists of up to 2 | the search accepts and rejects rightly (`StackIsPath` says why), dependencies come first, both algorithms agree and end |
| `MCHealth` | two checked processes, Start and Stop in either order, fair | `NoCheckAfterStop`, `StopReturnsUnlessHeld`, `FirstResult` |
| `MCLogRotation` | two streams, 4 chunks, files of 2 bytes, one backup, every operation may fail | what is lost, in which order, and why; how many backups a rotation leaves |
| `MCStartup` | up to 3 processes, every pattern of options, repeated ones and ones before the first `--run`; files with every kind of value of every key | `AcceptedIsRunnable`, `OptionsFollowTheirRun`, `SourcesAgree`, `RoundTrip`, types |
| `MCHttp` | two processes, one checked, a request of every kind | `HealthyIsEarned`, `EndpointsAgree`, `CountersFollowState`, `NoReplyAfterStop` |

A comment at each property says what it means and where in the code it bites.

### Where code and documentation part

Three runs check what a comment, a log message or the README says and end with
a counterexample:

* `MCStopHangs`: `StopProcess` blocks for ever when the monitor has received
  the context value. The lock stays held and `StopAll` hangs with it.
* `MCRestartAllExits`: during the delay of a SIGUSR2 restart nothing holds
  the wait group, so wardend exits when nothing else runs.
* `MCShutdownOrphan`: a start that falls between the stops and `os.Exit(0)`
  leaves a child alive. It has a process group of its own.

`MCStopHangs` has a consequence worth knowing: after a hung stop nothing ends
wardend but SIGKILL, since the goroutine that serves SIGTERM is the one that
hangs. `TermEndsSupervisor` names this exception (`Stuck`).

Other observations, which the models contain and no run is spent on:

* The monitor's test for `StateStopping` (manager.go:375) can never succeed,
  because the state is only visible while the lock is held. A stopped process
  becomes failed, and is restarted if its policy says so.
* SIGUSR2 during `StartAll` starts a process before its dependency, since
  `RestartAll` takes the processes in the order of a map (signals.go:43).
* `StopAll` computes the stop order and then stops everything at once
  (manager.go:328).
* A tracker left over from an earlier command completes the startup of a later
  one before its `StartupTime` has passed (manager.go:296); a quick exit of
  that command is then charged to the runtime budget. The budgets still hold.
* After a SIGUSR2 restart a late monitor may take the exit of its own command
  for that of the next one, or the reverse. Its restart may then launch a
  command while the other is alive (manager.go:363, 375): `OneLiveChild` and
  the stricter guards of `Supervisor` are stated for processes asked for once.
* The same lateness can leave a child without a monitor after a SIGUSR2
  restart: a delayed restart of the old command launches a third one before the
  monitor of the second has read `process.Cmd` (manager.go:363, 447). That
  monitor then watches the third as well, nobody watches the second, and when
  the third is gone the wait group reaches zero and `main` returns with the
  second alive.
* SIGUSR2 can also start a process when the wait group was zero a moment ago,
  or before `wg.Add` (manager.go:200, 209): `main`, which has been woken, then
  returns beside the new child, or `Wait` panics because it is being reused.
  `MainExitLeavesNothing` and `StoppedMeansGone` therefore speak of processes
  that SIGUSR2 has not started again.
* `cleanupOldBackups` puts the name of the process into a pattern. With a name
  like `a[` every `Glob` fails, in a directory that cannot be read it finds
  nothing, and the backups then grow without bound (logging.go:179); only a
  line on standard error says so, or none.
* After the five seconds of `Shutdown` a connection that has sent nothing yet
  is still served, although the processes are being stopped
  (http_server.go:85).
* `/health` looks at health checks only: it answers 200 with every process
  down, if none has a check or none has failed one. `/status` answers 200
  always and says "degraded" in the body.
* A `/status` may show states of one moment beside counters of a later one.
  `CountersFollowState` is what remains true.
* A handler that waits for a process lock longer than `WriteTimeout` loses its
  reply; both that and the default shutdown timeout are 10 seconds.
* `--name` is said to be "for the last --run process" (main.go:51). It goes to
  the first process without one, and `--depends-on` to the last processes.
  An option that is repeated behind one `--run` moves all later ones by one
  process. `OptionsFollowTheirRun` states for which command lines the result is
  what the user wrote.
* `--health-interval ' 5s'` is accepted and `health_interval: ' 5s'` is not
  (main.go:269, yaml_config.go:174). `SourcesAgree` names this difference.
* With `--config` every other option is ignored without a word (main.go:113).
* A `start_retries` of zero cannot be said in YAML, and one set by flag is lost
  when saved (yaml_config.go:19, 96, 182). Negative values are ignored in YAML
  and rejected as a flag; so are ports above 65535 the other way round.
* A health interval that is not positive is accepted and makes
  `time.NewTicker` panic in the goroutine of the check (health.go:66).
* A process whose first health check has not ended counts as healthy
  (health.go:178). The rules for the overall status exist a third time, in
  `IsOverallHealthy` (health.go:234), which nothing calls.
* The 30 second timeout of a health check kills the shell, not its
  descendants; while one holds the output the check goes on (health.go:105).

### Bounds

`MaxStarts`, `MaxRequests`, `MaxSignals`, `MaxChunks`, `MaxSeconds` and
`MaxRestarts` cap counters. The goroutines of processes share nothing but the
context, so one process is enough for the lifecycle runs. Two commands give
every interleaving of an old goroutine with a new command, three let a pending
restart meet two of them; two requests are one `RestartProcess`. Budgets of 0
and 1 are reached within these bounds. A dependency needs two processes; four,
with lists of two, give diamonds, repeated names, self-references and cycles of
every length up to four. Two signals are needed for a SIGTERM behind a SIGUSR2.
Two dependencies let `waitForDependencies` see one running and the other not,
in turns, for ever. `MCStartAll` has three processes, each started once, whose
`StartupTime` is longer than the run (`SlowSpec`: no tracker fires, and nothing
`StartAll` looks at depends on one). It sends no signal: a SIGTERM during
start-up is part of `MCSignals`, whose one process always restarts.
In `LogRotation` each operation fails at most once, except `Glob`, which may go
on failing as a bad name makes it, and files hold two bytes, so that nearly
every write rotates.

Two processes let a handler see one before and one after a stop; a restart in
between raises a counter to 1. Two `--run` show options that are given out
from the front and from the back, three that they meet in the middle, and a
circular dependency of three; two occurrences behind one `--run`, and one before
the first, show what a repetition moves. Settings do not act on each other, so a command line or
file differs from the defaults in one of them at a time, in each kind of value
its parser and its bounds tell apart.

Deadlock is not checked: the supervisor may end, and the bounds stop every run.

### Fairness

* Goroutines that can run do: weak fairness of their steps. One that waits for
  `process.mu` gets it if it becomes free again and again (`sync.RWMutex` hands
  the lock to a waiter that starves): strong fairness of `MonitorBegin`,
  `MonitorExit` and `MonitorRestart`.
* Timers fire: weak fairness of the stop timeout, of the dependency timeout,
  of the kill of a health command.
* A child that got SIGKILL dies, and the context watcher of `os/exec` runs.
* `select` chooses at random between ready channels, so it does not pass over
  the context for ever: strong fairness of `SeeDone`; nor over the timeout of
  `waitForDependencies`, which stays ready once its 30 seconds are over: strong
  fairness of `MainTimesOut`.
* The goroutine of a health check waits for the lock of a process as a reader,
  whom `sync.RWMutex` lets in at every unlock: strong fairness of `Ask`.
* A child need not react to SIGTERM, and its descendants may hold pipes for
  ever. Only `PipesCloseSpec` assumes that they do not, for `MCStopHangs`, to
  show that the hang has another cause. `ExitNoticed` speaks of children whose
  pipes are closed.

## What is proved

`ProcessManager_proofs` proves, for every set of processes, every set of restart
settings and every bound, about `Spec` of `ProcessManager`:

* `Typing`: `TypeOK` is an invariant.
* `LockDiscipline`: `StoppingIsLocked` and `SignalsGoToNewest`. They are
  inductive only together with the fact that commands are launched one by one
  and that `process.Cmd` is never a command of the future (`LockInv`).
* `Budgets`: `WithinBudget`. It is inductive given `TypeOK`: a counter grows
  only in `MonitorExit`, under the test of `ShouldRestart`.
* `Accounting`: `LaunchesAccountedFor`, by counting: every step adds as much to
  the right-hand side as to the left. The lemmas on `Cardinality` of the set of
  pending restarts come first.
* `StopComplete`: the action property `StopReapsChild`, from an invariant that
  ties the phase of a waiter to the state of its child (`ReapInv`): past "wait",
  by reaping or by the error of a second call, the child is reaped.
* `SingleChild`: `OneLiveChild`. With one request from outside, the commands
  form a chain: each was launched by the restart of the one before, so at most
  one monitor is not done and only the last command can be live (`ChainInv`,
  which needs the other invariants).

* `RunningWatched`: `RunningIsWatched`. What a late monitor may take away from
  the command that runs now is its context value; whoever took it is itself a
  monitor that has finished waiting for that command (`WatchInv`), and nobody
  waits for a command that has not been launched (`PastInv`).

`Supervision_proofs` proves `Refinement`, that this `Spec` implements
`ImplementsSupervisor`: the initial states map to initial states, and each
action has a lemma that says which step of `Supervised(p)` it is, for the
process it is about, and that it is none of the business of the others. The
budget and the typing theorems make the charged restarts of the supervisor
those of the code; `SpawnedInvariant` of `ProcessManager_proofs` says that
there are monitors only for commands that were launched. `Supervisor` has no
fairness, and none is claimed.

`Dependencies_proofs` proves, for every number of processes and every set of
dependency lists, what `MCDependencies` checks except that both searches end:

* `PathIsMarked`, `AcceptedIsAcyclic`, `RejectedIsCircular`, from `SearchInv`.
  Its core is `FinishedIsAcyclic`: whatever a finished call depends on is
  finished, and no circle lies within the finished processes. A circle that
  included the process returning now would still be one without it. Where the
  search meets a marked process, the path from there to the top is the circle.
* `OrderRespectsDependencies` and `OrderNamesEachOnce`, from `SortInv`:
  `inDegree` is the number of listed dependencies that have not been taken
  (`CountsMissing`), and the processes at zero are those taken or waiting, none
  of them twice (`ReadyOnce`).
* `VerdictsAgree`: `AlgorithmsAgree`. The member of a circle that is placed
  first would depend on one placed later, so a full order has no circle
  (well-foundedness of the naturals); and what could not be taken has a
  dependency that could not be taken either, so it is a circle.

`HttpServer_proofs` proves, for any number of processes, any choice of those
with a health check and any number of restarts, type correctness
(`ServerTyping`) and all four properties of `MCHttp` (`CountersAreFresh`,
`HealthyMeansRan`, `StopEndsReplies`, `OneVerdict`). The invariant (`Inv`)
says that a handler reads in the order of its plan, that what it has seen
running is recorded, that counters only grow, and (`ShutDown`) that once `Stop`
has returned in time nobody listens and no connection is left but one that was
cut, whose handler cannot reply.

`HealthChecker_proofs` proves `CheckerTyping` and `QuietAfterStop`, for any
number of checked processes.

`Wardend_proofs` proves about `AppSpec`, the program with its main goroutine,
its signals and its shutdown, for every finite set of processes (`Validate`
wants at least one, config.go:94), every dependency and any number of signals:

* `ManagerImplemented`: `AppSpec => Spec`. Every action of `AppNext` contains
  one of `ProcessManager` or leaves its variables alone, and moves a process
  only where the open `Next` may. So whatever is proved about `Spec` holds of
  the whole supervisor: that is how the proofs below get `ChainInv`, `LiveInv`,
  `ReapInv` and the types. `AppTyping` adds the types of the callers.
* `NothingLeftBehind`: `MainExitLeavesNothing`. A live child of a process asked
  for once is that of its latest command (`ChainInv`), and has a monitor that is
  not done, so the wait group is not zero unless that monitor is not counted
  yet; but what SIGUSR2 has forked and not counted `StartAll` had asked for
  before (`AskedInv`). So when `main` is woken the goroutines of such a process
  have all ended, and stay ended, because only SIGUSR2 starts anything then and
  makes it a process that was asked for twice (`WokenInv`).
* `NoneRunsWhenStopped`: `StoppedMeansGone`. A process that `StopAll` passes
  over because its state is not running has no live child (`LiveInv`), and one
  that it waits for has had its child reaped (`ReapInv`).
* `DependenciesLaunched`: `DependenciesLaunchedFirst`, if no SIGUSR2 is among
  the signals; with one during `StartAll` it is false (signals.go:43).
  `OrderInv` says that the processes launched are among those `StartAll` has
  reached, and that those it has passed are launched. Restarts and stops keep
  it, because a restart needs an earlier launch. `StartOrders` gives every
  process one place, behind its dependencies.
* `NothingLeftWithoutRestartAll`: under the same assumption no child at all is
  left. `StartAll` asks for each process once, since the order names each once
  (a surjection of a set of n onto itself is injective), and
  `MainExitLeavesNothing` then speaks of all of them.

`LogRotation_proofs` proves, for any number of streams, chunks, sizes and
backups and any set of operations that may fail, type correctness (`LogTyping`)
and all six properties of `MCLogRotation` (`NothingLostSilently`,
`RetentionIsByAge`, `RetentionBounds`, `FileStaysSmall`, `LogHasWhatIsPrinted`,
`OutputIsCutOffForCause`). The properties of what is lost need to know where
everything is: `Sorted` says that backups made in later seconds hold later
output, and the open file the latest, so removing the oldest backups
(`OldestAreOlder`) removes the oldest output (`OldestGone`), and nothing
vanishes on the way (`AllKept`). That the retention removes enough is
`OldestAreEnough`: if there is an oldest backup it keeps, there are at least as
many older ones as must go, and it removes those. By `NotEmpty` a file that is
rotated has output in it, so every backup has an age, that of its latest chunk.
`Good` is the conjunction for one log; each step of `Write` has a lemma that it
maps good logs to good logs, and `LogInv` adds the copying goroutines.

`Startup_proofs` proves, for any set of command lines and files that satisfy
`LinesAssumption`, what `MCStartup` checks:

* `StartupTyping`: every setting of every process has a value of its kind
  (`ValueOK`), whether it comes from the file, a flag, or is inherited.
* `ConfigurationsRun`: `AcceptedIsRunnable`. `Validate` gives names that
  differ, dependencies that are names, and no circle. `OrderExists` makes a
  start order of that: some process depends on no other, else the rest would be
  a circle; put it first, and argue by the smallest set of processes that has
  no order.
* `OptionsReachTheirProcess`: `OptionsFollowTheirRun`. If no `--run` has an
  option twice and it is given from the first one on, the k-th occurrence
  stands behind the k-th `--run`, and if it is given up to the last it is the
  k-th from the end (`PlacesFromTheFirst`, `PlacesToTheLast`).
* `SourcesMeanTheSame`: `SourcesAgree`, setting by setting, since both sources
  have the same defaults (`DefaultsAgree`) and the same way of inheriting
  (`WrittenAgrees`); an interval with white space around it is rejected
  (`SpacedIsRejected`).
* `SavedConfigurationsReturn`: `RoundTrip`. A value that is written as a text is
  accepted and comes back (`ValueComesBack`), but for those `omitempty` leaves
  out; and `Validate` does not look at what may change (`ValidateSame`).

The invariant (`StartInv`) is that the configuration is the default or what the
source describes. The proofs use `TextAssumption`: the texts that stand for
"absent", "malformed" and "unlimited" are no numbers and no words of the
configuration, which is a property of how the models write texts, not of the
code.

The assumptions are those the modules state on their constants, and the model
of `exec.Cmd`.

Every safety property that a passing run checks is proved. Only model-checked
are the liveness properties (the prover has no rule for fairness and
`ENABLED`): `ExitNoticed`, `StopReturnsOrLosesWait`,
`StartAllEnds`, `TermEndsSupervisor`, `BothEnd`, `StopReturnsUnlessHeld` and
`FirstResult`; and the three runs that end with a counterexample. No run lists
the type invariants of `Wardend` (`AppTypeOK`), `Dependencies` and
`LogRotation`: each run has better things to say. They are proved, those of
`Dependencies` inside `SearchInv` and `SortInv`, the others as theorems of
their own.

## Not modelled

* The text of log messages, prefixes and replies; the structured logger.
* A process without log directory has no log state. Torn reads of a string by
  the unlocked access of `waitForDependencies` yield a value that is not
  "running" and only cost another round.
* The connections of the HTTP server beyond what `Stop` depends on: read and
  write timeouts, an encoder that fails, a client that goes away during a
  request. A process name that contains "/" or needs escaping, and one so named
  that its log matches the pattern of another's backups.
* `IsOverallHealthy`, which nothing calls.
* The YAML library: what it makes of a text. `--help` and `--version`.
* `Wardend` keeps of the HTTP server and the health checker only how they may
  hold `StopAll` up; what they do is in `HttpServer` and `HealthChecker`.

## Plan

1. Done: `ExecCmd`, `ProcessManager` and its proofs; the dependency modules;
`Wardend`; `HealthChecker`; `LogRotation`. 2. Done: `Supervisor` and the
refinement, `HttpServer`, `Configuration`, `CommandLine`, `YamlConfig` and
`Startup`; `Wardend` with the HTTP server and the health checker in front of
the stops. 3. Done: proofs of the refinement, of `RunningIsWatched`, of
everything `MCDependencies` and `MCHttp` check but termination, of
`NoCheckAfterStop`. 4. Done: proofs that `Wardend` implements `ProcessManager`
and of its safety properties; of everything `MCLogRotation` and `MCStartup`
check. 5. Left: how far `OneLiveChild` and the stricter guards of `Supervisor`
reach when a process is asked for more than once; what a SIGUSR2 restart may
leave behind, as an exact condition; action properties of `HealthChecker`.
