------------------------------ MODULE HttpServer ------------------------------
(***************************************************************************)
(* The HTTP server (http_server.go): it is started at the end of StartAll  *)
(* and stopped at the beginning of StopAll, and its handlers put a reply   *)
(* together from several reads of the manager, one lock after the other.   *)
(*                                                                         *)
(* Of the manager this module keeps what a handler can see: the State and  *)
(* the restart counters of every process, its lock (held exactly while the *)
(* State is "stopping", see ProcessManager) and the health results.        *)
(* Handlers only read, so one connection at a time, with one request after *)
(* the other, is enough to see what a reply may be made of.  How net/http  *)
(* treats the connection when it shuts down is modelled as far as Stop     *)
(* depends on it.                                                          *)
(***************************************************************************)
EXTENDS HealthReport, Sequences

CONSTANTS
  N,           \* the number of processes, numbered as in config.Processes
  Checked,     \* those that have a health check
  MaxRestarts  \* bound: how many restarts of a process are counted

ASSUME NAssumption == N \in Nat
Proc == 1 .. N
ASSUME CheckedAssumption == Checked \subseteq Proc
ASSUME MaxRestartsAssumption == MaxRestarts \in Nat

VARIABLES
  \* the manager
  state,       \* process.State
  restarts,    \* process.StartupAttempts + process.RuntimeRestarts
  results,     \* the status of the last health check, or "none"
  \* the server
  listening,   \* phase of the goroutine that listens
  closed,      \* Shutdown has been called
  stop,        \* phase of the call of Stop
  conn,        \* the connection of the client
  \* the handler
  request,     \* the request it serves, or NoRequest
  plan,        \* the reads it has still to make
  seen,        \* the State it has read of each process
  seenResults, \* the health results it has read
  shown,       \* the counters it has read of each process
  reply,       \* the last reply
  \* for the properties
  wasRunning,  \* processes that have been running since the request came
  restartsThen \* restarts counted when the State of a process was read

managerVars == <<state, restarts, results>>
serverVars == <<listening, closed, stop, conn>>
readVars == <<seen, seenResults, shown, restartsThen>>
handlerVars == <<request, plan, readVars, reply, wasRunning>>
vars == <<managerVars, serverVars, handlerVars>>

Unread == -1
Unknown == 0    \* the name of no process
NoName == -1    \* /processes/ without a name

Request ==
  [method : {"GET"}, path : {"/health", "/status", "/processes"}, name : {NoName}]
    \cup [method : {"GET"}, path : {"/processes/"}, name : Proc \cup {Unknown, NoName}]
    \cup [method : {"POST"}, path : {"/status"}, name : {NoName}]

NoRequest == [method |-> "none", path |-> "none", name |-> NoName]
\* A connection is "new" until its first request has been read and "idle"
\* between two.  A request that has been read makes it "active" only after a
\* moment; if Shutdown closes it before that it is "cut": the request is
\* served all the same, but no reply goes out.
Connection == {"none", "new", "read", "active", "idle", "cut"}

NoReply == [code |-> 0, status |-> "none"]
Busy == request # NoRequest

\* "down" is stopped or failed: no handler tells them apart.
ProcessState == {"down", "running", "stopping"}

TypeOK ==
  /\ state \in [Proc -> ProcessState]
  /\ restarts \in [Proc -> 0 .. MaxRestarts]
  /\ results \in [Checked -> {"healthy", "unhealthy", "none"}]
  /\ listening \in {"no", "starting", "yes", "failed"}
  /\ closed \in BOOLEAN
  /\ stop \in {"none", "waiting", "returned", "late"}
  /\ conn \in Connection
  /\ request \in Request \cup {NoRequest}
  /\ seen \in [Proc -> {"down", "running", "unread"}]
  /\ seenResults \in [Checked -> {"healthy", "unhealthy", "none"}]
  /\ shown \in [Proc -> 0 .. MaxRestarts \cup {Unread}]
  /\ restartsThen \in [Proc -> 0 .. MaxRestarts \cup {Unread}]
  /\ reply \in [code : {0, 200, 400, 404, 405, 503},
                status : Status \cup {"degraded", "none"}]
  /\ wasRunning \subseteq Proc

Nothing == [p \in Proc |-> Unread]
NoneSeen == [p \in Proc |-> "unread"]
NoResults == [p \in Checked |-> "none"]

Init ==
  /\ state = [p \in Proc |-> "down"]
  /\ restarts = [p \in Proc |-> 0]
  /\ results = NoResults
  /\ listening = "no"
  /\ closed = FALSE
  /\ stop = "none"
  /\ conn = "none"
  /\ request = NoRequest
  /\ plan = <<>>
  /\ seen = NoneSeen
  /\ seenResults = NoResults
  /\ shown = Nothing
  /\ reply = NoReply
  /\ wasRunning = {}
  /\ restartsThen = Nothing

-----------------------------------------------------------------------------
(* The manager.                                                            *)

Unlocked(p) == state[p] # "stopping"

StateBecomes(p, s) ==
  /\ state' = [state EXCEPT ![p] = s]
  /\ wasRunning' = IF s = "running" /\ Busy THEN wasRunning \cup {p} ELSE wasRunning

\* StartProcess, also by a restart.
Starts(p) ==
  /\ state[p] = "down"
  /\ StateBecomes(p, "running")
  /\ UNCHANGED <<restarts, results, serverVars, request, plan, readVars, reply>>

\* monitorProcess records an exit and charges the restart, if there is one.
ExitRecorded(p) ==
  /\ Unlocked(p)
  /\ StateBecomes(p, "down")
  /\ \/ UNCHANGED restarts
     \/ /\ restarts[p] < MaxRestarts
        /\ restarts' = [restarts EXCEPT ![p] = @ + 1]
  /\ UNCHANGED <<results, serverVars, request, plan, readVars, reply>>

StopProcessBegins(p) ==
  /\ state[p] = "running"
  /\ StateBecomes(p, "stopping")
  /\ UNCHANGED <<restarts, results, serverVars, request, plan, readVars, reply>>

StopProcessEnds(p) ==
  /\ ~Unlocked(p)
  /\ StateBecomes(p, "down")
  /\ UNCHANGED <<restarts, results, serverVars, request, plan, readVars, reply>>

ResultStored(p) ==
  /\ \E s \in {"healthy", "unhealthy"} : results' = [results EXCEPT ![p] = s]
  /\ UNCHANGED <<state, restarts, serverVars, handlerVars>>

-----------------------------------------------------------------------------
(* The server.                                                             *)

\* StartAll calls Start, which leaves the rest to a goroutine; a SIGTERM
\* during StartAll makes Stop the first of the two.
ServerStarts ==
  /\ listening = "no"
  /\ listening' = "starting"
  /\ UNCHANGED <<managerVars, closed, stop, conn, handlerVars>>

\* ListenAndServe: refused after Shutdown (ErrServerClosed), and the port may
\* be taken or out of range.  The failure is only logged.
Listens ==
  /\ listening = "starting"
  /\ listening' \in IF closed THEN {"failed"} ELSE {"yes", "failed"}
  /\ UNCHANGED <<managerVars, closed, stop, conn, handlerVars>>

Accepts ==
  /\ listening = "yes"
  /\ conn = "none"
  /\ conn' = "new"
  /\ UNCHANGED <<managerVars, listening, closed, stop, handlerVars>>

\* The client closes a connection without a request, or a timeout does.
ConnectionEnds ==
  /\ conn \in {"new", "idle"}
  /\ conn' = "none"
  /\ UNCHANGED <<managerVars, listening, closed, stop, handlerVars>>

\* Stop, up to the moment when Shutdown begins to wait.
StopCalled ==
  /\ stop = "none"
  /\ stop' = "waiting"
  /\ closed' = TRUE
  /\ listening' = IF listening = "yes" THEN "failed" ELSE listening
  /\ UNCHANGED <<managerVars, conn, handlerVars>>

\* While it waits, Shutdown closes connections that are not active; a new one
\* when five seconds have brought no request.
ShutdownCloses ==
  /\ stop = "waiting"
  /\ conn \in {"new", "read", "idle"}
  /\ conn' = IF conn = "read" THEN "cut" ELSE "none"
  /\ UNCHANGED <<managerVars, listening, closed, stop, handlerVars>>

\* Mutant: Stop leaves Shutdown to a goroutine.
StopReturnsAtOnce ==
  /\ stop = "waiting"
  /\ stop' = "returned"
  /\ UNCHANGED <<managerVars, listening, closed, conn, handlerVars>>

\* Shutdown returns when no connection is left...
StopReturns ==
  /\ stop = "waiting"
  /\ conn \in {"none", "cut"}
  /\ stop' = "returned"
  /\ UNCHANGED <<managerVars, listening, closed, conn, handlerVars>>

\* ... or after five seconds; idle connections it has closed by then.
StopTimesOut ==
  /\ stop = "waiting"
  /\ conn # "idle"
  /\ stop' = "late"
  /\ UNCHANGED <<managerVars, listening, closed, conn, handlerVars>>

-----------------------------------------------------------------------------
(* The handlers.                                                           *)

\* Mutant: the details are read before the states.
PlanDetailsFirst(r) ==
  IF r.method # "GET" \/ r.path = "/processes" THEN <<>>
  ELSE IF r.path = "/health" THEN <<"results">>
  ELSE IF r.path = "/status" THEN <<"details", "states", "results">>
  ELSE IF r.name \in Proc THEN <<"states", "results", "details">> ELSE <<>>

\* What a handler reads, in this order.
Plan(r) ==
  IF r.method # "GET" \/ r.path = "/processes" THEN <<>>
  ELSE IF r.path = "/health" THEN <<"results">>
  ELSE IF r.path = "/status" \/ r.name \in Proc THEN <<"states", "results", "details">>
  ELSE <<>>

\* The processes it reads: one, or all.
Wanted == IF request.name \in Proc THEN {request.name} ELSE Proc

\* On a connection that is open, whether or not the server still listens.
Arrives ==
  /\ conn \in {"new", "idle"}
  /\ conn' = "read"
  /\ \E r \in Request : request' = r /\ plan' = Plan(r)
  /\ reply' = NoReply
  /\ wasRunning' = {p \in Proc : state[p] = "running"}
  /\ UNCHANGED <<managerVars, listening, closed, stop, readVars>>

BecomesActive ==
  /\ conn = "read"
  /\ conn' = "active"
  /\ UNCHANGED <<managerVars, listening, closed, stop, handlerVars>>

Serving == conn \in {"active", "cut"}

Reading(what) == plan # <<>> /\ Head(plan) = what

Proceeds(finished) == plan' = IF finished THEN Tail(plan) ELSE plan

\* GetAllProcessStates, in the order of a Go map, and GetProcessState: each
\* waits for the lock of the process.
ReadState(p) ==
  /\ Serving
  /\ Reading("states")
  /\ p \in Wanted
  /\ seen[p] = "unread"
  /\ Unlocked(p)
  /\ seen' = [seen EXCEPT ![p] = state[p]]
  /\ restartsThen' = [restartsThen EXCEPT ![p] = restarts[p]]
  /\ Proceeds(\A q \in Wanted \ {p} : seen[q] # "unread")
  /\ UNCHANGED <<managerVars, serverVars, request, seenResults, shown, reply, wasRunning>>

\* All results at once.
ReadResults ==
  /\ Serving
  /\ Reading("results")
  /\ seenResults' = results
  /\ Proceeds(TRUE)
  /\ UNCHANGED <<managerVars, serverVars, request, seen, shown, restartsThen, reply, wasRunning>>

\* The counters, in the order of the configuration.
ReadDetails(p) ==
  /\ Serving
  /\ Reading("details")
  /\ p \in Wanted
  /\ shown[p] = Unread
  /\ \A q \in Wanted : q < p => shown[q] # Unread
  /\ Unlocked(p)
  /\ shown' = [shown EXCEPT ![p] = restarts[p]]
  /\ Proceeds(\A q \in Wanted \ {p} : shown[q] # Unread)
  /\ UNCHANGED <<managerVars, serverVars, request, seen, seenResults, restartsThen, reply,
                 wasRunning>>

\* Mutant: the processes with a health check are the only ones that count.
ResultsCount ==
  /\ \A p \in Checked : seen[p] = "running"
  /\ \A p \in Checked : seenResults[p] \in {"healthy", "none"}

\* Mutant: a process without a result counts as unhealthy.
AllChecked ==
  /\ \A p \in Proc : seen[p] = "running"
  /\ \A p \in Checked : seenResults[p] = "healthy"

\* overallHealthy of handleStatus: a process that was never checked is healthy
\* if it runs.
AllWell ==
  /\ \A p \in Proc : seen[p] = "running"
  /\ \A p \in Checked : seenResults[p] \in {"healthy", "none"}

Answer(code, status) == [code |-> code, status |-> status]

\* The statuses of GetHealthSummary are those of the reply.
HealthAnswer ==
  LET status == OverallStatus(seenResults)
  IN  Answer(IF status = "healthy" THEN 200 ELSE 503, status)

\* 200 also if the status is bad.
StatusAnswer == Answer(200, IF AllWell THEN "healthy" ELSE "degraded")

\* One process, by its name in the path.
ProcessAnswer ==
  CASE request.name = NoName  -> Answer(400, "none")
    [] request.name = Unknown -> Answer(404, "none")
    [] request.name \in Proc  -> Answer(200, "none")

Reply ==
  IF request.method # "GET" THEN Answer(405, "none")
  ELSE CASE request.path = "/health"     -> HealthAnswer
         [] request.path = "/status"     -> StatusAnswer
         [] request.path = "/processes"  -> Answer(200, "none")
         [] request.path = "/processes/" -> ProcessAnswer

\* The connection is kept for another request, unless the server shuts down.
Replies ==
  /\ Serving
  /\ plan = <<>>
  /\ reply' = IF conn = "cut" THEN NoReply ELSE Reply
  /\ conn' \in IF conn = "cut" \/ closed THEN {"none"} ELSE {"idle", "none"}
  /\ request' = NoRequest
  /\ seen' = NoneSeen
  /\ seenResults' = NoResults
  /\ shown' = Nothing
  /\ restartsThen' = Nothing
  /\ wasRunning' = {}
  /\ UNCHANGED <<managerVars, listening, closed, stop, plan>>

Handler ==
  \/ \E p \in Proc : ReadState(p) \/ ReadDetails(p)
  \/ ReadResults
  \/ Replies

Next ==
  \/ \E p \in Proc :
       Starts(p) \/ ExitRecorded(p) \/ StopProcessBegins(p) \/ StopProcessEnds(p)
  \/ \E p \in Checked : ResultStored(p)
  \/ ServerStarts
  \/ Listens
  \/ Accepts
  \/ ConnectionEnds
  \/ StopCalled
  \/ ShutdownCloses
  \/ StopReturns
  \/ StopTimesOut
  \/ Arrives
  \/ BecomesActive
  \/ Handler

Spec == Init /\ [][Next]_vars

-----------------------------------------------------------------------------
\* A /status that says "healthy" is earned: its reads are of different
\* moments, but every process has been running since the request came, and
\* no result was bad when they were read (http_server.go:141-188).
HealthyIsEarned ==
  [][request.path = "/status" /\ reply'.status = "healthy" =>
       /\ wasRunning = Proc
       /\ \A p \in Checked : seenResults[p] # "unhealthy"]_vars

\* The rules of /status and /health, written apart, agree on the same health
\* results: with all processes running one says "healthy" exactly if the
\* other does (http_server.go:175-186, health.go:174-240).
EndpointsAgree ==
  Busy /\ request.path = "/status" /\ (\A p \in Proc : seen[p] = "running")
       /\ ~Reading("results")
    => (AllWell <=> OverallStatus(seenResults) = "healthy")

\* The counters in a reply are not older than the State beside them: a process
\* shown as running again is shown with the restart that brought it back,
\* although the lock is taken twice (http_server.go:141-169, 298-326).
CountersFollowState ==
  \A p \in Proc : shown[p] # Unread => restartsThen[p] # Unread /\ shown[p] >= restartsThen[p]

\* When Stop returns in time no client hears from the server any more, while
\* StopAll goes on to stop the processes: not on a connection that was open
\* before, and not because the goroutine of Start gets to listen only then
\* (http_server.go:70-89, manager.go:312-357).
NoReplyAfterStop ==
  [][stop = "returned" /\ reply = NoReply => reply' = NoReply]_vars
=============================================================================
