--------------------------- MODULE HttpServer_proofs ---------------------------
(***************************************************************************)
(* Proofs about HttpServer, for any number of processes, any choice of     *)
(* those that have a health check and any number of restarts.              *)
(***************************************************************************)
EXTENDS HttpServer, FiniteSetTheorems, TLAPS

-----------------------------------------------------------------------------
(* What a handler has read, and what is true of it.                        *)

\* The reads a handler may still have to make.
ToRead == {<<>>, <<"results">>, <<"states", "results", "details">>,
           <<"results", "details">>, <<"details">>}

\* A handler starts with nothing read, and reads in the order of its plan: it
\* comes to the counters when it has seen every State it wants.
InOrder ==
  /\ plan \in ToRead
  /\ ~Busy => plan = <<>> /\ seen = NoneSeen /\ shown = Nothing /\ restartsThen = Nothing
  /\ Busy => reply = NoReply
  /\ \A p \in Proc : seen[p] = "unread" <=> restartsThen[p] = Unread
  /\ plan \in {<<"results", "details">>, <<"details">>} =>
       \A p \in Wanted : seen[p] # "unread"

\* Whatever the handler has seen running is recorded, and so is what it may
\* still see.
Recorded ==
  /\ Busy => \A p \in Proc : state[p] = "running" => p \in wasRunning
  /\ \A p \in Proc : seen[p] = "running" => p \in wasRunning

\* Counters only grow.
Growing ==
  \A p \in Proc : restartsThen[p] # Unread => restartsThen[p] <= restarts[p]

\* Shutdown leaves the server deaf, and when it has returned in time no
\* connection is open on which a reply could go out.
ShutDown ==
  /\ closed => listening # "yes"
  /\ stop # "none" => closed
  /\ stop = "returned" => conn \in {"none", "cut"}
  /\ Busy <=> conn \in {"read", "active", "cut"}

Inv ==
  /\ TypeOK
  /\ InOrder
  /\ Recorded
  /\ Growing
  /\ CountersFollowState
  /\ ShutDown

LEMMA RequestFacts ==
  /\ NoRequest \notin Request
  /\ \A r \in Request : Plan(r) \in ToRead /\ Plan(r) \notin {<<"results", "details">>, <<"details">>}
<1>1. NoRequest \notin Request
  BY DEF NoRequest, Request
<1>2. \A r \in Request : Plan(r) \in {<<>>, <<"results">>, <<"states", "results", "details">>}
  BY DEF Plan
<1> QED
  BY <1>1, <1>2 DEF ToRead

LEMMA InvInitially == Init => Inv
<1> SUFFICES ASSUME Init PROVE Inv
  OBVIOUS
<1>1. TypeOK
  <2>1. 0 \in 0 .. MaxRestarts
    BY MaxRestartsAssumption
  <2>2. /\ state \in [Proc -> ProcessState]
        /\ restarts \in [Proc -> 0 .. MaxRestarts]
        /\ results \in [Checked -> {"healthy", "unhealthy", "none"}]
    BY <2>1 DEF Init, ProcessState, NoResults
  <2>3. /\ seen \in [Proc -> {"down", "running", "unread"}]
        /\ seenResults \in [Checked -> {"healthy", "unhealthy", "none"}]
        /\ shown \in [Proc -> 0 .. MaxRestarts \cup {Unread}]
        /\ restartsThen \in [Proc -> 0 .. MaxRestarts \cup {Unread}]
    BY DEF Init, NoResults, NoneSeen, Nothing
  <2>4. reply \in [code : {0, 200, 400, 404, 405, 503},
                   status : Status \cup {"degraded", "none"}]
    BY DEF Init, NoReply
  <2> QED
    BY <2>2, <2>3, <2>4 DEF Init, TypeOK, Connection
<1>2. ~Busy /\ plan = <<>>
  BY DEF Init, Busy
<1>3. InOrder
  BY <1>2 DEF Init, InOrder, NoneSeen, Nothing, ToRead
<1>4. Recorded /\ Growing /\ CountersFollowState
  BY <1>2 DEF Init, Recorded, Growing, CountersFollowState, NoneSeen, Nothing
<1>5. ShutDown
  BY <1>2 DEF Init, ShutDown
<1> QED
  BY <1>1, <1>3, <1>4, <1>5 DEF Inv

-----------------------------------------------------------------------------
(* The steps.                                                              *)

\* The manager may do anything to a process, as long as its counters do not
\* go back and a process that runs is recorded.
LEMMA ManagerKeepsInv ==
  ASSUME Inv, NEW p \in Proc,
         Starts(p) \/ ExitRecorded(p) \/ StopProcessBegins(p) \/ StopProcessEnds(p)
  PROVE  Inv'
<1>1. /\ UNCHANGED <<results, serverVars, request, plan, readVars, reply>>
      /\ \E s \in ProcessState : StateBecomes(p, s)
  BY DEF Starts, ExitRecorded, StopProcessBegins, StopProcessEnds, ProcessState
<1>2. restarts' \in [Proc -> 0 .. MaxRestarts] /\ \A q \in Proc : restarts[q] <= restarts'[q]
  BY MaxRestartsAssumption DEF Starts, ExitRecorded, StopProcessBegins, StopProcessEnds, Inv, TypeOK
<1>3. PICK s \in ProcessState : StateBecomes(p, s)
  BY <1>1
<1>4. state' \in [Proc -> ProcessState] /\ wasRunning' \subseteq Proc
  BY <1>3 DEF StateBecomes, Inv, TypeOK
<1>5. wasRunning \subseteq wasRunning' /\ Busy' = Busy
  BY <1>1, <1>3 DEF StateBecomes, Busy
<1>6. Busy' => \A q \in Proc : state'[q] = "running" => q \in wasRunning'
  BY <1>3, <1>5 DEF StateBecomes, Inv, TypeOK, Recorded
<1>7. TypeOK'
  BY <1>1, <1>2, <1>4 DEF Inv, TypeOK, readVars, serverVars
<1>8. InOrder' /\ CountersFollowState'
  BY <1>1 DEF Inv, InOrder, CountersFollowState, readVars, Busy, Wanted
<1>9. Recorded'
  BY <1>1, <1>5, <1>6 DEF Inv, Recorded, readVars
<1>10. Growing'
  BY <1>1, <1>2 DEF Inv, Growing, TypeOK, readVars
<1>11. ShutDown'
  BY <1>1 DEF Inv, ShutDown, Busy, serverVars
<1> QED
  BY <1>7, <1>8, <1>9, <1>10, <1>11 DEF Inv

\* The steps of the server and of its connection that leave the handler alone.
ServerStep ==
  \/ ServerStarts \/ Listens \/ Accepts \/ ConnectionEnds \/ StopCalled
  \/ ShutdownCloses \/ StopReturns \/ StopTimesOut \/ BecomesActive

LEMMA ServerKeepsInv ==
  ASSUME Inv, ServerStep
  PROVE  Inv'
<1> USE DEF ServerStep
<1>1. UNCHANGED <<managerVars, handlerVars>>
  BY DEF ServerStarts, Listens, Accepts, ConnectionEnds, StopCalled, ShutdownCloses,
     StopReturns, StopTimesOut, BecomesActive
<1>2. /\ listening' \in {"no", "starting", "yes", "failed"}
      /\ closed' \in BOOLEAN
      /\ stop' \in {"none", "waiting", "returned", "late"}
      /\ conn' \in Connection
  <2>0. /\ listening \in {"no", "starting", "yes", "failed"}
        /\ closed \in BOOLEAN
        /\ stop \in {"none", "waiting", "returned", "late"}
        /\ conn \in Connection
    BY DEF Inv, TypeOK
  <2>1. CASE ServerStarts \/ Listens \/ Accepts
    BY <2>0, <2>1 DEF ServerStarts, Listens, Accepts, Connection
  <2>2. CASE ConnectionEnds \/ StopCalled \/ ShutdownCloses
    BY <2>0, <2>2 DEF ConnectionEnds, StopCalled, ShutdownCloses, Connection
  <2>3. CASE StopReturns \/ StopTimesOut \/ BecomesActive
    BY <2>0, <2>3 DEF StopReturns, StopTimesOut, BecomesActive, Connection
  <2> QED
    BY <2>1, <2>2, <2>3
<1>3. TypeOK'
  BY <1>1, <1>2 DEF Inv, TypeOK, managerVars, handlerVars, readVars
<1>4. (InOrder /\ Recorded /\ Growing /\ CountersFollowState)'
  BY <1>1 DEF Inv, InOrder, Recorded, Growing, CountersFollowState, managerVars,
     handlerVars, readVars, Busy, Wanted
<1>5. ShutDown'
  <2>1. ShutDown /\ Busy' = Busy
    BY <1>1 DEF Inv, Busy, handlerVars
  <2>2. CASE ServerStarts \/ Listens \/ Accepts
    BY <2>1, <2>2 DEF ShutDown, ServerStarts, Listens, Accepts
  <2>3. CASE ConnectionEnds \/ StopCalled
    BY <2>1, <2>3 DEF ShutDown, ConnectionEnds, StopCalled
  <2>4. CASE ShutdownCloses
    BY <2>1, <2>4 DEF ShutDown, ShutdownCloses
  <2>5. CASE StopReturns \/ StopTimesOut \/ BecomesActive
    BY <2>1, <2>5 DEF ShutDown, StopReturns, StopTimesOut, BecomesActive
  <2> QED
    BY <2>1, <2>2, <2>3, <2>4, <2>5
<1> QED
  BY <1>3, <1>4, <1>5 DEF Inv

LEMMA ResultKeepsInv ==
  ASSUME Inv, NEW p \in Checked, ResultStored(p)
  PROVE  Inv'
<1>1. UNCHANGED <<state, restarts, serverVars, handlerVars>>
  BY DEF ResultStored
<1>2. results' \in [Checked -> {"healthy", "unhealthy", "none"}]
  BY DEF ResultStored, Inv, TypeOK
<1> QED
  BY <1>1, <1>2 DEF Inv, TypeOK, InOrder, Recorded, Growing, CountersFollowState, ShutDown,
     serverVars, handlerVars, readVars, Busy, Wanted

LEMMA ArrivesKeepsInv ==
  ASSUME Inv, Arrives
  PROVE  Inv'
<1>1. PICK r \in Request : request' = r /\ plan' = Plan(r)
  BY DEF Arrives
<1>2. Busy' /\ plan' \in ToRead /\ plan' \notin {<<"results", "details">>, <<"details">>}
  BY <1>1, RequestFacts DEF Busy
<1>3. /\ ~Busy /\ conn \in {"new", "idle"} /\ conn' = "read"
      /\ reply' = NoReply
      /\ wasRunning' = {p \in Proc : state[p] = "running"}
      /\ UNCHANGED <<managerVars, listening, closed, stop, readVars>>
  BY DEF Arrives, Inv, ShutDown
<1>4. TypeOK'
  BY <1>1, <1>3 DEF Inv, TypeOK, Connection, managerVars, readVars, NoReply
<1>5. InOrder'
  BY <1>2, <1>3 DEF Inv, InOrder, readVars
<1>6. Recorded'
  BY <1>3 DEF Inv, InOrder, Recorded, NoneSeen, managerVars, readVars
<1>7. Growing' /\ CountersFollowState'
  BY <1>3 DEF Inv, Growing, CountersFollowState, managerVars, readVars
<1>8. ShutDown'
  BY <1>2, <1>3 DEF Inv, ShutDown
<1> QED
  BY <1>4, <1>5, <1>6, <1>7, <1>8 DEF Inv

\* A plan is worked off from its head.
LEMMA PlanSteps ==
  ASSUME plan \in ToRead, plan # <<>>, NEW finished \in BOOLEAN, Proceeds(finished)
  PROVE  /\ plan' \in ToRead
         /\ Reading("states") /\ plan' \in {<<"results", "details">>, <<"details">>} => finished
         /\ Reading("results") => plan' \notin {<<"results", "details">>, <<"details">>}
                                  \/ plan \in {<<"results", "details">>, <<"details">>}
         /\ Reading("details") => plan = <<"details">>
<1>1. CASE ~finished
  BY <1>1 DEF Proceeds, ToRead, Reading
<1>2. CASE finished
  <2>1. plan' = Tail(plan)
    BY <1>2 DEF Proceeds
  <2>2. CASE plan = <<"results">>
    BY <2>1, <2>2 DEF ToRead, Reading
  <2>3. CASE plan = <<"states", "results", "details">>
    BY <1>2, <2>1, <2>3 DEF ToRead, Reading
  <2>4. CASE plan = <<"results", "details">>
    BY <2>1, <2>4 DEF ToRead, Reading
  <2>5. CASE plan = <<"details">>
    BY <2>1, <2>5 DEF ToRead, Reading
  <2> QED
    BY <2>2, <2>3, <2>4, <2>5 DEF ToRead
<1> QED
  BY <1>1, <1>2

\* The State that is read is one of a process that is recorded, and the
\* counter that is read later will not be smaller than it is now.
LEMMA ReadStateKeepsInv ==
  ASSUME Inv, NEW p \in Proc, ReadState(p)
  PROVE  Inv'
<1> DEFINE finished == \A q \in Wanted \ {p} : seen[q] # "unread"
<1>1. /\ seen[p] = "unread"
      /\ state[p] \in {"down", "running"}
      /\ seen' = [seen EXCEPT ![p] = state[p]]
      /\ restartsThen' = [restartsThen EXCEPT ![p] = restarts[p]]
      /\ UNCHANGED <<managerVars, serverVars, request, seenResults, shown, reply, wasRunning>>
  BY DEF ReadState, Unlocked, Inv, TypeOK, ProcessState
<1>2. restarts[p] \in Nat /\ restarts[p] # Unread
  BY DEF Inv, TypeOK, Unread
<1>3. Busy /\ Busy' /\ Wanted' = Wanted
  BY <1>1 DEF Inv, InOrder, Busy, Wanted, ReadState, Reading
<1>4. TypeOK'
  BY <1>1, <1>2 DEF Inv, TypeOK, managerVars, serverVars
<1>5. /\ seen'[p] = state[p] /\ restartsThen'[p] = restarts[p]
      /\ \A q \in Proc : q # p => seen'[q] = seen[q] /\ restartsThen'[q] = restartsThen[q]
  BY <1>1 DEF Inv, TypeOK
<1>6. /\ plan' \in ToRead
      /\ plan' \in {<<"results", "details">>, <<"details">>} => finished
  <2>1. /\ plan \in ToRead /\ plan # <<>>
        /\ Reading("states") /\ Proceeds(finished)
    BY DEF ReadState, Reading, Inv, InOrder
  <2>2. finished \in BOOLEAN
    OBVIOUS
  <2> HIDE DEF finished
  <2> QED
    BY <2>1, <2>2, PlanSteps
<1>7. InOrder'
  <2>1. plan' \in {<<"results", "details">>, <<"details">>} =>
          \A q \in Wanted' : seen'[q] # "unread"
    BY <1>1, <1>3, <1>5, <1>6 DEF Wanted
  <2>2. reply' = NoReply
    BY <1>1, <1>3 DEF Inv, InOrder
  <2>3. \A q \in Proc : seen'[q] = "unread" <=> restartsThen'[q] = Unread
    BY <1>1, <1>2, <1>5 DEF Inv, InOrder
  <2> QED
    BY <1>3, <1>6, <2>1, <2>2, <2>3 DEF InOrder
<1>8. Recorded'
  BY <1>1, <1>3, <1>5 DEF Inv, Recorded, managerVars
<1>9. Growing'
  BY <1>1, <1>2, <1>5 DEF Inv, Growing, managerVars
<1>10. CountersFollowState'
  <2>1. shown[p] = Unread
    BY <1>1 DEF Inv, InOrder, CountersFollowState
  <2> QED
    BY <1>1, <1>5, <2>1 DEF Inv, CountersFollowState
<1>11. ShutDown'
  BY <1>1, <1>3 DEF Inv, ShutDown, serverVars
<1> QED
  BY <1>4, <1>7, <1>8, <1>9, <1>10, <1>11 DEF Inv

LEMMA ReadResultsKeepsInv ==
  ASSUME Inv, ReadResults
  PROVE  Inv'
<1>1. /\ seenResults' = results
      /\ UNCHANGED <<managerVars, serverVars, request, seen, shown, restartsThen, reply,
                     wasRunning>>
  BY DEF ReadResults
<1>2. /\ plan' \in ToRead
      /\ plan' \in {<<"results", "details">>, <<"details">>}
           => plan \in {<<"results", "details">>, <<"details">>}
  <2>1. plan \in ToRead /\ plan # <<>> /\ Reading("results") /\ Proceeds(TRUE)
    BY DEF ReadResults, Reading, Inv, InOrder
  <2> QED
    BY <2>1, PlanSteps
<1>3. TypeOK'
  BY <1>1 DEF Inv, TypeOK, managerVars, serverVars
<1>4. InOrder'
  <2>1. Busy /\ Busy' /\ Wanted' = Wanted
    BY <1>1 DEF ReadResults, Reading, Inv, InOrder, Busy, Wanted
  <2>2. plan' \in {<<"results", "details">>, <<"details">>} =>
          \A p \in Wanted' : seen'[p] # "unread"
    BY <1>1, <1>2, <2>1 DEF Inv, InOrder
  <2> QED
    BY <1>1, <1>2, <2>1, <2>2 DEF Inv, InOrder
<1>5. Recorded' /\ Growing' /\ CountersFollowState'
  BY <1>1 DEF Inv, Recorded, Growing, CountersFollowState, Busy, managerVars
<1>6. ShutDown'
  BY <1>1 DEF Inv, ShutDown, Busy, serverVars
<1> QED
  BY <1>3, <1>4, <1>5, <1>6 DEF Inv

LEMMA ReadDetailsKeepsInv ==
  ASSUME Inv, NEW p \in Proc, ReadDetails(p)
  PROVE  Inv'
<1> DEFINE finished == \A q \in Wanted \ {p} : shown[q] # Unread
<1>1. /\ shown' = [shown EXCEPT ![p] = restarts[p]]
      /\ p \in Wanted
      /\ UNCHANGED <<managerVars, serverVars, request, seen, seenResults, restartsThen, reply,
                     wasRunning>>
  BY DEF ReadDetails
<1>2. plan = <<"details">> /\ plan' \in ToRead
  <2>1. /\ plan \in ToRead /\ plan # <<>>
        /\ Reading("details") /\ Proceeds(finished)
    BY DEF ReadDetails, Reading, Inv, InOrder
  <2>2. finished \in BOOLEAN
    OBVIOUS
  <2> HIDE DEF finished
  <2> QED
    BY <2>1, <2>2, PlanSteps
<1>3. Busy
  BY <1>2 DEF Inv, InOrder
<1>4. TypeOK' /\ InOrder'
  <2>1. restarts[p] \in 0 .. MaxRestarts
    BY DEF Inv, TypeOK
  <2>2. TypeOK'
    BY <1>1, <2>1 DEF Inv, TypeOK, managerVars, serverVars
  <2>3. InOrder'
    BY <1>1, <1>2, <1>3 DEF Inv, InOrder, Busy, Wanted
  <2> QED
    BY <2>2, <2>3
<1>5. Recorded' /\ Growing'
  BY <1>1 DEF Inv, Recorded, Growing, Busy, managerVars
<1>6. CountersFollowState'
  <2>1. restartsThen[p] # Unread
    BY <1>1, <1>2 DEF Inv, InOrder
  <2>2. restarts[p] >= restartsThen[p]
    BY <2>1 DEF Inv, Growing, TypeOK
  <2> QED
    BY <1>1, <2>1, <2>2 DEF Inv, CountersFollowState, TypeOK
<1>7. ShutDown'
  BY <1>1 DEF Inv, ShutDown, Busy, serverVars
<1> QED
  BY <1>4, <1>5, <1>6, <1>7 DEF Inv

LEMMA RepliesKeepInv ==
  ASSUME Inv, Replies
  PROVE  Inv'
<1>1. /\ plan = <<>> /\ plan' = plan
      /\ request' = NoRequest
      /\ seen' = NoneSeen
      /\ seenResults' = NoResults
      /\ shown' = Nothing
      /\ restartsThen' = Nothing
      /\ wasRunning' = {}
      /\ conn \in {"active", "cut"} /\ conn' \in {"none", "idle"}
      /\ conn = "cut" => conn' = "none"
      /\ UNCHANGED <<managerVars, listening, closed, stop>>
  BY DEF Replies, Serving
<1>2. ~Busy'
  BY <1>1 DEF Busy
<1>3. TypeOK'
  <2>1. OverallStatus(seenResults) \in Status
    BY DEF OverallStatus, Status
  <2>2. reply' \in [code : {0, 200, 400, 404, 405, 503},
                    status : Status \cup {"degraded", "none"}]
    <3>1. HealthAnswer \in [code : {200, 503}, status : Status]
      BY <2>1 DEF HealthAnswer, Answer
    <3>2. StatusAnswer \in [code : {200}, status : {"healthy", "degraded"}]
      BY DEF StatusAnswer, Answer
    <3>3. request \in Request
      BY <1>1 DEF Inv, TypeOK, ShutDown, Busy
    <3>4. request.name \in Proc \cup {Unknown, NoName}
      BY <3>3 DEF Request
    <3>5. ProcessAnswer \in [code : {200, 400, 404}, status : {"none"}]
      BY <3>4 DEF ProcessAnswer, Answer
    <3>6. request.path \in {"/health", "/status", "/processes", "/processes/"}
      BY <3>3 DEF Request
    <3> QED
      BY <3>1, <3>2, <3>5, <3>6 DEF Replies, Reply, NoReply, Answer, Status
  <2> QED
    BY <1>1, <2>2 DEF Inv, TypeOK, Connection, managerVars, NoneSeen, NoResults, Nothing
<1>4. InOrder'
  BY <1>1, <1>2 DEF InOrder, ToRead, NoneSeen, Nothing
<1>5. Recorded' /\ Growing' /\ CountersFollowState'
  BY <1>1, <1>2 DEF Recorded, Growing, CountersFollowState, NoneSeen, Nothing
<1>6. ShutDown'
  BY <1>1, <1>2 DEF Inv, ShutDown
<1> QED
  BY <1>3, <1>4, <1>5, <1>6 DEF Inv

LEMMA Invariance == Spec => []Inv
<1>1. Inv /\ [Next]_vars => Inv'
  <2> SUFFICES ASSUME Inv, [Next]_vars
               PROVE  Inv'
    OBVIOUS
  <2>1. CASE Handler
    BY <2>1, ReadStateKeepsInv, ReadDetailsKeepsInv, ReadResultsKeepsInv, RepliesKeepInv
       DEF Handler
  <2>2. CASE Arrives
    BY <2>2, ArrivesKeepsInv
  <2>3. CASE ServerStep
    BY <2>3, ServerKeepsInv
  <2>4. ASSUME NEW p \in Checked, ResultStored(p)
        PROVE  Inv'
    BY <2>4, ResultKeepsInv
  <2>5. ASSUME NEW p \in Proc,
               Starts(p) \/ ExitRecorded(p) \/ StopProcessBegins(p) \/ StopProcessEnds(p)
        PROVE  Inv'
    BY <2>5, ManagerKeepsInv
  <2>6. CASE UNCHANGED vars
    BY <2>6 DEF vars, managerVars, serverVars, handlerVars, readVars, Inv, TypeOK, InOrder,
       Recorded, Growing, CountersFollowState, ShutDown, Busy, Wanted
  <2> QED
    BY <2>1, <2>2, <2>3, <2>4, <2>5, <2>6 DEF Next, ServerStep
<1> QED
  BY InvInitially, <1>1, PTL DEF Spec

-----------------------------------------------------------------------------
(* The properties.                                                         *)

\* Type correctness of the server and its handlers.
THEOREM ServerTyping == Spec => []TypeOK
BY Invariance, PTL DEF Inv

\* A reply never shows counters that are older than the State beside them.
THEOREM CountersAreFresh == Spec => []CountersFollowState
BY Invariance, PTL DEF Inv

\* Every other step leaves the reply alone, or takes it away.
LEMMA OnlyRepliesReply ==
  ASSUME Next
  PROVE  Replies \/ reply' \in {reply, NoReply}
BY DEF Next, Handler, Arrives, ReadState, ReadDetails, ReadResults, ServerStarts, Listens,
   Accepts, ConnectionEnds, StopCalled, ShutdownCloses, StopReturns, StopTimesOut,
   BecomesActive, ResultStored, Starts, ExitRecorded, StopProcessBegins, StopProcessEnds,
   handlerVars

\* No interleaving of the manager with the reads of /status makes it answer
\* "healthy" when some process has not run since the request came.
THEOREM HealthyMeansRan == Spec => HealthyIsEarned
<1>1. Inv /\ [Next]_vars =>
        [request.path = "/status" /\ reply'.status = "healthy" =>
           /\ wasRunning = Proc
           /\ \A p \in Checked : seenResults[p] # "unhealthy"]_vars
  <2> SUFFICES ASSUME Inv, Next, request.path = "/status", reply'.status = "healthy"
               PROVE  /\ wasRunning = Proc
                      /\ \A p \in Checked : seenResults[p] # "unhealthy"
    OBVIOUS
  <2>1. Busy
    BY DEF Busy, NoRequest
  <2>2. CASE Replies
    <3>1. reply' = StatusAnswer \/ reply' = Answer(405, "none") \/ reply' = NoReply
      BY <2>2 DEF Replies, Reply
    <3>2. AllWell
      BY <3>1 DEF StatusAnswer, Answer, NoReply
    <3>3. \A p \in Proc : p \in wasRunning
      BY <3>2 DEF AllWell, Inv, Recorded
    <3>4. wasRunning \subseteq Proc
      BY DEF Inv, TypeOK
    <3> QED
      BY <3>2, <3>3, <3>4 DEF AllWell
  <2>3. CASE reply' \in {reply, NoReply}
    BY <2>1, <2>3 DEF Inv, InOrder, NoReply
  <2>4. Replies \/ reply' \in {reply, NoReply}
    BY OnlyRepliesReply
  <2> QED
    BY <2>2, <2>3, <2>4
<1> QED
  BY <1>1, Invariance, PTL DEF Spec, HealthyIsEarned

\* When Stop has returned in time no reply goes out any more, whatever
\* connections there were and whenever the goroutine of Start gets to listen.
THEOREM StopEndsReplies == Spec => NoReplyAfterStop
<1>1. Inv /\ [Next]_vars => [stop = "returned" /\ reply = NoReply => reply' = NoReply]_vars
  <2> SUFFICES ASSUME Inv, Next, stop = "returned", reply = NoReply
               PROVE  reply' = NoReply
    OBVIOUS
  <2>1. ~Replies \/ conn = "cut"
    BY DEF Inv, ShutDown, Replies, Serving
  <2> QED
    BY <2>1, OnlyRepliesReply DEF Replies
<1> QED
  BY <1>1, Invariance, PTL DEF Spec, NoReplyAfterStop

\* With every process running, /status and /health make the same of the same
\* health results, although their rules are written apart.
THEOREM OneVerdict == Spec => []EndpointsAgree
<1>1. Inv => EndpointsAgree
  <2> SUFFICES ASSUME Inv, \A p \in Proc : seen[p] = "running"
               PROVE  AllWell <=> OverallStatus(seenResults) = "healthy"
    BY DEF EndpointsAgree
  <2> DEFINE bad == {p \in DOMAIN seenResults : seenResults[p] = "unhealthy"}
             open == {p \in DOMAIN seenResults : seenResults[p] = "unknown"}
  <2>1. DOMAIN seenResults = Checked /\ open = {}
    BY DEF Inv, TypeOK
  <2>2. IsFiniteSet(bad)
    <3>1. IsFiniteSet(Proc)
      BY NAssumption, FS_Interval DEF Proc
    <3>2. bad \subseteq Proc
      BY <2>1, CheckedAssumption
    <3> QED
      BY <3>1, <3>2, FS_Subset
  <2>3. Count(seenResults, "unhealthy") \in Nat /\ Count(seenResults, "unknown") = 0
    BY <2>1, <2>2, FS_CardinalityType, FS_EmptySet DEF Count
  <2>4. Count(seenResults, "unhealthy") = 0 <=> bad = {}
    BY <2>2, FS_EmptySet DEF Count
  <2>5. OverallStatus(seenResults) = "healthy" <=> bad = {}
    BY <2>3, <2>4 DEF OverallStatus
  <2>6. AllWell <=> bad = {}
    BY <2>1 DEF AllWell, Inv, TypeOK
  <2> QED
    BY <2>5, <2>6
<1> QED
  BY <1>1, Invariance, PTL
=============================================================================
