------------------------- MODULE HealthChecker_proofs -------------------------
(***************************************************************************)
(* Proofs about HealthChecker, for any set of processes that have a health *)
(* check.                                                                  *)
(***************************************************************************)
EXTENDS HealthChecker, TLAPS

-----------------------------------------------------------------------------
(* Typing.                                                                 *)

\* The manager and the call of Start and Stop touch no goroutine but to start
\* it.
LEMMA ManagerTyped ==
  ASSUME TypeOK,
         \/ Start
         \/ StopCalled
         \/ StopReturns
         \/ \E p \in Proc : StateChanges(p) \/ StopProcessBegins(p) \/ StopProcessEnds(p)
  PROVE  TypeOK'
<1> USE DEF TypeOK, Phase, Status, managerVars, stopVars
<1>1. CASE Start
  BY <1>1 DEF Start
<1>2. CASE StopCalled
  BY <1>2 DEF StopCalled
<1>3. CASE StopReturns
  BY <1>3 DEF StopReturns
<1>4. ASSUME NEW p \in Proc, StateChanges(p)
      PROVE  TypeOK'
  BY <1>4 DEF StateChanges
<1>5. ASSUME NEW p \in Proc, StopProcessBegins(p)
      PROVE  TypeOK'
  BY <1>5 DEF StopProcessBegins
<1>6. ASSUME NEW p \in Proc, StopProcessEnds(p)
      PROVE  TypeOK'
  BY <1>6 DEF StopProcessEnds
<1> QED
  BY <1>1, <1>2, <1>3, <1>4, <1>5, <1>6

LEMMA CheckTyped ==
  ASSUME TypeOK, NEW p \in Proc,
         Tick(p) \/ Checks(p) \/ CommandEnds(p) \/ OutputEnds(p)
  PROVE  TypeOK'
<1>1. CASE Tick(p)
  BY <1>1 DEF Tick, TypeOK, managerVars, stopVars
\* The goroutines run only once they are started, and do not become unstarted.
<1>2. ASSUME NEW next \in Phase \ {"none"}, Goes(p, next), phase[p] # "none",
             UNCHANGED <<managerVars, stopVars>>,
             ticked' \in [Proc -> BOOLEAN], status' \in [Proc -> Status],
             results' \in [Proc -> Status \cup {"none"}]
      PROVE  TypeOK'
  BY <1>2 DEF Goes, TypeOK, managerVars, stopVars
<1> USE DEF Phase, Status
<1>3. CASE CommandStarts(p)
  BY <1>2, <1>3 DEF CommandStarts, TypeOK
<1>4. CASE CommandEnds(p) \/ CommandKilled(p) \/ OutputEnds(p)
  BY <1>2, <1>4 DEF CommandEnds, CommandKilled, OutputEnds, TypeOK
<1>5. CASE Store(p)
  BY <1>2, <1>5 DEF Store, TypeOK
<1>6. CASE TakeTick(p) \/ SeeDone(p)
  BY <1>2, <1>6 DEF TakeTick, SeeDone, TypeOK
<1>7. CASE Ask(p)
  BY <1>2, <1>7 DEF Ask, TypeOK
<1> QED
  BY <1>1, <1>3, <1>4, <1>5, <1>6, <1>7 DEF Checks

\* Type correctness of the health checker.
THEOREM CheckerTyping == Spec => []TypeOK
<1>1. Init => TypeOK
  BY ZenonT(40) DEF Init, TypeOK, Phase, Status
<1>2. TypeOK /\ [Next]_vars => TypeOK'
  <2> SUFFICES ASSUME TypeOK, [Next]_vars
               PROVE  TypeOK'
    OBVIOUS
  <2>1. CASE UNCHANGED vars
    BY <2>1 DEF vars, TypeOK
  <2> QED
    BY <2>1, ManagerTyped, CheckTyped DEF Next
<1> QED
  BY <1>1, <1>2, PTL DEF Spec

-----------------------------------------------------------------------------
(* No health command outlives Stop.                                        *)

\* When Stop returns no command runs, and the context is done: none can be
\* started any more, whatever Start and the tickers still do.
THEOREM QuietAfterStop == Spec => []NoCheckAfterStop
<1>1. Init => NoCheckAfterStop
  BY DEF Init, NoCheckAfterStop
<1>2. TypeOK /\ NoCheckAfterStop /\ [Next]_vars => NoCheckAfterStop'
  <2> SUFFICES ASSUME TypeOK, NoCheckAfterStop, [Next]_vars
               PROVE  NoCheckAfterStop'
    OBVIOUS
  <2> DEFINE Busy == {"command", "drain"}
  <2>1. CASE UNCHANGED <<phase, stop>>
    BY <2>1 DEF NoCheckAfterStop
  <2>2. CASE Start
    BY <2>2 DEF Start, NoCheckAfterStop
  <2>3. CASE StopCalled
    BY <2>3 DEF StopCalled, NoCheckAfterStop
  <2>4. CASE StopReturns
    BY <2>4 DEF StopReturns, NoCheckAfterStop
  <2>5. ASSUME NEW p \in Proc, NEW next, Goes(p, next), stop' = stop,
               next \in Busy => phase[p] \in Busy \/ stop # "returned"
        PROVE  NoCheckAfterStop'
    BY <2>5 DEF Goes, NoCheckAfterStop, TypeOK
  <2>6. ASSUME NEW p \in Proc, CommandStarts(p)
        PROVE  NoCheckAfterStop'
    <3>1. PICK ok \in BOOLEAN : /\ ok => ~cancelled
                                /\ Goes(p, IF ok THEN "command" ELSE "store")
      BY <2>6 DEF CommandStarts
    <3>2. stop' = stop
      BY <2>6 DEF CommandStarts, stopVars
    <3>3. ok => stop # "returned"
      BY <3>1 DEF TypeOK
    <3> QED
      BY <2>5, <3>1, <3>2, <3>3
  <2>7. ASSUME NEW p \in Proc, CommandEnds(p) \/ CommandKilled(p)
        PROVE  NoCheckAfterStop'
    BY <2>5, <2>7 DEF CommandEnds, CommandKilled, stopVars
  <2>8. ASSUME NEW p \in Proc,
               OutputEnds(p) \/ Store(p) \/ TakeTick(p) \/ SeeDone(p) \/ Ask(p)
        PROVE  NoCheckAfterStop'
    BY <2>5, <2>8 DEF OutputEnds, Store, TakeTick, SeeDone, Ask, stopVars
  <2> HIDE DEF Busy
  <2> QED
    BY <2>1, <2>2, <2>3, <2>4, <2>6, <2>7, <2>8 DEF Next, Checks, StateChanges,
       StopProcessBegins, StopProcessEnds, Tick, stopVars, vars
<1> QED
  BY <1>1, <1>2, CheckerTyping, PTL DEF Spec
=============================================================================
