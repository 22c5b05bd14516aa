------------------------------ MODULE Supervisor ------------------------------
(***************************************************************************)
(* What the supervisor promises about one process, without goroutines,     *)
(* locks or calls of Wait: when a command may be launched, what its exit   *)
(* may lead to, and what is true when a stop has ended.  ProcessManager    *)
(* implements it for each of its processes (see Supervision).              *)
(***************************************************************************)
EXTENDS Integers

VARIABLES
  budget,    \* how many restarts the settings allow, or Infinite
  phase,     \* the state reported to the outside
  launched,  \* commands launched so far; the last one is the current one
  live,      \* those that are still alive
  owed,      \* those whose exit has earned a restart that is still to come
  charged,   \* restarts earned so far
  asked,     \* how often a start was requested from outside
  over       \* the supervisor has shut down: nothing is launched any more

supervisorVars == <<budget, phase, launched, live, owed, charged, asked, over>>

Infinite == -1

Init ==
  /\ budget \in Nat \cup {Infinite}
  /\ phase = "stopped"
  /\ launched = 0
  /\ live = {}
  /\ owed = {}
  /\ charged = 0
  /\ asked = 0
  /\ over = FALSE

\* No command is alive, unless starts were requested more than once: then a
\* request may overtake the end of what an earlier one has launched.
NothingLeft == asked <= 1 => live = {}

\* A start leaves a running process alone, and is refused during a stop.
Starts ==
  /\ phase # "stopping"
  /\ \/ /\ phase = "running"
        /\ UNCHANGED <<phase, launched, live>>
     \/ /\ phase # "running"
        /\ ~over
        /\ asked' <= 1 => live = {}
        /\ launched' = launched + 1
        /\ live' = live \cup {launched'}
        /\ phase' = "running"
     \/ /\ phase # "running"
        /\ phase' = "failed"
        /\ UNCHANGED <<launched, live>>
  /\ UNCHANGED <<budget, charged, over>>

Request ==
  /\ asked' = asked + 1
  /\ Starts
  /\ UNCHANGED owed

\* An exit earns at most one restart.
Restart ==
  /\ \E n \in owed : owed' = owed \ {n}
  /\ Starts
  /\ UNCHANGED asked

CommandEnds ==
  /\ \E n \in live : live' = live \ {n}
  /\ UNCHANGED <<budget, phase, launched, owed, charged, asked, over>>

EarnsRestart(n) ==
  /\ budget # Infinite => charged < budget
  /\ charged' = charged + 1
  /\ owed' = owed \cup {n}

\* The exit of a command is noticed, never while a stop is under way.  After
\* an explicit restart it may be an exit that was misattributed: the restart
\* is then earned by a command that is still alive.
ExitNoticed ==
  /\ phase # "stopping"
  /\ NothingLeft
  /\ phase' \in {"stopped", "failed"}
  /\ \E n \in 1 .. launched \ owed :
       EarnsRestart(n) \/ UNCHANGED <<charged, owed>>
  /\ UNCHANGED <<budget, launched, live, asked, over>>

StopBegins ==
  /\ phase = "running"
  /\ phase' = "stopping"
  /\ UNCHANGED <<budget, launched, live, owed, charged, asked, over>>

\* A stop ends only when the command it was to stop is gone.
StopEnds ==
  /\ phase = "stopping"
  /\ launched \notin live
  /\ phase' = "stopped"
  /\ UNCHANGED <<budget, launched, live, owed, charged, asked, over>>

ShutsDown ==
  /\ over' = TRUE
  /\ UNCHANGED <<budget, phase, launched, live, owed, charged, asked>>

Next ==
  \/ Request
  \/ Restart
  \/ CommandEnds
  \/ ExitNoticed
  \/ StopBegins
  \/ StopEnds
  \/ ShutsDown

Spec == Init /\ [][Next]_supervisorVars
=============================================================================
