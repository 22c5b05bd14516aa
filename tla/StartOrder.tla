------------------------------ MODULE StartOrder ------------------------------
(***************************************************************************)
(* Manager.topologicalSort (always called with reverse = false), which     *)
(* StartAll and StopAll use: repeatedly take a process all of whose        *)
(* dependencies have been taken.                                           *)
(*                                                                         *)
(* The map graph of the code is derived from dependsOn: graph[q] names p   *)
(* once for every occurrence of q in the list of p, in the order of the    *)
(* configuration.  The first queue is filled from a Go map, in any order.  *)
(***************************************************************************)
EXTENDS DependencyGraph, FiniteSets, Functions

VARIABLES
  inDegree,   \* how many of its dependencies have not been taken
  queue,      \* processes ready to be taken
  result,     \* the processes taken so far
  sorting     \* where topologicalSort is, and what it returns

sortVars == <<dependsOn, inDegree, queue, result, sorting>>

SortTypeOK ==
  /\ dependsOn \in Graphs
  /\ inDegree \in [Proc -> Nat]
  /\ queue \in Seq(Proc)
  /\ result \in Seq(Proc)
  /\ sorting \in {"called", "loop", "order", "circular"}

\* The lists that name every member of S once.
Arrangements(S) ==
  {f \in [1 .. Cardinality(S) -> S] : Range(f) = S}

\* The members of S in the order of the configuration: one list.
InOrder(S) ==
  {f \in Arrangements(S) : \A i, j \in DOMAIN f : i < j => f[i] < f[j]}

\* graph and inDegree have been computed from the configuration.
SortInit ==
  /\ dependsOn \in Graphs
  /\ inDegree = [p \in Proc |-> Len(dependsOn[p])]
  /\ queue = <<>>
  /\ result = <<>>
  /\ sorting = "called"

\* The processes without dependencies are found by iterating over a Go map.
FillQueue ==
  /\ sorting = "called"
  /\ queue' \in Arrangements({p \in Proc : inDegree[p] = 0})
  /\ sorting' = "loop"
  /\ UNCHANGED <<dependsOn, inDegree, result>>

\* Mutant: a dependency listed twice is counted down once.
UncountedOnce(current) ==
  [p \in Proc |-> IF DependsOn(dependsOn, p, current) THEN inDegree[p] - 1 ELSE inDegree[p]]

\* inDegree after all entries of graph[current] have been counted down.
Uncounted(current) ==
  [p \in Proc |-> inDegree[p] - Cardinality(Occurrences(dependsOn, p, current))]

\* Mutant: a neighbor is queued although other dependencies are missing.
FreedTooEarly(current) == {p \in Proc : DependsOn(dependsOn, p, current)}

\* The neighbors whose last missing dependency was current.
Freed(current) ==
  {p \in Proc : DependsOn(dependsOn, p, current) /\ Uncounted(current)[p] = 0}

Take ==
  /\ sorting = "loop"
  /\ queue # <<>>
  /\ LET current == Head(queue)
     IN  /\ result' = Append(result, current)
         /\ inDegree' = Uncounted(current)
         /\ \E freed \in InOrder(Freed(current)) : queue' = Tail(queue) \o freed
  /\ UNCHANGED <<dependsOn, sorting>>

\* Mutant: nobody checks that all processes have been taken.
FinishUnchecked ==
  /\ sorting = "loop"
  /\ queue = <<>>
  /\ sorting' = "order"
  /\ UNCHANGED <<dependsOn, inDegree, queue, result>>

Finish ==
  /\ sorting = "loop"
  /\ queue = <<>>
  /\ sorting' = IF Len(result) = N THEN "order" ELSE "circular"
  /\ UNCHANGED <<dependsOn, inDegree, queue, result>>

SortNext == FillQueue \/ Take \/ Finish

SortSpec == SortInit /\ [][SortNext]_sortVars /\ WF_sortVars(SortNext)

-----------------------------------------------------------------------------
\* No process is placed before all of its dependencies: StartAll starts a
\* dependency first, whatever the order of the map (manager.go:628-639).
DependenciesFirst ==
  \A i \in DOMAIN result, q \in Proc :
    DependsOn(dependsOn, result[i], q) => \E j \in DOMAIN result : j < i /\ result[j] = q

\* Each process is started at most once, and an order that is returned names
\* all of them (manager.go:636, 641).
OrderIsComplete ==
  /\ \A i, j \in DOMAIN result : result[i] = result[j] => i = j
  /\ sorting = "order" => Range(result) = Proc
=============================================================================
