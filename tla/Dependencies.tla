---------------------------- MODULE Dependencies ----------------------------
(***************************************************************************)
(* The two algorithms that look at the dependencies of one configuration:  *)
(* first Validate searches for a cycle (DependencyCheck), then StartAll    *)
(* and StopAll sort the processes (StartOrder).  topologicalSort has its   *)
(* own test for cycles, and the tests call it on configurations that were  *)
(* not validated, so here it follows every verdict of the search.          *)
(***************************************************************************)
EXTENDS DependencyCheck, StartOrder

vars == <<dependsOn, visited, recStack, stack, verdict, inDegree, queue, result, sorting>>

TypeOK == CheckTypeOK /\ SortTypeOK

Init == CheckInit /\ SortInit

Next ==
  \/ CheckNext /\ UNCHANGED <<inDegree, queue, result, sorting>>
  \/ /\ verdict # "none"
     /\ SortNext
     /\ UNCHANGED <<visited, recStack, stack, verdict>>

\* Two sequential calls: they keep going.
Spec == Init /\ [][Next]_vars /\ WF_vars(Next)

-----------------------------------------------------------------------------
\* StartAll fails with "circular dependency detected" exactly on the
\* configurations Validate rejects: a depth-first search and a count of
\* degrees, written apart, agree on repeated names, self-references and
\* diamonds (config.go:192-214, manager.go:599-645).
AlgorithmsAgree ==
  /\ sorting = "order" => verdict = "valid"
  /\ sorting = "circular" => verdict = "circular"

\* Both calls return, however the maps are iterated (config.go:183-212,
\* manager.go:628-645).
BothEnd == <>(sorting \in {"order", "circular"})
=============================================================================
