--------------------------- MODULE DependencyGraph ---------------------------
(***************************************************************************)
(* The configured dependencies: what config.go and manager.go both work on *)
(* and what "circular" means, independently of either algorithm.           *)
(***************************************************************************)
EXTENDS Integers, Sequences

CONSTANTS
  N,       \* the number of configured processes
  Graphs   \* the dependency lists a configuration may have

ASSUME NAssumption == N \in Nat \ {0}

\* Processes are named by their position in config.Processes.
Proc == 1 .. N

\* DependsOn is a list: a name may occur twice, and a process may name itself.
\* Every name is defined: Validate has rejected the others before.
ASSUME GraphsAssumption == Graphs \subseteq [Proc -> Seq(Proc)]

VARIABLE dependsOn   \* process.DependsOn of every process, never changed

\* The positions at which p names q.
Occurrences(g, p, q) == {i \in DOMAIN g[p] : g[p][i] = q}

DependsOn(g, p, q) == Occurrences(g, p, q) # {}

\* Members of S depend on each other in a circle, or lead into one: a finite
\* graph has a cycle exactly if it has such a set.
Circle(g, S) ==
  /\ S \in SUBSET Proc
  /\ S # {}
  /\ \A p \in S : \E q \in S : DependsOn(g, p, q)

Circular(g) == \E S \in SUBSET Proc : Circle(g, S)
=============================================================================
