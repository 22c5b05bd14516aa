--------------------------- MODULE DependencyCheck ---------------------------
(***************************************************************************)
(* Config.validateDependencies: the depth-first search for a cycle, with   *)
(* the recursion of hasCycle as an explicit stack.  The order in which the *)
(* outer loop meets the processes is the iteration order of a Go map, so   *)
(* any order.                                                              *)
(***************************************************************************)
EXTENDS DependencyGraph, FiniteSets

VARIABLES
  visited,    \* the processes hasCycle was called for
  recStack,   \* the processes whose call has not returned
  stack,      \* the active calls: process and position in its DependsOn
  verdict     \* what validateDependencies returns

checkVars == <<dependsOn, visited, recStack, stack, verdict>>

Frame == [proc : Proc, next : Nat \ {0}]

CheckTypeOK ==
  /\ dependsOn \in Graphs
  /\ visited \in SUBSET Proc
  /\ recStack \in SUBSET Proc
  /\ stack \in Seq(Frame)
  /\ verdict \in {"none", "valid", "circular"}

CheckInit ==
  /\ dependsOn \in Graphs
  /\ visited = {}
  /\ recStack = {}
  /\ stack = <<>>
  /\ verdict = "none"

Top == stack[Len(stack)]
Below == SubSeq(stack, 1, Len(stack) - 1)
TopDeps == dependsOn[Top.proc]

\* The loop of the topmost call looks at its next dependency.
Looking ==
  /\ verdict = "none"
  /\ stack # <<>>
  /\ Top.next <= Len(TopDeps)

Dep == TopDeps[Top.next]
Advanced == Append(Below, [Top EXCEPT !.next = @ + 1])

\* A call of hasCycle(p) on top of the calls in below.
Call(p, below) ==
  /\ visited' = visited \cup {p}
  /\ recStack' = recStack \cup {p}
  /\ stack' = Append(below, [proc |-> p, next |-> 1])
  /\ UNCHANGED <<dependsOn, verdict>>

\* Mutant: the outer loop forgets that a process has been visited.
CallRootAgain(p) ==
  /\ verdict = "none"
  /\ stack = <<>>
  /\ visited # Proc
  /\ Call(p, stack)

CallRoot(p) ==
  /\ verdict = "none"
  /\ stack = <<>>
  /\ p \notin visited
  /\ Call(p, stack)

Descend ==
  /\ Looking
  /\ Dep \notin visited
  /\ Call(Dep, Advanced)

\* Mutant: any process met before counts as a cycle.
FindAnyVisited ==
  /\ Looking
  /\ Dep \in visited
  /\ verdict' = "circular"
  /\ UNCHANGED <<dependsOn, visited, recStack, stack>>

\* hasCycle returns true, and so do all its callers.
FindCycle ==
  /\ Looking
  /\ Dep \in visited
  /\ Dep \in recStack
  /\ verdict' = "circular"
  /\ UNCHANGED <<dependsOn, visited, recStack, stack>>

\* Mutant: dependencies that were visited before are never looked at.
SkipVisited ==
  /\ Looking
  /\ Dep \in visited
  /\ stack' = Advanced
  /\ UNCHANGED <<dependsOn, visited, recStack, verdict>>

Skip ==
  /\ Looking
  /\ Dep \in visited
  /\ Dep \notin recStack
  /\ stack' = Advanced
  /\ UNCHANGED <<dependsOn, visited, recStack, verdict>>

\* Mutant: the call stays marked as active when it returns.
ReturnWithoutUnmark ==
  /\ verdict = "none"
  /\ stack # <<>>
  /\ Top.next > Len(TopDeps)
  /\ stack' = Below
  /\ UNCHANGED <<dependsOn, visited, recStack, verdict>>

\* hasCycle returns false.
Return ==
  /\ verdict = "none"
  /\ stack # <<>>
  /\ Top.next > Len(TopDeps)
  /\ recStack' = recStack \ {Top.proc}
  /\ stack' = Below
  /\ UNCHANGED <<dependsOn, visited, verdict>>

Accept ==
  /\ verdict = "none"
  /\ stack = <<>>
  /\ visited = Proc
  /\ verdict' = "valid"
  /\ UNCHANGED <<dependsOn, visited, recStack, stack>>

CheckNext ==
  \/ \E p \in Proc : CallRoot(p)
  \/ Descend
  \/ FindCycle
  \/ Skip
  \/ Return
  \/ Accept

\* The search is one sequential call: it keeps going.
CheckSpec == CheckInit /\ [][CheckNext]_checkVars /\ WF_checkVars(CheckNext)

-----------------------------------------------------------------------------
\* The calls marked in recStack are the active ones, and every active call but
\* the topmost is waiting for the dependency the next one was made for, so
\* that hitting a marked process closes a cycle (config.go:183-202).
StackIsPath ==
  /\ recStack = {stack[i].proc : i \in DOMAIN stack}
  /\ recStack \subseteq visited
  /\ \A i \in 1 .. Len(stack) - 1 :
       /\ stack[i].next > 1
       /\ dependsOn[stack[i].proc][stack[i].next - 1] = stack[i + 1].proc

\* A configuration is accepted only if no process depends on itself, directly
\* or through others (config.go:192-214).
AcceptsOnlyAcyclic == verdict = "valid" => ~Circular(dependsOn)

\* A configuration is rejected only if some process does: sharing a
\* dependency, or naming one twice, is no cycle (config.go:193-199).
RejectsOnlyCircular == verdict = "circular" => Circular(dependsOn)
=============================================================================
