------------------------------- MODULE ExecCmd -------------------------------
(***************************************************************************)
(* Go's os/exec.Cmd, as manager.go uses it: CommandContext, Start, Process *)
(* .Kill and Wait, with Stdout and Stderr set to writers that are not      *)
(* files.  The library is not part of the repository (Dockerfile.test and  *)
(* the CI workflow pin Go 1.21); this module models the part of its        *)
(* behaviour the manager depends on.                                       *)
(*                                                                         *)
(* A process of the supervisor is started many times, each time with a new *)
(* Cmd; command n of process p is the pair (p, n).                         *)
(*                                                                         *)
(* Cmd.Wait is meant to be called once.  The manager calls it from two     *)
(* goroutines (monitorProcess and StopProcess), so the steps of a call     *)
(* that touch shared state are kept apart:                                 *)
(*   call   if c.ProcessState is set, fail: "Wait was already called"      *)
(*   wait   wait4 until the child can be reaped; the second caller gets    *)
(*          ECHILD; store the (possibly nil) result in c.ProcessState      *)
(*   ctx    receive the one value the context watcher sends                *)
(*   drain  wait until the goroutines copying the output see end of file   *)
(***************************************************************************)
EXTENDS Integers

CONSTANTS
  Proc,       \* names of the configured processes
  MaxStarts   \* bound: how many commands a process may launch

ASSUME MaxStartsAssumption == MaxStarts \in Nat

\* Numbers of the commands of a process, in the order they are launched.
CmdId == 1 .. MaxStarts

VARIABLES
  child,      \* the operating-system process of each command
  pipeOpen,   \* somebody (child or descendant) still holds its output pipes
  procState,  \* c.ProcessState # nil
  ctxTaken,   \* the value of the context watcher has been received
  cancelled   \* the context given to CommandContext is done

execVars == <<child, pipeOpen, procState, ctxTaken, cancelled>>

\* "killed" has received SIGKILL and not yet exited; "succeeded" and "failed"
\* are zombies with exit status zero and non-zero.
ChildState == {"unborn", "running", "killed", "succeeded", "failed", "reaped"}

\* The three kinds of error Wait returns: nil, an *ExitError, anything else.
WaitResult == {"ok", "exit", "other"}

Live(p, n) == child[p][n] \in {"running", "killed"}
Zombie(p, n) == child[p][n] \in {"succeeded", "failed"}

ExecTypeOK ==
  /\ child \in [Proc -> [CmdId -> ChildState]]
  /\ pipeOpen \in [Proc -> [CmdId -> BOOLEAN]]
  /\ procState \in [Proc -> [CmdId -> BOOLEAN]]
  /\ ctxTaken \in [Proc -> [CmdId -> BOOLEAN]]
  /\ cancelled \in BOOLEAN

ExecInit ==
  /\ child = [p \in Proc |-> [n \in CmdId |-> "unborn"]]
  /\ pipeOpen = [p \in Proc |-> [n \in CmdId |-> FALSE]]
  /\ procState = [p \in Proc |-> [n \in CmdId |-> FALSE]]
  /\ ctxTaken = [p \in Proc |-> [n \in CmdId |-> FALSE]]
  /\ cancelled = FALSE

-----------------------------------------------------------------------------
(* Calls made by the manager.                                              *)

\* cmd.Start succeeds; it fails at once when the context is done.
CmdStart(p, n) ==
  /\ ~cancelled
  /\ child' = [child EXCEPT ![p][n] = "running"]
  /\ pipeOpen' = [pipeOpen EXCEPT ![p][n] = TRUE]
  /\ UNCHANGED <<procState, ctxTaken, cancelled>>

\* Process.Kill: SIGKILL, without effect on a child that has exited.
CmdKill(p, n) ==
  /\ child[p][n] = "running"
  /\ child' = [child EXCEPT ![p][n] = "killed"]
  /\ UNCHANGED <<pipeOpen, procState, ctxTaken, cancelled>>

\* The phase a call of Wait enters, given the error it may return at once.
WaitEntry(p, n) == IF procState[p][n] THEN "returned" ELSE "wait"

\* wait4 returns: with the exit status, or with ECHILD when the other caller
\* reaped the child first.  Then c.ProcessState is nil again.
WaitReap(p, n) ==
  /\ Zombie(p, n) \/ child[p][n] = "reaped"
  /\ child' = [child EXCEPT ![p][n] = "reaped"]
  /\ procState' = [procState EXCEPT ![p][n] = Zombie(p, n)]
  /\ UNCHANGED <<pipeOpen, ctxTaken, cancelled>>

ReapResult(p, n) ==
  CASE child[p][n] = "succeeded" -> "ok"
    [] child[p][n] = "failed"    -> "exit"
    [] OTHER                     -> "other"

\* watch := <-c.ctxResult.  Only one value is ever sent: a second receiver
\* blocks for ever.
WaitCtx(p, n) ==
  /\ ~ctxTaken[p][n]
  /\ ctxTaken' = [ctxTaken EXCEPT ![p][n] = TRUE]
  /\ UNCHANGED <<child, pipeOpen, procState, cancelled>>

\* awaitGoroutines, then return.
WaitDrain(p, n) ==
  /\ ~pipeOpen[p][n]
  /\ UNCHANGED execVars

\* An error of the copying goroutines or of the context replaces nil.
DrainResults(result) ==
  IF result = "ok" THEN {"ok", "other"} ELSE {result}

-----------------------------------------------------------------------------
(* Steps of the operating system and of the library's own goroutines.      *)

\* The child exits, by itself or because of a signal.  A child that got
\* SIGKILL cannot exit with status zero.
ChildExits(p, n) ==
  /\ Live(p, n)
  /\ \E s \in {"succeeded", "failed"} :
       /\ child[p][n] = "killed" => s = "failed"
       /\ child' = [child EXCEPT ![p][n] = s]
  /\ UNCHANGED <<pipeOpen, procState, ctxTaken, cancelled>>

\* The output pipes reach end of file once the child and every descendant
\* that inherited them are gone.
PipeCloses(p, n) ==
  /\ pipeOpen[p][n]
  /\ ~Live(p, n)
  /\ pipeOpen' = [pipeOpen EXCEPT ![p][n] = FALSE]
  /\ UNCHANGED <<child, procState, ctxTaken, cancelled>>

\* watchCtx: when the context is done first, the child is killed.
CtxKills(p, n) ==
  /\ cancelled
  /\ ~ctxTaken[p][n]
  /\ CmdKill(p, n)

=============================================================================
