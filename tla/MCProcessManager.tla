--------------------------- MODULE MCProcessManager ---------------------------
(***************************************************************************)
(* Instances of ProcessManager for TLC.                                    *)
(***************************************************************************)
EXTENDS Supervision

\* Every policy, with budgets that are empty, spent after one restart, or
\* unlimited.
AllConfigs ==
  [policy : Policies, startRetries : {0, 1}, maxRestarts : {Infinite, 0, 1}]

OneConfig == [policy : {"always"}, startRetries : {1}, maxRestarts : {1}]
=============================================================================
