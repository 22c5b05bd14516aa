----------------------------- MODULE MCWardend ------------------------------
(***************************************************************************)
(* Instances of Wardend for TLC: app depends on db and cache, and cache on *)
(* db, as far as they are configured.                                      *)
(***************************************************************************)
EXTENDS Wardend, TLC

CONSTANTS db, cache, app

Needed == (db :> <<>>) @@ (cache :> <<db>>) @@ (app :> <<db, cache>>)

Dependencies == [p \in Proc |-> SelectSeq(Needed[p], LAMBDA q : q \in Proc)]

Never == [policy : {"never"}, startRetries : {0}, maxRestarts : {0}]
Always == [policy : {"always"}, startRetries : {1}, maxRestarts : {0}]

\* Every StartupTime is longer than StartAll takes: no tracker fires.
SlowNext == AppNext /\ \A p \in Proc, n \in CmdId : track[p][n] = track'[p][n] \/ launched[p] < n

SlowSpec == AppInit /\ [][SlowNext]_appVars /\ AppFairness
=============================================================================
