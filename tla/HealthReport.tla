----------------------------- MODULE HealthReport -----------------------------
(***************************************************************************)
(* What the results of the health checks add up to (health.go): results    *)
(* maps a process to the status of its last check, or to "none".           *)
(***************************************************************************)
EXTENDS Integers, FiniteSets

Status == {"healthy", "unhealthy", "unknown"}

Count(results, s) == Cardinality({p \in DOMAIN results : results[p] = s})

\* GetHealthSummary's overall_status; /health answers 200 if it is healthy.
OverallStatus(results) ==
  CASE Count(results, "unhealthy") > 0 -> "unhealthy"
    [] Count(results, "unhealthy") = 0 /\ Count(results, "unknown") > 0
         /\ Count(results, "healthy") = 0 -> "unknown"
    [] OTHER -> "healthy"

=============================================================================
