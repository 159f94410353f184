-------------------------- MODULE MCIncidentLifecycle --------------------------
(* Instances of IncidentLifecycle for TLC. *)
EXTENDS IncidentLifecycle

CONSTANTS named, bare

\* The incident filed against the persona, and the one filed against the
\* workload before a persona claimed it.
MCAttribution == [i \in Incidents |-> IF i = bare THEN "unattributed" ELSE "persona"]

\* Both records of the workload are about the same signal.
MCSignal == [i \in Incidents |-> "CrashLoopBackOff"]
=============================================================================
