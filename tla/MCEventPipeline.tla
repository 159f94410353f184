--------------------------- MODULE MCEventPipeline ---------------------------
(***************************************************************************)
(* Instances of EventPipeline for TLC: one tick is the resync period.      *)
(***************************************************************************)
EXTENDS EventPipeline

CONSTANTS pull, backoff, crash    \* two Events and a signal of one pod

\* A failed pull and the back-off after it have one reason, and differ in their message.
Failed == [e \in Sources |-> IF e \in Watched THEN "Failed" ELSE "CrashLoopBackOff"]
=============================================================================
