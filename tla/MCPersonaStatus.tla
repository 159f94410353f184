--------------------------- MODULE MCPersonaStatus ---------------------------
(***************************************************************************)
(* An instance of PersonaStatus for TLC: two Deployments that may match    *)
(* the persona on different rungs, and specs with and without errors, one  *)
(* of them with a limit that is no quantity.                               *)
(***************************************************************************)
EXTENDS PersonaStatus

CONSTANTS d1, d2

Sound == [rungs |-> {1, 3}, available |-> TRUE, progressing |-> TRUE, ready |-> 1, replicas |-> 1,
          want |-> 1, overLimit |-> FALSE, requests |-> TRUE, liveness |-> "same",
          readiness |-> TRUE, nonRoot |-> TRUE, readOnly |-> TRUE, escalates |-> FALSE,
          failing |-> FALSE]

\* Labelled and sound; the same with no probes and as root; known by its name only,
\* and crashing; another application's.
SomeWorkloads ==
    {Sound, [Sound EXCEPT !.rungs = {}],
     [Sound EXCEPT !.liveness = "none", !.readiness = FALSE, !.nonRoot = FALSE],
     [Sound EXCEPT !.rungs = {3}, !.available = FALSE, !.progressing = FALSE, !.ready = 0,
                   !.failing = TRUE]}

Lax == [resources |-> TRUE, limits |-> "quantity", min |-> 0, max |-> 9, probes |-> TRUE,
        nonRoot |-> FALSE, readOnly |-> TRUE, noEscalation |-> TRUE]

SomeSpecs == {Lax, [Lax EXCEPT !.nonRoot = TRUE], [Lax EXCEPT !.limits = "unparseable"]}
=============================================================================
