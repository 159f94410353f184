--------------------------- MODULE IncidentLifecycle ---------------------------
(***************************************************************************)
(* The life of the IncidentMemory objects of one workload.  Three writers  *)
(* share them: the health-check loop, which creates, refreshes and closes  *)
(* them; the IncidentController, which mirrors their status into labels    *)
(* and counts them on the persona; and the                                 *)
(* RemediationController, which writes its outcome back.                   *)
(*                                                                         *)
(* A write of spec and labels and a write of the status are two requests,  *)
(* reads come from one shared informer cache, and a write computed from an *)
(* outdated copy is refused.  Versions are told apart by their content.    *)
(***************************************************************************)
EXTENDS Naturals, FiniteSets

CONSTANTS
    Incidents,        \* the incident names: one per attribution and signal
    Attribution,      \* Attribution[i]: filed against a persona or a bare workload
    Signal,           \* Signal[i]: the signal it is about
    GracePeriod,      \* ticks a signal must be absent
    StabilityWindow,  \* ticks a workload must have been Ready
    MaxOutcomes,      \* bound: how many remediations report an outcome
    MaxFaults,        \* bound: failed requests and restarts
    None

ASSUME IncidentsAssumption == IsFiniteSet(Incidents)
ASSUME AttributionAssumption == Attribution \in [Incidents -> {"persona", "unattributed"}]
ASSUME SignalAssumption == DOMAIN Signal = Incidents
ASSUME TimeAssumption == GracePeriod \in Nat /\ StabilityWindow \in Nat
ASSUME BoundAssumption == MaxOutcomes \in Nat /\ MaxFaults \in Nat
ASSUME NoIncidentAssumption == None \notin Incidents

CountCap == 1   \* the count is shown to users only: zero, or counted

IncidentPhase == {"", "Detected", "Resolved"}
Resolution == {"none", "observed", "handover", "remediated", "failed"}
Memory == [ exists     : BOOLEAN,
            label      : IncidentPhase,
            phase      : IncidentPhase,
            resolution : Resolution,
            count      : 0..CountCap ]

VARIABLES
    im,                  \* the stored IncidentMemories
    cache,               \* the informer cache's copies of them
    quiet,               \* ticks since LastSeen, saturating at GracePeriod
    workload,            \* up, broken or gone
    stable,              \* ticks the workload has been Ready, saturating
    claimed,             \* does a persona claim the workload?
    activeIncidents,     \* the count on the persona's status
    pc, todo, seen, cur, why,  \* the health-check loop
    icPc, icCur,         \* the IncidentController's worker
    rem,                 \* the incident the RemediationController is closing
    outcomes, faults,
    recovered            \* history: recovered at some time since LastSeen

world    == <<workload, stable, claimed>>
loop     == <<pc, todo, seen, cur, why>>
mirror   == <<icPc, icCur, activeIncidents>>
vars     == <<im, cache, quiet, workload, stable, claimed, activeIncidents, pc, todo, seen,
              cur, why, icPc, icCur, rem, outcomes, faults, recovered>>

Absent == [ exists |-> FALSE, label |-> "", phase |-> "", resolution |-> "none",
            count |-> 0 ]

\* What createIncident creates; the status follows in a second request.
Created == [Absent EXCEPT !.exists = TRUE, !.label = "Detected"]

Open(i) == im[i].exists /\ im[i].phase # "Resolved"

\* A write is accepted when the copy it was computed from is current; the
\* retry loops re-read until it is.
Current(i) == cache[i] = im[i]

Recovered == workload = "gone" \/ (workload = "up" /\ stable >= StabilityWindow)

Init ==
    /\ im = [i \in Incidents |-> Absent]
    /\ cache = im
    /\ quiet = [i \in Incidents |-> 0]
    /\ workload = "up"
    /\ stable = 0
    /\ claimed \in BOOLEAN
    /\ activeIncidents = 0
    /\ pc = "idle"
    /\ todo = {}
    /\ seen = {}
    /\ cur = None
    /\ why = "none"
    /\ icPc = "idle"
    /\ icCur = None
    /\ rem = None
    /\ outcomes = 0
    /\ faults = 0
    /\ recovered = IF Recovered THEN Incidents ELSE {}

Fault ==
    /\ faults < MaxFaults
    /\ faults' = faults + 1

-----------------------------------------------------------------------------
(***************************************************************************)
(* The health-check loop, one cycle.                                       *)
(***************************************************************************)

\* What detection can report now.  A crash loop that backs off is silent.
Visible ==
    IF workload = "broken"
    THEN {i \in Incidents : Attribution[i] = IF claimed THEN "persona" ELSE "unattributed"}
    ELSE {}

\* CollectAll, grouping and Analyze.  A failed CollectAll ends the cycle at once, a
\* stutter here; a failed Analyze leaves its group out of signals.
reconcile ==
    /\ pc = "idle"
    /\ \E signals \in SUBSET Visible :
          /\ seen' = signals
          /\ todo' = signals
    /\ pc' = "diagnose"
    /\ UNCHANGED <<im, cache, quiet, world, cur, why, mirror, rem, outcomes, faults, recovered>>

findMatchingIncident(i) == cache[i].exists /\ cache[i].phase # "Resolved"

\* Mutant: any error of Create is taken for AlreadyExists.
processDiagnosis_AnyErrorAdopts(i) ==
    /\ pc = "diagnose"
    /\ i \in todo
    /\ todo' = todo \ {i}
    /\ cur' = i
    /\ pc' = "spec"
    /\ UNCHANGED <<im, cache, quiet, world, seen, why, mirror, rem, outcomes, faults, recovered>>

\* The name is deterministic, so Create meets an object the cached list does not
\* show, or shows as Resolved; either is adopted and updated.
processDiagnosis(i) ==
    /\ pc = "diagnose"
    /\ i \in todo
    /\ todo' = todo \ {i}
    /\ cur' = i
    /\ \/ /\ findMatchingIncident(i) \/ im[i].exists
          /\ pc' = "spec"
          /\ UNCHANGED <<im, quiet, recovered>>
       \/ /\ ~findMatchingIncident(i) /\ ~im[i].exists
          /\ im' = [im EXCEPT ![i] = Created]
          /\ quiet' = [quiet EXCEPT ![i] = 0]
          /\ recovered' = IF Recovered THEN recovered ELSE recovered \ {i}
          /\ pc' = "initial"
    /\ UNCHANGED <<cache, world, seen, why, mirror, rem, outcomes, faults>>

\* createIncident's status write: through the object Create returned, or re-read.
createIncident ==
    /\ pc = "initial"
    /\ im[cur] = Created \/ Current(cur)
    /\ im' = [im EXCEPT ![cur].phase = "Detected", ![cur].count = 1]
    /\ pc' = "diagnose"
    /\ UNCHANGED <<cache, quiet, world, todo, seen, cur, why, mirror, rem, outcomes, faults,
                   recovered>>

\* updateExistingIncident, first write: applyDiagnosisToSpec stamps LastSeen.
applyDiagnosisToSpec ==
    /\ pc = "spec"
    /\ Current(cur)
    /\ quiet' = [quiet EXCEPT ![cur] = 0]
    /\ recovered' = IF Recovered THEN recovered ELSE recovered \ {cur}
    /\ pc' = "count"
    /\ UNCHANGED <<im, cache, world, todo, seen, cur, why, mirror, rem, outcomes, faults>>

\* Second write: the occurrence count.  The phase is left as it is.
updateExistingIncident ==
    /\ pc = "count"
    /\ Current(cur)
    /\ im' = [im EXCEPT ![cur].count = IF @ < CountCap THEN @ + 1 ELSE @]
    /\ pc' = "diagnose"
    /\ UNCHANGED <<cache, quiet, world, todo, seen, cur, why, mirror, rem, outcomes, faults,
                   recovered>>

\* Create fails, or the retries of a write are exhausted: this diagnosis is lost.
reportDiscardedDiagnosis ==
    /\ \/ pc \in {"initial", "spec", "count"} /\ UNCHANGED todo
       \/ pc = "diagnose" /\ \E i \in todo : todo' = todo \ {i}
    /\ Fault
    /\ pc' = "diagnose"
    /\ UNCHANGED <<im, cache, quiet, world, seen, cur, why, mirror, rem, outcomes, recovered>>

\* signalKey and incidentSignalKey name the workload and the signal, and not the
\* attribution: the two records of a workload onboarded in an outage share a key.
StillActive(i) == \E j \in seen : Signal[j] = Signal[i]

\* Candidates are listed by label; the ones still active in this cycle are skipped.
resolveCleared ==
    /\ pc = "diagnose"
    /\ todo = {}
    /\ pc' = "resolve"
    /\ todo' = {i \in Incidents : cache[i].exists /\ cache[i].label = "Detected" /\ ~StillActive(i)}
    /\ UNCHANGED <<im, cache, quiet, world, seen, cur, why, mirror, rem, outcomes, faults, recovered>>

\* Mutant: silence is evidence.
verifyRecovery_SilenceIsEnough == TRUE

\* Pods Ready and stable for the window, or a workload that is gone.
verifyRecovery == Recovered

\* Mutant: nothing is handed over.
supersededByPersona_Never(i) == FALSE

supersededByPersona(i) ==
    /\ Attribution[i] = "unattributed"
    /\ \E j \in Incidents : Attribution[j] = "persona" /\ findMatchingIncident(j)

\* The evidence resolveCleared finds for one candidate; "none" leaves it open.
resolutionEvidence(i) ==
    CASE quiet[i] < GracePeriod                              -> "none"
      [] quiet[i] >= GracePeriod /\ supersededByPersona(i)   -> "handover"
      [] quiet[i] >= GracePeriod /\ ~supersededByPersona(i) /\ verifyRecovery -> "observed"
      [] OTHER                                               -> "none"

judge(i) ==
    /\ pc = "resolve"
    /\ i \in todo
    /\ todo' = todo \ {i}
    /\ LET evidence == resolutionEvidence(i) IN
          IF evidence = "none"
          THEN UNCHANGED <<pc, cur, why>>
          ELSE /\ pc' = "markSpec"
               /\ cur' = i
               /\ why' = evidence
    /\ UNCHANGED <<im, cache, quiet, world, seen, mirror, rem, outcomes, faults, recovered>>

\* Mutant: the status is written first, and resolution and label are left out.
markResolvedSpec_StatusFirst ==
    /\ pc = "markSpec"
    /\ Current(cur)
    /\ im' = [im EXCEPT ![cur].phase = "Resolved"]
    /\ pc' = "markStatus"
    /\ UNCHANGED <<cache, quiet, world, todo, seen, cur, why, mirror, rem, outcomes, faults,
                   recovered>>

\* markResolved, first write: label and resolution.
markResolvedSpec ==
    /\ pc = "markSpec"
    /\ Current(cur)
    /\ im' = [im EXCEPT ![cur].label = "Resolved", ![cur].resolution = why]
    /\ pc' = "markStatus"
    /\ UNCHANGED <<cache, quiet, world, todo, seen, cur, why, mirror, rem, outcomes, faults,
                   recovered>>

\* Second write: the phase.
markResolvedStatus ==
    /\ pc = "markStatus"
    /\ Current(cur)
    /\ im' = [im EXCEPT ![cur].phase = "Resolved"]
    /\ pc' = "resolve"
    /\ UNCHANGED <<cache, quiet, world, todo, seen, cur, why, mirror, rem, outcomes, faults,
                   recovered>>

\* The cluster cannot be read, or the retries of a write are exhausted: the
\* incident is passed over.
markResolvedFails ==
    /\ \/ pc \in {"markSpec", "markStatus"} /\ UNCHANGED todo
       \/ pc = "resolve" /\ \E i \in todo : todo' = todo \ {i}
    /\ Fault
    /\ pc' = "resolve"
    /\ UNCHANGED <<im, cache, quiet, world, seen, cur, why, mirror, rem, outcomes, recovered>>

endCycle ==
    /\ pc = "resolve"
    /\ todo = {}
    /\ pc' = "idle"
    /\ seen' = {}
    /\ cur' = None
    /\ why' = "none"
    /\ UNCHANGED <<im, cache, quiet, world, todo, mirror, rem, outcomes, faults, recovered>>

-----------------------------------------------------------------------------
(***************************************************************************)
(* The IncidentController: labels, then the count on the persona.  It      *)
(* runs for every change the watch delivers and on every periodic resync,  *)
(* that is, at any time.                                                   *)
(***************************************************************************)

\* Mutant: the phase label is not mirrored.
ensureLabels_NoPhase(o) == o

ensureLabels(o) == IF o.phase = "" THEN o ELSE [o EXCEPT !.label = o.phase]

\* A refused label update is requeued, that is, tried again.  updateConditions
\* then derives the conditions from phase and count; nothing reads them back.
IncidentReconcile(i) ==
    /\ icPc = "idle"
    /\ cache[i].exists
    /\ ensureLabels(cache[i]) # cache[i] => Current(i)
    /\ im' = IF ensureLabels(cache[i]) # cache[i]
             THEN [im EXCEPT ![i] = ensureLabels(im[i])]
             ELSE im
    /\ icCur' = i
    /\ icPc' = "sync"
    /\ UNCHANGED <<cache, quiet, world, loop, activeIncidents, rem, outcomes, faults, recovered>>

\* Mutant: every incident of the persona counts as active.
activeCount_CountsAll == Cardinality({i \in Incidents : cache[i].exists})

\* Counted over the cached incidents that carry the persona's labels, which
\* unattributed incidents of its workload do as well.
activeCount == Cardinality({i \in Incidents : findMatchingIncident(i)})

\* Only an attributed incident has a persona to write to.  A failure is logged.
syncPersonaStatus ==
    /\ icPc = "sync"
    /\ \/ /\ activeIncidents' = IF Attribution[icCur] = "persona" THEN activeCount ELSE activeIncidents
          /\ UNCHANGED faults
       \/ Fault /\ UNCHANGED activeIncidents
    /\ icPc' = "idle"
    /\ icCur' = None
    /\ UNCHANGED <<im, cache, quiet, world, loop, rem, outcomes, recovered>>

-----------------------------------------------------------------------------
(***************************************************************************)
(* The RemediationController reports an outcome: a bare update of the      *)
(* resolution and, when it calls the incident resolved, of the label; then *)
(* a retried status write.  Its verdict is one sample without signals, and *)
(* its plan was proposed after a cycle that recorded the incident.         *)
(***************************************************************************)
updateIncidentResolution(i, outcome) ==
    /\ rem = None
    /\ Attribution[i] = "persona"
    /\ cache[i].count > 0
    /\ Current(i)
    /\ outcomes < MaxOutcomes
    /\ outcomes' = outcomes + 1
    /\ im' = [im EXCEPT ![i].resolution = outcome,
                        ![i].label = IF outcome = "remediated" THEN "Resolved" ELSE @]
    /\ rem' = IF outcome = "remediated" THEN i ELSE None
    /\ UNCHANGED <<cache, quiet, world, loop, mirror, faults, recovered>>

updateResolvedStatus ==
    /\ rem # None
    /\ \/ /\ Current(rem)
          /\ im' = [im EXCEPT ![rem].phase = "Resolved"]
          /\ UNCHANGED faults
       \/ Fault /\ UNCHANGED im
    /\ rem' = None
    /\ UNCHANGED <<cache, quiet, world, loop, mirror, outcomes, recovered>>

-----------------------------------------------------------------------------
(***************************************************************************)
(* The environment.                                                        *)
(***************************************************************************)
SyncCache(i) ==
    /\ ~Current(i)
    /\ cache' = [cache EXCEPT ![i] = im[i]]
    /\ UNCHANGED <<im, quiet, world, loop, mirror, rem, outcomes, faults, recovered>>

Tick ==
    /\ \/ \E i \in Incidents : quiet[i] < GracePeriod
       \/ workload = "up" /\ stable < StabilityWindow
    /\ quiet' = [i \in Incidents |-> IF quiet[i] < GracePeriod THEN quiet[i] + 1 ELSE quiet[i]]
    /\ stable' = IF workload = "up" /\ stable < StabilityWindow THEN stable + 1 ELSE stable
    /\ recovered' = IF workload = "up" /\ stable' >= StabilityWindow THEN Incidents ELSE recovered
    /\ UNCHANGED <<im, cache, workload, claimed, loop, mirror, rem, outcomes, faults>>

Break ==
    /\ workload # "broken"
    /\ workload' = "broken"
    /\ stable' = 0
    /\ UNCHANGED <<im, cache, quiet, claimed, loop, mirror, rem, outcomes, faults, recovered>>

Recover ==
    /\ workload = "broken"
    /\ workload' = "up"
    /\ stable' = 0
    /\ recovered' = IF StabilityWindow = 0 THEN Incidents ELSE recovered
    /\ UNCHANGED <<im, cache, quiet, claimed, loop, mirror, rem, outcomes, faults>>

Delete ==
    /\ workload # "gone"
    /\ workload' = "gone"
    /\ stable' = 0
    /\ recovered' = Incidents
    /\ UNCHANGED <<im, cache, quiet, claimed, loop, mirror, rem, outcomes, faults>>

\* `dorgu persona import` onboards the workload.
Onboard ==
    /\ ~claimed
    /\ claimed' = TRUE
    /\ UNCHANGED <<im, cache, quiet, workload, stable, loop, mirror, rem, outcomes, faults, recovered>>

\* The operator dies; the next one lists everything.
Crash ==
    /\ Fault
    /\ pc' = "idle" /\ todo' = {} /\ seen' = {} /\ cur' = None /\ why' = "none"
    /\ icPc' = "idle" /\ icCur' = None
    /\ rem' = None
    /\ cache' = im
    /\ UNCHANGED <<im, quiet, world, activeIncidents, outcomes, recovered>>

-----------------------------------------------------------------------------
HealthCheck ==
    \/ reconcile
    \/ \E i \in Incidents : processDiagnosis(i) \/ judge(i)
    \/ createIncident
    \/ applyDiagnosisToSpec
    \/ updateExistingIncident
    \/ resolveCleared
    \/ markResolvedSpec
    \/ markResolvedStatus
    \/ endCycle

HealthCheckFails == reportDiscardedDiagnosis \/ markResolvedFails

Mirror ==
    \/ \E i \in Incidents : IncidentReconcile(i)
    \/ syncPersonaStatus

Environment ==
    \/ \E i \in Incidents : SyncCache(i)
    \/ Tick
    \/ Break
    \/ Recover
    \/ Delete
    \/ Onboard
    \/ Crash

Next ==
    \/ HealthCheck
    \/ HealthCheckFails
    \/ Mirror
    \/ \E i \in Incidents, outcome \in {"remediated", "failed"} : updateIncidentResolution(i, outcome)
    \/ updateResolvedStatus
    \/ Environment

Spec == Init /\ [][Next]_vars

(***************************************************************************)
(* Fairness: the ticker runs the loop for ever, the watch delivers, every  *)
(* object is reconciled again on a resync if not before, and time passes.  *)
(***************************************************************************)
Fairness ==
    /\ WF_vars(HealthCheck)
    /\ WF_vars(syncPersonaStatus)
    /\ WF_vars(updateResolvedStatus)
    /\ WF_vars(Tick)
    /\ \A i \in Incidents : /\ SF_vars(IncidentReconcile(i))
                            /\ WF_vars(SyncCache(i))

FairSpec == Spec /\ Fairness

\* A broken workload is not silent for ever: some cycle sees its signals.
SeesSignals == reconcile /\ seen' = Visible /\ Visible # {}
SeeingSpec == FairSpec /\ SF_vars(SeesSignals)

-----------------------------------------------------------------------------
(***************************************************************************)
(* Properties.                                                             *)
(***************************************************************************)

\* Every variable holds a value of its kind; a busy worker has an incident.
TypeOK ==
    /\ im \in [Incidents -> Memory]
    /\ cache \in [Incidents -> Memory]
    /\ quiet \in [Incidents -> Nat]
    /\ workload \in {"up", "broken", "gone"}
    /\ stable \in Nat
    /\ claimed \in BOOLEAN
    /\ activeIncidents \in Nat
    /\ pc \in {"idle", "diagnose", "initial", "spec", "count", "resolve", "markSpec", "markStatus"}
    /\ todo \subseteq Incidents
    /\ seen \subseteq Incidents
    /\ pc \in {"initial", "spec", "count", "markSpec", "markStatus"} => cur \in Incidents /\ im[cur].exists
    /\ why \in {"none", "observed", "handover"}
    /\ icPc \in {"idle", "sync"}
    /\ icPc # "idle" => icCur \in Incidents
    /\ rem \in Incidents \cup {None}
    /\ outcomes \in Nat
    /\ faults \in Nat
    /\ recovered \subseteq Incidents

\* An incident never reads as Resolved without a resolution that says why: the
\* resolution is written first, so neither a crash between the two writes nor
\* another writer in between leaves a closed incident unexplained.
ResolvedIsExplained ==
    \A i \in Incidents : im[i].phase = "Resolved" => im[i].resolution # "none"

\* The health check closes an incident as recovered only if, since it last saw
\* the signal, the workload was observed stable for the window or gone: silence
\* alone closes nothing.
ClosedOnObservation ==
    [][\A i \in Incidents :
          im'[i].resolution = "observed" /\ im[i].resolution # "observed" => i \in recovered]_vars

\* The label that every query selects by agrees with the phase in the end, though
\* three writers change them in separate requests and may die in between.
LabelFollowsPhase ==
    \A i \in Incidents :
        (im[i].phase # "" /\ im[i].label # im[i].phase) ~> im[i].label = im[i].phase

\* A detected incident of a workload that stays well is closed, also when an earlier
\* attempt got only its label written and so hid it from resolveCleared's list.
RecoveredIsClosed ==
    \A i \in Incidents :
        im[i].phase = "Detected" ~> (im[i].phase = "Resolved" \/ workload = "broken")

\* When nothing is open the persona says so, in the end.
ClosedCountIsZero ==
    (\A i \in Incidents : ~Open(i)) ~> (activeIncidents = 0 \/ \E i \in Incidents : Open(i))

\* The record against the bare workload gives way to the persona's: a workload
\* onboarded in the middle of an outage stays counted twice only as long as every
\* cycle sees its signal, which the two records share.  The first silent cycles
\* after the watch has caught up hand the outage over, broken or not.
NotCountedTwice ==
    \A i, j \in Incidents :
        Attribution[i] = "unattributed" /\ Attribution[j] = "persona"
            => \/ []<>(~Open(i) \/ ~Open(j))
               \/ <>[](pc = "resolve" => StillActive(i))

\* A workload that stays broken, and whose signals keep being seen, has an open
\* incident in the end, whether it broke for the first time or again.
OutageIsReported ==
    \A i \in Incidents : i \in Visible ~> (i \notin Visible \/ Open(i))
=============================================================================
