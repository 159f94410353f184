---------------------------- MODULE IncidentProofs ----------------------------
(***************************************************************************)
(* Proofs about IncidentLifecycle, for any finite set of incidents however *)
(* attributed, every grace period and stability window and any number of   *)
(* outcomes, faults and restarts.                                          *)
(***************************************************************************)
EXTENDS IncidentLifecycle, FiniteSetTheorems, TLAPS

-----------------------------------------------------------------------------
(***************************************************************************)
(* The inductive invariant, part by part.                                  *)
(***************************************************************************)

\* The cache shows nothing that was never stored, and what is not stored is blank.
StoreOK ==
    \A i \in Incidents : /\ cache[i].exists => im[i].exists
                         /\ ~im[i].exists => im[i] = Absent

\* The candidates of resolveCleared are stored.
CandidatesExist ==
    pc \in {"resolve", "markSpec", "markStatus"} => \A i \in todo : im[i].exists

\* Each of the two writers that close an incident in two requests knows why in the
\* first of them, and has said so by the second.
WhyOK ==
    /\ pc = "markSpec" => why # "none"
    /\ pc = "markStatus" => im[cur].resolution # "none"
    /\ rem # None => im[rem].resolution # "none"

\* While the workload is well every incident counts as recovered, and what the loop
\* is about to close on observation still does.
ObservedOK ==
    /\ Recovered => recovered = Incidents
    /\ pc = "markSpec" /\ why = "observed" => cur \in recovered

IInv == TypeOK /\ StoreOK /\ CandidatesExist /\ WhyOK /\ ObservedOK /\ ResolvedIsExplained

-----------------------------------------------------------------------------
(***************************************************************************)
(* What a step does to the stored incidents.                               *)
(***************************************************************************)

\* The values the writers write are of their kinds.
LEMMA Literals ==
    /\ {"", "Detected", "Resolved"} \subseteq IncidentPhase
    /\ {"none", "observed", "handover", "remediated", "failed"} \subseteq Resolution
    /\ 0 \in 0 .. CountCap /\ 1 \in 0 .. CountCap
    /\ \A c \in 0 .. CountCap : (IF c < CountCap THEN c + 1 ELSE c) \in 0 .. CountCap
BY DEF IncidentPhase, Resolution, CountCap

\* What a writer makes of an incident it has read is an incident.
LEMMA Rewrites ==
    ASSUME NEW o \in Memory, NEW l \in IncidentPhase, NEW p \in IncidentPhase,
           NEW r \in Resolution, NEW c \in 0 .. CountCap
    PROVE  /\ o.phase \in IncidentPhase /\ o.label \in IncidentPhase /\ o.count \in 0 .. CountCap
           /\ [o EXCEPT !.exists = TRUE, !.label = l] \in Memory
           /\ [o EXCEPT !.phase = p] \in Memory
           /\ [o EXCEPT !.label = l] \in Memory
           /\ [o EXCEPT !.count = c] \in Memory
           /\ [o EXCEPT !.phase = p, !.count = c] \in Memory
           /\ [o EXCEPT !.label = l, !.resolution = r] \in Memory
           /\ [o EXCEPT !.resolution = r, !.label = l] \in Memory
BY DEF Memory

\* What is not stored carries nothing.
LEMMA AbsentFacts ==
    /\ Absent \in Memory /\ ~Absent.exists /\ Absent.phase = ""
    /\ Absent.resolution = "none" /\ Absent.count = 0
BY DEF Absent, Memory, IncidentPhase, Resolution, CountCap

\* Nothing is known at first.
LEMMA InitIInv == Init => IInv
<1> SUFFICES ASSUME Init PROVE IInv
  OBVIOUS
<1>1. /\ Absent \in Memory /\ ~Absent.exists /\ Absent.phase = ""
  BY AbsentFacts
<1>2. /\ im \in [Incidents -> Memory] /\ cache \in [Incidents -> Memory]
      /\ \A i \in Incidents : im[i] = Absent /\ cache[i] = Absent
  BY <1>1 DEF Init
<1>3. /\ quiet \in [Incidents -> Nat] /\ stable \in Nat /\ activeIncidents \in Nat
      /\ outcomes \in Nat /\ faults \in Nat
  BY DEF Init
<1>4. recovered \subseteq Incidents /\ todo \subseteq Incidents /\ seen \subseteq Incidents
  BY DEF Init
<1>5. claimed \in BOOLEAN
  BY DEF Init
<1>6. TypeOK
  BY <1>2, <1>3, <1>4, <1>5 DEF TypeOK, Init
<1>7. StoreOK /\ CandidatesExist /\ WhyOK
  BY <1>1, <1>2 DEF StoreOK, CandidatesExist, WhyOK, Init
<1>8. ObservedOK
  BY DEF ObservedOK, Init
<1>9. ResolvedIsExplained
  BY <1>1, <1>2 DEF ResolvedIsExplained
<1> QED
  BY <1>6, <1>7, <1>8, <1>9 DEF IInv

\* The steps that write an IncidentMemory.
Writes ==
    \/ \E i \in Incidents : processDiagnosis(i)
    \/ createIncident \/ updateExistingIncident \/ markResolvedSpec \/ markResolvedStatus
    \/ \E i \in Incidents : IncidentReconcile(i)
    \/ \E i \in Incidents, outcome \in {"remediated", "failed"} : updateIncidentResolution(i, outcome)
    \/ updateResolvedStatus

\* The steps that do not.
Reads ==
    \/ reconcile \/ applyDiagnosisToSpec \/ reportDiscardedDiagnosis \/ resolveCleared
    \/ (\E i \in Incidents : judge(i)) \/ markResolvedFails \/ endCycle
    \/ syncPersonaStatus \/ Environment

\* Every step writes or reads.
LEMMA StepKinds == ASSUME [Next]_vars PROVE Writes \/ Reads \/ UNCHANGED vars
BY DEF Next, HealthCheck, HealthCheckFails, Mirror, Writes, Reads

\* A read leaves the incidents as they are.
LEMMA ReadsFrame == ASSUME Reads \/ UNCHANGED vars PROVE im' = im
BY DEF Reads, reconcile, applyDiagnosisToSpec, reportDiscardedDiagnosis, resolveCleared, judge,
       markResolvedFails, endCycle, syncPersonaStatus, Environment, SyncCache, Tick, Break,
       Recover, Delete, Onboard, Crash, vars

(***************************************************************************)
(* A stored incident stays, a resolution is never taken back, an incident  *)
(* is closed only with one, and "observed" is said by the loop only.       *)
(***************************************************************************)
Keeps(i) ==
    /\ im[i].exists => im'[i].exists
    /\ ~im'[i].exists => im'[i] = Absent
    /\ im[i].resolution # "none" => im'[i].resolution # "none"
    /\ im'[i].phase = "Resolved" => im[i].phase = "Resolved" \/ im[i].resolution # "none"
    /\ im'[i].resolution = "observed" =>
          im[i].resolution = "observed" \/ (pc = "markSpec" /\ cur = i /\ why = "observed")

\* Incident i gets value m, the others stay.
LEMMA WriteOne ==
    ASSUME IInv, NEW i \in Incidents, NEW m \in Memory, im' = [im EXCEPT ![i] = m],
           im[i].exists => m.exists, m.exists,
           im[i].resolution # "none" => m.resolution # "none",
           m.phase = "Resolved" => im[i].phase = "Resolved" \/ im[i].resolution # "none",
           m.resolution = "observed" =>
               im[i].resolution = "observed" \/ (pc = "markSpec" /\ cur = i /\ why = "observed")
    PROVE  im' \in [Incidents -> Memory] /\ \A j \in Incidents : Keeps(j)
<1>1. im \in [Incidents -> Memory] /\ \A j \in Incidents : ~im[j].exists => im[j] = Absent
  BY DEF IInv, TypeOK, StoreOK
<1>2. im' \in [Incidents -> Memory] /\ im'[i] = m /\ \A j \in Incidents : j # i => im'[j] = im[j]
  BY <1>1
<1>3. Keeps(i)
  BY <1>2 DEF Keeps
<1>4. ASSUME NEW j \in Incidents, j # i PROVE Keeps(j)
  BY <1>1, <1>2, <1>4 DEF Keeps
<1> QED
  BY <1>2, <1>3, <1>4

\* Every step keeps that of every incident.
LEMMA MemoryStep ==
    ASSUME IInv, [Next]_vars
    PROVE  im' \in [Incidents -> Memory] /\ \A j \in Incidents : Keeps(j)
<1> DEFINE Goal == im' \in [Incidents -> Memory] /\ \A j \in Incidents : Keeps(j)
<1>1. /\ im \in [Incidents -> Memory]
      /\ \A j \in Incidents : ~im[j].exists => im[j] = Absent
      /\ \A j \in Incidents : im[j].phase = "Resolved" => im[j].resolution # "none"
      /\ pc \in {"initial", "spec", "count", "markSpec", "markStatus"} =>
            cur \in Incidents /\ im[cur].exists
  BY DEF IInv, TypeOK, StoreOK, ResolvedIsExplained
<1>2. ASSUME im' = im PROVE Goal
  BY <1>1, <1>2 DEF Keeps
<1>3. ASSUME NEW i \in Incidents, processDiagnosis(i) PROVE Goal
  <2>1. CASE im' = im
    BY <1>2, <2>1
  <2>2. CASE ~im[i].exists /\ im' = [im EXCEPT ![i] = Created]
    <3>1. /\ Created \in Memory
          /\ Created.exists /\ Created.phase = "" /\ Created.resolution = "none"
      <4>1. Created \in Memory
        BY AbsentFacts, Literals, Rewrites DEF Created
      <4>2. Created.exists /\ Created.phase = "" /\ Created.resolution = "none"
        BY DEF Created, Absent
      <4> QED
        BY <4>1, <4>2
    <3>2. im[i].resolution = "none"
      BY <1>1, <2>2, AbsentFacts
    <3> QED
      BY <2>2, <3>1, <3>2, WriteOne
  <2> QED
    BY <1>3, <2>1, <2>2 DEF processDiagnosis
<1>4. CASE createIncident
  <2> DEFINE m == [im[cur] EXCEPT !.phase = "Detected", !.count = 1]
  <2>1. cur \in Incidents /\ im[cur].exists /\ im[cur] \in Memory /\ im' = [im EXCEPT ![cur] = m]
    BY <1>1, <1>4 DEF createIncident
  <2>2. m \in Memory
    BY <2>1, Literals, Rewrites
  <2>3. m.exists /\ m.phase = "Detected" /\ m.resolution = im[cur].resolution
    BY <2>1 DEF Memory
  <2> HIDE DEF m
  <2> QED
    BY <2>1, <2>2, <2>3, WriteOne
<1>5. CASE updateExistingIncident
  <2> DEFINE c == IF im[cur].count < CountCap THEN im[cur].count + 1 ELSE im[cur].count
             m == [im[cur] EXCEPT !.count = c]
  <2>1. cur \in Incidents /\ im[cur].exists /\ im[cur] \in Memory
    BY <1>1, <1>5 DEF updateExistingIncident
  <2>2. im' = [im EXCEPT ![cur] = m]
    BY <1>1, <1>5 DEF updateExistingIncident
  <2>3. im[cur].count \in 0 .. CountCap
    BY <2>1 DEF Memory
  <2>4. c \in 0 .. CountCap
    BY <2>3, Literals
  <2> HIDE DEF c
  <2>5. m \in Memory
    BY <2>1, <2>4, Literals, Rewrites
  <2>6. m.exists /\ m.phase = im[cur].phase /\ m.resolution = im[cur].resolution
    BY <2>1 DEF Memory
  <2> HIDE DEF m
  <2> QED
    BY <2>1, <2>2, <2>5, <2>6, WriteOne
<1>6. CASE markResolvedSpec
  <2> DEFINE m == [im[cur] EXCEPT !.label = "Resolved", !.resolution = why]
  <2>1. /\ cur \in Incidents /\ im[cur].exists /\ im[cur] \in Memory
        /\ im' = [im EXCEPT ![cur] = m] /\ pc = "markSpec"
    BY <1>1, <1>6 DEF markResolvedSpec
  <2>2. why \in Resolution /\ why # "none"
    BY <2>1 DEF IInv, TypeOK, WhyOK, Resolution
  <2>3. m \in Memory
    BY <2>1, <2>2, Literals, Rewrites
  <2>4. m.exists /\ m.phase = im[cur].phase /\ m.resolution = why
    BY <2>1 DEF Memory
  <2> HIDE DEF m
  <2> QED
    BY <2>1, <2>2, <2>3, <2>4, WriteOne
<1>7. CASE markResolvedStatus
  <2> DEFINE m == [im[cur] EXCEPT !.phase = "Resolved"]
  <2>1. /\ cur \in Incidents /\ im[cur].exists /\ im[cur] \in Memory
        /\ im' = [im EXCEPT ![cur] = m] /\ im[cur].resolution # "none"
    BY <1>1, <1>7 DEF markResolvedStatus, IInv, WhyOK
  <2>2. m \in Memory
    BY <2>1, Literals, Rewrites
  <2>3. m.exists /\ m.resolution = im[cur].resolution
    BY <2>1 DEF Memory
  <2> HIDE DEF m
  <2> QED
    BY <2>1, <2>2, <2>3, WriteOne
<1>8. ASSUME NEW i \in Incidents, IncidentReconcile(i) PROVE Goal
  <2> DEFINE m == ensureLabels(im[i])
  <2>1. im[i].exists /\ im[i] \in Memory
    BY <1>1, <1>8 DEF IncidentReconcile, IInv, StoreOK
  <2>2. m \in Memory
    BY <2>1, Literals, Rewrites DEF ensureLabels
  <2>3. m.exists /\ m.phase = im[i].phase /\ m.resolution = im[i].resolution
    BY <2>1 DEF ensureLabels, Memory
  <2>4. im' = im \/ im' = [im EXCEPT ![i] = m]
    BY <1>8 DEF IncidentReconcile
  <2> HIDE DEF m
  <2>5. CASE im' = [im EXCEPT ![i] = m]
    BY <2>1, <2>2, <2>3, <2>5, WriteOne
  <2> QED
    BY <1>2, <2>4, <2>5
<1>9. ASSUME NEW i \in Incidents, NEW outcome \in {"remediated", "failed"},
             updateIncidentResolution(i, outcome)
      PROVE  Goal
  <2> DEFINE l == IF outcome = "remediated" THEN "Resolved" ELSE im[i].label
             m == [im[i] EXCEPT !.resolution = outcome, !.label = l]
  <2>1. im' = [im EXCEPT ![i] = m] /\ im[i] \in Memory
    BY <1>1, <1>9 DEF updateIncidentResolution
  <2>2. im[i].count > 0
    BY <1>9 DEF updateIncidentResolution, Current
  <2>3. im[i].exists
    <3>1. ~im[i].exists => im[i].count = 0
      BY <1>1, AbsentFacts
    <3>2. im[i].count # 0
      BY <2>2
    <3> QED
      BY <3>1, <3>2
  <2>4. l \in IncidentPhase /\ outcome \in Resolution /\ outcome \notin {"none", "observed"}
    BY <2>1, Literals DEF Memory
  <2> HIDE DEF l
  <2>5. m \in Memory
    BY <2>1, <2>4, Literals, Rewrites
  <2>6. m.exists /\ m.phase = im[i].phase /\ m.resolution = outcome
    BY <2>1, <2>3 DEF Memory
  <2> HIDE DEF m
  <2> QED
    BY <2>1, <2>3, <2>4, <2>5, <2>6, WriteOne
<1>10. CASE updateResolvedStatus
  <2> DEFINE m == [im[rem] EXCEPT !.phase = "Resolved"]
  <2>1. /\ rem \in Incidents /\ im[rem].resolution # "none" /\ im[rem] \in Memory
        /\ im' = im \/ im' = [im EXCEPT ![rem] = m]
    BY <1>1, <1>10 DEF updateResolvedStatus, IInv, WhyOK, TypeOK
  <2>2. im[rem].exists
    BY <1>1, <2>1, AbsentFacts
  <2>3. m \in Memory
    BY <2>1, Literals, Rewrites
  <2>4. m.exists /\ m.resolution = im[rem].resolution
    BY <2>1, <2>2 DEF Memory
  <2> HIDE DEF m
  <2>5. CASE im' = [im EXCEPT ![rem] = m]
    BY <2>1, <2>2, <2>3, <2>4, <2>5, WriteOne
  <2> QED
    BY <1>2, <2>1, <2>5
<1>11. CASE Reads \/ UNCHANGED vars
  BY <1>2, <1>11, ReadsFrame
<1> QED
  BY <1>3, <1>4, <1>5, <1>6, <1>7, <1>8, <1>9, <1>10, <1>11, StepKinds DEF Writes

-----------------------------------------------------------------------------
(***************************************************************************)
(* The parts of the invariant.                                             *)
(***************************************************************************)

LoopTypes ==
    /\ pc \in {"idle", "diagnose", "initial", "spec", "count", "resolve", "markSpec", "markStatus"}
    /\ todo \subseteq Incidents /\ seen \subseteq Incidents
    /\ pc \in {"initial", "spec", "count", "markSpec", "markStatus"} => cur \in Incidents /\ im[cur].exists
    /\ why \in {"none", "observed", "handover"}

WorkerTypes ==
    /\ icPc \in {"idle", "sync"}
    /\ icPc # "idle" => icCur \in Incidents
    /\ rem \in Incidents \cup {None}

WorldTypes ==
    /\ cache \in [Incidents -> Memory]
    /\ quiet \in [Incidents -> Nat]
    /\ workload \in {"up", "broken", "gone"}
    /\ stable \in Nat
    /\ outcomes \in Nat
    /\ faults \in Nat
    /\ recovered \subseteq Incidents

\* The evidence resolveCleared finds is one of three.
LEMMA EvidenceFacts ==
    ASSUME NEW i \in Incidents, quiet[i] \in Nat
    PROVE  /\ resolutionEvidence(i) \in {"none", "observed", "handover"}
           /\ resolutionEvidence(i) = "observed" => Recovered
BY TimeAssumption DEF resolutionEvidence, verifyRecovery

\* The loop's own state: a busy loop works on a stored incident.
LEMMA LoopPart ==
    ASSUME IInv, [Next]_vars
    PROVE  LoopTypes' /\ CandidatesExist'
<1> USE DEF LoopTypes, CandidatesExist
<1>1. /\ LoopTypes /\ CandidatesExist
      /\ \A j \in Incidents : /\ im[j].exists => im'[j].exists
                              /\ cache[j].exists => im[j].exists
                              /\ quiet[j] \in Nat
      /\ \A j \in todo : j \in Incidents
  BY MemoryStep DEF IInv, TypeOK, Keeps, StoreOK
<1>2. CASE UNCHANGED loop
  BY <1>1, <1>2 DEF loop
<1>3. CASE reconcile
  BY <1>1, <1>3 DEF reconcile, Visible
<1>4. ASSUME NEW i \in Incidents, processDiagnosis(i) PROVE LoopTypes' /\ CandidatesExist'
  <2>1. pc' \in {"spec", "initial"} /\ todo' \subseteq todo /\ cur' = i /\ why' = why /\ seen' = seen
    BY <1>4 DEF processDiagnosis
  <2>2. im'[i].exists
    <3>1. im \in [Incidents -> Memory] /\ Created.exists
      BY DEF IInv, TypeOK, Created, Absent
    <3> QED
      BY <1>1, <1>4, <3>1 DEF processDiagnosis, findMatchingIncident
  <2> QED
    BY <1>1, <2>1, <2>2
<1>5. CASE createIncident \/ applyDiagnosisToSpec \/ updateExistingIncident
  BY <1>1, <1>5 DEF createIncident, applyDiagnosisToSpec, updateExistingIncident
<1>6. CASE reportDiscardedDiagnosis
  BY <1>1, <1>6 DEF reportDiscardedDiagnosis
<1>7. CASE resolveCleared
  BY <1>1, <1>7 DEF resolveCleared
<1>8. ASSUME NEW i \in Incidents, judge(i) PROVE LoopTypes' /\ CandidatesExist'
  <2>1. resolutionEvidence(i) \in {"none", "observed", "handover"}
    BY <1>1, EvidenceFacts
  <2> QED
    BY <1>1, <1>8, <2>1 DEF judge
<1>9. CASE markResolvedSpec \/ markResolvedStatus \/ endCycle
  BY <1>1, <1>9 DEF markResolvedSpec, markResolvedStatus, endCycle
<1>10. CASE markResolvedFails
  BY <1>1, <1>10 DEF markResolvedFails
<1>11. CASE Mirror \/ updateResolvedStatus
            \/ \E i \in Incidents, outcome \in {"remediated", "failed"} :
                  updateIncidentResolution(i, outcome)
  BY <1>2, <1>11 DEF Mirror, IncidentReconcile, syncPersonaStatus, updateResolvedStatus,
                     updateIncidentResolution
<1>12. CASE Crash
  BY <1>12 DEF Crash
<1>13. CASE Environment
  BY <1>2, <1>12, <1>13 DEF Environment, SyncCache, Tick, Break, Recover, Delete, Onboard
<1> QED
  BY <1>2, <1>3, <1>4, <1>5, <1>6, <1>7, <1>8, <1>9, <1>10, <1>11, <1>13
     DEF Next, HealthCheck, HealthCheckFails, vars, loop

\* The other two workers hold an incident while they are busy.
LEMMA WorkerPart ==
    ASSUME IInv, [Next]_vars
    PROVE  WorkerTypes'
<1> USE DEF WorkerTypes
<1>1. WorkerTypes
  BY DEF IInv, TypeOK
<1>2. CASE UNCHANGED <<icPc, icCur, rem>>
  BY <1>1, <1>2
<1>3. CASE HealthCheck \/ HealthCheckFails
  BY <1>2, <1>3 DEF HealthCheck, HealthCheckFails, reconcile, processDiagnosis, createIncident,
       applyDiagnosisToSpec, updateExistingIncident, reportDiscardedDiagnosis, resolveCleared,
       judge, markResolvedSpec, markResolvedStatus, markResolvedFails, endCycle, mirror
<1>4. CASE Mirror
  BY <1>1, <1>4 DEF Mirror, IncidentReconcile, syncPersonaStatus
<1>5. ASSUME NEW i \in Incidents, NEW outcome \in {"remediated", "failed"},
             updateIncidentResolution(i, outcome)
      PROVE  WorkerTypes'
  BY <1>1, <1>5 DEF updateIncidentResolution, mirror
<1>6. CASE updateResolvedStatus
  BY <1>1, <1>6 DEF updateResolvedStatus, mirror
<1>7. CASE Environment
  BY <1>1, <1>2, <1>7 DEF Environment, SyncCache, Tick, Break, Recover, Delete, Onboard, Crash, mirror
<1> QED
  BY <1>2, <1>3, <1>4, <1>5, <1>6, <1>7 DEF Next, vars

\* The world, the clocks and the counters.
LEMMA WorldPart ==
    ASSUME IInv, [Next]_vars
    PROVE  WorldTypes' /\ activeIncidents' \in Nat /\ claimed' \in BOOLEAN
<1>1. /\ WorldTypes /\ activeIncidents \in Nat /\ claimed \in BOOLEAN
      /\ im \in [Incidents -> Memory]
  BY DEF IInv, TypeOK, WorldTypes
<1>2. claimed' \in BOOLEAN
  <2>1. CASE Onboard
    BY <2>1 DEF Onboard
  <2>2. CASE claimed' = claimed
    BY <1>1, <2>2
  <2> QED
    BY <2>1, <2>2 DEF Next, HealthCheck, HealthCheckFails, Mirror, Environment, reconcile,
       processDiagnosis, createIncident, applyDiagnosisToSpec, updateExistingIncident,
       reportDiscardedDiagnosis, resolveCleared, judge, markResolvedSpec, markResolvedStatus,
       markResolvedFails, endCycle, IncidentReconcile, syncPersonaStatus,
       updateIncidentResolution, updateResolvedStatus, SyncCache, Tick, Break, Recover, Delete,
       Crash, world, vars
<1>3. activeIncidents' \in Nat
  <2>1. activeCount \in Nat
    <3>1. IsFiniteSet({i \in Incidents : findMatchingIncident(i)})
      BY IncidentsAssumption, FS_Subset
    <3> QED
      BY <3>1, FS_CardinalityType DEF activeCount
  <2>2. CASE syncPersonaStatus
    BY <1>1, <2>1, <2>2 DEF syncPersonaStatus
  <2>3. CASE activeIncidents' = activeIncidents
    BY <1>1, <2>3
  <2> QED
    BY <2>2, <2>3 DEF Next, HealthCheck, HealthCheckFails, Mirror, Environment, reconcile,
       processDiagnosis, createIncident, applyDiagnosisToSpec, updateExistingIncident,
       reportDiscardedDiagnosis, resolveCleared, judge, markResolvedSpec, markResolvedStatus,
       markResolvedFails, endCycle, IncidentReconcile,
       updateIncidentResolution, updateResolvedStatus, SyncCache, Tick, Break, Recover, Delete,
       Onboard, Crash, mirror, vars
<1>4. WorldTypes'
  <2> USE DEF WorldTypes
  <2>1. CASE UNCHANGED <<cache, quiet, workload, stable, outcomes, faults, recovered>>
    BY <1>1, <2>1
  <2>2. ASSUME NEW i \in Incidents, processDiagnosis(i) PROVE WorldTypes'
    BY <1>1, <2>2 DEF processDiagnosis, world
  <2>3. CASE applyDiagnosisToSpec
    <3>1. cur \in Incidents
      BY <2>3 DEF applyDiagnosisToSpec, IInv, TypeOK
    <3> QED
      BY <1>1, <2>3, <3>1 DEF applyDiagnosisToSpec, world
  <2>4. CASE reportDiscardedDiagnosis \/ markResolvedFails \/ syncPersonaStatus
             \/ updateResolvedStatus
    BY <1>1, <2>4 DEF reportDiscardedDiagnosis, markResolvedFails, syncPersonaStatus,
                      updateResolvedStatus, Fault, world
  <2>5. CASE reconcile \/ createIncident \/ updateExistingIncident \/ resolveCleared
             \/ markResolvedSpec \/ markResolvedStatus \/ endCycle
    BY <2>1, <2>5 DEF reconcile, createIncident, updateExistingIncident, resolveCleared,
                      markResolvedSpec, markResolvedStatus, endCycle, world
  <2>6. CASE \E i \in Incidents : judge(i) \/ IncidentReconcile(i)
    BY <2>1, <2>6 DEF judge, IncidentReconcile, world
  <2>7. ASSUME NEW i \in Incidents, NEW outcome \in {"remediated", "failed"},
               updateIncidentResolution(i, outcome)
        PROVE  WorldTypes'
    BY <1>1, <2>7 DEF updateIncidentResolution, world
  <2>8. ASSUME NEW i \in Incidents, SyncCache(i) PROVE WorldTypes'
    BY <1>1, <2>8 DEF SyncCache, world
  <2>9. CASE Tick
    <3>1. quiet' \in [Incidents -> Nat] /\ stable' \in Nat
      BY <1>1, <2>9 DEF Tick
    <3>2. recovered' \subseteq Incidents
      BY <1>1, <2>9 DEF Tick
    <3> QED
      BY <1>1, <2>9, <3>1, <3>2 DEF Tick
  <2>10. CASE Break \/ Recover \/ Delete \/ Onboard
    BY <1>1, <2>10 DEF Break, Recover, Delete, Onboard
  <2>11. CASE Crash
    BY <1>1, <2>11 DEF Crash, Fault, world
  <2> QED
    BY <2>1, <2>2, <2>3, <2>4, <2>5, <2>6, <2>7, <2>8, <2>9, <2>10, <2>11
       DEF Next, HealthCheck, HealthCheckFails, Mirror, Environment, vars
<1> QED
  BY <1>2, <1>3, <1>4

\* Type correctness is preserved.
LEMMA TypeStep ==
    ASSUME IInv, [Next]_vars
    PROVE  TypeOK'
<1>1. im' \in [Incidents -> Memory]
  BY MemoryStep
<1> QED
  BY <1>1, LoopPart, WorkerPart, WorldPart DEF TypeOK, LoopTypes, WorkerTypes, WorldTypes

\* The cache learns only what is stored.
LEMMA StorePart ==
    ASSUME IInv, [Next]_vars
    PROVE  StoreOK'
<1>1. /\ \A j \in Incidents : Keeps(j)
      /\ \A j \in Incidents : cache[j].exists => im[j].exists
      /\ cache \in [Incidents -> Memory]
  BY MemoryStep DEF IInv, TypeOK, StoreOK
<1>2. CASE cache' = cache
  BY <1>1, <1>2 DEF StoreOK, Keeps
<1>3. ASSUME NEW i \in Incidents, SyncCache(i) PROVE StoreOK'
  BY <1>1, <1>3 DEF SyncCache, StoreOK, Keeps
<1>4. CASE Crash
  BY <1>1, <1>4 DEF Crash, StoreOK, Keeps
<1> QED
  BY <1>2, <1>3, <1>4 DEF Next, HealthCheck, HealthCheckFails, Mirror, Environment, reconcile,
     processDiagnosis, createIncident, applyDiagnosisToSpec, updateExistingIncident,
     reportDiscardedDiagnosis, resolveCleared, judge, markResolvedSpec, markResolvedStatus,
     markResolvedFails, endCycle, IncidentReconcile, syncPersonaStatus,
     updateIncidentResolution, updateResolvedStatus, Tick, Break, Recover, Delete, Onboard, vars

\* Each writer knows why before it closes.
LEMMA WhyPart ==
    ASSUME IInv, [Next]_vars
    PROVE  WhyOK'
<1> USE DEF WhyOK
<1>1. /\ WhyOK /\ LoopTypes /\ WorkerTypes /\ im \in [Incidents -> Memory]
      /\ \A j \in Incidents : im[j].resolution # "none" => im'[j].resolution # "none"
      /\ None \notin Incidents
  BY MemoryStep, NoIncidentAssumption DEF IInv, TypeOK, LoopTypes, WorkerTypes, Keeps
<1>2. rem # None => im'[rem].resolution # "none"
  BY <1>1 DEF WorkerTypes
<1>3. CASE UNCHANGED <<loop, rem>>
  BY <1>1, <1>2, <1>3 DEF loop, LoopTypes
<1>4. CASE pc' \notin {"markSpec", "markStatus"} /\ rem' \in {rem, None}
  BY <1>2, <1>4
<1>5. CASE reconcile \/ (\E i \in Incidents : processDiagnosis(i)) \/ createIncident
           \/ applyDiagnosisToSpec \/ updateExistingIncident \/ resolveCleared
           \/ markResolvedStatus \/ endCycle \/ HealthCheckFails \/ Crash
  BY <1>4, <1>5 DEF reconcile, processDiagnosis, createIncident, applyDiagnosisToSpec,
     updateExistingIncident, resolveCleared, markResolvedStatus, endCycle, HealthCheckFails,
     reportDiscardedDiagnosis, markResolvedFails, Crash
<1>6. ASSUME NEW i \in Incidents, judge(i) PROVE WhyOK'
  BY <1>2, <1>6 DEF judge
<1>7. CASE markResolvedSpec
  <2>1. im'[cur].resolution = why /\ why # "none"
    BY <1>1, <1>7 DEF markResolvedSpec, LoopTypes, Memory
  <2> QED
    BY <1>2, <1>7, <2>1 DEF markResolvedSpec
<1>8. CASE Mirror
  BY <1>3, <1>8 DEF Mirror, IncidentReconcile, syncPersonaStatus
<1>9. ASSUME NEW i \in Incidents, NEW outcome \in {"remediated", "failed"},
             updateIncidentResolution(i, outcome)
      PROVE  WhyOK'
  <2>1. im'[i].resolution = outcome
    BY <1>1, <1>9 DEF updateIncidentResolution, Memory
  <2>2. rem' \in {i, None} /\ UNCHANGED loop
    BY <1>9 DEF updateIncidentResolution
  <2> QED
    BY <1>1, <2>1, <2>2 DEF loop, LoopTypes
<1>10. CASE updateResolvedStatus
  BY <1>1, <1>10 DEF updateResolvedStatus, loop, LoopTypes
<1>11. CASE Environment
  BY <1>3, <1>5, <1>11 DEF Environment, SyncCache, Tick, Break, Recover, Delete, Onboard
<1> QED
  BY <1>3, <1>5, <1>6, <1>7, <1>8, <1>9, <1>10, <1>11 DEF Next, HealthCheck, vars, loop

\* The history of recoveries, and the loop that is about to close on one.
LEMMA ObservedPart ==
    ASSUME IInv, [Next]_vars
    PROVE  ObservedOK'
<1> USE DEF ObservedOK
<1>1. /\ ObservedOK /\ LoopTypes /\ stable \in Nat /\ \A j \in Incidents : quiet[j] \in Nat
      /\ workload \in {"up", "broken", "gone"} /\ StabilityWindow \in Nat
  BY TimeAssumption DEF IInv, TypeOK, LoopTypes
<1>2. CASE UNCHANGED <<loop, workload, stable, recovered>>
  BY <1>1, <1>2 DEF loop, Recovered
<1>3. CASE pc' # "markSpec" /\ UNCHANGED <<workload, stable, recovered>>
  BY <1>1, <1>3 DEF Recovered
<1>4. CASE reconcile \/ createIncident \/ updateExistingIncident \/ resolveCleared
           \/ markResolvedSpec \/ markResolvedStatus \/ endCycle \/ HealthCheckFails \/ Crash
  BY <1>3, <1>4 DEF reconcile, createIncident, updateExistingIncident, resolveCleared,
     markResolvedSpec, markResolvedStatus, endCycle, HealthCheckFails, reportDiscardedDiagnosis,
     markResolvedFails, Crash, world
<1>5. ASSUME NEW i \in Incidents, processDiagnosis(i) PROVE ObservedOK'
  <2>1. pc' # "markSpec" /\ UNCHANGED <<workload, stable>> /\ (Recovered => recovered' = recovered)
    BY <1>5 DEF processDiagnosis, world
  <2> QED
    BY <1>1, <2>1 DEF Recovered
<1>6. CASE applyDiagnosisToSpec
  <2>1. pc' # "markSpec" /\ UNCHANGED <<workload, stable>> /\ (Recovered => recovered' = recovered)
    BY <1>6 DEF applyDiagnosisToSpec, world
  <2> QED
    BY <1>1, <2>1 DEF Recovered
<1>7. ASSUME NEW i \in Incidents, judge(i) PROVE ObservedOK'
  <2>1. resolutionEvidence(i) = "observed" => Recovered
    BY <1>1, EvidenceFacts
  <2>2. /\ UNCHANGED <<workload, stable, recovered>> /\ pc = "resolve"
        /\ pc' = "markSpec" => cur' = i /\ why' = resolutionEvidence(i)
    BY <1>7 DEF judge, world
  <2> QED
    BY <1>1, <2>1, <2>2 DEF Recovered
<1>8. CASE Mirror \/ updateResolvedStatus
           \/ \E i \in Incidents, outcome \in {"remediated", "failed"} :
                 updateIncidentResolution(i, outcome)
  BY <1>2, <1>8 DEF Mirror, IncidentReconcile, syncPersonaStatus, updateResolvedStatus,
                    updateIncidentResolution, world
<1>9. CASE Tick
  <2>1. /\ UNCHANGED loop /\ workload' = workload
        /\ stable' = IF workload = "up" /\ stable < StabilityWindow THEN stable + 1 ELSE stable
        /\ recovered' = IF workload = "up" /\ stable' >= StabilityWindow THEN Incidents ELSE recovered
    BY <1>9 DEF Tick
  <2> QED
    BY <1>1, <2>1 DEF Recovered, loop, LoopTypes
<1>10. CASE Break
  BY <1>1, <1>10 DEF Break, Recovered, loop
<1>11. CASE Recover
  BY <1>1, <1>11 DEF Recover, Recovered, loop, LoopTypes
<1>12. CASE Delete
  BY <1>1, <1>12 DEF Delete, Recovered, loop, LoopTypes
<1>13. CASE Onboard \/ (\E i \in Incidents : SyncCache(i))
  BY <1>2, <1>13 DEF Onboard, SyncCache, world
<1> QED
  BY <1>2, <1>4, <1>5, <1>6, <1>7, <1>8, <1>9, <1>10, <1>11, <1>12, <1>13
     DEF Next, HealthCheck, Environment, vars, loop

-----------------------------------------------------------------------------
(***************************************************************************)
(* The theorems.                                                           *)
(***************************************************************************)

\* The invariant holds in every reachable state.
THEOREM Invariance == Spec => []IInv
<1>1. IInv /\ [Next]_vars => IInv'
  <2> SUFFICES ASSUME IInv, [Next]_vars PROVE IInv'
    OBVIOUS
  <2>1. ResolvedIsExplained'
    BY MemoryStep DEF IInv, ResolvedIsExplained, Keeps
  <2> QED
    BY <2>1, TypeStep, LoopPart, StorePart, WhyPart, ObservedPart DEF IInv
<1> QED
  BY <1>1, InitIInv, PTL DEF Spec

\* Type correctness of the incidents, the loop and the two controllers.
THEOREM TypeCorrect == Spec => []TypeOK
<1>1. IInv => TypeOK
  BY DEF IInv
<1> QED
  BY <1>1, Invariance, PTL

\* markResolved and updateIncidentResolution write the resolution before the phase, so
\* that no crash and no other writer leaves an incident closed without a reason.
THEOREM Explained == Spec => []ResolvedIsExplained
<1>1. IInv => ResolvedIsExplained
  BY DEF IInv
<1> QED
  BY <1>1, Invariance, PTL

\* verifyRecovery: the health check says "observed" only of a workload that was seen
\* stable, or gone, since the signal was last seen.
THEOREM Observed == Spec => ClosedOnObservation
<1>1. IInv /\ [Next]_vars =>
        [\A i \in Incidents :
            im'[i].resolution = "observed" /\ im[i].resolution # "observed" => i \in recovered]_vars
  BY MemoryStep DEF IInv, ObservedOK, Keeps
<1> QED
  BY <1>1, Invariance, PTL DEF Spec, ClosedOnObservation
=============================================================================
