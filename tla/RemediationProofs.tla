--------------------------- MODULE RemediationProofs ---------------------------
(***************************************************************************)
(* Proofs about RemediationLifecycle, for every set of actions, fields,    *)
(* plans and signals and any number of disturbances.                       *)
(***************************************************************************)
EXTENDS RemediationLifecycle, TLAPS

-----------------------------------------------------------------------------
(***************************************************************************)
(* Lemmas about the operators.                                             *)
(***************************************************************************)

Conditions == [ConditionType -> Condition]
Status == {"unset", "True", "False", "Unknown"}

\* setCondition keeps the list well formed and touches one type only.
LEMMA SetCondition ==
    ASSUME NEW c \in Conditions, NEW t \in ConditionType,
           NEW s \in Status, NEW r \in Reason, NEW m \in Nat
    PROVE  /\ setCondition(c, t, s, r, m) \in Conditions
           /\ setCondition(c, t, s, r, m)[t].reason = r
           /\ \A u \in ConditionType : u # t => setCondition(c, t, s, r, m)[u] = c[u]
<1>1. [status |-> s, reason |-> r, message |-> m] \in Condition
  BY DEF Condition, Status
<1>2. c[t] \in Condition
  BY DEF Conditions
<1>3. CASE c[t].status = s /\ c[t].reason = r
  BY <1>3 DEF setCondition
<1>4. CASE ~(c[t].status = s /\ c[t].reason = r)
  BY <1>1, <1>4 DEF setCondition, Conditions
<1> QED
  BY <1>3, <1>4

\* The retry count read back from the conditions is a number.
LEMMA RetryCount == ASSUME NEW c \in Conditions PROVE getRetryCount(c) \in Nat
<1>1. c["Verified"] \in Condition
  BY DEF Conditions, ConditionType
<1> QED
  BY <1>1 DEF getRetryCount, Condition

(***************************************************************************)
(* What each handler makes of its copy: a well-formed object of the same   *)
(* version, in the phase the handler is named for.                         *)
(***************************************************************************)
LEMMA FailedFacts ==
    ASSUME NEW o \in Object, NEW r \in Reason
    PROVE  /\ FailedObject(o, r) \in Object
           /\ FailedObject(o, r).phase = "Failed"
           /\ FailedObject(o, r).rv = o.rv
           /\ FailedObject(o, r).conds["Applied"].reason = r
<1>1. o.conds \in Conditions /\ "Applied" \in ConditionType /\ "False" \in Status /\ 0 \in Nat
  BY DEF Object, Conditions, ConditionType, Status
<1>2. /\ setCondition(o.conds, "Applied", "False", r, 0) \in Conditions
      /\ setCondition(o.conds, "Applied", "False", r, 0)["Applied"].reason = r
  BY <1>1, SetCondition
<1>3. "Failed" \in Phase
  BY DEF Phase, Settled, Terminal
<1> QED
  BY <1>2, <1>3 DEF FailedObject, Object, Conditions

\* transitionToAcknowledged
LEMMA AcknowledgedFacts ==
    ASSUME NEW o \in Object
    PROVE  /\ AcknowledgedObject(o) \in Object
           /\ AcknowledgedObject(o).phase = "Acknowledged"
           /\ AcknowledgedObject(o).rv = o.rv
           /\ AcknowledgedObject(o).conds["Applied"].reason = "AdvisoryOnly"
<1>1. /\ o.conds \in Conditions /\ "Applied" \in ConditionType /\ "False" \in Status
      /\ 0 \in Nat /\ "AdvisoryOnly" \in Reason
  BY DEF Object, Conditions, ConditionType, Status, Reason
<1>2. /\ setCondition(o.conds, "Applied", "False", "AdvisoryOnly", 0) \in Conditions
      /\ setCondition(o.conds, "Applied", "False", "AdvisoryOnly", 0)["Applied"].reason = "AdvisoryOnly"
  BY <1>1, SetCondition
<1>3. "Acknowledged" \in Phase
  BY DEF Phase, Settled, Terminal
<1> QED
  BY <1>2, <1>3 DEF AcknowledgedObject, Object, Conditions

\* handleApproved, after the patch was applied
LEMMA AppliedFacts ==
    ASSUME NEW o \in Object
    PROVE  /\ AppliedObject(o) \in Object
           /\ AppliedObject(o).phase = "Applying"
           /\ AppliedObject(o).appliedAt
           /\ AppliedObject(o).rv = o.rv
           /\ AppliedObject(o).conds["Applied"].reason = "PatchApplied"
<1>1. /\ o.conds \in Conditions /\ "Applied" \in ConditionType /\ "True" \in Status
      /\ 0 \in Nat /\ "PatchApplied" \in Reason
  BY DEF Object, Conditions, ConditionType, Status, Reason
<1>2. /\ setCondition(o.conds, "Applied", "True", "PatchApplied", 0) \in Conditions
      /\ setCondition(o.conds, "Applied", "True", "PatchApplied", 0)["Applied"].reason = "PatchApplied"
  BY <1>1, SetCondition
<1>3. "Applying" \in Phase
  BY DEF Phase
<1> QED
  BY <1>2, <1>3 DEF AppliedObject, Object, Conditions

\* handleVerificationHealthy
LEMMA CompletedFacts ==
    ASSUME NEW o \in Object
    PROVE  /\ CompletedObject(o) \in Object
           /\ CompletedObject(o).phase = "Completed"
           /\ CompletedObject(o).appliedAt = o.appliedAt
           /\ CompletedObject(o).rv = o.rv
           /\ CompletedObject(o).conds["Applied"] = o.conds["Applied"]
<1>1. /\ o.conds \in Conditions /\ "Verified" \in ConditionType /\ "Applied" \in ConditionType
      /\ "True" \in Status /\ 0 \in Nat /\ "HealthRestored" \in Reason
  BY DEF Object, Conditions, ConditionType, Status, Reason
<1>2. /\ setCondition(o.conds, "Verified", "True", "HealthRestored", 0) \in Conditions
      /\ setCondition(o.conds, "Verified", "True", "HealthRestored", 0)["Applied"] = o.conds["Applied"]
  BY <1>1, SetCondition, "Applied" # "Verified"
<1>3. "Completed" \in Phase
  BY DEF Phase, Settled, Terminal
<1> QED
  BY <1>2, <1>3 DEF CompletedObject, Object, Conditions

\* handleVerificationUnknown
LEMMA RetryFacts ==
    ASSUME NEW o \in Object
    PROVE  /\ RetryObject(o) \in Object
           /\ RetryObject(o).phase = o.phase
           /\ RetryObject(o).appliedAt = o.appliedAt
           /\ RetryObject(o).rv = o.rv
           /\ RetryObject(o).conds["Applied"] = o.conds["Applied"]
<1> DEFINE n == getRetryCount(o.conds) + 1
<1>1. /\ o.conds \in Conditions /\ "Verified" \in ConditionType /\ "Applied" \in ConditionType
      /\ "False" \in Status /\ "VerificationUnknown" \in Reason
  BY DEF Object, Conditions, ConditionType, Status, Reason
<1>2. n \in Nat
  BY <1>1, RetryCount
<1> HIDE DEF n
<1>3. /\ setCondition(o.conds, "Verified", "False", "VerificationUnknown", n) \in Conditions
      /\ setCondition(o.conds, "Verified", "False", "VerificationUnknown", n)["Applied"] = o.conds["Applied"]
  BY <1>1, <1>2, SetCondition, "Applied" # "Verified"
<1>4. RetryObject(o) = [o EXCEPT !.conds = setCondition(o.conds, "Verified", "False", "VerificationUnknown", n)]
  BY DEF RetryObject, n
<1> QED
  BY <1>3, <1>4 DEF Object, Conditions

\* handleVerificationDegraded, after the snapshot was applied
LEMMA RolledBackFacts ==
    ASSUME NEW o \in Object, NEW a, NEW readable
    PROVE  /\ RolledBackObject(o, a, readable) \in Object
           /\ RolledBackObject(o, a, readable).phase = "RolledBack"
           /\ RolledBackObject(o, a, readable).appliedAt = o.appliedAt
           /\ RolledBackObject(o, a, readable).rv = o.rv
           /\ RolledBackObject(o, a, readable).conds["Applied"] = o.conds["Applied"]
<1> DEFINE c1 == setCondition(o.conds, "RolledBack", "True", "HealthDegraded", 0)
           c2 == recordRollbackScope(c1, a, readable)
<1>1. o.conds \in Conditions /\ "Applied" \in ConditionType
  BY DEF Object, Conditions, ConditionType
<1>2. c1 \in Conditions /\ c1["Applied"] = o.conds["Applied"]
  <2>1. /\ "RolledBack" \in ConditionType /\ "True" \in Status
        /\ "HealthDegraded" \in Reason /\ 0 \in Nat /\ "Applied" # "RolledBack"
    BY DEF ConditionType, Status, Reason
  <2> QED
    BY <1>1, <2>1, SetCondition
<1> HIDE DEF c1
<1>3. PICK s \in Status, r \in Reason : c2 = setCondition(c1, "WorkloadDiverged", s, r, 0)
  <2>1. /\ "True" \in Status /\ "False" \in Status /\ "Unknown" \in Status
    BY DEF Status
  <2>2. InspectRollback(a, readable) \in Reason
    BY DEF InspectRollback, Reason
  <2> HIDE DEF InspectRollback
  <2> QED
    BY <2>1, <2>2 DEF recordRollbackScope
<1>4. c2 \in Conditions /\ c2["Applied"] = o.conds["Applied"]
  <2>1. "WorkloadDiverged" \in ConditionType /\ 0 \in Nat /\ "Applied" # "WorkloadDiverged"
    BY DEF ConditionType
  <2> HIDE DEF c2
  <2> QED
    BY <1>1, <1>2, <1>3, <2>1, SetCondition
<1>5. "RolledBack" \in Phase
  BY DEF Phase, Settled, Terminal
<1>6. RolledBackObject(o, a, readable) = [o EXCEPT !.phase = "RolledBack", !.conds = c2]
  BY DEF RolledBackObject, c1, c2
<1> QED
  BY <1>4, <1>5, <1>6 DEF Object, Conditions

\* A merge yields a persona spec again.
LEMMA MergeType ==
    ASSUME NEW spec \in [Fields -> Values \cup {None}], NEW patch \in Patches
    PROVE  mergeMaps(spec, patch) \in [Fields -> Values \cup {None}]
BY DEF mergeMaps, Patches

-----------------------------------------------------------------------------
(***************************************************************************)
(* The inductive invariant.  Three copies of an action exist at a time -   *)
(* stored, cached, and the worker's - and a claim about the stored one     *)
(* survives a write only if it already held of the copy being written.     *)
(***************************************************************************)
AppliedPhases == {"Applying", "Verifying", "Completed", "RolledBack"}

\* What a copy o of action a may say.
CopyOK(a, o) ==
    /\ o.phase \notin {"Pending", "Rejected"} => a \in approved
    /\ o.phase \in AppliedPhases => a \in written /\ o.appliedAt
    /\ o.phase = "Acknowledged" => ~HasAutoApplicableChange(a)
    /\ o.conds["Applied"].reason = "PreconditionRejected" => ~validatePreconditions(a)

Copies ==
    /\ \A a \in Actions : CopyOK(a, act[a]) /\ CopyOK(a, cache[a])
    /\ pc # "idle" => CopyOK(cur, obj)

\* Who has written the persona, and what an approval rules out.
Writers ==
    /\ \A a \in written : a \in approved /\ HasAutoApplicableChange(a) /\ validatePreconditions(a)
    /\ \A a \in approved : act[a].phase # "Pending"

\* The cache never runs ahead, and a version determines the phase.
Versions ==
    \A a \in Actions : /\ cache[a].rv <= act[a].rv
                       /\ cache[a].rv = act[a].rv => cache[a].phase = act[a].phase

Fresh == obj.rv = act[cur].rv

\* The phase changes a handler may ask for.
LegalMove(p, q) ==
    \/ p = "Approved" /\ q \in {"Applying", "Acknowledged", "Failed"}
    \/ p = "Applying" /\ q = "Verifying"
    \/ p = "Verifying" /\ q \in {"Verifying", "Completed", "RolledBack", "Failed"}

\* A worker whose copy is still current acts on the phase that is stored.
Worker ==
    /\ pc \in {"apply", "verify", "rollback", "inspect", "write"} => obj.rv <= act[cur].rv
    /\ pc = "apply" => /\ obj.phase = "Approved"
                       /\ HasAutoApplicableChange(cur)
                       /\ validatePreconditions(cur)
                       /\ Fresh => act[cur].phase = "Approved"
    /\ pc \in {"verify", "rollback", "inspect"} => /\ obj.phase = "Verifying"
                                                   /\ Fresh => act[cur].phase = "Verifying"
    /\ pc = "write" /\ Fresh => LegalMove(act[cur].phase, obj.phase)

VerdictPhases == {"Verifying", "Completed", "RolledBack"}

\* Once verification has begun nobody can still believe in Approved.
Order ==
    /\ \A a \in Actions : act[a].phase \in VerdictPhases =>
                              cache[a].phase # "Approved" /\ ~(pc = "apply" /\ cur = a)
    /\ pc = "write" /\ Fresh /\ act[cur].phase = "Applying" => cache[cur].phase # "Approved"

Undone(a) == Plan[a].pre \in Patches /\ \A f \in DOMAIN Plan[a].pre : origin[f] # a

Rollbacks ==
    /\ \A a \in Actions : act[a].phase = "RolledBack" => Undone(a)
    /\ pc = "inspect" \/ (pc = "write" /\ obj.phase = "RolledBack") => Undone(cur)

Incidents ==
    /\ IncidentClosedOnlyByCompleted
    /\ pc = "write" /\ outcome = "resolved" => obj.phase = "Completed"
    /\ pc = "incident" /\ outcome = "resolved" => act[cur].phase = "Completed"
    /\ pc = "incidentStatus" => act[cur].phase = "Completed"

IInv == TypeOK /\ Copies /\ Writers /\ Versions /\ Worker /\ Order /\ Rollbacks /\ Incidents

-----------------------------------------------------------------------------
(***************************************************************************)
(* Type correctness.                                                       *)
(***************************************************************************)

\* A new action is an object.
LEMMA NewObjectType == NewObject \in Object
<1>1. [t \in ConditionType |-> Unset] \in [ConditionType -> Condition]
  BY DEF Unset, Condition, Reason
<1> QED
  BY <1>1 DEF NewObject, Object, Phase, Verdict

\* The initial state is well typed.
LEMMA InitType == Init => TypeOK
<1> SUFFICES ASSUME Init PROVE TypeOK
  OBVIOUS
<1>1. act \in [Actions -> Object] /\ cache \in [Actions -> Object] /\ obj \in Object
  BY NewObjectType DEF Init
<1>2. incident \in [Actions -> Incident]
  BY DEF Init, Incident, Outcome
<1> QED
  BY <1>1, <1>2, InitialAssumption DEF Init, TypeOK, Stage, Outcome

\* The four ways a handler ends leave the worker well typed.
LEMMA ProposeType ==
    ASSUME NEW o \in Object, NEW r \in Outcome, Propose(o, r)
    PROVE  pc' = "write" /\ pc' \in Stage /\ obj' \in Object /\ outcome' \in Outcome
BY DEF Propose, Stage

\* A finished worker is idle and has forgotten its request.
LEMMA DoneType ==
    ASSUME Done
    PROVE  pc' = "idle" /\ pc' \in Stage /\ obj' \in Object /\ outcome' \in Outcome
BY NewObjectType DEF Done, Stage, Outcome

\* A patch of the persona leaves it well typed, however the write ends.
LEMMA PatchType ==
    ASSUME TypeOK, NEW patch \in Patches, NEW source \in Actions \cup {User},
           NEW result \in WriteResult, applyPatch(patch, source, result)
    PROVE  /\ persona' \in [Fields -> Values \cup {None}]
           /\ origin' \in [Fields -> Actions \cup {User}]
           /\ faults' \in Nat
<1>1. mergeMaps(persona, patch) \in [Fields -> Values \cup {None}]
  BY MergeType DEF TypeOK
<1>2. [f \in Fields |-> IF f \in DOMAIN patch THEN source ELSE origin[f]]
         \in [Fields -> Actions \cup {User}]
  BY DEF TypeOK
<1> QED
  BY <1>1, <1>2 DEF applyPatch, TypeOK

\* What the local copy becomes when the API server stores it.
LEMMA StoredFacts ==
    ASSUME TypeOK, cur \in Actions, obj \in Object
    PROVE  /\ Stored(obj) \in Object
           /\ Stored(obj).phase = obj.phase
           /\ Stored(obj).appliedAt = obj.appliedAt
           /\ Stored(obj).conds = obj.conds
           /\ Stored(obj).rv >= obj.rv
           /\ Stored(obj).rv = obj.rv => act[cur] = obj
           /\ Stored(obj).rv = obj.rv \/ Stored(obj).rv = obj.rv + 1
BY DEF Stored, Object

\* Types are preserved by every step; that an approved plan handed to the
\* executor has a patch is part of the worker's invariant.
LEMMA NextType ==
    ASSUME TypeOK, pc = "apply" => validatePreconditions(cur), [Next]_vars
    PROVE  TypeOK'
<1> USE DEF store, world, worker, hist
<1>1. ASSUME NEW a \in Actions, handleApproved(a) PROVE TypeOK'
  <2>1. AcknowledgedObject(cache[a]) \in Object /\ FailedObject(cache[a], "PreconditionRejected") \in Object
    BY AcknowledgedFacts, FailedFacts DEF TypeOK, Reason
  <2>2. /\ pc' \in Stage /\ cur' = a /\ obj' \in Object /\ outcome' \in Outcome
    BY <1>1, <2>1 DEF handleApproved, Begin, Propose, Stage, Outcome, TypeOK
  <2> QED
    BY <1>1, <2>2 DEF handleApproved, Begin, TypeOK
<1>2. ASSUME NEW a \in Actions, handleApplying(a) PROVE TypeOK'
  <2>1. FailedObject(cache[a], "Failed") \in Object
    BY FailedFacts DEF TypeOK, Reason
  <2>2. [cache[a] EXCEPT !.phase = "Verifying"] \in Object
    BY DEF TypeOK, Object, Phase
  <2>3. /\ pc' \in Stage /\ cur' = a /\ obj' \in Object /\ outcome' \in Outcome
    BY <1>2, <2>1, <2>2 DEF handleApplying, Begin, Propose, Stage, Outcome, TypeOK
  <2> QED
    BY <1>2, <2>3 DEF handleApplying, Begin, TypeOK
<1>3. ASSUME NEW a \in Actions, handleVerifying(a) PROVE TypeOK'
  BY <1>3 DEF handleVerifying, Begin, TypeOK, Stage, Outcome
<1>4. CASE ExecutorApply
  <2>1. cur \in Actions
    BY <1>4 DEF ExecutorApply, TypeOK
  <2>2. Plan[cur].patch \in Patches
    BY <1>4, <2>1, PlanAssumption DEF ExecutorApply, validatePreconditions, PlanType
  <2>3. PICK result \in WriteResult : ExecutorApply!2!(result)
    BY <1>4 DEF ExecutorApply
  <2>4. persona' \in [Fields -> Values \cup {None}] /\ origin' \in [Fields -> Actions \cup {User}] /\ faults' \in Nat
    BY <2>1, <2>2, <2>3, PatchType
  <2>5. AppliedObject(obj) \in Object /\ FailedObject(obj, "Failed") \in Object
    BY AppliedFacts, FailedFacts DEF TypeOK, Reason
  <2>6. pc' \in Stage /\ obj' \in Object /\ outcome' \in Outcome
    BY <2>3, <2>5 DEF Propose, Stage, Outcome
  <2>7. age' \in [Actions -> Nat] /\ written' \subseteq Actions
    BY <2>1, <2>3 DEF TypeOK
  <2> QED
    BY <1>4, <2>1, <2>4, <2>6, <2>7 DEF ExecutorApply, TypeOK
<1>5. CASE RunVerifier
  <2>1. PICK readable \in BOOLEAN, signals \in SUBSET Signals : RunVerifier!2!(readable, signals)
    BY <1>5 DEF RunVerifier
  <2> DEFINE o == [obj EXCEPT !.verdict = Verify(readable, signals)]
  <2>2. o \in Object
    <3>1. Verify(readable, signals) \in Verdict
      BY DEF Verify, Verdict
    <3> QED
      BY <3>1 DEF TypeOK, Object
  <2>3. CompletedObject(o) \in Object /\ RetryObject(o) \in Object /\ FailedObject(o, "Failed") \in Object
    <3> HIDE DEF o
    <3> QED BY <2>2, CompletedFacts, RetryFacts, FailedFacts DEF Reason
  <2>4. pc' \in Stage /\ obj' \in Object /\ outcome' \in Outcome
    <3>1. handleVerificationHealthy(o) \/ handleVerificationDegraded(o) \/ handleVerificationUnknown(o)
      BY <2>1
    <3> HIDE DEF o
    <3> QED
      BY <2>2, <2>3, <3>1 DEF handleVerificationHealthy, handleVerificationDegraded,
            handleVerificationUnknown, Propose, Stage, Outcome, TypeOK
  <2> QED
    BY <1>5, <2>4 DEF RunVerifier, TypeOK
<1>6. CASE RollbackExecute
  <2>1. cur \in Actions
    BY <1>6 DEF RollbackExecute, TypeOK
  <2>2. FailedObject(obj, "Failed") \in Object
    BY FailedFacts DEF TypeOK, Reason
  <2>3. pc' \in Stage /\ obj' \in Object /\ outcome' \in Outcome
    BY <1>6, <2>2 DEF RollbackExecute, Propose, Stage, Outcome, TypeOK
  <2>4. persona' \in [Fields -> Values \cup {None}] /\ origin' \in [Fields -> Actions \cup {User}] /\ faults' \in Nat
    <3>1. CASE RollbackRefused(cur)
      BY <1>6, <3>1 DEF RollbackExecute, TypeOK
    <3>2. CASE ~RollbackRefused(cur)
      <4>1. PICK result \in WriteResult : applyPatch(Plan[cur].pre, User, result)
        BY <1>6, <3>2 DEF RollbackExecute
      <4>2. Plan[cur].pre \in Patches
        BY <2>1, <3>2, PlanAssumption DEF RollbackRefused, PlanType
      <4> QED
        BY <4>1, <4>2, PatchType
    <3> QED BY <3>1, <3>2
  <2> QED
    BY <1>6, <2>1, <2>3, <2>4 DEF RollbackExecute, TypeOK
<1>6a. CASE InspectWorkload
  <2>1. cur \in Actions /\ \A b : RolledBackObject(obj, cur, b) \in Object
    BY <1>6a, RolledBackFacts DEF InspectWorkload, TypeOK
  <2>2. pc' \in Stage /\ obj' \in Object /\ outcome' \in Outcome
    BY <1>6a, <2>1 DEF InspectWorkload, Propose, Stage, Outcome
  <2> QED
    BY <1>6a, <2>1, <2>2 DEF InspectWorkload, TypeOK
<1>7. CASE WriteStatus \/ WriteStatusReplyLost
  <2>1. cur \in Actions
    BY <1>7 DEF WriteStatus, WriteStatusReplyLost, TypeOK
  <2>2. act' \in [Actions -> Object]
    BY <1>7, <2>1, StoredFacts DEF WriteStatus, WriteStatusReplyLost, TypeOK
  <2>3. pc' \in Stage /\ obj' \in Object /\ outcome' \in Outcome /\ (pc' # "idle" => cur' \in Actions)
    BY <1>7, <2>1, DoneType DEF WriteStatus, WriteStatusReplyLost, GoTo, TypeOK, Stage
  <2> QED
    BY <1>7, <2>2, <2>3 DEF WriteStatus, WriteStatusReplyLost, TypeOK
<1>8. CASE WriteStatusRefused
  BY <1>8, DoneType DEF WriteStatusRefused, TypeOK
<1>9. CASE UpdateIncidentSpec \/ UpdateIncidentStatus
  <2>1. cur \in Actions
    BY <1>9 DEF UpdateIncidentSpec, UpdateIncidentStatus, TypeOK
  <2>2. incident' \in [Actions -> Incident]
    BY <1>9, <2>1 DEF UpdateIncidentSpec, UpdateIncidentStatus, TypeOK, Incident
  <2>3. pc' \in Stage /\ obj' \in Object /\ outcome' \in Outcome /\ (pc' # "idle" => cur' \in Actions)
    BY <1>9, <2>1, DoneType DEF UpdateIncidentSpec, UpdateIncidentStatus, GoTo, TypeOK, Stage
  <2> QED
    BY <1>9, <2>2, <2>3 DEF UpdateIncidentSpec, UpdateIncidentStatus, TypeOK
<1>10. CASE UpdateIncidentFails
  BY <1>10, DoneType DEF UpdateIncidentFails, TypeOK
<1>11. ASSUME NEW a \in Actions, recordRejection(a) PROVE TypeOK'
  <2>1. setCondition(act[a].conds, "Rejected", "True", "UserRejected", 0) \in Conditions
    <3>1. act[a].conds \in Conditions
      BY DEF TypeOK, Object, Conditions
    <3>2. "Rejected" \in ConditionType /\ "True" \in Status /\ "UserRejected" \in Reason /\ 0 \in Nat
      BY DEF ConditionType, Status, Reason
    <3> QED BY <3>1, <3>2, SetCondition
  <2>2. act' \in [Actions -> Object]
    <3>1. PICK c \in Conditions : c = setCondition(act[a].conds, "Rejected", "True", "UserRejected", 0)
      BY <2>1
    <3>2. act' = [act EXCEPT ![a].conds = c, ![a].rv = @ + 1]
      BY <1>11, <3>1 DEF recordRejection
    <3>3. act \in [Actions -> Object]
      BY DEF TypeOK
    <3> QED BY <3>2, <3>3 DEF Object, Conditions
  <2> QED
    BY <1>11, <2>2 DEF recordRejection, TypeOK
<1>12. ASSUME NEW a \in Actions, Approve(a) \/ Reject(a) \/ TouchAction(a) PROVE TypeOK'
  <2>1. PICK p \in Phase : act' = [act EXCEPT ![a] = [act[a] EXCEPT !.phase = p, !.rv = act[a].rv + 1]]
    <3>1. "Approved" \in Phase /\ "Rejected" \in Phase
      BY DEF Phase, Settled
    <3>2. CASE Approve(a)
      BY <3>1, <3>2 DEF Approve
    <3>3. CASE Reject(a)
      BY <3>1, <3>3 DEF Reject
    <3>4. CASE TouchAction(a)
      <4>1. act[a] \in Object /\ act[a].phase \in Phase
        BY DEF TypeOK, Object
      <4>2. [act[a] EXCEPT !.rv = act[a].rv + 1] = [act[a] EXCEPT !.phase = act[a].phase, !.rv = act[a].rv + 1]
        BY <4>1 DEF Object
      <4> QED BY <3>4, <4>1, <4>2 DEF TouchAction
    <3> QED BY <1>12, <3>2, <3>3, <3>4
  <2>2. [act[a] EXCEPT !.phase = p, !.rv = act[a].rv + 1] \in Object
    <3>1. act[a] \in Object
      BY DEF TypeOK
    <3>2. PICK n \in Nat : n = act[a].rv + 1
      BY <3>1 DEF Object
    <3>3. [act[a] EXCEPT !.phase = p, !.rv = n] \in Object
      BY <3>1 DEF Object
    <3> QED BY <3>2, <3>3
  <2>3. act' \in [Actions -> Object]
    BY <2>1, <2>2 DEF TypeOK
  <2> QED
    BY <1>12, <2>3 DEF Approve, Reject, TouchAction, TypeOK
<1>13. ASSUME NEW a \in Actions, Heal(a) PROVE TypeOK'
  <2>1. Plan[a].patch \in Patches
    BY <1>13, PlanAssumption DEF Heal, PlanType
  <2>2. live' \in [Fields -> Values \cup {None}]
    BY <1>13, <2>1, MergeType DEF Heal, TypeOK
  <2>3. liveOrigin' \in [Fields -> Actions \cup {User}]
    BY <1>13 DEF Heal, TypeOK
  <2> QED
    BY <1>13, <2>2, <2>3 DEF Heal, TypeOK
<1>14. ASSUME NEW f \in Fields, NEW v \in Values, EditLive(f, v) \/ EditPersona(f, v) PROVE TypeOK'
  BY <1>14 DEF EditLive, EditPersona, TypeOK
<1>15. ASSUME NEW a \in Actions, SyncCache(a) PROVE TypeOK'
  BY <1>15 DEF SyncCache, TypeOK
<1>16. CASE Tick \/ SyncLive
  BY <1>16 DEF Tick, SyncLive, TypeOK
<1>17. CASE Crash
  BY <1>17, DoneType DEF Crash, TypeOK
<1>18. CASE UNCHANGED vars
  BY <1>18 DEF vars, TypeOK
<1> QED
  BY <1>1, <1>2, <1>3, <1>4, <1>5, <1>6, <1>6a, <1>7, <1>8, <1>9, <1>10, <1>11, <1>12, <1>13,
     <1>14, <1>15, <1>16, <1>17, <1>18 DEF Next, Reconcile, Environment

-----------------------------------------------------------------------------
(***************************************************************************)
(* The invariant is inductive.  One lemma per kind of step.                *)
(***************************************************************************)
Rest == Copies /\ Writers /\ Versions /\ Worker /\ Order /\ Rollbacks /\ Incidents

\* A client's write, or the rejection stamp, changes one object: a new version,
\* and of the phase only what a human may decide.
ClientWrite(a) == Approve(a) \/ Reject(a) \/ TouchAction(a) \/ recordRejection(a)

\* What such a write changes, and what it leaves alone.
LEMMA ClientFacts ==
    ASSUME TypeOK, NEW a \in Actions, ClientWrite(a)
    PROVE  /\ \A b \in Actions : b # a => act'[b] = act[b]
           /\ act'[a].rv = act[a].rv + 1
           /\ act'[a].appliedAt = act[a].appliedAt
           /\ act'[a].conds["Applied"] = act[a].conds["Applied"]
           /\ \/ act'[a].phase = act[a].phase /\ approved' = approved
              \/ /\ act'[a].phase = "Rejected" /\ approved' = approved
                 /\ act[a].phase \in {"Pending", "Approved", "Applying"}
              \/ /\ act'[a].phase = "Approved" /\ approved' = approved \cup {a}
                 /\ act[a].phase = "Pending"
           /\ UNCHANGED <<cache, persona, origin, incident, pc, cur, obj, outcome, written>>
<1> USE DEF world, worker, hist
<1>1. act[a] \in Object /\ act[a].conds \in Conditions
  BY DEF TypeOK, Object, Conditions
<1>2. CASE Approve(a)
  BY <1>1, <1>2 DEF Approve, TypeOK, Object
<1>3. CASE Reject(a)
  BY <1>1, <1>3 DEF Reject, TypeOK, Object
<1>4. CASE TouchAction(a)
  BY <1>1, <1>4 DEF TouchAction, TypeOK, Object
<1>5. CASE recordRejection(a)
  <2>1. /\ "Rejected" \in ConditionType /\ "True" \in Status /\ "UserRejected" \in Reason
        /\ 0 \in Nat /\ "Applied" \in ConditionType /\ "Applied" # "Rejected"
    BY DEF ConditionType, Status, Reason
  <2>2. PICK c \in Conditions : /\ c = setCondition(act[a].conds, "Rejected", "True", "UserRejected", 0)
                                /\ c["Applied"] = act[a].conds["Applied"]
    BY <1>1, <2>1, SetCondition
  <2>3. act' = [act EXCEPT ![a].conds = c, ![a].rv = act[a].rv + 1]
    BY <1>5, <2>2 DEF recordRejection
  <2> QED
    BY <1>1, <1>5, <2>2, <2>3 DEF recordRejection, TypeOK, Object
<1> QED
  BY <1>2, <1>3, <1>4, <1>5 DEF ClientWrite

\* A client's write makes every copy the worker holds outdated, and takes
\* nothing back that the invariant says.
LEMMA ClientInv ==
    ASSUME TypeOK, Rest, NEW a \in Actions, ClientWrite(a)
    PROVE  Rest'
<1>1. /\ \A b \in Actions : b # a => act'[b] = act[b]
      /\ act'[a].rv = act[a].rv + 1
      /\ act'[a].appliedAt = act[a].appliedAt
      /\ act'[a].conds["Applied"] = act[a].conds["Applied"]
      /\ UNCHANGED <<cache, persona, origin, incident, pc, cur, obj, outcome, written>>
      /\ approved \subseteq approved'
  BY ClientFacts
<1>2. \/ act'[a].phase = act[a].phase /\ approved' = approved
      \/ /\ act'[a].phase = "Rejected" /\ approved' = approved
         /\ act[a].phase \in {"Pending", "Approved", "Applying"}
      \/ /\ act'[a].phase = "Approved" /\ approved' = approved \cup {a}
         /\ act[a].phase = "Pending"
  BY ClientFacts
<1>3. \A b \in Actions : act[b].rv \in Nat /\ cache[b].rv \in Nat
  BY DEF TypeOK, Object
<1>4. obj.rv \in Nat /\ (pc # "idle" => cur \in Actions)
  BY DEF TypeOK, Object
<1>5. Copies'
  <2>1. \A b \in Actions : CopyOK(b, act[b])' /\ CopyOK(b, cache[b])'
    BY <1>1, <1>2 DEF Rest, Copies, CopyOK, AppliedPhases
  <2>2. (pc # "idle" => CopyOK(cur, obj))'
    BY <1>1 DEF Rest, Copies, CopyOK
  <2> QED BY <2>1, <2>2 DEF Copies
<1>6. Writers'
  BY <1>1, <1>2 DEF Rest, Writers, TypeOK
<1>7. Versions'
  <2> SUFFICES ASSUME NEW b \in Actions
               PROVE  cache'[b].rv <= act'[b].rv /\ (cache'[b].rv = act'[b].rv => cache'[b].phase = act'[b].phase)
    BY DEF Versions
  <2>1. CASE b = a
    BY <1>1, <1>3, <2>1 DEF Rest, Versions
  <2>2. CASE b # a
    BY <1>1, <2>2 DEF Rest, Versions
  <2> QED BY <2>1, <2>2
<1>8. Worker'
  <2>1. CASE cur # a \/ pc = "idle"
    BY <1>1, <1>4, <2>1 DEF Rest, Worker, Fresh, LegalMove
  <2>2. CASE cur = a
    BY <1>1, <1>3, <1>4, <2>2 DEF Rest, Worker, Fresh
  <2> QED BY <2>1, <2>2
<1>9. Order'
  <2>1. \A b \in Actions : act'[b].phase \in VerdictPhases => act[b].phase \in VerdictPhases
    BY <1>1, <1>2 DEF VerdictPhases
  <2>2. (pc = "write" /\ Fresh /\ act[cur].phase = "Applying" => cache[cur].phase # "Approved")'
    <3>1. CASE cur = a
      BY <1>1, <1>3, <1>4, <3>1 DEF Rest, Worker, Fresh
    <3>2. CASE cur # a
      BY <1>1, <1>4, <3>2 DEF Rest, Order, Fresh
    <3> QED BY <3>1, <3>2
  <2> QED BY <1>1, <2>1, <2>2 DEF Rest, Order
<1>10. Rollbacks'
  BY <1>1, <1>2 DEF Rest, Rollbacks, Undone
<1>11. Incidents'
  <2>1. \A b \in Actions : act[b].phase = "Completed" => act'[b].phase = "Completed"
    BY <1>1, <1>2
  <2> QED BY <1>1, <1>4, <2>1 DEF Rest, Incidents, IncidentClosedOnlyByCompleted
<1> QED
  BY <1>5, <1>6, <1>7, <1>8, <1>9, <1>10, <1>11 DEF Rest

\* The worker starts on a cached copy; whatever that copy says of itself holds.
LEMMA StartInv ==
    ASSUME TypeOK, Rest, NEW a \in Actions,
           handleApproved(a) \/ handleApplying(a) \/ handleVerifying(a)
    PROVE  Rest'
<1> USE DEF store, world, hist
<1>1. /\ UNCHANGED <<act, cache, origin, incident, approved, written>>
      /\ pc = "idle" /\ cur' = a /\ cache[a] \in Object
  BY DEF handleApproved, handleApplying, handleVerifying, Begin, TypeOK
<1>2. /\ pc' \in {"apply", "verify", "write"}
      /\ obj'.rv = cache[a].rv
      /\ CopyOK(a, obj')
      /\ pc' = "apply" => /\ obj' = cache[a] /\ obj'.phase = "Approved"
                          /\ HasAutoApplicableChange(a) /\ validatePreconditions(a)
      /\ pc' = "verify" => obj' = cache[a] /\ obj'.phase = "Verifying"
      /\ pc' = "write" => /\ LegalMove(cache[a].phase, obj'.phase)
                          /\ obj'.phase \in {"Acknowledged", "Failed", "Verifying"}
                          /\ outcome' # "resolved"
  <2>0. CopyOK(a, cache[a])
    BY DEF Rest, Copies
  <2>1. CASE handleApproved(a)
    <3>1. cache[a].phase = "Approved"
      BY <2>1 DEF handleApproved, Begin
    <3>2. CASE ~HasAutoApplicableChange(a)
      <4>1. pc' = "write" /\ obj' = AcknowledgedObject(cache[a]) /\ outcome' = "acknowledged"
        BY <2>1, <3>2 DEF handleApproved, Propose
      <4>2. /\ obj'.phase = "Acknowledged" /\ obj'.rv = cache[a].rv
            /\ obj'.conds["Applied"].reason = "AdvisoryOnly"
        BY <1>1, <4>1, AcknowledgedFacts
      <4> QED BY <2>0, <3>1, <3>2, <4>1, <4>2 DEF CopyOK, LegalMove, AppliedPhases
    <3>3. CASE HasAutoApplicableChange(a) /\ ~validatePreconditions(a)
      <4>1. pc' = "write" /\ obj' = FailedObject(cache[a], "PreconditionRejected") /\ outcome' = "failed"
        BY <2>1, <3>3 DEF handleApproved, Propose
      <4>2. obj'.phase = "Failed" /\ obj'.rv = cache[a].rv
        BY <1>1, <4>1, FailedFacts DEF Reason
      <4> QED BY <2>0, <3>1, <3>3, <4>1, <4>2 DEF CopyOK, LegalMove, AppliedPhases
    <3>4. CASE HasAutoApplicableChange(a) /\ validatePreconditions(a)
      <4>1. pc' = "apply" /\ obj' = cache[a]
        BY <2>1, <3>4 DEF handleApproved
      <4> QED BY <2>0, <3>1, <3>4, <4>1
    <3> QED BY <3>2, <3>3, <3>4
  <2>2. CASE handleApplying(a)
    <3>1. cache[a].phase = "Applying"
      BY <2>2 DEF handleApplying, Begin
    <3>2. cache[a].appliedAt
      BY <2>0, <3>1 DEF CopyOK, AppliedPhases
    <3>3. pc' = "write" /\ obj' = [cache[a] EXCEPT !.phase = "Verifying"] /\ outcome' = "none"
      BY <2>2, <3>2 DEF handleApplying, Propose
    <3>4. /\ obj'.phase = "Verifying" /\ obj'.rv = cache[a].rv /\ obj'.appliedAt = cache[a].appliedAt
          /\ obj'.conds = cache[a].conds
      BY <1>1, <3>3 DEF Object
    <3> QED BY <2>0, <3>1, <3>3, <3>4 DEF CopyOK, LegalMove, AppliedPhases
  <2>3. CASE handleVerifying(a)
    BY <2>0, <2>3 DEF handleVerifying, Begin
  <2> QED BY <2>1, <2>2, <2>3
<1>3. act[a].rv \in Nat /\ cache[a].rv \in Nat
  BY DEF TypeOK, Object
<1>4. Copies'
  BY <1>1, <1>2 DEF Rest, Copies, CopyOK
<1>5. Writers' /\ Versions'
  BY <1>1 DEF Rest, Writers, Versions
<1>6. /\ obj'.rv <= act'[a].rv
      /\ obj'.rv = act'[a].rv => cache[a].phase = act'[a].phase
  BY <1>1, <1>2 DEF Rest, Versions
<1>7. Worker'
  BY <1>1, <1>2, <1>6 DEF Worker, Fresh
<1>8. Order'
  <2>1. act[a].phase \in VerdictPhases => cache[a].phase # "Approved"
    BY DEF Rest, Order
  <2>2. ~(act[a].phase \in VerdictPhases /\ pc' = "apply")
    BY <1>2, <2>1
  <2>3. (pc = "write" /\ Fresh /\ act[cur].phase = "Applying" => cache[cur].phase # "Approved")'
    BY <1>1, <1>6 DEF Fresh
  <2> QED BY <1>1, <2>2, <2>3 DEF Rest, Order
<1>9. Rollbacks'
  BY <1>1, <1>2 DEF Rest, Rollbacks, Undone
<1>10. Incidents'
  BY <1>1, <1>2 DEF Rest, Incidents, IncidentClosedOnlyByCompleted
<1> QED
  BY <1>4, <1>5, <1>7, <1>8, <1>9, <1>10 DEF Rest

\* The executor writes only for an approved, well-formed plan whose verification
\* cannot have begun.
LEMMA ApplyInv == ASSUME TypeOK, Rest, ExecutorApply PROVE Rest'
<1> USE DEF store, world, hist
<1>1. /\ UNCHANGED <<act, cache, cur, incident, approved>>
      /\ pc = "apply" /\ cur \in Actions /\ obj \in Object
  BY DEF ExecutorApply, TypeOK
<1>2. PICK result \in WriteResult : ExecutorApply!2!(result)
  BY DEF ExecutorApply
<1>3. /\ obj.phase = "Approved" /\ obj.rv <= act[cur].rv
      /\ HasAutoApplicableChange(cur) /\ validatePreconditions(cur)
      /\ Fresh => act[cur].phase = "Approved"
      /\ act[cur].phase \notin VerdictPhases
  BY <1>1 DEF Rest, Worker, Order
<1>4. cur \in approved
  BY <1>1, <1>3 DEF Rest, Copies, CopyOK
<1>5. written \subseteq written' /\ written' \subseteq written \cup {cur}
  BY <1>2
<1>6. /\ pc' = "write" /\ outcome' # "resolved" /\ obj'.rv = obj.rv
      /\ \/ obj'.phase = "Applying" /\ obj'.appliedAt /\ cur \in written'
         \/ obj'.phase = "Failed"
      /\ obj'.conds["Applied"].reason # "PreconditionRejected"
  <2>1. CASE result = "ok"
    <3>1. pc' = "write" /\ obj' = AppliedObject(obj) /\ outcome' = "none" /\ cur \in written'
      BY <1>2, <2>1 DEF ApplyFailed, Propose
    <3> QED BY <1>1, <3>1, AppliedFacts
  <2>2. CASE result # "ok"
    <3>1. pc' = "write" /\ obj' = FailedObject(obj, "Failed") /\ outcome' = "failed"
      BY <1>2, <2>2 DEF ApplyFailed, Propose
    <3> QED BY <1>1, <3>1, FailedFacts DEF Reason
  <2> QED BY <2>1, <2>2
<1>7. Copies'
  <2>1. \A b \in Actions : CopyOK(b, act[b])' /\ CopyOK(b, cache[b])'
    BY <1>1, <1>5 DEF Rest, Copies, CopyOK
  <2>2. CopyOK(cur, obj)'
    BY <1>1, <1>4, <1>6 DEF CopyOK, AppliedPhases
  <2> QED BY <2>1, <2>2 DEF Copies
<1>8. Writers'
  BY <1>1, <1>3, <1>4, <1>5 DEF Rest, Writers
<1>9. Versions'
  BY <1>1 DEF Rest, Versions
<1>10. Worker'
  BY <1>1, <1>3, <1>6 DEF Worker, Fresh, LegalMove
<1>11. Order'
  BY <1>1, <1>3, <1>6 DEF Rest, Order, Fresh
<1>12. Rollbacks'
  <2>1. \A b \in Actions : act[b].phase = "RolledBack" => b # cur
    BY <1>3 DEF VerdictPhases
  <2>2. \A b \in Actions, f \in Fields : b # cur /\ origin'[f] = b => origin[f] = b
    BY <1>2, <1>1 DEF applyPatch, TypeOK
  <2>3. \A b \in Actions : Plan[b].pre \in Patches => DOMAIN Plan[b].pre \subseteq Fields
    BY DEF Patches
  <2>4. ASSUME NEW b \in Actions, act[b].phase = "RolledBack" PROVE Undone(b)'
    BY <2>1, <2>2, <2>3, <2>4 DEF Rest, Rollbacks, Undone
  <2> QED BY <1>1, <1>6, <2>4 DEF Rollbacks
<1>13. Incidents'
  BY <1>1, <1>6 DEF Rest, Incidents, IncidentClosedOnlyByCompleted
<1> QED
  BY <1>7, <1>8, <1>9, <1>10, <1>11, <1>12, <1>13 DEF Rest

\* A verdict changes only the local copy, to a phase that Verifying may lead to.
LEMMA VerifyInv == ASSUME TypeOK, Rest, RunVerifier PROVE Rest'
<1> USE DEF store, world, hist
<1>1. /\ UNCHANGED <<act, cache, cur, origin, incident, approved, written>>
      /\ pc = "verify" /\ cur \in Actions /\ obj \in Object
  BY DEF RunVerifier, TypeOK
<1>2. PICK readable \in BOOLEAN, signals \in SUBSET Signals : RunVerifier!2!(readable, signals)
  BY DEF RunVerifier
<1>3. /\ obj.phase = "Verifying" /\ obj.rv <= act[cur].rv /\ CopyOK(cur, obj)
      /\ Fresh => act[cur].phase = "Verifying"
  BY <1>1 DEF Rest, Worker, Copies
<1> DEFINE o == [obj EXCEPT !.verdict = Verify(readable, signals)]
<1>4. /\ o \in Object /\ o.phase = obj.phase /\ o.rv = obj.rv
      /\ o.appliedAt = obj.appliedAt /\ o.conds = obj.conds
  <2>1. Verify(readable, signals) \in Verdict
    BY DEF Verify, Verdict
  <2> QED BY <1>1, <2>1 DEF Object
<1>5. handleVerificationHealthy(o) \/ handleVerificationDegraded(o) \/ handleVerificationUnknown(o)
  BY <1>2
<1> HIDE DEF o
<1>6. /\ pc' \in {"write", "rollback"} /\ obj'.rv = obj.rv /\ CopyOK(cur, obj')
      /\ pc' = "rollback" => obj'.phase = "Verifying"
      /\ pc' = "write" => /\ obj'.phase \in {"Completed", "Failed", "Verifying"}
                          /\ outcome' = "resolved" => obj'.phase = "Completed"
  <2>1. CASE handleVerificationHealthy(o)
    <3>1. pc' = "write" /\ obj' = CompletedObject(o) /\ outcome' = "resolved"
      BY <2>1 DEF handleVerificationHealthy, Propose
    <3>2. /\ obj'.phase = "Completed" /\ obj'.appliedAt = o.appliedAt /\ obj'.rv = o.rv
          /\ obj'.conds["Applied"] = o.conds["Applied"]
      BY <1>4, <3>1, CompletedFacts
    <3> QED BY <1>3, <1>4, <3>1, <3>2 DEF CopyOK, AppliedPhases
  <2>2. CASE handleVerificationDegraded(o)
    <3>1. pc' = "rollback" /\ obj' = o
      BY <2>2 DEF handleVerificationDegraded
    <3> QED BY <1>3, <1>4, <3>1 DEF CopyOK
  <2>3. CASE handleVerificationUnknown(o)
    <3>1. CASE getRetryCount(o.conds) >= maxUnknownRetries
      <4>1. pc' = "write" /\ obj' = FailedObject(o, "Failed") /\ outcome' = "failed"
        BY <2>3, <3>1 DEF handleVerificationUnknown, Propose
      <4>2. obj'.phase = "Failed" /\ obj'.rv = o.rv /\ obj'.conds["Applied"].reason = "Failed"
        BY <1>4, <4>1, FailedFacts DEF Reason
      <4> QED BY <1>3, <1>4, <4>1, <4>2 DEF CopyOK, AppliedPhases
    <3>2. CASE ~(getRetryCount(o.conds) >= maxUnknownRetries)
      <4>1. pc' = "write" /\ obj' = RetryObject(o) /\ outcome' = "none"
        BY <2>3, <3>2 DEF handleVerificationUnknown, Propose
      <4>2. /\ obj'.phase = o.phase /\ obj'.appliedAt = o.appliedAt /\ obj'.rv = o.rv
            /\ obj'.conds["Applied"] = o.conds["Applied"]
        BY <1>4, <4>1, RetryFacts
      <4> QED BY <1>3, <1>4, <4>1, <4>2 DEF CopyOK, AppliedPhases
    <3> QED BY <3>1, <3>2
  <2> QED BY <1>5, <2>1, <2>2, <2>3
<1>7. Copies'
  BY <1>1, <1>6 DEF Rest, Copies, CopyOK
<1>8. Writers' /\ Versions'
  BY <1>1 DEF Rest, Writers, Versions
<1>9. Worker'
  BY <1>1, <1>3, <1>6 DEF Worker, Fresh, LegalMove
<1>10. Order'
  BY <1>1, <1>3, <1>6 DEF Rest, Order, Fresh
<1>11. Rollbacks'
  BY <1>1, <1>6 DEF Rest, Rollbacks, Undone
<1>12. Incidents'
  BY <1>1, <1>6 DEF Rest, Incidents, IncidentClosedOnlyByCompleted
<1> QED
  BY <1>7, <1>8, <1>9, <1>10, <1>11, <1>12 DEF Rest

\* A rollback that reports success has put the snapshot back.
LEMMA RollbackInv == ASSUME TypeOK, Rest, RollbackExecute PROVE Rest'
<1> USE DEF store, world, hist
<1>1. /\ UNCHANGED <<act, cache, cur, incident, approved, written>>
      /\ pc = "rollback" /\ cur \in Actions /\ obj \in Object
  BY DEF RollbackExecute, TypeOK
<1>2. /\ obj.phase = "Verifying" /\ obj.rv <= act[cur].rv /\ CopyOK(cur, obj)
      /\ Fresh => act[cur].phase = "Verifying"
  BY <1>1 DEF Rest, Worker, Copies
<1>3. \A b \in Actions, f \in Fields : origin'[f] = b => origin[f] = b
  <2>1. CASE RollbackRefused(cur)
    BY <2>1 DEF RollbackExecute
  <2>2. CASE ~RollbackRefused(cur)
    <3>1. PICK result \in WriteResult : applyPatch(Plan[cur].pre, User, result)
      BY <2>2 DEF RollbackExecute
    <3> QED BY <3>1, UserAssumption DEF applyPatch, TypeOK
  <2> QED BY <2>1, <2>2
<1>4. /\ obj'.rv = obj.rv /\ CopyOK(cur, obj')
      /\ \/ pc' = "write" /\ outcome' # "resolved" /\ obj'.phase = "Failed"
         \/ pc' = "inspect" /\ obj' = obj /\ Undone(cur)'
  <2>1. CASE obj' = FailedObject(obj, "Failed") /\ pc' = "write" /\ outcome' = "failed"
    <3>1. obj'.phase = "Failed" /\ obj'.rv = obj.rv /\ obj'.conds["Applied"].reason = "Failed"
      BY <1>1, <2>1, FailedFacts DEF Reason
    <3> QED BY <1>2, <2>1, <3>1 DEF CopyOK, AppliedPhases
  <2>2. ASSUME ~RollbackRefused(cur), applyPatch(Plan[cur].pre, User, "ok")
        PROVE  Undone(cur)'
    <3>1. Plan[cur].pre \in Patches /\ DOMAIN Plan[cur].pre \subseteq Fields
      BY <1>1, <2>2, PlanAssumption DEF RollbackRefused, PlanType, Patches
    <3>2. \A f \in DOMAIN Plan[cur].pre : origin'[f] = User
      BY <2>2, <3>1 DEF applyPatch
    <3> QED BY <1>1, <3>1, <3>2, UserAssumption DEF Undone
  <2>3. \/ obj' = FailedObject(obj, "Failed") /\ pc' = "write" /\ outcome' = "failed"
        \/ /\ ~RollbackRefused(cur) /\ applyPatch(Plan[cur].pre, User, "ok")
           /\ pc' = "inspect" /\ obj' = obj
    BY DEF RollbackExecute, RollbackFailed, Propose
  <2>4. CASE pc' = "inspect" /\ obj' = obj /\ Undone(cur)'
    BY <1>2, <2>4
  <2> QED BY <2>1, <2>2, <2>3, <2>4
<1>5. Copies'
  BY <1>1, <1>4 DEF Rest, Copies, CopyOK
<1>6. Writers' /\ Versions'
  BY <1>1 DEF Rest, Writers, Versions
<1>7. Worker'
  BY <1>1, <1>2, <1>4 DEF Worker, Fresh, LegalMove
<1>8. Order'
  BY <1>1, <1>2, <1>4 DEF Rest, Order, Fresh
<1>9. Rollbacks'
  <2>1. \A b \in Actions : Plan[b].pre \in Patches => DOMAIN Plan[b].pre \subseteq Fields
    BY DEF Patches
  <2>2. ASSUME NEW b \in Actions, act[b].phase = "RolledBack" PROVE Undone(b)'
    BY <1>3, <2>1, <2>2 DEF Rest, Rollbacks, Undone
  <2> QED BY <1>1, <1>4, <2>2 DEF Rollbacks
<1>10. Incidents'
  BY <1>1, <1>4 DEF Rest, Incidents, IncidentClosedOnlyByCompleted
<1> QED
  BY <1>5, <1>6, <1>7, <1>8, <1>9, <1>10 DEF Rest

\* The inspection only decides what the local copy says of the rollback.
LEMMA InspectInv == ASSUME TypeOK, Rest, InspectWorkload PROVE Rest'
<1> USE DEF store, world
<1>1. /\ UNCHANGED <<act, cache, cur, origin, incident, approved, written>>
      /\ pc = "inspect" /\ cur \in Actions /\ obj \in Object
  BY DEF InspectWorkload, TypeOK
<1>2. /\ obj.phase = "Verifying" /\ obj.rv <= act[cur].rv /\ CopyOK(cur, obj)
      /\ Fresh => act[cur].phase = "Verifying"
      /\ Undone(cur)
  <2>1. /\ obj.phase = "Verifying" /\ obj.rv <= act[cur].rv /\ CopyOK(cur, obj)
        /\ Fresh => act[cur].phase = "Verifying"
    BY <1>1 DEF Rest, Worker, Copies
  <2>2. Undone(cur)
    BY <1>1 DEF Rest, Rollbacks
  <2> QED BY <2>1, <2>2
<1>3. /\ pc' = "write" /\ outcome' # "resolved" /\ obj'.rv = obj.rv /\ CopyOK(cur, obj')
      /\ obj'.phase = "RolledBack"
  <2>1. PICK readable \in BOOLEAN : obj' = RolledBackObject(obj, cur, readable)
    BY DEF InspectWorkload, Propose
  <2>2. pc' = "write" /\ outcome' = "rollback"
    BY DEF InspectWorkload, Propose
  <2>3. /\ obj'.phase = "RolledBack" /\ obj'.rv = obj.rv /\ obj'.appliedAt = obj.appliedAt
        /\ obj'.conds["Applied"] = obj.conds["Applied"]
    BY <1>1, <2>1, RolledBackFacts
  <2> QED BY <1>2, <2>2, <2>3 DEF CopyOK, AppliedPhases
<1>4. Copies'
  BY <1>1, <1>3 DEF Rest, Copies, CopyOK
<1>5. Writers' /\ Versions'
  BY <1>1 DEF Rest, Writers, Versions
<1>6. Worker'
  BY <1>1, <1>2, <1>3 DEF Worker, Fresh, LegalMove
<1>7. Order'
  BY <1>1, <1>2, <1>3 DEF Rest, Order, Fresh
<1>8. Rollbacks'
  BY <1>1, <1>2 DEF Rest, Rollbacks, Undone
<1>9. Incidents'
  BY <1>1, <1>3 DEF Rest, Incidents, IncidentClosedOnlyByCompleted
<1> QED
  BY <1>4, <1>5, <1>6, <1>7, <1>8, <1>9 DEF Rest

\* A status write that is not refused was computed from the stored object, so
\* what held of the copy holds of the store.
LEMMA WriteInv == ASSUME TypeOK, Rest, WriteStatus \/ WriteStatusReplyLost PROVE Rest'
<1> USE DEF world, hist
<1>1. /\ UNCHANGED <<cache, origin, incident, approved, written>>
      /\ pc = "write" /\ Fresh /\ cur \in Actions /\ obj \in Object
      /\ act' = [act EXCEPT ![cur] = Stored(obj)]
  BY DEF WriteStatus, WriteStatusReplyLost, Conflicts, Fresh, TypeOK
<1>2. /\ pc' \in {"idle", "incident"}
      /\ pc' = "incident" => cur' = cur /\ obj' = obj /\ outcome' = outcome
  BY DEF WriteStatus, WriteStatusReplyLost, Done, GoTo
<1>3. /\ act'[cur].phase = obj.phase /\ act'[cur].appliedAt = obj.appliedAt
      /\ act'[cur].conds = obj.conds
      /\ act'[cur].rv = obj.rv => act'[cur] = act[cur]
      /\ act'[cur].rv = obj.rv \/ act'[cur].rv = obj.rv + 1
  <2>1. act'[cur] = Stored(obj)
    BY <1>1 DEF TypeOK
  <2> QED BY <1>1, <2>1, StoredFacts DEF Stored
<1>4. \A b \in Actions : b # cur => act'[b] = act[b]
  BY <1>1 DEF TypeOK
<1>5. LegalMove(act[cur].phase, obj.phase) /\ obj.rv = act[cur].rv
  BY <1>1 DEF Rest, Worker, Fresh
<1>6. Copies'
  <2>1. \A b \in Actions : CopyOK(b, act[b])' /\ CopyOK(b, cache[b])'
    BY <1>1, <1>3, <1>4 DEF Rest, Copies, CopyOK
  <2>2. (pc # "idle" => CopyOK(cur, obj))'
    BY <1>1, <1>2 DEF Rest, Copies, CopyOK
  <2> QED BY <2>1, <2>2 DEF Copies
<1>7. Writers'
  BY <1>1, <1>3, <1>4, <1>5 DEF Rest, Writers, LegalMove, TypeOK
<1>8. Versions'
  <2> SUFFICES ASSUME NEW b \in Actions
               PROVE  cache[b].rv <= act'[b].rv /\ (cache[b].rv = act'[b].rv => cache[b].phase = act'[b].phase)
    BY <1>1 DEF Versions
  <2>1. CASE b # cur
    BY <1>4, <2>1 DEF Rest, Versions
  <2>2. CASE b = cur
    <3>1. cache[cur].rv \in Nat /\ obj.rv \in Nat /\ cache[cur].rv <= obj.rv
      BY <1>1, <1>5 DEF Rest, Versions, TypeOK, Object
    <3>2. CASE act'[cur].rv = obj.rv
      BY <1>1, <1>3, <1>5, <2>2, <3>2 DEF Rest, Versions
    <3>3. CASE act'[cur].rv = obj.rv + 1
      BY <2>2, <3>1, <3>3
    <3> QED BY <1>3, <3>2, <3>3
  <2> QED BY <2>1, <2>2
<1>9. Worker'
  BY <1>2 DEF Worker
<1>10. Order'
  <2>1. ASSUME NEW b \in Actions, act'[b].phase \in VerdictPhases PROVE cache[b].phase # "Approved"
    <3>1. CASE b # cur
      BY <1>4, <2>1, <3>1 DEF Rest, Order
    <3>2. CASE b = cur
      <4>1. act[cur].phase \in {"Applying", "Verifying"}
        BY <1>3, <1>5, <2>1, <3>2 DEF LegalMove, VerdictPhases
      <4> QED BY <1>1, <3>2, <4>1 DEF Rest, Order, VerdictPhases
    <3> QED BY <3>1, <3>2
  <2> QED BY <1>1, <1>2, <2>1 DEF Order
<1>11. Rollbacks'
  <2>1. ASSUME NEW b \in Actions, act'[b].phase = "RolledBack" PROVE Undone(b)
    <3>1. CASE b # cur
      BY <1>4, <2>1, <3>1 DEF Rest, Rollbacks
    <3>2. CASE b = cur
      BY <1>1, <1>3, <2>1, <3>2 DEF Rest, Rollbacks
    <3> QED BY <3>1, <3>2
  <2> QED BY <1>1, <1>2, <2>1 DEF Rollbacks, Undone
<1>12. Incidents'
  <2>1. \A b \in Actions : act[b].phase = "Completed" => act'[b].phase = "Completed"
    BY <1>4, <1>5 DEF LegalMove
  <2>2. (pc = "incident" /\ outcome = "resolved" => act[cur].phase = "Completed")'
    BY <1>1, <1>2, <1>3 DEF Rest, Incidents
  <2> QED BY <1>1, <1>2, <2>1, <2>2 DEF Rest, Incidents, IncidentClosedOnlyByCompleted
<1> QED
  BY <1>6, <1>7, <1>8, <1>9, <1>10, <1>11, <1>12 DEF Rest

\* Writing the resolution touches only the incident, and only a completed
\* remediation is written as resolved.
LEMMA IncidentInv ==
    ASSUME TypeOK, Rest, UpdateIncidentSpec \/ UpdateIncidentStatus
    PROVE  Rest'
<1> USE DEF store, world, hist
<1>1. /\ UNCHANGED <<act, cache, origin, approved, written>>
      /\ pc \in {"incident", "incidentStatus"} /\ cur \in Actions
  BY DEF UpdateIncidentSpec, UpdateIncidentStatus, TypeOK
<1>2. /\ pc' \in {"idle", "incidentStatus"}
      /\ pc' = "incidentStatus" => /\ pc = "incident" /\ outcome = "resolved"
                                   /\ cur' = cur /\ obj' = obj /\ outcome' = outcome
  BY DEF UpdateIncidentSpec, UpdateIncidentStatus, Done, GoTo
<1>3. /\ \A b \in Actions : b # cur => incident'[b] = incident[b]
      /\ incident'[cur].label # incident[cur].label => pc = "incident" /\ outcome = "resolved"
      /\ incident'[cur].phase # incident[cur].phase => pc = "incidentStatus"
  BY <1>1 DEF UpdateIncidentSpec, UpdateIncidentStatus, TypeOK, Incident
<1>4. Copies' /\ Writers' /\ Versions' /\ Worker' /\ Order' /\ Rollbacks'
  <2>1. Copies' /\ Writers'
    BY <1>1, <1>2 DEF Rest, Copies, CopyOK, Writers
  <2>2. Versions' /\ Worker'
    BY <1>1, <1>2 DEF Rest, Versions, Worker
  <2>3. Order' /\ Rollbacks'
    BY <1>1, <1>2 DEF Rest, Order, Rollbacks, Undone
  <2> QED BY <2>1, <2>2, <2>3
<1>5. IncidentClosedOnlyByCompleted'
  BY <1>1, <1>3 DEF Rest, Incidents, IncidentClosedOnlyByCompleted
<1>6. Incidents'
  BY <1>1, <1>2, <1>5 DEF Rest, Incidents
<1> QED
  BY <1>4, <1>6 DEF Rest

\* Giving a request up, dying, and what happens outside the controller's objects.
LEMMA OtherInv ==
    ASSUME TypeOK, Rest,
           \/ WriteStatusRefused \/ UpdateIncidentFails \/ Crash \/ Tick \/ SyncLive
           \/ \E a \in Actions : Heal(a) \/ SyncCache(a)
           \/ \E f \in Fields, v \in Values : EditLive(f, v) \/ EditPersona(f, v)
           \/ UNCHANGED vars
    PROVE  Rest'
<1> USE DEF store, world, worker, hist
<1>1. UNCHANGED <<act, incident, approved, written>>
  BY DEF WriteStatusRefused, UpdateIncidentFails, Crash, Tick, SyncLive, Heal, SyncCache, EditLive,
         EditPersona, vars
<1>2. pc' = "idle" \/ UNCHANGED worker
  BY DEF WriteStatusRefused, UpdateIncidentFails, Crash, Tick, SyncLive, Heal, SyncCache, EditLive,
         EditPersona, vars, Done
<1>3. \A b \in Actions : cache'[b] = cache[b] \/ cache'[b] = act[b]
  BY DEF WriteStatusRefused, UpdateIncidentFails, Crash, Tick, SyncLive, Heal, SyncCache, EditLive,
         EditPersona, vars, TypeOK
<1>4. \A b \in Actions, f \in Fields : origin'[f] = b => origin[f] = b
  BY UserAssumption DEF WriteStatusRefused, UpdateIncidentFails, Crash, Tick, SyncLive, Heal, SyncCache,
         EditLive, EditPersona, vars, TypeOK
<1>5. Copies' /\ Writers'
  <2>1. \A b \in Actions : CopyOK(b, act[b])' /\ CopyOK(b, cache[b])'
    BY <1>1, <1>3 DEF Rest, Copies, CopyOK
  <2>2. (pc # "idle" => CopyOK(cur, obj))'
    BY <1>1, <1>2 DEF Rest, Copies, CopyOK
  <2> QED BY <1>1, <2>1, <2>2 DEF Rest, Copies, Writers
<1>6. Versions'
  <2>1. \A b \in Actions : act[b].rv \in Nat
    BY DEF TypeOK, Object
  <2> QED BY <1>1, <1>3, <2>1 DEF Rest, Versions
<1>7. Worker'
  BY <1>1, <1>2 DEF Rest, Worker, Fresh
<1>8. Order'
  <2>1. \A b \in Actions : act[b].phase \in VerdictPhases => cache'[b].phase # "Approved"
    BY <1>3 DEF Rest, Order, VerdictPhases
  <2>2. (pc = "write" /\ Fresh /\ act[cur].phase = "Applying" => cache[cur].phase # "Approved")'
    <3>1. CASE pc' = "idle"
      BY <3>1
    <3>2. CASE UNCHANGED worker
      <4>1. pc = "write" => cur \in Actions
        BY DEF TypeOK
      <4> QED BY <1>1, <1>3, <3>2, <4>1 DEF Rest, Order, Fresh
    <3> QED BY <1>2, <3>1, <3>2
  <2> QED BY <1>1, <1>2, <2>1, <2>2 DEF Rest, Order
<1>9. Rollbacks'
  <2>1. \A b \in Actions : Plan[b].pre \in Patches => DOMAIN Plan[b].pre \subseteq Fields
    BY DEF Patches
  <2>2. ASSUME NEW b \in Actions, Undone(b) PROVE Undone(b)'
    BY <1>4, <2>1, <2>2 DEF Undone
  <2>3. \A b \in Actions : act[b].phase = "RolledBack" => Undone(b)'
    BY <2>2 DEF Rest, Rollbacks
  <2>4. (pc = "inspect" \/ (pc = "write" /\ obj.phase = "RolledBack") => Undone(cur))'
    <3>1. CASE pc' = "idle"
      BY <3>1
    <3>2. CASE UNCHANGED worker
      <4>1. pc \in {"inspect", "write"} => cur \in Actions
        BY DEF TypeOK
      <4>2. pc = "inspect" \/ (pc = "write" /\ obj.phase = "RolledBack") => Undone(cur)
        BY DEF Rest, Rollbacks
      <4>3. \A f \in Fields : pc \in {"inspect", "write"} /\ origin'[f] = cur => origin[f] = cur
        BY <1>4, <4>1
      <4> QED BY <2>1, <3>2, <4>1, <4>2, <4>3 DEF Undone
    <3> QED BY <1>2, <3>1, <3>2
  <2> QED BY <1>1, <2>3, <2>4 DEF Rollbacks
<1>10. Incidents'
  BY <1>1, <1>2 DEF Rest, Incidents, IncidentClosedOnlyByCompleted
<1> QED
  BY <1>5, <1>6, <1>7, <1>8, <1>9, <1>10 DEF Rest

-----------------------------------------------------------------------------
(***************************************************************************)
(* The theorems.                                                           *)
(***************************************************************************)

\* The invariant holds initially.
LEMMA InitInv == Init => IInv
<1> SUFFICES ASSUME Init PROVE IInv
  OBVIOUS
<1>1. TypeOK
  BY InitType
<1>2. /\ \A a \in Actions : act[a] = NewObject /\ cache[a] = NewObject
      /\ NewObject.phase = "Pending" /\ NewObject.conds["Applied"].reason = "none"
  BY DEF Init, NewObject, Unset, ConditionType
<1>3. Copies /\ Writers /\ Versions /\ Worker
  <2>1. NewObject.rv \in Nat
    BY DEF NewObject
  <2> QED BY <1>2, <2>1 DEF Init, Copies, CopyOK, AppliedPhases, Writers, Versions, Worker
<1>4. Order /\ Rollbacks /\ Incidents
  BY <1>2 DEF Init, Order, VerdictPhases, Rollbacks, Incidents, IncidentClosedOnlyByCompleted
<1> QED
  BY <1>1, <1>3, <1>4 DEF IInv

\* Every step preserves the invariant.
LEMMA NextInv == IInv /\ [Next]_vars => IInv'
<1> SUFFICES ASSUME IInv, [Next]_vars PROVE IInv'
  OBVIOUS
<1>1. TypeOK /\ Rest
  BY DEF IInv, Rest
<1>2. TypeOK'
  BY <1>1, NextType DEF Rest, Worker
<1>3. Rest'
  BY <1>1, ClientInv, StartInv, ApplyInv, VerifyInv, RollbackInv, InspectInv, WriteInv, IncidentInv,
     OtherInv
     DEF Next, Reconcile, Environment, ClientWrite
<1> QED
  BY <1>2, <1>3 DEF IInv, Rest

\* The invariant holds in every reachable state.
THEOREM Invariance == Spec => []IInv
BY InitInv, NextInv, PTL DEF Spec

\* Type correctness of the lifecycle, for every set of plans.
THEOREM TypeCorrect == Spec => []TypeOK
<1>1. IInv => TypeOK
  BY DEF IInv
<1> QED
  BY <1>1, Invariance, PTL

\* The approval gate: the executor never patches the persona for a plan that no
\* human approved, for any number of actions, crashes, retries and stale copies.
THEOREM ApprovalGate == Spec => []OnlyApprovedPlansWrite
<1>1. IInv => OnlyApprovedPlansWrite
  BY DEF IInv, Writers, OnlyApprovedPlansWrite
<1> QED
  BY <1>1, Invariance, PTL

\* Acknowledged and PreconditionRejected are only said of plans that never
\* touched the persona.
THEOREM NothingApplied == Spec => []NothingAppliedIsTrue
<1>1. IInv => NothingAppliedIsTrue
  BY DEF IInv, Copies, CopyOK, Writers, NothingAppliedIsTrue
<1> QED
  BY <1>1, Invariance, PTL

\* Whatever is verified, completed or rolled back was applied before.
THEOREM VerifiedApplied == Spec => []VerifiedWasApplied
<1>1. IInv => VerifiedWasApplied
  BY DEF IInv, Copies, CopyOK, AppliedPhases, VerifiedWasApplied
<1> QED
  BY <1>1, Invariance, PTL

\* After RolledBack no field of the snapshot holds a value of the patch.
THEOREM RollbackUndoes == Spec => []RolledBackIsUndone
<1>1. IInv => RolledBackIsUndone
  BY DEF IInv, Rollbacks, Undone, RolledBackIsUndone
<1> QED
  BY <1>1, Invariance, PTL

\* The controller closes incidents for completed remediations only.
THEOREM IncidentClosure == Spec => []IncidentClosedOnlyByCompleted
<1>1. IInv => IncidentClosedOnlyByCompleted
  BY DEF IInv, Incidents
<1> QED
  BY <1>1, Invariance, PTL

-----------------------------------------------------------------------------
(***************************************************************************)
(* What a step may do to the phases, the approvals and the writes: the     *)
(* action properties and the refinement follow from it.                    *)
(***************************************************************************)
Phases == [a \in Actions |-> act[a].phase]

\* Client writes, by their effect on the phase of one action.
ClientStep(a) ==
    /\ UNCHANGED <<written, origin>>
    /\ \/ Phases' = Phases /\ approved' = approved
       \/ /\ act[a].phase \in {"Pending", "Approved", "Applying"}
          /\ Phases' = [Phases EXCEPT ![a] = "Rejected"] /\ approved' = approved
       \/ /\ act[a].phase = "Pending"
          /\ Phases' = [Phases EXCEPT ![a] = "Approved"] /\ approved' = approved \cup {a}

\* A status write, by its effect on the phase of the worker's action.
WriteStep(a, p) ==
    /\ LegalMove(act[a].phase, p)
    /\ p \in AppliedPhases => a \in written
    /\ p = "Acknowledged" => a \notin written
    /\ Phases' = [Phases EXCEPT ![a] = p]
    /\ UNCHANGED <<approved, written, origin>>

\* The executor's write to the persona.
ApplyStep(a) ==
    /\ a \in approved
    /\ act[a].phase \in {"Approved", "Applying", "Failed", "Rejected"}
    /\ Phases' = Phases
    /\ approved' = approved
    /\ written' \in {written, written \cup {a}}
    /\ \A f \in Fields : origin'[f] \in {origin[f], a}

\* Everything else.
QuietStep ==
    /\ Phases' = Phases
    /\ UNCHANGED <<approved, written>>
    /\ \A f \in Fields : origin'[f] \in {origin[f], User}

\* Every step is one of these.
LEMMA Steps ==
    ASSUME IInv, [Next]_vars
    PROVE  \/ \E a \in Actions : ClientStep(a) \/ ApplyStep(a) \/ \E p \in Phase : WriteStep(a, p)
           \/ QuietStep
<1> USE DEF store, world, worker, hist
<1>0. TypeOK /\ Rest
  BY DEF IInv, Rest
<1>1. ASSUME NEW a \in Actions, ClientWrite(a) PROVE ClientStep(a)
  BY <1>0, <1>1, ClientFacts DEF ClientStep, Phases
<1>2. CASE ExecutorApply
  <2>1. pc = "apply" /\ cur \in Actions /\ act' = act /\ approved' = approved /\ act[cur] \in Object
    BY <1>0, <1>2 DEF ExecutorApply, TypeOK
  <2>2. PICK result \in WriteResult : ExecutorApply!2!(result)
    BY <1>2 DEF ExecutorApply
  <2>3. /\ cur \in approved
        /\ act[cur].phase \notin VerdictPhases /\ act[cur].phase # "Pending"
        /\ act[cur].phase # "Acknowledged"
    BY <1>0, <2>1 DEF Rest, Worker, Order, Copies, CopyOK, Writers
  <2>4. act[cur].phase \in {"Approved", "Applying", "Failed", "Rejected"}
    BY <2>1, <2>3 DEF Object, Phase, Settled, Terminal, VerdictPhases
  <2>5. \A f \in Fields : origin'[f] \in {origin[f], cur}
    BY <2>2 DEF applyPatch
  <2>6. written' \in {written, written \cup {cur}}
    BY <2>2
  <2> QED BY <2>1, <2>3, <2>4, <2>5, <2>6 DEF ApplyStep, Phases
<1>3. CASE WriteStatus \/ WriteStatusReplyLost
  <2>1. /\ pc = "write" /\ Fresh /\ cur \in Actions /\ obj \in Object /\ obj.phase \in Phase
        /\ act' = [act EXCEPT ![cur] = Stored(obj)]
        /\ UNCHANGED <<approved, written, origin>>
    BY <1>0, <1>3 DEF WriteStatus, WriteStatusReplyLost, Conflicts, Fresh, TypeOK, Object
  <2>2. Stored(obj).phase = obj.phase
    BY <1>0, <2>1, StoredFacts
  <2>3. Phases' = [Phases EXCEPT ![cur] = obj.phase]
    BY <1>0, <2>1, <2>2 DEF Phases, TypeOK
  <2>4. LegalMove(act[cur].phase, obj.phase) /\ CopyOK(cur, obj)
    BY <1>0, <2>1 DEF Rest, Worker, Copies
  <2>5. obj.phase = "Acknowledged" => cur \notin written
    BY <1>0, <2>4 DEF CopyOK, Rest, Writers
  <2> QED BY <2>1, <2>3, <2>4, <2>5 DEF WriteStep, CopyOK
<1>4. CASE RollbackExecute
  <2>1. act' = act /\ UNCHANGED <<approved, written>>
    BY <1>4 DEF RollbackExecute
  <2>2. \A f \in Fields : origin'[f] \in {origin[f], User}
    BY <1>4 DEF RollbackExecute, applyPatch
  <2> QED BY <2>1, <2>2 DEF QuietStep, Phases
<1>5. CASE \/ \E a \in Actions : handleApproved(a) \/ handleApplying(a) \/ handleVerifying(a)
           \/ RunVerifier \/ InspectWorkload \/ WriteStatusRefused
           \/ UpdateIncidentSpec \/ UpdateIncidentStatus
  BY <1>5 DEF handleApproved, handleApplying, handleVerifying, Begin, RunVerifier, InspectWorkload,
              WriteStatusRefused, UpdateIncidentSpec, UpdateIncidentStatus, QuietStep, Phases
<1>6. CASE \/ \E a \in Actions : Heal(a) \/ SyncCache(a)
           \/ \E f \in Fields, v \in Values : EditLive(f, v)
           \/ UpdateIncidentFails \/ SyncLive \/ Tick \/ Crash \/ UNCHANGED vars
  BY <1>6 DEF Heal, SyncCache, SyncLive, EditLive, UpdateIncidentFails, Tick, Crash, vars, QuietStep, Phases
<1>7. ASSUME NEW f \in Fields, NEW v \in Values, EditPersona(f, v) PROVE QuietStep
  BY <1>0, <1>7 DEF EditPersona, QuietStep, Phases, TypeOK
<1> QED
  BY <1>1, <1>2, <1>3, <1>4, <1>5, <1>6, <1>7 DEF Next, Reconcile, Environment, ClientWrite

\* A settled action keeps its phase for ever: neither a client nor a worker with
\* an outdated copy reopens or re-decides it.
THEOREM SettledForGood == Spec => SettledStaysSettled
<1>1. ASSUME IInv, [Next]_vars, NEW a \in Actions, act[a].phase \in Settled
      PROVE  act'[a].phase = act[a].phase
  <2>0. \A b \in Actions : Phases[b] = act[b].phase /\ Phases'[b] = act'[b].phase
    BY DEF Phases
  <2>1. ASSUME NEW b \in Actions, ClientStep(b) PROVE act'[a].phase = act[a].phase
    BY <1>1, <2>0, <2>1 DEF ClientStep, Settled, Terminal, Phases
  <2>2. ASSUME NEW b \in Actions, NEW p \in Phase, WriteStep(b, p) PROVE act'[a].phase = act[a].phase
    BY <1>1, <2>0, <2>2 DEF WriteStep, LegalMove, Settled, Terminal, Phases
  <2>3. ASSUME NEW b \in Actions, ApplyStep(b) PROVE act'[a].phase = act[a].phase
    BY <2>0, <2>3 DEF ApplyStep
  <2>4. CASE QuietStep
    BY <2>0, <2>4 DEF QuietStep
  <2> QED BY <1>1, <2>1, <2>2, <2>3, <2>4, Steps
<1>2. IInv /\ [Next]_vars =>
          [\A a \in Actions : act[a].phase \in Settled => act'[a].phase = act[a].phase]_vars
  BY <1>1
<1> QED
  BY <1>2, Invariance, PTL DEF Spec, SettledStaysSettled

\* No patch value enters the persona once its verification has begun.
THEOREM AppliesBeforeVerifying == Spec => NoLateApply
<1>1. ASSUME IInv, [Next]_vars, NEW a \in Actions, NEW f \in Fields,
             origin'[f] = a, origin[f] # a
      PROVE  act[a].phase \notin {"Verifying", "Completed", "RolledBack"}
  <2>1. ASSUME NEW b \in Actions, ApplyStep(b)
        PROVE  act[a].phase \notin {"Verifying", "Completed", "RolledBack"}
    BY <1>1, <2>1 DEF ApplyStep
  <2>2. ASSUME NEW b \in Actions, ClientStep(b) \/ \E p \in Phase : WriteStep(b, p) PROVE FALSE
    BY <1>1, <2>2 DEF ClientStep, WriteStep
  <2>3. CASE QuietStep
    BY <1>1, <2>3, UserAssumption DEF QuietStep
  <2> QED BY <1>1, <2>1, <2>2, <2>3, Steps
<1>2. IInv /\ [Next]_vars =>
          [\A a \in Actions, f \in Fields : origin'[f] = a /\ origin[f] # a
              => act[a].phase \notin {"Verifying", "Completed", "RolledBack"}]_vars
  BY <1>1
<1> QED
  BY <1>2, Invariance, PTL DEF Spec, NoLateApply

\* The controller implements the contract.
THEOREM Refinement == Spec => ImplementsContract
<1>1. Init => Contract!Init
  BY DEF Init, NewObject, Contract!Init
<1>2. ASSUME IInv, [Next]_vars PROVE [Contract!Next]_(Contract!contract)
  <2>0. \A b \in Actions : Phases[b] = act[b].phase
    BY DEF Phases
  <2>1. ASSUME NEW a \in Actions, ClientStep(a) PROVE [Contract!Next]_(Contract!contract)
    <3>1. written' = written
      BY <2>1 DEF ClientStep
    <3>2. CASE Phases' = Phases /\ approved' = approved
      BY <3>1, <3>2 DEF Contract!contract, Phases
    <3>3. CASE /\ act[a].phase \in {"Pending", "Approved", "Applying"}
               /\ Phases' = [Phases EXCEPT ![a] = "Rejected"] /\ approved' = approved
      <4>1. Contract!Decline(a)
        BY <3>1, <3>3 DEF Contract!Decline, Contract!Move, Phases
      <4> QED BY <4>1 DEF Contract!Next
    <3>4. CASE /\ act[a].phase = "Pending"
               /\ Phases' = [Phases EXCEPT ![a] = "Approved"] /\ approved' = approved \cup {a}
      <4>1. Contract!Grant(a)
        BY <3>1, <3>4 DEF Contract!Grant, Contract!Move, Phases
      <4> QED BY <4>1 DEF Contract!Next
    <3> QED BY <2>1, <3>2, <3>3, <3>4 DEF ClientStep
  <2>2. ASSUME NEW a \in Actions, NEW p \in Phase, WriteStep(a, p)
        PROVE  [Contract!Next]_(Contract!contract)
    <3>1. approved' = approved /\ written' = written /\ Phases' = [Phases EXCEPT ![a] = p]
      BY <2>2 DEF WriteStep
    <3>2. CASE p = "Applying"
      <4>1. Contract!Announce(a)
        BY <2>2, <3>1, <3>2 DEF Contract!Announce, Contract!Move, Phases, WriteStep, LegalMove,
                                AppliedPhases
      <4> QED BY <4>1 DEF Contract!Next
    <3>3. CASE p = "Acknowledged"
      <4>1. Contract!Acknowledge(a)
        BY <2>2, <3>1, <3>3 DEF Contract!Acknowledge, Contract!Move, Phases, WriteStep, LegalMove
      <4> QED BY <4>1 DEF Contract!Next
    <3>4. CASE p = "Verifying" /\ act[a].phase = "Applying"
      <4>1. Contract!StartVerification(a)
        BY <3>1, <3>4 DEF Contract!StartVerification, Contract!Move, Phases
      <4> QED BY <4>1 DEF Contract!Next
    <3>5. CASE p = "Verifying" /\ act[a].phase = "Verifying"
      <4>1. Phases' = Phases
        BY <3>1, <3>5 DEF Phases
      <4> QED BY <3>1, <4>1 DEF Contract!contract, Phases
    <3>6. CASE p \in {"Completed", "RolledBack", "Failed"}
      <4>1. Contract!Conclude(a)
        BY <2>2, <3>1, <3>6 DEF Contract!Conclude, Contract!Move, Phases, WriteStep, LegalMove
      <4> QED BY <4>1 DEF Contract!Next
    <3> QED BY <2>2, <3>2, <3>3, <3>4, <3>5, <3>6 DEF WriteStep, LegalMove
  <2>3. ASSUME NEW a \in Actions, ApplyStep(a) PROVE [Contract!Next]_(Contract!contract)
    <3>1. Phases' = Phases /\ approved' = approved
      BY <2>3 DEF ApplyStep
    <3>2. CASE written' = written
      BY <3>1, <3>2 DEF Contract!contract, Phases
    <3>3. CASE written' = written \cup {a}
      <4>1. Contract!Write(a)
        BY <2>3, <3>1, <3>3 DEF Contract!Write, Phases, ApplyStep
      <4> QED BY <4>1 DEF Contract!Next
    <3> QED BY <2>3, <3>2, <3>3 DEF ApplyStep
  <2>4. CASE QuietStep
    BY <2>4 DEF QuietStep, Contract!contract, Phases
  <2> QED BY <1>2, <2>1, <2>2, <2>3, <2>4, Steps
<1>3. IInv /\ [Next]_vars => [Contract!Next]_(Contract!contract)
  BY <1>2
<1> QED
  BY <1>1, <1>3, Invariance, PTL DEF Spec, ImplementsContract, Contract!Spec

-----------------------------------------------------------------------------
(***************************************************************************)
(* What a rollback reports of the workload.  The report compares the       *)
(* cached Deployment with what was observed, so it can tell only of plans  *)
(* that move the workload: every field they patch was observed, with       *)
(* another value.  The proposer leaves out what the container does not     *)
(* set; a plan that asks for the value that is there already is what this  *)
(* excludes.  And it can tell only of heals that the cache shows.          *)
(***************************************************************************)
MovesTheWorkload(a) ==
    Plan[a].patch # None /\ Plan[a].observed # None =>
        \A f \in DOMAIN Plan[a].patch : Plan[a].observed[f] \notin {None, Plan[a].patch[f]}

Carries(origins, a) == \E f \in Fields : origins[f] = a
Admits(o) == o.conds["WorkloadDiverged"].status # "False"

\* What the CLI healed is what the plan says.
Healed ==
    \A f \in Fields : \A a \in Actions :
        liveOrigin[f] = a => /\ Plan[a].patch \in Patches
                             /\ f \in DOMAIN Plan[a].patch
                             /\ live[f] = Plan[a].patch[f]

\* A report, once stored or about to be, stays true: no heal comes after it.
Scope ==
    /\ Healed
    /\ \A a \in Actions \ overlooked :
          act[a].phase = "RolledBack" /\ Carries(liveOrigin, a) => Admits(act[a])
    /\ /\ pc = "write" /\ Fresh /\ obj.phase = "RolledBack"
       /\ cur \notin overlooked /\ Carries(liveOrigin, cur)
       => Admits(obj)

\* The status setCondition leaves behind.
LEMMA SetStatus ==
    ASSUME NEW c \in Conditions, NEW t \in ConditionType, NEW s, NEW r, NEW m
    PROVE  setCondition(c, t, s, r, m)[t].status = s
BY DEF setCondition, Conditions

\* InspectRollback sees a value that the CLI left, once the cache shows it.
LEMMA InspectFacts ==
    ASSUME Healed, NEW a \in Actions, MovesTheWorkload(a), Carries(liveOrigin, a),
           ~HealNotShown(a), NEW readable
    PROVE  InspectRollback(a, readable) \in {"Unreadable", "Diverged"}
<1>1. PICK f \in Fields : liveOrigin[f] = a
  BY DEF Carries
<1>2. /\ Plan[a].patch \in Patches /\ f \in DOMAIN Plan[a].patch
      /\ liveCache[f] = Plan[a].patch[f]
  BY <1>1 DEF Healed, HealNotShown
<1>3. Plan[a].patch # None
  BY <1>2, NoneAssumption
<1>4. CASE Plan[a].observed = None \/ ~readable
  BY <1>4 DEF InspectRollback
<1>5. CASE Plan[a].observed # None /\ readable
  <2>1. Plan[a].observed[f] # None /\ liveCache[f] # Plan[a].observed[f]
    BY <1>2, <1>3, <1>5 DEF MovesTheWorkload
  <2>2. {g \in DOMAIN Plan[a].patch :
            Plan[a].observed[g] # None /\ liveCache[g] # Plan[a].observed[g]} # {}
    BY <1>2, <2>1
  <2> QED
    BY <1>5, <2>2 DEF InspectRollback
<1> QED
  BY <1>4, <1>5

\* recordRollbackScope reports it.
LEMMA ReportFacts ==
    ASSUME Healed, NEW a \in Actions, MovesTheWorkload(a), Carries(liveOrigin, a),
           ~HealNotShown(a), NEW readable, NEW o \in Object
    PROVE  Admits(RolledBackObject(o, a, readable))
<1> DEFINE c1 == setCondition(o.conds, "RolledBack", "True", "HealthDegraded", 0)
           c2 == recordRollbackScope(c1, a, readable)
<1>1. c1 \in Conditions
  <2>1. /\ o.conds \in Conditions /\ "RolledBack" \in ConditionType /\ "True" \in Status
        /\ "HealthDegraded" \in Reason /\ 0 \in Nat
    BY DEF Object, Conditions, ConditionType, Status, Reason
  <2> QED
    BY <2>1, SetCondition
<1>2. RolledBackObject(o, a, readable) = [o EXCEPT !.phase = "RolledBack", !.conds = c2]
  BY DEF RolledBackObject
<1> HIDE DEF c1
<1>3. PICK s \in {"True", "Unknown"}, r \in Reason :
          c2 = setCondition(c1, "WorkloadDiverged", s, r, 0)
  <2>1. InspectRollback(a, readable) \in {"Unreadable", "Diverged"}
    BY InspectFacts
  <2> HIDE DEF InspectRollback
  <2> QED
    BY <2>1 DEF recordRollbackScope, Reason
<1>4. "WorkloadDiverged" \in ConditionType
  BY DEF ConditionType
<1> HIDE DEF c2
<1>5. c2["WorkloadDiverged"].status = s
  BY <1>1, <1>3, <1>4, SetStatus
<1>6. RolledBackObject(o, a, readable).conds = c2
  BY <1>2 DEF Object
<1> QED
  BY <1>3, <1>5, <1>6 DEF Admits

\* Steps that leave the stored actions and the workload alone and store no rollback.
LEMMA QuietScope ==
    ASSUME Scope, UNCHANGED <<act, live, liveOrigin, overlooked>>,
           \/ UNCHANGED <<pc, cur, obj>>
           \/ pc' # "write"
           \/ obj'.phase # "RolledBack"
    PROVE  Scope'
<1>1. Healed'
  BY DEF Scope, Healed
<1> QED
  BY <1>1 DEF Scope, Fresh

\* Every step keeps the report true.
LEMMA NextScope ==
    ASSUME IInv, IInv', Scope, \A a \in Actions : MovesTheWorkload(a), [Next]_vars
    PROVE  Scope'
<1> USE DEF store, world, worker, hist
<1>0. TypeOK /\ Rest
  BY DEF IInv, Rest
<1>1. ASSUME NEW a \in Actions, handleApproved(a) \/ handleApplying(a) \/ handleVerifying(a)
      PROVE  Scope'
  <2>1. UNCHANGED <<act, live, liveOrigin, overlooked>> /\ cache[a] \in Object
    BY <1>0, <1>1 DEF handleApproved, handleApplying, handleVerifying, Begin, TypeOK
  <2>2. pc' # "write" \/ obj'.phase # "RolledBack"
    <3>1. CASE pc' = "write"
      <4>1. obj' \in {AcknowledgedObject(cache[a]), FailedObject(cache[a], "PreconditionRejected"),
                      FailedObject(cache[a], "Failed"), [cache[a] EXCEPT !.phase = "Verifying"]}
        BY <1>1, <3>1 DEF handleApproved, handleApplying, handleVerifying, Propose
      <4>2. [cache[a] EXCEPT !.phase = "Verifying"].phase = "Verifying"
        BY <2>1 DEF Object
      <4>3. "PreconditionRejected" \in Reason /\ "Failed" \in Reason
        BY DEF Reason
      <4>4. AcknowledgedObject(cache[a]).phase = "Acknowledged"
        BY <2>1, AcknowledgedFacts
      <4>5. /\ FailedObject(cache[a], "PreconditionRejected").phase = "Failed"
            /\ FailedObject(cache[a], "Failed").phase = "Failed"
        BY <2>1, <4>3, FailedFacts
      <4> QED
        BY <4>1, <4>2, <4>4, <4>5
    <3> QED BY <3>1
  <2> QED BY <2>1, <2>2, QuietScope
<1>2. CASE ExecutorApply
  <2>1. UNCHANGED <<act, live, liveOrigin, overlooked>> /\ obj \in Object
    BY <1>0, <1>2 DEF ExecutorApply, TypeOK
  <2>2. obj' \in {AppliedObject(obj), FailedObject(obj, "Failed")}
    BY <1>2 DEF ExecutorApply, Propose
  <2>3. obj'.phase # "RolledBack"
    <3>1. AppliedObject(obj).phase = "Applying" /\ FailedObject(obj, "Failed").phase = "Failed"
      BY <2>1, AppliedFacts, FailedFacts DEF Reason
    <3> QED BY <2>2, <3>1
  <2> QED BY <2>1, <2>3, QuietScope
<1>3. CASE RunVerifier
  <2>1. UNCHANGED <<act, live, liveOrigin, overlooked>> /\ obj \in Object /\ obj.phase = "Verifying"
    BY <1>0, <1>3 DEF RunVerifier, TypeOK, Rest, Worker
  <2>2. PICK readable \in BOOLEAN, signals \in SUBSET Signals : RunVerifier!2!(readable, signals)
    BY <1>3 DEF RunVerifier
  <2> DEFINE o == [obj EXCEPT !.verdict = Verify(readable, signals)]
  <2>3. o \in Object /\ o.phase = "Verifying"
    <3>1. Verify(readable, signals) \in Verdict
      BY DEF Verify, Verdict
    <3> QED BY <2>1, <3>1 DEF Object
  <2>4. handleVerificationHealthy(o) \/ handleVerificationDegraded(o) \/ handleVerificationUnknown(o)
    BY <2>2
  <2> HIDE DEF o
  <2>5. pc' = "rollback" \/ obj' \in {CompletedObject(o), FailedObject(o, "Failed"), RetryObject(o)}
    BY <2>4 DEF handleVerificationHealthy, handleVerificationDegraded, handleVerificationUnknown, Propose
  <2>6. /\ CompletedObject(o).phase = "Completed" /\ RetryObject(o).phase = "Verifying"
        /\ FailedObject(o, "Failed").phase = "Failed"
    BY <2>3, CompletedFacts, RetryFacts, FailedFacts DEF Reason
  <2>7. pc' # "write" \/ obj'.phase # "RolledBack"
    BY <2>5, <2>6
  <2> QED BY <2>1, <2>7, QuietScope
<1>4. CASE RollbackExecute
  <2>1. UNCHANGED <<act, live, liveOrigin, overlooked>> /\ obj \in Object
    BY <1>0, <1>4 DEF RollbackExecute, TypeOK
  <2>2. pc' = "inspect" \/ obj' = FailedObject(obj, "Failed")
    BY <1>4 DEF RollbackExecute, Propose
  <2>3. FailedObject(obj, "Failed").phase = "Failed"
    BY <2>1, FailedFacts DEF Reason
  <2>4. pc' # "write" \/ obj'.phase # "RolledBack"
    BY <2>2, <2>3
  <2> QED BY <2>1, <2>4, QuietScope
<1>4a. CASE InspectWorkload
  <2>1. /\ UNCHANGED <<act, live, liveOrigin, cur>> /\ obj \in Object /\ cur \in Actions
        /\ overlooked' = IF HealNotShown(cur) THEN overlooked \cup {cur} ELSE overlooked
    BY <1>0, <1>4a DEF InspectWorkload, TypeOK
  <2>2. PICK readable \in BOOLEAN : obj' = RolledBackObject(obj, cur, readable)
    BY <1>4a DEF InspectWorkload, Propose
  <2>3. Healed'
    BY <2>1 DEF Scope, Healed
  <2>4. overlooked \subseteq overlooked' /\ (cur \notin overlooked' => ~HealNotShown(cur))
    BY <2>1
  <2>5. cur \notin overlooked' /\ Carries(liveOrigin, cur) => Admits(obj')
    BY <2>1, <2>2, <2>4, ReportFacts DEF Scope
  <2> QED BY <2>1, <2>3, <2>4, <2>5 DEF Scope
<1>5. CASE WriteStatus \/ WriteStatusReplyLost
  <2>1. /\ pc = "write" /\ Fresh /\ cur \in Actions /\ obj \in Object
        /\ act' = [act EXCEPT ![cur] = Stored(obj)]
        /\ UNCHANGED <<live, liveOrigin, overlooked>> /\ pc' # "write"
    BY <1>0, <1>5 DEF WriteStatus, WriteStatusReplyLost, Conflicts, Fresh, TypeOK, Done, GoTo
  <2>2. Stored(obj).phase = obj.phase /\ Stored(obj).conds = obj.conds
    BY <1>0, <2>1, StoredFacts
  <2>3. Healed'
    BY <2>1 DEF Scope, Healed
  <2>4. ASSUME NEW a \in Actions \ overlooked, act'[a].phase = "RolledBack", Carries(liveOrigin, a)
        PROVE  Admits(act'[a])
    <3>1. CASE a = cur
      <4>1. act'[a] = Stored(obj)
        BY <1>0, <2>1, <3>1 DEF TypeOK
      <4> QED BY <2>1, <2>2, <2>4, <3>1, <4>1 DEF Scope, Admits
    <3>2. CASE a # cur
      <4>1. act'[a] = act[a]
        BY <1>0, <2>1, <3>2 DEF TypeOK
      <4> QED BY <2>4, <4>1 DEF Scope
    <3> QED BY <3>1, <3>2
  <2> QED BY <2>1, <2>3, <2>4 DEF Scope
<1>6. ASSUME NEW a \in Actions, ClientWrite(a) PROVE Scope'
  <2>1. /\ \A b \in Actions : b # a => act'[b] = act[b]
        /\ act'[a].rv = act[a].rv + 1
        /\ UNCHANGED <<pc, cur, obj>>
    BY <1>0, <1>6, ClientFacts
  <2>2. UNCHANGED <<live, liveOrigin, overlooked>>
    BY <1>6 DEF ClientWrite, Approve, Reject, TouchAction, recordRejection
  <2>3. act'[a].phase = "RolledBack" => act[a].phase = "RolledBack" /\ act'[a].conds = act[a].conds
    <3>1. act[a] \in Object
      BY <1>0 DEF TypeOK
    <3>2. CASE Approve(a) \/ Reject(a) \/ TouchAction(a)
      BY <1>0, <3>1, <3>2 DEF Approve, Reject, TouchAction, TypeOK, Object
    <3>3. CASE recordRejection(a)
      <4>1. act[a].phase = "Rejected"
        BY <1>0, <3>3 DEF recordRejection, Rest, Versions
      <4>2. act'[a].phase = act[a].phase
        BY <1>0, <3>1, <3>3 DEF recordRejection, TypeOK, Object
      <4> QED BY <4>1, <4>2
    <3> QED BY <1>6, <3>2, <3>3 DEF ClientWrite
  <2>4. ~(pc' = "write" /\ Fresh' /\ cur = a)
    <3>1. act[a].rv \in Nat /\ obj.rv \in Nat
      BY <1>0 DEF TypeOK, Object
    <3>2. pc = "write" => obj.rv <= act[cur].rv
      BY <1>0 DEF Rest, Worker
    <3> QED BY <2>1, <3>1, <3>2 DEF Fresh
  <2>5. Healed'
    BY <2>2 DEF Scope, Healed
  <2>6. ASSUME NEW b \in Actions \ overlooked, act'[b].phase = "RolledBack", Carries(liveOrigin, b)
        PROVE  Admits(act'[b])
    BY <2>1, <2>3, <2>6 DEF Scope, Admits
  <2>7. pc' = "write" => cur \in Actions
    BY <1>0, <2>1 DEF TypeOK
  <2>8. (/\ pc = "write" /\ Fresh /\ obj.phase = "RolledBack"
         /\ cur \notin overlooked /\ Carries(liveOrigin, cur)
         => Admits(obj))'
    BY <2>1, <2>2, <2>4, <2>7 DEF Scope, Fresh
  <2> QED BY <2>2, <2>5, <2>6, <2>8 DEF Scope
<1>7. ASSUME NEW b \in Actions, Heal(b) PROVE Scope'
  <2>1. /\ act[b].phase \in {"Approved", "Applying"} /\ Plan[b].patch \in Patches
        /\ live' = mergeMaps(live, Plan[b].patch)
        /\ liveOrigin' = [f \in Fields |-> IF f \in DOMAIN Plan[b].patch THEN b ELSE liveOrigin[f]]
        /\ UNCHANGED <<act, pc, cur, obj, overlooked>>
    BY <1>7, PlanAssumption DEF Heal, PlanType
  <2>2. Healed'
    BY <2>1 DEF Scope, Healed, mergeMaps
  <2>3. \A a : Carries(liveOrigin', a) => Carries(liveOrigin, a) \/ a = b
    BY <2>1 DEF Carries
  <2>4. pc = "write" /\ Fresh /\ obj.phase = "RolledBack" => act[cur].phase = "Verifying"
    BY <1>0 DEF Rest, Worker, LegalMove
  <2>5. ASSUME NEW a \in Actions \ overlooked, act[a].phase = "RolledBack", Carries(liveOrigin', a)
        PROVE  Admits(act[a])
    BY <2>1, <2>3, <2>5 DEF Scope
  <2>6. ASSUME pc = "write", Fresh, obj.phase = "RolledBack", cur \notin overlooked,
               Carries(liveOrigin', cur)
        PROVE  Admits(obj)
    BY <2>1, <2>3, <2>4, <2>6 DEF Scope
  <2> QED BY <2>1, <2>2, <2>5, <2>6 DEF Scope, Fresh
<1>8. ASSUME NEW f \in Fields, NEW v \in Values, EditLive(f, v) PROVE Scope'
  <2>1. /\ live' = [live EXCEPT ![f] = v] /\ liveOrigin' = [liveOrigin EXCEPT ![f] = User]
        /\ UNCHANGED <<act, pc, cur, obj, overlooked>>
        /\ live \in [Fields -> Values \cup {None}] /\ liveOrigin \in [Fields -> Actions \cup {User}]
    BY <1>0, <1>8 DEF EditLive, TypeOK
  <2>2. \A g \in Fields : liveOrigin'[g] \in Actions => liveOrigin'[g] = liveOrigin[g] /\ live'[g] = live[g]
    BY <2>1, UserAssumption
  <2>3. Healed'
    BY <2>2 DEF Scope, Healed
  <2>4. \A a \in Actions : Carries(liveOrigin', a) => Carries(liveOrigin, a)
    BY <2>2 DEF Carries
  <2>5. pc = "write" => cur \in Actions
    BY <1>0 DEF TypeOK
  <2>6. \A a \in Actions \ overlooked :
           act[a].phase = "RolledBack" /\ Carries(liveOrigin', a) => Admits(act[a])
    BY <2>4 DEF Scope
  <2>7. /\ pc = "write" /\ Fresh /\ obj.phase = "RolledBack"
        /\ cur \notin overlooked /\ Carries(liveOrigin', cur)
        => Admits(obj)
    BY <2>4, <2>5 DEF Scope
  <2> QED BY <2>1, <2>3, <2>6, <2>7 DEF Scope, Fresh
<1>9. CASE WriteStatusRefused \/ UpdateIncidentSpec \/ UpdateIncidentStatus \/ UpdateIncidentFails
           \/ Crash
  <2>1. UNCHANGED <<act, live, liveOrigin, overlooked>> /\ pc' # "write"
    BY <1>9 DEF WriteStatusRefused, UpdateIncidentSpec, UpdateIncidentStatus, UpdateIncidentFails,
                Crash, Done, GoTo
  <2> QED BY <2>1, QuietScope
<1>10. CASE \/ \E a \in Actions : SyncCache(a)
            \/ \E f \in Fields, v \in Values : EditPersona(f, v)
            \/ SyncLive \/ Tick \/ UNCHANGED vars
  <2>1. UNCHANGED <<act, live, liveOrigin, overlooked>> /\ UNCHANGED <<pc, cur, obj>>
    BY <1>10 DEF SyncCache, EditPersona, SyncLive, Tick, vars
  <2> QED BY <2>1, QuietScope
<1> QED
  BY <1>1, <1>2, <1>3, <1>4, <1>4a, <1>5, <1>6, <1>7, <1>8, <1>9, <1>10
     DEF Next, Reconcile, Environment, ClientWrite

\* Of plans that move the workload, a rollback says that nothing is left to undo
\* while the workload still carries what the CLI healed it with only when the
\* cached Deployment did not show the heal at the inspection: no unreadable
\* workload, stale copy or late heal makes the stored report wrong
\* (InspectRollback, recordRollbackScope).
THEOREM ScopeReported == (\A a \in Actions : MovesTheWorkload(a)) => (Spec => []RollbackScopeIsReported)
<1> SUFFICES ASSUME \A a \in Actions : MovesTheWorkload(a) PROVE Spec => []RollbackScopeIsReported
  OBVIOUS
<1>1. Init => Scope
  BY UserAssumption DEF Init, Scope, Healed, Carries, NewObject
<1>2. IInv /\ IInv' /\ Scope /\ [Next]_vars => Scope'
  BY NextScope
<1>3. Scope => RollbackScopeIsReported
  BY DEF Scope, Carries, Admits, RollbackScopeIsReported
<1> QED
  BY <1>1, <1>2, <1>3, Invariance, PTL DEF Spec
=============================================================================
