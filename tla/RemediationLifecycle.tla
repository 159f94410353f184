------------------------- MODULE RemediationLifecycle -------------------------
(***************************************************************************)
(* The life of RemediationAction objects under the RemediationController: *)
(* the reconcile loop, the Executor that patches the ApplicationPersona,   *)
(* the Verifier and the Rollback, and the resolution written back to the   *)
(* IncidentMemory.                                                         *)
(*                                                                         *)
(* The API server holds one versioned object per action (act); the         *)
(* controller reads a copy of it from its informer cache (cache), which    *)
(* may lag behind, works on a local copy (obj) and writes it back under    *)
(* optimistic concurrency.  A handler makes several writes to several      *)
(* objects, and humans, other writers and crashes come in between.         *)
(***************************************************************************)
EXTENDS Naturals, FiniteSets

CONSTANTS
    Actions,      \* the RemediationAction objects, all on one persona
    Fields,       \* the resource paths of the persona spec that plans patch
    Values,       \* the quantities those fields may hold
    None,         \* an absent field, snapshot or workload reference
    User,         \* the origin of a value no remediation has written
    Plan,         \* Plan[a]: the immutable spec of action a
    Signals,      \* the signals the detection engine can report
    InitialPersona,
    InitialLive,
    MaxFaults     \* bound: how often the environment interferes

(***************************************************************************)
(* A patch is a JSON merge patch flattened to its leaves: a function from  *)
(* the touched fields to values, None standing for null.                   *)
(***************************************************************************)
Patches == UNION {[fs -> Values \cup {None}] : fs \in SUBSET Fields}

StepType == {"persona-update", "manual"}

PlanType ==
    [ steps    : SUBSET [autoExecutable : BOOLEAN, type : StepType, hasPatch : BOOLEAN],
      type     : {"persona-update", "notification"},
      patch    : Patches \cup {None},
      pre      : Patches \cup {None},
      rollback : BOOLEAN,
      delay    : Nat,
      observed : [Fields -> Values \cup {None}] \cup {None} ]

SignalType == [type : {"original", "other"}, critical : BOOLEAN, ours : BOOLEAN]

ASSUME PlanAssumption == Plan \in [Actions -> PlanType]
ASSUME NoneAssumption == None \notin Values /\ None \notin Patches
ASSUME UserAssumption == User \notin Actions
ASSUME SignalAssumption == Signals \subseteq SignalType
ASSUME InitialAssumption == /\ InitialPersona \in [Fields -> Values \cup {None}]
                            /\ InitialLive \in [Fields -> Values \cup {None}]
ASSUME MaxFaultsAssumption == MaxFaults \in Nat

maxUnknownRetries == 2

Terminal == {"Completed", "Acknowledged", "RolledBack", "Failed"}
Settled == Terminal \cup {"Rejected"}
Phase == {"Pending", "Approved", "Applying", "Verifying"} \cup Settled

(***************************************************************************)
(* Conditions.  setCondition leaves an entry alone, message included, when *)
(* its status and its reason do not change; the only message the program   *)
(* reads back is the retry count of the Verified condition.                *)
(***************************************************************************)
ConditionType == {"Applied", "Verified", "RolledBack", "WorkloadDiverged", "Rejected"}
Reason == {"none", "PatchApplied", "AdvisoryOnly", "PreconditionRejected", "Failed",
           "HealthRestored", "VerificationUnknown", "HealthDegraded", "Diverged",
           "Restored", "Unreadable", "UserRejected"}
Condition == [status : {"unset", "True", "False", "Unknown"}, reason : Reason, message : Nat]

Unset == [status |-> "unset", reason |-> "none", message |-> 0]

hasCondition(conds, type) == conds[type].status # "unset"

setCondition(conds, type, status, reason, message) ==
    IF conds[type].status = status /\ conds[type].reason = reason
    THEN conds
    ELSE [conds EXCEPT ![type] = [status |-> status, reason |-> reason, message |-> message]]

getRetryCount(conds) ==
    IF conds["Verified"].reason = "VerificationUnknown" THEN conds["Verified"].message ELSE 0

Verdict == {"Healthy", "Degraded", "Unknown"}

Object == [ phase     : Phase,
            appliedAt : BOOLEAN,
            verdict   : Verdict \cup {"none"},
            conds     : [ConditionType -> Condition],
            rv        : Nat ]

VARIABLES
    act,         \* the stored RemediationActions
    cache,       \* the informer cache's copies of them
    age,         \* time since AppliedAt, saturating at the verification delay
    persona,     \* the ApplicationPersona's resource fields
    origin,      \* whose patch each persona field last took its value from
    live,        \* the Deployment's resource fields
    liveOrigin,  \* whose heal each live field last took its value from
    liveCache,   \* the informer cache's copy of the Deployment's fields
    incident,    \* the IncidentMemory each action refers to
    pc, cur, obj, outcome,  \* the reconcile worker: stage, request, local copy
    faults,      \* how often the environment has interfered
    approved,    \* history: the actions a human approved
    written,     \* history: the actions whose patch reached the persona
    overlooked   \* history: the actions inspected before the cache showed their heal

store  == <<act, cache>>
world  == <<persona, origin, live, liveOrigin, liveCache>>
worker == <<pc, cur, obj, outcome>>
hist   == <<approved, written, overlooked>>
vars   == <<act, cache, age, persona, origin, live, liveOrigin, liveCache, incident,
            pc, cur, obj, outcome, faults, approved, written, overlooked>>

Outcome == {"none", "resolved", "rollback", "acknowledged", "failed"}
Stage == {"idle", "apply", "verify", "rollback", "inspect", "write", "incident",
          "incidentStatus"}
Incident == [resolution : Outcome, label : {"Detected", "Resolved"}, phase : {"Detected", "Resolved"}]

NewObject == [ phase     |-> "Pending",
               appliedAt |-> FALSE,
               verdict   |-> "none",
               conds     |-> [t \in ConditionType |-> Unset],
               rv        |-> 0 ]

(***************************************************************************)
(* What a plan allows.                                                     *)
(***************************************************************************)
HasAutoApplicableChange(a) ==
    \/ \E s \in Plan[a].steps : s.autoExecutable /\ s.type = "persona-update" /\ s.hasPatch
    \/ /\ Plan[a].steps = {}
       /\ Plan[a].type = "persona-update"
       /\ Plan[a].patch # None

validatePreconditions(a) ==
    /\ Plan[a].type = "persona-update"
    /\ Plan[a].patch # None
    /\ Plan[a].pre # None

mergeMaps(spec, patch) == [f \in Fields |-> IF f \in DOMAIN patch THEN patch[f] ELSE spec[f]]

(***************************************************************************)
(* Verify reads the signals that detection reports now; collecting them or *)
(* reading the incident can fail.                                          *)
(***************************************************************************)
Verify(readable, signals) ==
    CASE ~readable -> "Unknown"
      [] readable /\ \E s \in signals : s.ours /\ (s.type = "original" \/ s.critical) -> "Degraded"
      [] OTHER -> "Healthy"

(***************************************************************************)
(* InspectRollback compares the Deployment with what was observed when the *)
(* remediation was proposed.  It reads the cached copy, which may not show *)
(* a recent heal yet.                                                      *)
(***************************************************************************)
InspectRollback(a, readable) ==
    LET observed == Plan[a].observed
        kept == {f \in DOMAIN Plan[a].patch : observed[f] # None /\ liveCache[f] # observed[f]}
    IN  CASE observed = None \/ ~readable            -> "Unreadable"
          [] observed # None /\ readable /\ kept # {} -> "Diverged"
          [] OTHER                                   -> "Restored"

\* Mutant: a workload that could not be read is reported as restored.
recordRollbackScope_UnreadableIsFine(conds, a, readable) ==
    LET reason == InspectRollback(a, readable)
        status == IF reason = "Diverged" THEN "True" ELSE "False"
    IN  setCondition(conds, "WorkloadDiverged", status, reason, 0)

recordRollbackScope(conds, a, readable) ==
    LET reason == InspectRollback(a, readable)
        status == CASE reason = "Diverged" -> "True"
                    [] reason = "Unreadable" -> "Unknown"
                    [] OTHER -> "False"
    IN  setCondition(conds, "WorkloadDiverged", status, reason, 0)

Init ==
    /\ act = [a \in Actions |-> NewObject]
    /\ cache = act
    /\ age = [a \in Actions |-> 0]
    /\ persona = InitialPersona
    /\ origin = [f \in Fields |-> User]
    /\ live = InitialLive
    /\ liveOrigin = [f \in Fields |-> User]
    /\ liveCache = InitialLive
    /\ incident = [a \in Actions |->
                      [resolution |-> "none", label |-> "Detected", phase |-> "Detected"]]
    /\ pc = "idle"
    /\ cur = None
    /\ obj = NewObject
    /\ outcome = "none"
    /\ faults = 0
    /\ approved = {}
    /\ written = {}
    /\ overlooked = {}

-----------------------------------------------------------------------------
(***************************************************************************)
(* The reconcile worker.                                                   *)
(***************************************************************************)

\* The object a handler wants to store next, and what the incident is told.
Propose(o, result) ==
    /\ pc' = "write"
    /\ obj' = o
    /\ outcome' = result

\* Reconcile returns: the worker forgets the request.
Done ==
    /\ pc' = "idle"
    /\ cur' = None
    /\ obj' = NewObject
    /\ outcome' = "none"

GoTo(stage) ==
    /\ pc' = stage
    /\ UNCHANGED <<cur, obj, outcome>>

\* Mutants: the reason is mistaken for PreconditionRejected; the phase is misspelt;
\* the condition is written and the phase forgotten.
FailedObject_AlwaysPrecondition(o, reason) ==
    [o EXCEPT !.phase = "Failed",
              !.conds = setCondition(o.conds, "Applied", "False", "PreconditionRejected", 0)]

FailedObject_Misspelt(o, reason) ==
    [o EXCEPT !.phase = "failed", !.conds = setCondition(o.conds, "Applied", "False", reason, 0)]

\* transitionToFailedWithReason and transitionToAcknowledged
FailedObject(o, reason) ==
    [o EXCEPT !.phase = "Failed", !.conds = setCondition(o.conds, "Applied", "False", reason, 0)]

AcknowledgedObject(o) ==
    [o EXCEPT !.phase = "Acknowledged",
              !.conds = setCondition(o.conds, "Applied", "False", "AdvisoryOnly", 0)]

\* Mutant: a plan still waiting for its approval is handled as an approved one.
Begin_PendingIsApproved(a, phase) ==
    /\ pc = "idle"
    /\ \/ cache[a].phase = phase
       \/ cache[a].phase = "Pending" /\ phase = "Approved"
    /\ cur' = a
    /\ UNCHANGED <<store, age, world, incident, faults, hist>>

Begin(a, phase) ==
    /\ pc = "idle"
    /\ cache[a].phase = phase
    /\ cur' = a
    /\ UNCHANGED <<store, age, world, incident, faults, hist>>

\* Mutant: the preconditions are checked only after the patch was applied.
handleApproved_ChecksLate(a) ==
    /\ pc = "idle"
    /\ cache[a].phase = "Approved"
    /\ cur' = a
    /\ Plan[a].patch # None
    /\ persona' = mergeMaps(persona, Plan[a].patch)
    /\ written' = written \cup {a}
    /\ Propose(FailedObject(cache[a], "PreconditionRejected"), "failed")
    /\ UNCHANGED <<store, age, origin, live, liveOrigin, liveCache, incident, faults, approved,
                   overlooked>>

\* Executor.validatePreconditions runs before anything is fetched or written.
handleApproved(a) ==
    /\ Begin(a, "Approved")
    /\ \/ /\ ~HasAutoApplicableChange(a)
          /\ Propose(AcknowledgedObject(cache[a]), "acknowledged")
       \/ /\ HasAutoApplicableChange(a)
          /\ ~validatePreconditions(a)
          /\ Propose(FailedObject(cache[a], "PreconditionRejected"), "failed")
       \/ /\ HasAutoApplicableChange(a)
          /\ validatePreconditions(a)
          /\ pc' = "apply"
          /\ obj' = cache[a]
          /\ outcome' = "none"

handleApplying(a) ==
    /\ Begin(a, "Applying")
    /\ IF ~cache[a].appliedAt
       THEN Propose(FailedObject(cache[a], "Failed"), "failed")
       ELSE /\ age[a] >= Plan[a].delay
            /\ Propose([cache[a] EXCEPT !.phase = "Verifying"], "none")

\* Mutant: an unknown verdict is not requeued.
handleVerifying_OnlyOnce(a) ==
    /\ Begin(a, "Verifying")
    /\ cache[a].verdict = "none"
    /\ pc' = "verify"
    /\ obj' = cache[a]
    /\ outcome' = "none"

handleVerifying(a) ==
    /\ Begin(a, "Verifying")
    /\ pc' = "verify"
    /\ obj' = cache[a]
    /\ outcome' = "none"

(***************************************************************************)
(* A write to the persona: Get, merge, Update under the version that was   *)
(* read.  It lands and is confirmed; or it fails, as it does whenever       *)
(* somebody else wrote the persona since the copy was cached; or it lands  *)
(* and the reply is lost, so that the caller sees an error.                *)
(***************************************************************************)
applyPatch(patch, source, result) ==
    \/ /\ result = "ok"
       /\ UNCHANGED faults
       /\ persona' = mergeMaps(persona, patch)
       /\ origin' = [f \in Fields |-> IF f \in DOMAIN patch THEN source ELSE origin[f]]
    \/ /\ result = "error"
       /\ faults < MaxFaults
       /\ faults' = faults + 1
       /\ UNCHANGED <<persona, origin>>
    \/ /\ result = "lost"
       /\ faults < MaxFaults
       /\ faults' = faults + 1
       /\ persona' = mergeMaps(persona, patch)
       /\ origin' = [f \in Fields |-> IF f \in DOMAIN patch THEN source ELSE origin[f]]

WriteResult == {"ok", "error", "lost"}

\* Mutants: the error is dropped.
ApplyFailed_Ignored(result) == FALSE
RollbackFailed_Ignored(result) == FALSE

\* The caller sees an error, whether or not the write landed.
ApplyFailed(result) == result # "ok"
RollbackFailed(result) == result # "ok"

\* Mutant: verification begins at once, without the delay.
AppliedObject_VerifiesAtOnce(o) ==
    [o EXCEPT !.phase = "Verifying",
              !.appliedAt = TRUE,
              !.conds = setCondition(o.conds, "Applied", "True", "PatchApplied", 0)]

AppliedObject(o) ==
    [o EXCEPT !.phase = "Applying",
              !.appliedAt = TRUE,
              !.conds = setCondition(o.conds, "Applied", "True", "PatchApplied", 0)]

ExecutorApply ==
    /\ pc = "apply"
    /\ \E result \in WriteResult :
          /\ applyPatch(Plan[cur].patch, cur, result)
          /\ written' = IF result = "error" THEN written ELSE written \cup {cur}
          /\ IF ~ApplyFailed(result)
             THEN /\ Propose(AppliedObject(obj), "none")
                  /\ age' = [age EXCEPT ![cur] = 0]
             ELSE /\ Propose(FailedObject(obj, "Failed"), "failed")
                  /\ UNCHANGED age
    /\ UNCHANGED <<store, live, liveOrigin, liveCache, incident, cur, approved, overlooked>>

CompletedObject(o) ==
    [o EXCEPT !.phase = "Completed",
              !.conds = setCondition(o.conds, "Verified", "True", "HealthRestored", 0)]

RetryObject(o) ==
    [o EXCEPT !.conds = setCondition(o.conds, "Verified", "False", "VerificationUnknown",
                                     getRetryCount(o.conds) + 1)]

handleVerificationHealthy(o) == Propose(CompletedObject(o), "resolved")

handleVerificationDegraded(o) ==
    /\ pc' = "rollback"
    /\ obj' = o
    /\ UNCHANGED outcome

handleVerificationUnknown(o) ==
    IF getRetryCount(o.conds) >= maxUnknownRetries
    THEN Propose(FailedObject(o, "Failed"), "failed")
    ELSE Propose(RetryObject(o), "none")

RunVerifier ==
    /\ pc = "verify"
    /\ \E readable \in BOOLEAN, signals \in SUBSET Signals :
          LET verdict == Verify(readable, signals)
              o == [obj EXCEPT !.verdict = verdict]
          IN  \/ verdict = "Healthy" /\ handleVerificationHealthy(o)
              \/ verdict = "Degraded" /\ handleVerificationDegraded(o)
              \/ verdict = "Unknown" /\ handleVerificationUnknown(o)
    /\ UNCHANGED <<store, age, world, incident, cur, faults, hist>>

RollbackRefused(a) == ~Plan[a].rollback \/ Plan[a].pre = None

RolledBackObject(o, a, readable) ==
    LET conds == setCondition(o.conds, "RolledBack", "True", "HealthDegraded", 0)
    IN  [o EXCEPT !.phase = "RolledBack", !.conds = recordRollbackScope(conds, a, readable)]

RollbackExecute ==
    /\ pc = "rollback"
    /\ \/ /\ RollbackRefused(cur)
          /\ Propose(FailedObject(obj, "Failed"), "failed")
          /\ UNCHANGED <<persona, origin, faults>>
       \/ /\ ~RollbackRefused(cur)
          /\ \E result \in WriteResult :
                /\ applyPatch(Plan[cur].pre, User, result)
                /\ \/ /\ ~RollbackFailed(result)
                      /\ pc' = "inspect"
                      /\ UNCHANGED <<obj, outcome>>
                   \/ /\ RollbackFailed(result)
                      /\ Propose(FailedObject(obj, "Failed"), "failed")
    /\ UNCHANGED <<store, age, live, liveOrigin, liveCache, incident, cur, hist>>

\* The workload carries a value of this action's heal that the cache does not show.
HealNotShown(a) == \E f \in Fields : liveOrigin[f] = a /\ liveCache[f] # live[f]

\* The rollback done, recordRollbackScope inspects the workload.
InspectWorkload ==
    /\ pc = "inspect"
    /\ \E readable \in BOOLEAN : Propose(RolledBackObject(obj, cur, readable), "rollback")
    /\ overlooked' = IF HealNotShown(cur) THEN overlooked \cup {cur} ELSE overlooked
    /\ UNCHANGED <<store, age, world, incident, cur, faults, approved, written>>

(***************************************************************************)
(* Status().Update of the local copy.  The API server refuses it when the  *)
(* object has moved on, and does not count a write that changes nothing as *)
(* a new version.                                                          *)
(***************************************************************************)
Stored(o) == IF o = act[cur] THEN o ELSE [o EXCEPT !.rv = o.rv + 1]

\* Mutant: the write does not check the version.
Conflicts_Never == FALSE

Conflicts == obj.rv # act[cur].rv

WriteStatus ==
    /\ pc = "write"
    /\ ~Conflicts
    /\ act' = [act EXCEPT ![cur] = Stored(obj)]
    /\ IF outcome = "none" THEN Done ELSE GoTo("incident")
    /\ UNCHANGED <<cache, age, world, incident, faults, hist>>

\* The handler returns the error, and the request is requeued.
WriteStatusRefused ==
    /\ pc = "write"
    /\ Conflicts
    /\ Done
    /\ UNCHANGED <<store, age, world, incident, faults, hist>>

\* The write lands and its reply is lost: the handler sees an error and stops.
WriteStatusReplyLost ==
    /\ pc = "write"
    /\ ~Conflicts
    /\ faults < MaxFaults
    /\ faults' = faults + 1
    /\ act' = [act EXCEPT ![cur] = Stored(obj)]
    /\ Done
    /\ UNCHANGED <<cache, age, world, incident, hist>>

(***************************************************************************)
(* updateIncidentResolution: one bare Update of spec and label, then, for  *)
(* a resolved outcome, a retried status write.  Either can fail; the       *)
(* failure is logged and never retried.                                    *)
(***************************************************************************)
\* Mutant: every outcome relabels the incident.
UpdateIncidentSpec_AlwaysResolved ==
    /\ pc = "incident"
    /\ incident' = [incident EXCEPT ![cur].resolution = outcome, ![cur].label = "Resolved"]
    /\ IF outcome = "resolved" THEN GoTo("incidentStatus") ELSE Done
    /\ UNCHANGED <<store, age, world, faults, hist>>

UpdateIncidentSpec ==
    /\ pc = "incident"
    /\ incident' = [incident EXCEPT
                       ![cur].resolution = outcome,
                       ![cur].label = IF outcome = "resolved" THEN "Resolved" ELSE @]
    /\ IF outcome = "resolved" THEN GoTo("incidentStatus") ELSE Done
    /\ UNCHANGED <<store, age, world, faults, hist>>

UpdateIncidentStatus ==
    /\ pc = "incidentStatus"
    /\ incident' = [incident EXCEPT ![cur].phase = "Resolved"]
    /\ Done
    /\ UNCHANGED <<store, age, world, faults, hist>>

UpdateIncidentFails ==
    /\ pc \in {"incident", "incidentStatus"}
    /\ faults < MaxFaults
    /\ faults' = faults + 1
    /\ Done
    /\ UNCHANGED <<store, age, world, incident, hist>>

\* recordRejection re-reads and retries until its copy is current.
recordRejection(a) ==
    /\ pc = "idle"
    /\ cache[a].phase = "Rejected"
    /\ ~hasCondition(cache[a].conds, "Rejected")
    /\ cache[a].rv = act[a].rv
    /\ act' = [act EXCEPT
                  ![a].conds = setCondition(act[a].conds, "Rejected", "True", "UserRejected", 0),
                  ![a].rv = @ + 1]
    /\ UNCHANGED <<cache, age, world, incident, worker, faults, hist>>

-----------------------------------------------------------------------------
(***************************************************************************)
(* The environment: the CLI and its human, other writers, time, crashes.   *)
(***************************************************************************)

\* `dorgu remediation approve` on a plan that waits for a decision
Approve(a) ==
    /\ act[a].phase = "Pending"
    /\ act' = [act EXCEPT ![a].phase = "Approved", ![a].rv = @ + 1]
    /\ approved' = approved \cup {a}
    /\ UNCHANGED <<cache, age, world, incident, worker, faults, written, overlooked>>

\* `dorgu remediation reject` patches the phase without a version check, so it
\* may land after somebody else's approval has already been acted on.
Reject(a) ==
    /\ act[a].phase \in {"Pending", "Approved", "Applying"}
    /\ act' = [act EXCEPT ![a].phase = "Rejected", ![a].rv = @ + 1]
    /\ UNCHANGED <<cache, age, world, incident, worker, faults, hist>>

\* The CLI applies an approved plan to the workload with the user's credentials.
Heal(a) ==
    /\ act[a].phase \in {"Approved", "Applying"}
    /\ Plan[a].patch # None
    /\ live' = mergeMaps(live, Plan[a].patch)
    /\ liveOrigin' = [f \in Fields |-> IF f \in DOMAIN Plan[a].patch THEN a ELSE liveOrigin[f]]
    /\ UNCHANGED <<store, age, persona, origin, liveCache, incident, worker, faults, hist>>

\* Somebody else changes the workload, or the persona's spec.
EditLive(f, v) ==
    /\ faults < MaxFaults
    /\ faults' = faults + 1
    /\ live' = [live EXCEPT ![f] = v]
    /\ liveOrigin' = [liveOrigin EXCEPT ![f] = User]
    /\ UNCHANGED <<store, age, persona, origin, liveCache, incident, worker, hist>>

EditPersona(f, v) ==
    /\ faults < MaxFaults
    /\ faults' = faults + 1
    /\ persona' = [persona EXCEPT ![f] = v]
    /\ origin' = [origin EXCEPT ![f] = User]
    /\ UNCHANGED <<store, age, live, liveOrigin, liveCache, incident, worker, hist>>

\* A write to an action that changes nothing modelled, such as an annotation.
TouchAction(a) ==
    /\ faults < MaxFaults
    /\ faults' = faults + 1
    /\ act' = [act EXCEPT ![a].rv = @ + 1]
    /\ UNCHANGED <<cache, age, world, incident, worker, hist>>

\* The watch delivers the newest version to the cache.
SyncCache(a) ==
    /\ cache[a] # act[a]
    /\ cache' = [cache EXCEPT ![a] = act[a]]
    /\ UNCHANGED <<act, age, world, incident, worker, faults, hist>>

\* The same for the Deployment.
SyncLive ==
    /\ liveCache # live
    /\ liveCache' = live
    /\ UNCHANGED <<store, age, persona, origin, live, liveOrigin, incident, worker, faults, hist>>

Tick ==
    /\ \E a \in Actions : age[a] < Plan[a].delay
    /\ age' = [a \in Actions |-> IF age[a] < Plan[a].delay THEN age[a] + 1 ELSE age[a]]
    /\ UNCHANGED <<store, world, incident, worker, faults, hist>>

\* The operator dies and restarts with freshly listed caches.
Crash ==
    /\ pc # "idle"
    /\ faults < MaxFaults
    /\ faults' = faults + 1
    /\ Done
    /\ cache' = act
    /\ liveCache' = live
    /\ UNCHANGED <<act, age, persona, origin, live, liveOrigin, incident, hist>>

-----------------------------------------------------------------------------
Reconcile ==
    \/ \E a \in Actions : \/ handleApproved(a)
                          \/ handleApplying(a)
                          \/ handleVerifying(a)
                          \/ recordRejection(a)
    \/ ExecutorApply
    \/ RunVerifier
    \/ RollbackExecute
    \/ InspectWorkload
    \/ WriteStatus
    \/ WriteStatusRefused
    \/ UpdateIncidentSpec
    \/ UpdateIncidentStatus

Environment ==
    \/ \E a \in Actions : Approve(a) \/ Reject(a) \/ Heal(a) \/ TouchAction(a) \/ SyncCache(a)
    \/ \E f \in Fields, v \in Values : EditLive(f, v) \/ EditPersona(f, v)
    \/ WriteStatusReplyLost
    \/ UpdateIncidentFails
    \/ SyncLive
    \/ Tick
    \/ Crash

Next == Reconcile \/ Environment

Spec == Init /\ [][Next]_vars

(***************************************************************************)
(* Fairness.  The work queue retries every request whose object is not in  *)
(* a settled phase (an error or a RequeueAfter puts it back, and a restart *)
(* lists everything), the watch eventually delivers, and time passes.  A   *)
(* human owes nothing.                                                     *)
(***************************************************************************)
Fairness ==
    /\ \A a \in Actions : /\ SF_vars(handleApproved(a))
                          /\ SF_vars(handleApplying(a))
                          /\ SF_vars(handleVerifying(a))
                          /\ WF_vars(SyncCache(a))
    /\ WF_vars(ExecutorApply)
    /\ WF_vars(RunVerifier)
    /\ WF_vars(RollbackExecute)
    /\ WF_vars(InspectWorkload)
    /\ WF_vars(WriteStatus)
    /\ WF_vars(WriteStatusRefused)
    /\ WF_vars(UpdateIncidentSpec)
    /\ WF_vars(UpdateIncidentStatus)
    /\ WF_vars(Tick)

FairSpec == Spec /\ Fairness

\* The cluster can be read every now and then: a verification that is repeated
\* for ever reaches a verdict for ever again.
VerifierDecides == RunVerifier /\ obj'.verdict # "Unknown"
ReadableSpec == FairSpec /\ SF_vars(VerifierDecides)

-----------------------------------------------------------------------------
(***************************************************************************)
(* Properties.                                                             *)
(***************************************************************************)

\* Every variable holds a value of its kind, and a busy worker has a request.
TypeOK ==
    /\ act \in [Actions -> Object]
    /\ cache \in [Actions -> Object]
    /\ age \in [Actions -> Nat]
    /\ persona \in [Fields -> Values \cup {None}]
    /\ origin \in [Fields -> Actions \cup {User}]
    /\ live \in [Fields -> Values \cup {None}]
    /\ liveOrigin \in [Fields -> Actions \cup {User}]
    /\ liveCache \in [Fields -> Values \cup {None}]
    /\ incident \in [Actions -> Incident]
    /\ pc \in Stage
    /\ pc # "idle" => cur \in Actions
    /\ obj \in Object
    /\ outcome \in Outcome
    /\ faults \in Nat
    /\ approved \subseteq Actions
    /\ written \subseteq Actions
    /\ overlooked \subseteq Actions

\* A patch reaches the persona only after a human approved its plan, whatever
\* stale copies, crashes and retries the worker goes through.
OnlyApprovedPlansWrite == written \subseteq approved

\* "Nothing was applied" is true when it is said: a plan settled as
\* Acknowledged, or refused as PreconditionRejected (which exempts it from the
\* failure cooldown), never touched the persona.
NothingAppliedIsTrue ==
    \A a \in Actions :
        \/ act[a].phase = "Acknowledged"
        \/ act[a].conds["Applied"].reason = "PreconditionRejected"
        => a \notin written

\* A verification verdict is about a change that was made: an action that is
\* waiting for, running or past verification has written the persona, and its
\* AppliedAt is set, so the nil check of handleApplying never fires.
VerifiedWasApplied ==
    \A a \in Actions :
        act[a].phase \in {"Applying", "Verifying", "Completed", "RolledBack"}
            => a \in written /\ act[a].appliedAt

\* RolledBack means the snapshot is back in force: no field it covers still holds
\* a value that this action's patch put there, not even through a late re-apply
\* by a worker that read a stale Approved copy.
RolledBackIsUndone ==
    \A a \in Actions :
        act[a].phase = "RolledBack" => \A f \in DOMAIN Plan[a].pre : origin[f] # a

\* A rollback says "nothing is left to undo" while the workload still carries the
\* value the CLI healed it with in one case only: the cached Deployment did not
\* show the heal yet when it was inspected.  No unreadable workload, stale copy of
\* the action, repeated rollback, edit or late heal makes the stored report wrong.
RollbackScopeIsReported ==
    \A a \in Actions \ overlooked :
        /\ act[a].phase = "RolledBack"
        /\ \E f \in Fields : liveOrigin[f] = a
        => act[a].conds["WorkloadDiverged"].status # "False"

\* The controller closes an incident only for a remediation that completed, and
\* its label never says Resolved for any other reason.
IncidentClosedOnlyByCompleted ==
    \A a \in Actions :
        "Resolved" \in {incident[a].label, incident[a].phase} => act[a].phase = "Completed"

\* A settled action is never reopened or re-decided, in particular not by a
\* worker that finishes with an outdated copy.
SettledStaysSettled ==
    [][\A a \in Actions :
          act[a].phase \in Settled => act'[a].phase = act[a].phase]_vars

\* Verification is about one change, already made: no worker, however stale the
\* Approved copy it read, puts a patch value (back) into the persona once the
\* verification of that action has begun.
NoLateApply ==
    [][\A a \in Actions, f \in Fields :
          origin'[f] = a /\ origin[f] # a
              => act[a].phase \notin {"Verifying", "Completed", "RolledBack"}]_vars

(***************************************************************************)
(* The abstract view of this system.                                       *)
(***************************************************************************)
Contract == INSTANCE RemediationContract WITH
    phase   <- [a \in Actions |-> act[a].phase],
    granted <- approved,
    wrote   <- written

\* The controller implements the contract: phases move in the documented order,
\* the patch first lands for a granted plan before its verification begins, and
\* Acknowledged is only said of plans that changed nothing.
ImplementsContract == Contract!Spec

\* Every approved plan is settled in the end.
ApprovedSettles ==
    \A a \in Actions : act[a].phase = "Approved" ~> act[a].phase \in Settled

\* A remediation does not wait for verification forever.
VerifyingEnds ==
    \A a \in Actions : act[a].phase = "Verifying" ~> act[a].phase # "Verifying"
=============================================================================
