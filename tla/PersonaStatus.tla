---------------------------- MODULE PersonaStatus ----------------------------
(***************************************************************************)
(* The status of an ApplicationPersona and its writers: the persona        *)
(* controller (phase, health, validation), the ArgoCD watcher (argo) and   *)
(* the incident controller (count).  Each writes the whole status, from a  *)
(* copy the informer cache gave it, and the API server refuses a copy that *)
(* is not the stored object: the copy is compared by value here, which can *)
(* only differ from comparing versions when nothing would be lost.         *)
(*                                                                         *)
(* Every reconcile ends with RequeueAfter, or with an error that is        *)
(* retried, so a reconcile can begin at any time; watches only make it     *)
(* sooner.                                                                 *)
(***************************************************************************)
EXTENDS Naturals, FiniteSets

CONSTANTS Deployments,    \* names in the persona's namespace
          Workloads,      \* what a Deployment can look like: records, see MC
          Specs,          \* what a persona can demand of it
          MaxChanges,     \* bound: changes by people and by the cluster
          MaxFailures     \* bound: failed requests

ASSUME PersonaBounds == MaxChanges \in Nat /\ MaxFailures \in Nat

None == "none"
Nothing == << >>

VARIABLES
    dep,        \* the Deployments; one that matches no rung stands for an absent one too
    app,        \* the ArgoCD Application: its status, or None
    active,     \* incidents of the persona that are not Resolved
    persona,    \* the ApplicationPersona
    cache,      \* what the informer holds of it
    elsewhere,  \* status.argocd of a persona of the same name in another namespace
    task,       \* of each writer: Nothing, or the copy it read and what it will write
    changes, failures

world == <<dep, app, active>>
personaVars == <<world, persona, cache, elsewhere, task>>
vars == <<personaVars, changes, failures>>

Writers == {"persona", "argo", "incidents"}
Rungs == 1 .. 4     \* the chain of workload.Resolve: two labels, the name, the selector

\* A Deployment is not mistaken for none, and matches on rungs of the chain.
ASSUME DeploymentsAssumption == None \notin Deployments
ASSUME WorkloadsAssumption == \A w \in Workloads : w.rungs \subseteq Rungs

Status == [phase : {None, "Pending", "Active", "Degraded", "Failed"},
           health : {None, "Unknown", "Healthy", "Degraded", "Unhealthy"},
           podFailures : BOOLEAN, passed : BOOLEAN, ready : BOOLEAN,
           argo : {None, "Synced", "OutOfSync"}, count : {0, 1}]

Blank == [phase |-> None, health |-> None, podFailures |-> FALSE, passed |-> FALSE,
          ready |-> FALSE, argo |-> None, count |-> 0]

Init ==
    /\ dep \in [Deployments -> Workloads]
    /\ app = None
    /\ active = 0
    /\ persona \in [spec : Specs, status : {Blank}]
    /\ cache = persona
    /\ elsewhere = None
    /\ task = [w \in Writers |-> Nothing]
    /\ changes = 0
    /\ failures = 0

Change == changes < MaxChanges /\ changes' = changes + 1 /\ UNCHANGED failures
Failure == failures < MaxFailures /\ failures' = failures + 1 /\ UNCHANGED changes

-----------------------------------------------------------------------------
(***************************************************************************)
(* workload.Resolve: the first rung of the chain on which anything matches *)
(* decides, and it must match exactly one.                                 *)
(***************************************************************************)
Matched(r) == {d \in Deployments : r \in dep[d].rungs}

\* Mutant: the whole chain is one rung.
Resolve_AnyRung == LET all == UNION {Matched(r) : r \in Rungs}
                   IN  IF Cardinality(all) = 1 THEN CHOOSE d \in all : TRUE ELSE None

\* The Deployment, or None: nothing matches, or too much does.
Resolve ==
    IF \A r \in Rungs : Matched(r) = {} THEN None
    ELSE LET rung == CHOOSE r \in Rungs : Matched(r) # {} /\ \A q \in 1 .. (r - 1) : Matched(q) = {}
         IN  IF Cardinality(Matched(rung)) = 1 THEN CHOOSE d \in Matched(rung) : TRUE ELSE None

\* A limit is any string, and one that is no quantity makes validateResources panic.
MustParsePanics(s) == s.resources /\ s.limits = "unparseable"

\* Issues are pairs of a severity and a subject.
validateResources(s, w) ==
    (IF s.resources /\ s.limits = "quantity" /\ w.overLimit THEN {<<"warning", "limits">>} ELSE {})
    \cup (IF s.resources /\ ~w.requests THEN {<<"warning", "requests">>} ELSE {})

validateReplicas(s, w) ==
    (IF w.want < s.min THEN {<<"error", "replicas">>} ELSE {})
    \cup (IF w.want > s.max THEN {<<"warning", "replicas">>} ELSE {})

validateHealthProbes(s, w) ==
    (IF s.probes /\ w.liveness = "none" THEN {<<"warning", "liveness">>} ELSE {})
    \cup (IF s.probes /\ w.liveness = "other" THEN {<<"info", "liveness">>} ELSE {})
    \cup (IF s.probes /\ ~w.readiness THEN {<<"warning", "readiness">>} ELSE {})

validateSecurityContext(s, w) ==
    (IF s.nonRoot /\ ~w.nonRoot THEN {<<"error", "runAsNonRoot">>} ELSE {})
    \cup (IF s.readOnly /\ ~w.readOnly THEN {<<"warning", "readOnlyRootFilesystem">>} ELSE {})
    \cup (IF s.noEscalation /\ w.escalates THEN {<<"error", "allowPrivilegeEscalation">>} ELSE {})

Issues(s, w) == validateResources(s, w) \cup validateReplicas(s, w)
                \cup validateHealthProbes(s, w) \cup validateSecurityContext(s, w)

deriveHealthFromDeployment(w) ==
    IF w.available /\ w.ready = w.replicas THEN "Healthy"
    ELSE IF w.available /\ w.ready > 0 THEN "Degraded"
    ELSE IF w.progressing THEN "Unknown"
    ELSE "Unhealthy"

getPodFailures(w) == w.failing

markUnresolved(st) == [st EXCEPT !.phase = "Pending", !.health = "Unknown", !.podFailures = FALSE,
                                 !.passed = TRUE, !.ready = FALSE]

\* The status the persona controller makes of what it read.
Reconciled(p) ==
    IF Resolve = None THEN markUnresolved(p.status)
    ELSE LET w == dep[Resolve]
             errors == \E i \in Issues(p.spec, w) : i[1] = "error"
             health == deriveHealthFromDeployment(w)
             phase == CASE health = "Healthy" /\ ~errors -> "Active"
                        [] health = "Unhealthy" /\ ~errors -> "Failed"
                        [] OTHER -> "Degraded"
         IN  [p.status EXCEPT !.phase = phase, !.health = health, !.passed = ~errors,
                              !.podFailures = (health # "Healthy" /\ getPodFailures(w)),
                              !.ready = (phase = "Active")]

-----------------------------------------------------------------------------
(***************************************************************************)
(* Writing: read a copy, and write it back changed.                        *)
(***************************************************************************)
Begin(w, new) ==
    /\ task[w] = Nothing
    /\ task' = [task EXCEPT ![w] = <<cache, [cache EXCEPT !.status = new]>>]
    /\ UNCHANGED <<world, persona, cache, elsewhere, changes, failures>>

ReconcilePersona ==
    /\ Resolve # None => ~MustParsePanics(cache.spec)
    /\ Begin("persona", Reconciled(cache))

\* A panic is an error too: nothing is written, and every retry panics again.
ReconcilePanics ==
    /\ task["persona"] = Nothing
    /\ Resolve # None /\ MustParsePanics(cache.spec)
    /\ UNCHANGED vars

\* A deleted Application is not looked at: what was written of it stays.
ReconcileArgo == app # None /\ Begin("argo", [cache.status EXCEPT !.argo = app])

\* syncPersonaStatus, of the incident controller: it writes a changed count only, and
\* each attempt after a conflict starts again from the cache.
CountIncidents ==
    /\ cache.status.count # active
    /\ Begin("incidents", [cache.status EXCEPT !.count = active])

\* Mutant: the write is not conditional on the version that was read.
Accepted_Always(w) == TRUE

Accepted(w) == task[w][1] = persona

StatusUpdate(w) ==
    /\ task[w] # Nothing
    /\ persona' = IF Accepted(w) THEN task[w][2] ELSE persona   \* a conflict is an error, and retried
    /\ task' = [task EXCEPT ![w] = Nothing]
    /\ UNCHANGED <<world, cache, elsewhere, changes, failures>>

\* The request fails before it reaches the store.
UpdateFails(w) ==
    /\ task[w] # Nothing
    /\ Failure
    /\ task' = [task EXCEPT ![w] = Nothing]
    /\ UNCHANGED <<world, persona, cache, elsewhere>>

\* findMatchingPersona: the list of the destination namespace fails, and the search
\* goes on in all of them.
ArgoStrays ==
    /\ app # None
    /\ Failure
    /\ elsewhere' = app
    /\ UNCHANGED <<world, persona, cache, task>>

SyncCache ==
    /\ cache # persona
    /\ cache' = persona
    /\ UNCHANGED <<world, persona, elsewhere, task, changes, failures>>

-----------------------------------------------------------------------------
\* People and the cluster.
DeploymentChanges(d) ==
    /\ Change
    /\ \E w \in Workloads : w # dep[d] /\ dep' = [dep EXCEPT ![d] = w]
    /\ UNCHANGED <<app, active, persona, cache, elsewhere, task>>

ApplicationChanges ==
    /\ Change
    /\ app' \in {None, "Synced", "OutOfSync"} \ {app}
    /\ UNCHANGED <<dep, active, persona, cache, elsewhere, task>>

IncidentsChange ==
    /\ Change
    /\ active' = 1 - active
    /\ UNCHANGED <<dep, app, persona, cache, elsewhere, task>>

SpecChanges ==
    /\ Change
    /\ \E s \in Specs : s # persona.spec /\ persona' = [persona EXCEPT !.spec = s]
    /\ UNCHANGED <<world, cache, elsewhere, task>>

Next ==
    \/ ReconcilePersona \/ ReconcilePanics \/ ReconcileArgo \/ CountIncidents
    \/ \E w \in Writers : StatusUpdate(w) \/ UpdateFails(w)
    \/ ArgoStrays \/ SyncCache
    \/ \E d \in Deployments : DeploymentChanges(d)
    \/ ApplicationChanges \/ IncidentsChange \/ SpecChanges

\* The controllers run, the watch delivers; nobody need change anything.
Fairness ==
    /\ WF_vars(ReconcilePersona) /\ WF_vars(ReconcileArgo) /\ WF_vars(SyncCache)
    /\ \A w \in Writers : WF_vars(StatusUpdate(w))

Spec == Init /\ [][Next]_vars /\ Fairness

-----------------------------------------------------------------------------
Section(w, st) == CASE w = "persona" -> <<st.phase, st.health, st.podFailures, st.passed, st.ready>>
                    [] w = "argo" -> <<st.argo>>
                    [] w = "incidents" -> <<st.count>>

(***************************************************************************)
(* No writer undoes another: a part of the status changes only in a write  *)
(* of its own writer, and the spec in none, however old the copies are     *)
(* that the three write back whole (Status().Update of the three           *)
(* controllers).                                                           *)
(***************************************************************************)
WritersKeepApart ==
    [][\A w \in Writers :
          Section(w, persona'.status) # Section(w, persona.status)
              => task[w] # Nothing /\ task'[w] = Nothing /\ persona'.spec = persona.spec]_vars

\* What the persona's status ought to say of the world as it is: a reference that
\* looks at the Deployments only, not at the order of the chain.
BestRung(d) == CHOOSE r \in dep[d].rungs : \A q \in dep[d].rungs : r <= q
Candidates == {d \in Deployments : dep[d].rungs # {}}
Leaders == {d \in Candidates : \A e \in Candidates : BestRung(d) <= BestRung(e)}

Mirrors(st) ==
    IF Cardinality(Leaders) # 1 THEN st.phase = "Pending" /\ st.health = "Unknown" /\ ~st.ready
    ELSE LET w == dep[CHOOSE d \in Leaders : TRUE]
         IN  /\ st.health = deriveHealthFromDeployment(w)
             /\ st.passed = ({i \in Issues(persona.spec, w) : i[1] = "error"} = {})
             /\ st.ready = (st.health = "Healthy" /\ st.passed)
             /\ st.ready = (st.phase = "Active")

(***************************************************************************)
(* When the cluster and the people rest, the status comes to describe them *)
(* and stays so, after any conflicts, failed writes and stale reads: the   *)
(* one Deployment of the best rung, or Pending if none or several are, and *)
(* the ArgoCD Application if there is one (Reconcile, workload.Resolve).   *)
(* Only of a Deployment whose persona has a limit that does not parse      *)
(* nothing is said any more, and the Application is kept up all the same   *)
(* (validateResources).                                                    *)
(***************************************************************************)
StatusSettles ==
    <>[](/\ Mirrors(persona.status) \/ (Cardinality(Leaders) = 1 /\ MustParsePanics(persona.spec))
         /\ app # None => persona.status.argo = app)
=============================================================================
