---------------------------- MODULE PersonaProofs ----------------------------
(***************************************************************************)
(* Proofs about PersonaStatus, for all Deployments, workloads and specs    *)
(* and any number of changes and failures.                                 *)
(***************************************************************************)
EXTENDS PersonaStatus, FiniteSetTheorems, TLAPS

-----------------------------------------------------------------------------
(***************************************************************************)
(* The inductive invariant.                                                *)
(***************************************************************************)

Personas == [spec : Specs, status : Status]

WorldOK ==
    /\ dep \in [Deployments -> Workloads]
    /\ app \in {None, "Synced", "OutOfSync"}
    /\ active \in {0, 1}

\* Two statuses differ at most in what w writes.
DifferIn(w, old, new) == \A v \in Writers \ {w} : Section(v, new) = Section(v, old)

\* A writer that is at work changes its own part of the copy it read, and no spec.
TaskOK ==
    /\ task \in [Writers -> {Nothing} \cup (Personas \X Personas)]
    /\ \A w \in Writers : task[w] # Nothing =>
           /\ task[w][2].spec = task[w][1].spec
           /\ DifferIn(w, task[w][1].status, task[w][2].status)

IInv == WorldOK /\ persona \in Personas /\ cache \in Personas /\ TaskOK

(***************************************************************************)
(* What the persona controller sets out to write of a current copy         *)
(* describes the cluster: the one Deployment on the best rung on which any *)
(* matches, or none (workload.Resolve, Reconcile).  It sets out to write   *)
(* nothing exactly when there is such a Deployment and a limit that does   *)
(* not parse (validateResources).                                          *)
(***************************************************************************)
ReconcileMirrors ==
    [][/\ ReconcilePersona /\ cache.spec = persona.spec
              => Mirrors(task'["persona"][2].status)
       /\ ReconcilePersona => ~(Cardinality(Leaders) = 1 /\ MustParsePanics(cache.spec))]_vars

-----------------------------------------------------------------------------
(***************************************************************************)
(* Lemmas about the operators.                                             *)
(***************************************************************************)

\* A Deployment that matches at all has a best rung.
LEMMA BestRungFacts ==
    ASSUME IInv, NEW d \in Deployments, dep[d].rungs # {}
    PROVE  /\ BestRung(d) \in dep[d].rungs
           /\ BestRung(d) \in Rungs
           /\ \A q \in dep[d].rungs : BestRung(d) <= q
<1> DEFINE S == dep[d].rungs
<1>1. S \subseteq Rungs /\ S # {}
  BY WorkloadsAssumption DEF IInv, WorldOK
<1> HIDE DEF S
<1>2. \E r \in S : \A q \in S : r <= q
  <2>1. CASE 1 \in S
    BY <1>1, <2>1 DEF Rungs
  <2>2. CASE 1 \notin S /\ 2 \in S
    BY <1>1, <2>2 DEF Rungs
  <2>3. CASE 1 \notin S /\ 2 \notin S /\ 3 \in S
    BY <1>1, <2>3 DEF Rungs
  <2>4. CASE 1 \notin S /\ 2 \notin S /\ 3 \notin S
    <3>1. \A q \in S : q = 4
      BY <1>1, <2>4 DEF Rungs
    <3> QED
      BY <1>1, <3>1
  <2> QED
    BY <2>1, <2>2, <2>3, <2>4
<1>3. BestRung(d) = CHOOSE r \in S : \A q \in S : r <= q
  BY DEF BestRung, S
<1>4. BestRung(d) \in S /\ \A q \in S : BestRung(d) <= q
  BY <1>2, <1>3
<1> QED
  BY <1>1, <1>4 DEF S

\* The first rung on which anything matches.
FirstRung == CHOOSE r \in Rungs : Matched(r) # {} /\ \A q \in 1 .. (r - 1) : Matched(q) = {}

\* Some rung is the first, if anything matches.
LEMMA FirstRungFacts ==
    ASSUME ~\A r \in Rungs : Matched(r) = {}
    PROVE  /\ FirstRung \in Rungs
           /\ Matched(FirstRung) # {}
           /\ \A q \in 1 .. (FirstRung - 1) : Matched(q) = {}
<1> DEFINE First(r) == Matched(r) # {} /\ \A q \in 1 .. (r - 1) : Matched(q) = {}
<1>1. Rungs = {1, 2, 3, 4}
  BY DEF Rungs
<1>2. 1 .. (1 - 1) = {} /\ 1 .. (2 - 1) = {1} /\ 1 .. (3 - 1) = {1, 2} /\ 1 .. (4 - 1) = {1, 2, 3}
  OBVIOUS
<1>3. \E r \in Rungs : First(r)
  <2> HIDE DEF Matched
  <2>1. CASE Matched(1) # {}
    <3>1. First(1)
      BY <1>2, <2>1
    <3> QED
      BY <1>1, <3>1
  <2>2. CASE Matched(1) = {} /\ Matched(2) # {}
    <3>1. First(2)
      BY <1>2, <2>2
    <3> QED
      BY <1>1, <3>1
  <2>3. CASE Matched(1) = {} /\ Matched(2) = {} /\ Matched(3) # {}
    <3>1. First(3)
      BY <1>2, <2>3
    <3> QED
      BY <1>1, <3>1
  <2>4. CASE Matched(1) = {} /\ Matched(2) = {} /\ Matched(3) = {} /\ Matched(4) # {}
    <3>1. First(4)
      BY <1>2, <2>4
    <3> QED
      BY <1>1, <3>1
  <2> QED
    BY <1>1, <2>1, <2>2, <2>3, <2>4
<1>4. FirstRung = CHOOSE r \in Rungs : First(r)
  BY DEF FirstRung
<1> HIDE DEF First
<1>5. FirstRung \in Rungs /\ First(FirstRung)
  BY <1>3, <1>4
<1> QED
  BY <1>5 DEF First

\* Those on the first rung are those whose best rung is the best of all.
LEMMA LeadersFacts ==
    ASSUME IInv, ~\A r \in Rungs : Matched(r) = {}
    PROVE  Leaders = Matched(FirstRung)
<1>1. /\ FirstRung \in Rungs
      /\ Matched(FirstRung) # {}
      /\ \A q \in 1 .. (FirstRung - 1) : Matched(q) = {}
  BY FirstRungFacts
<1>2. \A d \in Deployments : \A q \in dep[d].rungs : q \in Rungs
  BY WorkloadsAssumption DEF IInv, WorldOK
<1>3. ASSUME NEW d \in Deployments, NEW q \in dep[d].rungs PROVE FirstRung <= q
  <2>1. d \in Matched(q) /\ q \in Rungs
    BY <1>2, <1>3 DEF Matched
  <2>2. q \notin 1 .. (FirstRung - 1)
    BY <1>1, <2>1
  <2> QED
    BY <1>1, <2>1, <2>2 DEF Rungs
<1>4. ASSUME NEW d \in Matched(FirstRung) PROVE d \in Candidates /\ BestRung(d) = FirstRung
  <2>1. d \in Deployments /\ FirstRung \in dep[d].rungs
    BY <1>4 DEF Matched
  <2>2. BestRung(d) \in dep[d].rungs /\ BestRung(d) \in Rungs /\ BestRung(d) <= FirstRung
    BY <2>1, BestRungFacts
  <2>3. FirstRung <= BestRung(d)
    BY <1>3, <2>1, <2>2
  <2>4. BestRung(d) = FirstRung
    BY <1>1, <2>2, <2>3 DEF Rungs
  <2> QED
    BY <2>1, <2>4 DEF Candidates
<1>5. ASSUME NEW e \in Candidates PROVE FirstRung <= BestRung(e) /\ BestRung(e) \in dep[e].rungs
  <2>1. e \in Deployments /\ dep[e].rungs # {}
    BY <1>5 DEF Candidates
  <2>2. BestRung(e) \in dep[e].rungs
    BY <2>1, BestRungFacts
  <2> QED
    BY <1>3, <2>1, <2>2
<1>6. ASSUME NEW d \in Matched(FirstRung) PROVE d \in Leaders
  BY <1>4, <1>5, <1>6 DEF Leaders
<1>7. ASSUME NEW d \in Leaders PROVE d \in Matched(FirstRung)
  <2>1. PICK e \in Matched(FirstRung) : TRUE
    BY <1>1
  <2>2. d \in Candidates /\ BestRung(d) <= FirstRung
    BY <1>4, <1>7, <2>1 DEF Leaders
  <2>3. d \in Deployments /\ dep[d].rungs # {}
    BY <2>2 DEF Candidates
  <2>4. FirstRung <= BestRung(d) /\ BestRung(d) \in dep[d].rungs /\ BestRung(d) \in Rungs
    BY <1>5, <2>2, <2>3, BestRungFacts
  <2>5. BestRung(d) = FirstRung
    BY <1>1, <2>2, <2>4 DEF Rungs
  <2> QED
    BY <2>3, <2>4, <2>5 DEF Matched
<1> QED
  BY <1>6, <1>7

\* workload.Resolve finds the one Deployment on the best rung, or none.
LEMMA ResolveFacts ==
    ASSUME IInv
    PROVE  /\ Resolve = None <=> Cardinality(Leaders) # 1
           /\ Resolve # None => Resolve = (CHOOSE d \in Leaders : TRUE) /\ Resolve \in Deployments
<1>1. CASE \A r \in Rungs : Matched(r) = {}
  <2>1. Resolve = None
    BY <1>1 DEF Resolve
  <2>2. Leaders = {}
    <3> SUFFICES ASSUME NEW d \in Leaders PROVE FALSE
      OBVIOUS
    <3>1. d \in Deployments /\ dep[d].rungs # {}
      BY DEF Leaders, Candidates
    <3>2. PICK q \in dep[d].rungs : q \in Rungs
      BY <3>1, BestRungFacts
    <3>3. d \in Matched(q)
      BY <3>1, <3>2 DEF Matched
    <3> QED
      BY <1>1, <3>2, <3>3
  <2>3. Cardinality(Leaders) = 0
    BY <2>2, FS_EmptySet
  <2> QED
    BY <2>1, <2>3
<1>2. CASE ~\A r \in Rungs : Matched(r) = {}
  <2>1. Resolve = IF Cardinality(Matched(FirstRung)) = 1
                  THEN CHOOSE d \in Matched(FirstRung) : TRUE ELSE None
    BY <1>2 DEF Resolve, FirstRung
  <2>2. Leaders = Matched(FirstRung) /\ Matched(FirstRung) # {}
    BY <1>2, LeadersFacts, FirstRungFacts
  <2>3. (CHOOSE d \in Leaders : TRUE) \in Deployments
    BY <2>2 DEF Matched
  <2> QED
    BY <2>1, <2>2, <2>3, DeploymentsAssumption
<1> QED
  BY <1>1, <1>2

\* The status the persona controller writes has its type, and leaves the parts of the
\* others alone.
LEMMA ReconciledFacts ==
    ASSUME NEW p \in Personas
    PROVE  Reconciled(p) \in Status /\ DifferIn("persona", p.status, Reconciled(p))
<1> DEFINE st == p.status
<1>1. st \in Status
  BY DEF Personas
<1>2. Reconciled(p) \in Status /\ Reconciled(p).argo = st.argo /\ Reconciled(p).count = st.count
  <2>1. CASE Resolve = None
    <3>1. Reconciled(p) = markUnresolved(st)
      BY <2>1 DEF Reconciled
    <3> HIDE DEF st
    <3> QED
      BY <1>1, <3>1 DEF markUnresolved, Status
  <2>2. CASE Resolve # None
    <3> DEFINE w == dep[Resolve]
               errors == \E i \in Issues(p.spec, w) : i[1] = "error"
               health == deriveHealthFromDeployment(w)
               phase == CASE health = "Healthy" /\ ~errors -> "Active"
                          [] health = "Unhealthy" /\ ~errors -> "Failed"
                          [] OTHER -> "Degraded"
               podFailures == health # "Healthy" /\ getPodFailures(w)
               passed == ~errors
               ready == phase = "Active"
    <3>1. Reconciled(p) = [st EXCEPT !.phase = phase, !.health = health, !.passed = passed,
                                     !.podFailures = podFailures, !.ready = ready]
      BY <2>2 DEF Reconciled
    <3>2. health \in {"Unknown", "Healthy", "Degraded", "Unhealthy"}
      BY DEF deriveHealthFromDeployment
    <3>3. passed \in BOOLEAN /\ podFailures \in BOOLEAN /\ ready \in BOOLEAN
      OBVIOUS
    <3>4. phase \in {"Pending", "Active", "Degraded", "Failed"}
      OBVIOUS
    <3> HIDE DEF health, errors, podFailures, phase, passed, ready, st
    <3> QED
      BY <1>1, <3>1, <3>2, <3>3, <3>4 DEF Status
  <2> QED
    BY <2>1, <2>2
<1> HIDE DEF st
<1> QED
  BY <1>2 DEF DifferIn, Writers, Section, st

\* The writers of one field leave the parts of the others alone.
LEMMA OneFieldFacts ==
    ASSUME NEW st \in Status
    PROVE  /\ \A a \in {None, "Synced", "OutOfSync"} :
                  /\ [st EXCEPT !.argo = a] \in Status
                  /\ DifferIn("argo", st, [st EXCEPT !.argo = a])
           /\ \A n \in {0, 1} :
                  /\ [st EXCEPT !.count = n] \in Status
                  /\ DifferIn("incidents", st, [st EXCEPT !.count = n])
<1>1. ASSUME NEW a \in {None, "Synced", "OutOfSync"}
      PROVE  [st EXCEPT !.argo = a] \in Status /\ DifferIn("argo", st, [st EXCEPT !.argo = a])
  <2> DEFINE new == [st EXCEPT !.argo = a]
  <2>1. /\ new \in Status /\ new.phase = st.phase /\ new.health = st.health
        /\ new.podFailures = st.podFailures /\ new.passed = st.passed /\ new.ready = st.ready
        /\ new.count = st.count
    BY <1>1 DEF Status
  <2> HIDE DEF new
  <2>2. DifferIn("argo", st, new)
    BY <2>1 DEF DifferIn, Writers, Section
  <2> QED
    BY <2>1, <2>2 DEF new
<1>2. ASSUME NEW n \in {0, 1}
      PROVE  [st EXCEPT !.count = n] \in Status /\ DifferIn("incidents", st, [st EXCEPT !.count = n])
  <2> DEFINE new == [st EXCEPT !.count = n]
  <2>1. /\ new \in Status /\ new.phase = st.phase /\ new.health = st.health
        /\ new.podFailures = st.podFailures /\ new.passed = st.passed /\ new.ready = st.ready
        /\ new.argo = st.argo
    BY <1>2 DEF Status
  <2> HIDE DEF new
  <2>2. DifferIn("incidents", st, new)
    BY <2>1 DEF DifferIn, Writers, Section
  <2> QED
    BY <2>1, <2>2 DEF new
<1> QED
  BY <1>1, <1>2

\* A writer begins with what it changes of the cached copy.
LEMMA BeginKeeps ==
    ASSUME IInv, NEW w \in Writers, NEW new \in Status, Begin(w, new),
           DifferIn(w, cache.status, new)
    PROVE  IInv'
<1> DEFINE p == [cache EXCEPT !.status = new]
<1>1. cache \in Personas
  BY DEF IInv
<1>2. p \in Personas /\ p.spec = cache.spec /\ p.status = new
  <2> HIDE DEF Status
  <2> QED
    BY <1>1 DEF Personas
<1>3. task' = [task EXCEPT ![w] = <<cache, p>>]
  BY DEF Begin
<1>4. UNCHANGED <<dep, app, active, persona, cache>>
  BY DEF Begin, world
<1> HIDE DEF p
<1>5. <<cache, p>> \in Personas \X Personas
  BY <1>1, <1>2
<1>6. task' \in [Writers -> {Nothing} \cup (Personas \X Personas)]
  BY <1>3, <1>5 DEF IInv, TaskOK
<1>7. task'[w] = <<cache, p>> /\ \A v \in Writers \ {w} : task'[v] = task[v]
  BY <1>3 DEF IInv, TaskOK
<1>8. task'[w][1] = cache /\ task'[w][2] = p
  BY <1>7
<1>9. ASSUME NEW v \in Writers, task'[v] # Nothing
      PROVE  task'[v][2].spec = task'[v][1].spec /\ DifferIn(v, task'[v][1].status, task'[v][2].status)
  <2>1. CASE v = w
    BY <1>2, <1>8, <2>1
  <2>2. CASE v # w
    BY <1>7, <1>9, <2>2 DEF IInv, TaskOK
  <2> QED
    BY <2>1, <2>2
<1>10. TaskOK'
  BY <1>6, <1>9 DEF TaskOK
<1> QED
  BY <1>4, <1>10 DEF IInv, WorldOK

\* A writer that is done is at rest.
LEMMA EndKeeps ==
    ASSUME IInv, NEW w \in Writers, task' = [task EXCEPT ![w] = Nothing]
    PROVE  TaskOK' /\ task'[w] = Nothing /\ \A v \in Writers \ {w} : task'[v] = task[v]
<1>1. task' \in [Writers -> {Nothing} \cup (Personas \X Personas)]
  BY DEF IInv, TaskOK
<1>2. task'[w] = Nothing /\ \A v \in Writers \ {w} : task'[v] = task[v]
  BY DEF IInv, TaskOK
<1> QED
  BY <1>1, <1>2 DEF IInv, TaskOK

-----------------------------------------------------------------------------
(***************************************************************************)
(* Every step keeps the invariant.                                         *)
(***************************************************************************)

\* At first no writer is at work.
LEMMA InitOK == Init => IInv
<1> SUFFICES ASSUME Init PROVE IInv
  OBVIOUS
<1>1. Blank \in Status
  BY DEF Blank, Status
<1>2. persona \in Personas /\ cache \in Personas
  <2> HIDE DEF Blank, Status
  <2> QED
    BY <1>1 DEF Init, Personas
<1>3. TaskOK
  BY DEF Init, TaskOK
<1>4. WorldOK
  BY DEF Init, WorldOK
<1> QED
  BY <1>2, <1>3, <1>4 DEF IInv

\* Nothing that a writer could mistake changes but in one place at a time.
LEMMA NextOK == ASSUME IInv, [Next]_vars PROVE IInv'
<1>1. CASE ReconcilePersona
  <2>1. Reconciled(cache) \in Status /\ DifferIn("persona", cache.status, Reconciled(cache))
    BY ReconciledFacts DEF IInv
  <2>2. "persona" \in Writers
    BY DEF Writers
  <2> QED
    BY <1>1, <2>1, <2>2, BeginKeeps DEF ReconcilePersona
<1>2. CASE ReconcileArgo
  <2> DEFINE new == [cache.status EXCEPT !.argo = app]
  <2>1. cache.status \in Status /\ app \in {None, "Synced", "OutOfSync"}
    BY DEF IInv, Personas, WorldOK
  <2>2. new \in Status /\ DifferIn("argo", cache.status, new)
    BY <2>1, OneFieldFacts
  <2>3. "argo" \in Writers /\ Begin("argo", new)
    BY <1>2 DEF Writers, ReconcileArgo
  <2> HIDE DEF new
  <2> QED
    BY <2>2, <2>3, BeginKeeps
<1>3. CASE CountIncidents
  <2> DEFINE new == [cache.status EXCEPT !.count = active]
  <2>1. cache.status \in Status /\ active \in {0, 1}
    BY DEF IInv, Personas, WorldOK
  <2>2. new \in Status /\ DifferIn("incidents", cache.status, new)
    BY <2>1, OneFieldFacts
  <2>3. "incidents" \in Writers /\ Begin("incidents", new)
    BY <1>3 DEF Writers, CountIncidents
  <2> HIDE DEF new
  <2> QED
    BY <2>2, <2>3, BeginKeeps
<1>4. ASSUME NEW w \in Writers, StatusUpdate(w) \/ UpdateFails(w) PROVE IInv'
  <2>1. TaskOK'
    BY <1>4, EndKeeps DEF StatusUpdate, UpdateFails
  <2>2. UNCHANGED <<dep, app, active, cache>>
    BY <1>4 DEF StatusUpdate, UpdateFails, world
  <2>3. task[w] \in Personas \X Personas
    BY <1>4 DEF StatusUpdate, UpdateFails, IInv, TaskOK
  <2>4. task[w][2] \in Personas
    BY <2>3
  <2>5. persona' \in Personas
    BY <1>4, <2>4 DEF StatusUpdate, UpdateFails, IInv
  <2> QED
    BY <2>1, <2>2, <2>5 DEF IInv, WorldOK
<1>5. CASE ArgoStrays \/ SyncCache \/ ReconcilePanics \/ UNCHANGED vars
  BY <1>5 DEF ArgoStrays, SyncCache, ReconcilePanics, vars, personaVars, world, IInv, WorldOK, TaskOK
<1>6. CASE (\E d \in Deployments : DeploymentChanges(d)) \/ ApplicationChanges \/ IncidentsChange
  <2>1. UNCHANGED <<persona, cache, task>>
    BY <1>6 DEF DeploymentChanges, ApplicationChanges, IncidentsChange
  <2>2. WorldOK'
    BY <1>6 DEF DeploymentChanges, ApplicationChanges, IncidentsChange, IInv, WorldOK
  <2> QED
    BY <2>1, <2>2 DEF IInv, TaskOK
<1>7. CASE SpecChanges
  <2>1. PICK s \in Specs : persona' = [persona EXCEPT !.spec = s]
    BY <1>7 DEF SpecChanges
  <2>2. UNCHANGED <<dep, app, active, cache, task>>
    BY <1>7 DEF SpecChanges, world
  <2>3. persona' \in Personas
    <3> HIDE DEF Status
    <3> QED
      BY <2>1 DEF IInv, Personas
  <2> QED
    BY <2>2, <2>3 DEF IInv, WorldOK, TaskOK
<1> QED
  BY <1>1, <1>2, <1>3, <1>4, <1>5, <1>6, <1>7 DEF Next

-----------------------------------------------------------------------------
(***************************************************************************)
(* The theorems.                                                           *)
(***************************************************************************)

(***************************************************************************)
(* The invariant holds in every reachable state of the persona and its     *)
(* writers.                                                                *)
(***************************************************************************)
THEOREM Invariance == Spec => []IInv
<1>1. IInv /\ [Next]_vars => IInv'
  BY NextOK
<1> QED
  BY <1>1, InitOK, PTL DEF Spec

(***************************************************************************)
(* A part of the status changes only in a write of its own writer, and the *)
(* spec in none, for any workloads, specs and orders of reads and writes   *)
(* (Status().Update of the persona, ArgoCD and incident controllers).      *)
(***************************************************************************)
THEOREM WritersApart == Spec => WritersKeepApart
<1>1. ASSUME IInv, [Next]_vars, NEW w \in Writers,
             Section(w, persona'.status) # Section(w, persona.status)
      PROVE  task[w] # Nothing /\ task'[w] = Nothing /\ persona'.spec = persona.spec
  <2>1. persona'.status # persona.status
    BY <1>1
  <2>2. ~SpecChanges
    <3> SUFFICES ASSUME SpecChanges PROVE FALSE
      OBVIOUS
    <3>1. PICK s \in Specs : persona' = [persona EXCEPT !.spec = s]
      BY DEF SpecChanges
    <3> HIDE DEF Status
    <3>2. persona'.status = persona.status
      BY <1>1, <3>1 DEF IInv, Personas
    <3> QED
      BY <2>1, <3>2
  <2>3. PICK v \in Writers : StatusUpdate(v) /\ persona' # persona
    BY <1>1, <2>1, <2>2 DEF Next, ReconcilePersona, ReconcilePanics, ReconcileArgo,
       CountIncidents, Begin, UpdateFails, ArgoStrays, SyncCache, DeploymentChanges,
       ApplicationChanges, IncidentsChange, vars, personaVars
  <2>4. task[v] # Nothing /\ persona = task[v][1] /\ persona' = task[v][2]
    BY <2>3 DEF StatusUpdate, Accepted
  <2>5. persona'.spec = persona.spec /\ DifferIn(v, persona.status, persona'.status)
    BY <1>1, <2>4 DEF IInv, TaskOK
  <2>6. w = v
    BY <1>1, <2>5 DEF DifferIn
  <2>7. task'[v] = Nothing
    BY <1>1, <2>3, EndKeeps DEF StatusUpdate
  <2> QED
    BY <2>4, <2>5, <2>6, <2>7
<1>2. ASSUME IInv, [Next]_vars
      PROVE  [\A w \in Writers :
                Section(w, persona'.status) # Section(w, persona.status)
                    => task[w] # Nothing /\ task'[w] = Nothing /\ persona'.spec = persona.spec]_vars
  BY <1>1, <1>2
<1> QED
  BY <1>2, Invariance, PTL DEF Spec, WritersKeepApart

(***************************************************************************)
(* What the persona controller makes of a current copy describes the       *)
(* cluster, as the reference reads it off the Deployments: the safety half *)
(* of StatusSettles, for any Deployments and matches (workload.Resolve,    *)
(* Reconcile).                                                             *)
(***************************************************************************)
THEOREM MirrorsTheCluster == Spec => ReconcileMirrors
<1>1. ASSUME IInv, cache.spec = persona.spec PROVE Mirrors(Reconciled(cache))
  <2> DEFINE st == cache.status
             new == Reconciled(cache)
  <2>1. st \in Status
    BY <1>1 DEF IInv, Personas
  <2>2. CASE Resolve = None
    <3>1. new = markUnresolved(st)
      BY <2>2 DEF Reconciled
    <3> HIDE DEF st, new
    <3>2. new.phase = "Pending" /\ new.health = "Unknown" /\ new.ready = FALSE
      BY <2>1, <3>1 DEF markUnresolved, Status
    <3>3. Cardinality(Leaders) # 1
      BY <1>1, <2>2, ResolveFacts
    <3>4. Mirrors(new)
      BY <3>2, <3>3 DEF Mirrors
    <3> QED
      BY <3>4 DEF new
  <2>3. CASE Resolve # None
    <3> DEFINE w == dep[Resolve]
               errors == \E i \in Issues(cache.spec, w) : i[1] = "error"
               health == deriveHealthFromDeployment(w)
               phase == CASE health = "Healthy" /\ ~errors -> "Active"
                          [] health = "Unhealthy" /\ ~errors -> "Failed"
                          [] OTHER -> "Degraded"
               podFailures == health # "Healthy" /\ getPodFailures(w)
               passed == ~errors
               ready == phase = "Active"
    <3>1. new = [st EXCEPT !.phase = phase, !.health = health, !.passed = passed,
                           !.podFailures = podFailures, !.ready = ready]
      BY <2>3 DEF Reconciled
    <3>2. ready = (health = "Healthy" /\ passed)
      OBVIOUS
    <3>3. passed = ({i \in Issues(cache.spec, w) : i[1] = "error"} = {})
      <4> HIDE DEF w
      <4> QED
        OBVIOUS
    <3>4. ready = (phase = "Active")
      OBVIOUS
    <3> HIDE DEF phase, podFailures, passed, ready, errors, st, new
    <3>5. /\ new.phase = phase /\ new.health = health /\ new.passed = passed /\ new.ready = ready
      BY <2>1, <3>1 DEF Status
    <3>6. Cardinality(Leaders) = 1 /\ dep[CHOOSE d \in Leaders : TRUE] = w
      BY <1>1, <2>3, ResolveFacts
    <3>7. Mirrors(new)
      BY <1>1, <3>2, <3>3, <3>4, <3>5, <3>6 DEF Mirrors
    <3> QED
      BY <3>7 DEF new
  <2> QED
    BY <2>2, <2>3
<1>2. ASSUME IInv, ReconcilePersona
      PROVE  /\ cache.spec = persona.spec => Mirrors(task'["persona"][2].status)
             /\ ~(Cardinality(Leaders) = 1 /\ MustParsePanics(cache.spec))
  <2> DEFINE new == Reconciled(cache)
             p == [cache EXCEPT !.status = new]
  <2>1. Resolve # None => ~MustParsePanics(cache.spec)
    BY <1>2 DEF ReconcilePersona
  <2>2. ~(Cardinality(Leaders) = 1 /\ MustParsePanics(cache.spec))
    BY <1>2, <2>1, ResolveFacts
  <2>3. task' = [task EXCEPT !["persona"] = <<cache, p>>] /\ "persona" \in Writers
    BY <1>2 DEF ReconcilePersona, Begin, Writers
  <2>4. p.status = new
    <3> HIDE DEF new, Status
    <3> QED
      BY <1>2 DEF IInv, Personas
  <2> HIDE DEF p
  <2>5. task'["persona"][2] = p
    BY <1>2, <2>3 DEF IInv, TaskOK
  <2>6. task'["persona"][2].status = Reconciled(cache)
    BY <2>4, <2>5
  <2> QED
    BY <1>1, <1>2, <2>2, <2>6
<1>3. ASSUME IInv, [Next]_vars
      PROVE  [/\ ReconcilePersona /\ cache.spec = persona.spec
                     => Mirrors(task'["persona"][2].status)
              /\ ReconcilePersona => ~(Cardinality(Leaders) = 1 /\ MustParsePanics(cache.spec))]_vars
  BY <1>2, <1>3
<1> QED
  BY <1>3, Invariance, PTL DEF Spec, ReconcileMirrors
=============================================================================
