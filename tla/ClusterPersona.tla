---------------------------- MODULE ClusterPersona ----------------------------
(***************************************************************************)
(* The ClusterPersonas: the bootstrap that makes sure there is one, the    *)
(* controller that fills in the policy and writes what it discovered of    *)
(* the cluster into the status, and the people who create, edit and delete *)
(* them.  Both read through the informer cache; a write is refused when    *)
(* the copy it starts from is not the stored object (compared by value).   *)
(*                                                                         *)
(* The bootstrap loop ticks, and every reconcile is repeated after an      *)
(* interval or, on an error, with back-off: both can start at any time.    *)
(***************************************************************************)
EXTENDS Naturals, FiniteSets

CONSTANTS Names,          \* of ClusterPersonas people create
          Policies,       \* what people write as the selfHealing policy
          Worlds,         \* states of the cluster: records, see MC
          MaxChanges,     \* bound: changes by people and by the cluster
          MaxFailures     \* bound: failed requests and restarts

bootstrapPersonaName == "dorgu-cluster"
AllNames == Names \cup {bootstrapPersonaName}

ASSUME ClusterBounds == MaxChanges \in Nat /\ MaxFailures \in Nat

\* A mode may be left out.
SelfHealingMode == {"", "observe", "propose", "auto-approve"}
SelfHealingPolicy == [mode : SelfHealingMode, trust : Nat]

ASSUME PolicyAssumption == Policies \subseteq SelfHealingPolicy

Absent == << >>

VARIABLES
    world,      \* the cluster: nodes, pods, add-ons, namespaces, ApplicationPersonas
    personas,   \* the stored ClusterPersonas: [policy, status], or Absent
    cache,      \* what the informer holds of them
    at,         \* the reconcile in progress
    boot,       \* the bootstrap: "idle", or "creating" once it found no persona
    chosen,     \* history: the policy a human last wrote, or Absent
    changes, failures

vars == <<world, personas, cache, at, boot, chosen, changes, failures>>

Idle == [pc |-> "idle"]

\* An omitted selfHealing block.
Omitted == [mode |-> "", trust |-> 0]
Undiscovered == [phase |-> "", nodes |-> {}, claimed |-> {}, addons |-> {}, spaces |-> 0, apps |-> 0]

Persona(policy) == [policy |-> policy, status |-> Undiscovered]

Init ==
    /\ world \in Worlds
    /\ \/ personas = [n \in AllNames |-> Absent] /\ chosen = personas
       \/ \E n \in AllNames, p \in Policies :
              /\ personas = [m \in AllNames |-> IF m = n THEN Persona(p) ELSE Absent]
              /\ chosen = [m \in AllNames |-> IF m = n THEN p ELSE Absent]
    /\ cache = personas
    /\ at = Idle
    /\ boot = "idle"
    /\ changes = 0
    /\ failures = 0

Change == changes < MaxChanges /\ changes' = changes + 1 /\ UNCHANGED failures
Failure == failures < MaxFailures /\ failures' = failures + 1 /\ UNCHANGED changes

-----------------------------------------------------------------------------
(***************************************************************************)
(* ClusterPersonaBootstrap.                                                *)
(***************************************************************************)
\* ensure: any persona of the list will do.
ensure ==
    /\ boot = "idle"
    /\ \A n \in AllNames : cache[n] = Absent
    /\ boot' = "creating"
    /\ UNCHANGED <<world, personas, cache, at, chosen, changes, failures>>

buildPersona == Persona([mode |-> "propose", trust |-> 2])

\* AlreadyExists is success.
Created ==
    IF personas[bootstrapPersonaName] # Absent THEN personas
    ELSE [personas EXCEPT ![bootstrapPersonaName] = buildPersona]

Create ==
    /\ boot = "creating"
    /\ boot' = "idle"
    /\ \/ personas' = Created /\ UNCHANGED <<changes, failures>>
       \/ Failure /\ personas' \in {personas, Created}      \* the reply may be what failed
    /\ UNCHANGED <<world, cache, at, chosen>>

-----------------------------------------------------------------------------
(***************************************************************************)
(* ClusterPersonaReconciler.Reconcile.                                     *)
(***************************************************************************)
\* A mode that is missing becomes propose, a trust level of 0 becomes 2.
applySelfHealingDefaults(p) ==
    [mode |-> IF p.mode = "" THEN "propose" ELSE p.mode,
     trust |-> IF p.trust = 0 THEN 2 ELSE p.trust]

\* Mutant: a persona that is Ready is left alone.
Reconcile_SkipsReady(n) ==
    /\ at = Idle
    /\ cache[n] # Absent
    /\ cache[n].status.phase # "Ready"
    /\ at' = [pc |-> IF applySelfHealingDefaults(cache[n].policy) = cache[n].policy
                     THEN "discover" ELSE "defaults",
              name |-> n, copy |-> cache[n]]
    /\ UNCHANGED <<world, personas, cache, boot, chosen, changes, failures>>

Reconcile(n) ==
    /\ at = Idle
    /\ cache[n] # Absent
    /\ at' = [pc |-> IF applySelfHealingDefaults(cache[n].policy) = cache[n].policy
                     THEN "discover" ELSE "defaults",
              name |-> n, copy |-> cache[n]]
    /\ UNCHANGED <<world, personas, cache, boot, chosen, changes, failures>>

\* Mutant: the write is not conditional on the version that was read.
Accepted_Always == personas[at.name] # Absent

Accepted == personas[at.name] = at.copy

\* The copy with its policy completed; the reply to the write is what the rest works on.
Completed == [at.copy EXCEPT !.policy = applySelfHealingDefaults(@)]

UpdatePolicy ==
    /\ at.pc = "defaults"
    /\ IF Accepted
       THEN personas' = [personas EXCEPT ![at.name] = Completed]
            /\ at' = [at EXCEPT !.pc = "discover", !.copy = Completed]
       ELSE at' = Idle /\ UNCHANGED personas
    /\ UNCHANGED <<world, cache, boot, chosen, changes, failures>>

\* Nodes are pairs of a name and whether it is ready.
determinePhase(nodes) ==
    IF nodes = {} THEN "Discovering"
    ELSE IF \A x \in nodes : x[2] THEN "Ready"
    ELSE "Degraded"

\* Pods are pairs of a phase and whether they have a node.  Only those a node has
\* accepted, and that have not ended, hold an allocation.
podHoldsAllocation(pod) == pod[1] \notin {"Succeeded", "Failed"} /\ pod[2]

Parts == {"nodes", "pods", "addons", "spaces", "apps"}

\* Mutant: nothing is left of the nodes when they cannot be listed.
discoverNodes_Empty(old, failed) == IF "nodes" \in failed THEN {} ELSE world.nodes

\* The nodes of an earlier discovery stay when they cannot be listed.
discoverNodes(old, failed) == IF "nodes" \in failed THEN old ELSE world.nodes

\* Usage is reported as unavailable when the pods cannot be listed.
setClaimedResources(failed) ==
    IF "pods" \in failed THEN {}
    ELSE {Cardinality({x \in DOMAIN world.pods : podHoldsAllocation(world.pods[x])})}

\* An add-on that cannot be looked up is reported as missing.
discoverAddons(failed) == IF "addons" \in failed THEN {} ELSE world.addons

discoverNamespaces(old, failed) == IF "spaces" \in failed THEN old ELSE world.spaces

countApplicationPersonas(old, failed) == IF "apps" \in failed THEN old ELSE world.apps

\* The status, where listing the failed parts did not succeed.
Discovered(old, failed) ==
    LET nodes == discoverNodes(old.nodes, failed)
    IN  [phase |-> determinePhase(nodes),
         nodes |-> nodes,
         claimed |-> setClaimedResources(failed),
         addons |-> discoverAddons(failed),
         spaces |-> discoverNamespaces(old.spaces, failed),
         apps |-> countApplicationPersonas(old.apps, failed)]

Discover ==
    /\ at.pc = "discover"
    /\ \/ at' = [pc |-> "status", name |-> at.name, copy |-> at.copy,
                 new |-> Discovered(at.copy.status, {})] /\ UNCHANGED <<changes, failures>>
       \/ \E failed \in {{x} : x \in Parts} \cup {Parts} :
              /\ Failure
              /\ at' = [pc |-> "status", name |-> at.name, copy |-> at.copy,
                        new |-> Discovered(at.copy.status, failed)]
    /\ UNCHANGED <<world, personas, cache, boot, chosen>>

\* A conflict, or a persona that is gone, is an error: the reconcile is tried again.
StatusUpdate ==
    /\ at.pc = "status"
    /\ personas' = IF Accepted THEN [personas EXCEPT ![at.name].status = at.new] ELSE personas
    /\ at' = Idle
    /\ UNCHANGED <<world, cache, boot, chosen, changes, failures>>

\* A write fails: before it reached the store, or after.
WriteFails ==
    /\ at.pc \in {"defaults", "status"}
    /\ Failure
    /\ \/ UNCHANGED personas
       \/ Accepted /\ at.pc = "status" /\ personas' = [personas EXCEPT ![at.name].status = at.new]
       \/ Accepted /\ at.pc = "defaults" /\ personas' = [personas EXCEPT ![at.name] = Completed]
    /\ at' = Idle
    /\ UNCHANGED <<world, cache, boot, chosen>>

-----------------------------------------------------------------------------
SyncCache ==
    /\ cache # personas
    /\ cache' = personas
    /\ UNCHANGED <<world, personas, at, boot, chosen, changes, failures>>

\* The leader dies; the next one lists before it starts.
Restart ==
    /\ Failure
    /\ at' = Idle
    /\ boot' = "idle"
    /\ cache' = personas
    /\ UNCHANGED <<world, personas, chosen>>

\* People.
UserWrites(n) ==
    /\ Change
    /\ \E p \in Policies :
           /\ personas' = [personas EXCEPT ![n] = IF @ = Absent THEN Persona(p)
                                                  ELSE [@ EXCEPT !.policy = p]]
           /\ chosen' = [chosen EXCEPT ![n] = p]
    /\ UNCHANGED <<world, cache, at, boot>>

UserDeletes(n) ==
    /\ Change
    /\ personas[n] # Absent
    /\ personas' = [personas EXCEPT ![n] = Absent]
    /\ chosen' = [chosen EXCEPT ![n] = Absent]
    /\ UNCHANGED <<world, cache, at, boot>>

WorldChanges ==
    /\ Change
    /\ world' \in Worlds \ {world}
    /\ UNCHANGED <<personas, cache, at, boot, chosen>>

Next ==
    \/ ensure \/ Create
    \/ \E n \in AllNames : Reconcile(n) \/ UserWrites(n) \/ UserDeletes(n)
    \/ UpdatePolicy \/ Discover \/ StatusUpdate \/ WriteFails
    \/ SyncCache \/ Restart \/ WorldChanges

\* The loop ticks, the requeued reconciles run, the watch delivers.
Fairness ==
    /\ WF_vars(ensure) /\ WF_vars(Create) /\ WF_vars(SyncCache)
    /\ \A n \in AllNames : SF_vars(Reconcile(n))
    /\ WF_vars(UpdatePolicy) /\ WF_vars(Discover) /\ WF_vars(StatusUpdate)

Spec == Init /\ [][Next]_vars /\ Fairness

-----------------------------------------------------------------------------
Present == {n \in AllNames : personas[n] # Absent}

(***************************************************************************)
(* The mode a human last chose is the mode in force, whatever copies the   *)
(* controller still held when it was chosen: defaulting touches only what  *)
(* was left out (applySelfHealingDefaults, the Update that follows it).    *)
(***************************************************************************)
ModeIsTheUsers ==
    \A n \in Present :
        (chosen[n] # Absent /\ chosen[n].mode # "") => personas[n].policy.mode = chosen[n].mode

(***************************************************************************)
(* In a cluster that always has nodes, a persona that was once discovered  *)
(* does not fall back to Discovering, although listing them may fail and   *)
(* the copy it is written from may be old (discoverNodes, determinePhase). *)
(***************************************************************************)
NoPhaseRegression ==
    [][\A n \in Present :
          (/\ \A w \in Worlds : w.nodes # {}
           /\ personas[n].status.phase \in {"Ready", "Degraded"} /\ personas'[n] # Absent)
              => personas'[n].status.phase \in {"Ready", "Degraded"}]_vars

\* What a discovery that misses nothing says.
InStep(st) ==
    /\ st.nodes = world.nodes
    /\ (st.phase = "Ready") = ({x[2] : x \in world.nodes} = {TRUE})
    /\ st.claimed = {Cardinality({x \in DOMAIN world.pods : podHoldsAllocation(world.pods[x])})}
    /\ st.addons = world.addons /\ st.spaces = world.spaces /\ st.apps = world.apps

(***************************************************************************)
(* When people and the cluster rest there is a ClusterPersona, also after  *)
(* a deletion, a lost reply, a stale list or a new leader; and every one   *)
(* has a complete policy and describes the cluster as it is, after any     *)
(* failed discovery and any conflict (the bootstrap's loop, Reconcile).    *)
(***************************************************************************)
ClusterIsDescribed ==
    <>[](/\ Present # {}
         /\ \A n \in Present : personas[n].policy.mode # "" /\ InStep(personas[n].status))
=============================================================================
