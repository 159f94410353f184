---------------------------- MODULE ClusterProofs ----------------------------
(***************************************************************************)
(* Proofs about ClusterPersona, for all names, policies and clusters and   *)
(* any number of changes and failures.                                     *)
(***************************************************************************)
EXTENDS ClusterPersona, TLAPS

-----------------------------------------------------------------------------
(***************************************************************************)
(* The inductive invariant.                                                *)
(***************************************************************************)

\* A persona counts as discovered exactly when it lists nodes.
IsStatus(st) == st.phase \in {"Ready", "Degraded"} <=> st.nodes # {}

IsPersona(x) ==
    /\ x = [policy |-> x.policy, status |-> x.status]
    /\ x.policy \in SelfHealingPolicy
    /\ IsStatus(x.status)

Holds(list) ==
    /\ list = [n \in AllNames |-> list[n]]
    /\ \A n \in AllNames : list[n] = Absent \/ IsPersona(list[n])

\* The cluster always has nodes.
AlwaysNodes == \A w \in Worlds : w.nodes # {}

\* The reconcile in progress works on a persona it once read, and what it has
\* discovered lists nodes if the persona did.
AtOK ==
    /\ at.pc \in {"idle", "defaults", "discover", "status"}
    /\ at.pc = "idle" => at = Idle
    /\ at.pc \in {"defaults", "discover"} => at = [pc |-> at.pc, name |-> at.name, copy |-> at.copy]
    /\ at.pc # "idle" => at.name \in AllNames /\ IsPersona(at.copy)
    /\ at.pc = "status" => /\ IsStatus(at.new)
                           /\ AlwaysNodes /\ at.copy.status.nodes # {} => at.new.nodes # {}

\* A human's choice is forgotten when the persona is deleted.
ChosenOK ==
    /\ chosen = [n \in AllNames |-> chosen[n]]
    /\ \A n \in AllNames : personas[n] = Absent => chosen[n] = Absent

IInv == Holds(personas) /\ Holds(cache) /\ world \in Worlds /\ AtOK /\ ChosenOK /\ ModeIsTheUsers

-----------------------------------------------------------------------------
(***************************************************************************)
(* Lemmas about the operators.                                             *)
(***************************************************************************)

\* A persona is not nothing.
LEMMA Present1 == ASSUME NEW p, NEW s PROVE [policy |-> p, status |-> s] # Absent
BY DEF Absent

\* Completing a policy changes only what was left out.
LEMMA Defaults ==
    ASSUME NEW p \in SelfHealingPolicy
    PROVE  /\ applySelfHealingDefaults(p) \in SelfHealingPolicy
           /\ p.mode # "" => applySelfHealingDefaults(p).mode = p.mode
<1> DEFINE m == IF p.mode = "" THEN "propose" ELSE p.mode
           t == IF p.trust = 0 THEN 2 ELSE p.trust
<1>1. m \in SelfHealingMode /\ (p.mode # "" => m = p.mode)
  BY DEF SelfHealingPolicy, SelfHealingMode
<1>2. t \in Nat
  BY DEF SelfHealingPolicy
<1>3. applySelfHealingDefaults(p) = [mode |-> m, trust |-> t]
  BY DEF applySelfHealingDefaults
<1> HIDE DEF m, t
<1>4. [mode |-> m, trust |-> t] \in SelfHealingPolicy
  BY <1>1, <1>2 DEF SelfHealingPolicy
<1>5. [mode |-> m, trust |-> t].mode = m
  OBVIOUS
<1> QED
  BY <1>1, <1>3, <1>4, <1>5

\* A changed policy or status makes a persona of a persona.
LEMMA RewritePolicy ==
    ASSUME NEW x, IsPersona(x), NEW p \in SelfHealingPolicy
    PROVE  /\ IsPersona([x EXCEPT !.policy = p]) /\ [x EXCEPT !.policy = p].policy = p
           /\ [x EXCEPT !.policy = p].status = x.status
           /\ [x EXCEPT !.policy = p] # Absent
<1> DEFINE q == x.policy
           t == x.status
<1>1. x = [policy |-> q, status |-> t] /\ IsStatus(t)
  BY DEF IsPersona
<1>2. t = x.status
  OBVIOUS
<1> HIDE DEF q, t
<1>3. [x EXCEPT !.policy = p] = [policy |-> p, status |-> t]
  BY <1>1
<1> QED
  BY <1>1, <1>2, <1>3, Present1 DEF IsPersona

\* The same for the status.
LEMMA RewriteStatus ==
    ASSUME NEW x, IsPersona(x), NEW st, IsStatus(st)
    PROVE  /\ IsPersona([x EXCEPT !.status = st]) /\ [x EXCEPT !.status = st].status = st
           /\ [x EXCEPT !.status = st].policy = x.policy
           /\ [x EXCEPT !.status = st] # Absent
<1> DEFINE q == x.policy
           t == x.status
<1>1. x = [policy |-> q, status |-> t] /\ q \in SelfHealingPolicy
  BY DEF IsPersona
<1>2. q = x.policy
  OBVIOUS
<1> HIDE DEF q, t
<1>3. [x EXCEPT !.status = st] = [policy |-> q, status |-> st]
  BY <1>1
<1> QED
  BY <1>1, <1>2, <1>3, Present1 DEF IsPersona

\* A persona as it is created.
LEMMA NewPersona ==
    ASSUME NEW p \in SelfHealingPolicy
    PROVE  IsPersona(Persona(p)) /\ Persona(p).policy = p /\ Persona(p) # Absent
<1>1. IsStatus(Undiscovered)
  BY DEF IsStatus, Undiscovered
<1> HIDE DEF Undiscovered
<1> QED
  BY <1>1, Present1 DEF Persona, IsPersona

\* discoverNodes and determinePhase: a status counts as discovered exactly when it lists
\* nodes, and it lists nodes if the cluster has some or the old status did.
LEMMA DiscoveredFacts ==
    ASSUME NEW old, NEW failed
    PROVE  /\ IsStatus(Discovered(old, failed))
           /\ old.nodes # {} /\ world.nodes # {} => Discovered(old, failed).nodes # {}
<1> DEFINE nodes == discoverNodes(old.nodes, failed)
<1>1. Discovered(old, failed).nodes = nodes /\ Discovered(old, failed).phase = determinePhase(nodes)
  BY DEF Discovered
<1>2. old.nodes # {} /\ world.nodes # {} => nodes # {}
  BY DEF discoverNodes
<1> HIDE DEF nodes
<1>3. determinePhase(nodes) \in {"Ready", "Degraded"} <=> nodes # {}
  BY DEF determinePhase
<1> QED
  BY <1>1, <1>2, <1>3 DEF IsStatus

\* One persona is written, the others stay.
LEMMA WriteOne ==
    ASSUME IInv, NEW n \in AllNames, NEW x, x = Absent \/ IsPersona(x),
           personas' = [personas EXCEPT ![n] = x]
    PROVE  /\ Holds(personas)'
           /\ personas'[n] = x
           /\ \A m \in AllNames : m # n => personas'[m] = personas[m]
<1>1. /\ personas'[n] = x
      /\ \A m \in AllNames : m # n => personas'[m] = personas[m]
      /\ personas' = [m \in AllNames |-> personas'[m]]
  BY DEF IInv, Holds
<1> QED
  BY <1>1 DEF Holds, IInv

-----------------------------------------------------------------------------
(***************************************************************************)
(* The initial states.                                                     *)
(***************************************************************************)

\* People have created at most one persona before the operator starts.
LEMMA InitIInv == Init => IInv
<1> SUFFICES ASSUME Init PROVE IInv
  OBVIOUS
<1>1. AtOK /\ world \in Worlds
  BY DEF Init, AtOK, Idle
<1>2. CASE personas = [n \in AllNames |-> Absent] /\ chosen = personas
  BY <1>1, <1>2 DEF Init, IInv, Holds, ChosenOK, ModeIsTheUsers, Present
<1>3. ASSUME NEW n \in AllNames, NEW p \in Policies,
             personas = [m \in AllNames |-> IF m = n THEN Persona(p) ELSE Absent],
             chosen = [m \in AllNames |-> IF m = n THEN p ELSE Absent]
      PROVE  IInv
  <2>1. /\ IsPersona(Persona(p)) /\ Persona(p).policy = p /\ Persona(p) # Absent
    BY NewPersona, PolicyAssumption
  <2>2. Holds(personas) /\ cache = personas
    BY <1>3, <2>1 DEF Init, Holds
  <2>3. ChosenOK
    BY <1>3, <2>1 DEF ChosenOK
  <2>4. ModeIsTheUsers
    BY <1>3, <2>1 DEF ModeIsTheUsers, Present
  <2> QED
    BY <1>1, <2>2, <2>3, <2>4 DEF IInv, Holds
<1> QED
  BY <1>2, <1>3 DEF Init

-----------------------------------------------------------------------------
(***************************************************************************)
(* The steps.                                                              *)
(***************************************************************************)

\* What becomes of persona n in a step that is no human's: it stays, with the mode it
\* had, and with its nodes if the cluster always has some.
Keeps(n) ==
    /\ personas[n] # Absent =>
          /\ personas'[n] # Absent
          /\ personas[n].policy.mode # "" => personas'[n].policy.mode = personas[n].policy.mode
          /\ AlwaysNodes /\ personas[n].status.nodes # {} => personas'[n].status.nodes # {}

\* The writes of the reconcile and of the bootstrap.
Machine == Create \/ UpdatePolicy \/ StatusUpdate \/ WriteFails

\* A step is one of the machine's writes, one of a human's, or writes no persona.
LEMMA StepKinds ==
    ASSUME [Next]_vars
    PROVE  \/ Machine /\ chosen' = chosen
           \/ \E n \in AllNames : UserWrites(n) \/ UserDeletes(n)
           \/ UNCHANGED <<personas, chosen>>
BY DEF Next, Machine, ensure, Create, Reconcile, UpdatePolicy, Discover, StatusUpdate,
       WriteFails, SyncCache, Restart, WorldChanges, vars

\* A write that is accepted replaces the copy it was computed from.
LEMMA MachineStep ==
    ASSUME IInv, Machine
    PROVE  Holds(personas)' /\ \A n \in AllNames : Keeps(n)
<1> DEFINE Goal == Holds(personas)' /\ \A n \in AllNames : Keeps(n)
<1>1. Holds(personas) /\ AtOK
  BY DEF IInv
<1>2. ASSUME personas' = personas PROVE Goal
  BY <1>1, <1>2 DEF Holds, Keeps
<1>3. ASSUME personas' = Created PROVE Goal
  <2>1. CASE personas[bootstrapPersonaName] # Absent
    BY <1>2, <1>3, <2>1 DEF Created
  <2>2. CASE personas[bootstrapPersonaName] = Absent
    <3>1. [mode |-> "propose", trust |-> 2] \in SelfHealingPolicy
      <4>1. "propose" \in SelfHealingMode /\ 2 \in Nat
        BY DEF SelfHealingMode
      <4> QED
        BY <4>1 DEF SelfHealingPolicy
    <3>2. IsPersona(buildPersona) /\ bootstrapPersonaName \in AllNames
      BY <3>1, NewPersona DEF buildPersona, AllNames
    <3>3. personas' = [personas EXCEPT ![bootstrapPersonaName] = buildPersona]
      BY <1>3, <2>2 DEF Created
    <3> HIDE DEF bootstrapPersonaName, buildPersona
    <3>4. /\ Holds(personas)'
          /\ \A m \in AllNames : m # bootstrapPersonaName => personas'[m] = personas[m]
      BY <3>2, <3>3, WriteOne
    <3> QED
      BY <2>2, <3>4 DEF Keeps
  <2> QED
    BY <2>1, <2>2
<1>4. ASSUME at.pc = "defaults", Accepted, personas' = [personas EXCEPT ![at.name] = Completed]
      PROVE  Goal
  <2>1. at.name \in AllNames /\ IsPersona(at.copy) /\ personas[at.name] = at.copy
    BY <1>1, <1>4 DEF AtOK, Accepted
  <2> DEFINE p == applySelfHealingDefaults(at.copy.policy)
  <2>2. p \in SelfHealingPolicy /\ (at.copy.policy.mode # "" => p.mode = at.copy.policy.mode)
    BY <2>1, Defaults DEF IsPersona
  <2>3. Completed = [at.copy EXCEPT !.policy = p]
    BY DEF Completed
  <2> HIDE DEF p
  <2>5. /\ IsPersona(Completed) /\ Completed.policy = p
        /\ Completed.status = at.copy.status /\ Completed # Absent
    BY <2>1, <2>2, <2>3, RewritePolicy
  <2>6. /\ Holds(personas)' /\ personas'[at.name] = Completed
        /\ \A m \in AllNames : m # at.name => personas'[m] = personas[m]
    BY <1>4, <2>1, <2>5, WriteOne
  <2> QED
    BY <2>1, <2>2, <2>5, <2>6 DEF Keeps
<1>5. ASSUME at.pc = "status", Accepted, personas' = [personas EXCEPT ![at.name].status = at.new]
      PROVE  Goal
  <2> DEFINE x == [at.copy EXCEPT !.status = at.new]
  <2>1. /\ at.name \in AllNames /\ IsPersona(at.copy) /\ personas[at.name] = at.copy
        /\ IsStatus(at.new)
        /\ AlwaysNodes /\ at.copy.status.nodes # {} => at.new.nodes # {}
    BY <1>1, <1>5 DEF AtOK, Accepted
  <2>3. IsPersona(x) /\ x.status = at.new /\ x.policy = at.copy.policy /\ x # Absent
    BY <2>1, RewriteStatus
  <2>4. personas' = [personas EXCEPT ![at.name] = x]
    BY <1>5, <2>1
  <2> HIDE DEF x
  <2>5. /\ Holds(personas)' /\ personas'[at.name] = x
        /\ \A m \in AllNames : m # at.name => personas'[m] = personas[m]
    BY <2>1, <2>3, <2>4, WriteOne
  <2> QED
    BY <2>1, <2>3, <2>5 DEF Keeps
<1>6. CASE Create
  BY <1>2, <1>3, <1>6 DEF Create
<1>7. CASE UpdatePolicy
  BY <1>2, <1>4, <1>7 DEF UpdatePolicy
<1>8. CASE StatusUpdate
  BY <1>2, <1>5, <1>8 DEF StatusUpdate
<1>9. CASE WriteFails
  BY <1>2, <1>4, <1>5, <1>9 DEF WriteFails
<1> QED
  BY <1>6, <1>7, <1>8, <1>9 DEF Machine

\* A human writes the policy, and nothing else of a persona that exists.
LEMMA UserStep ==
    ASSUME IInv, NEW n \in AllNames, UserWrites(n) \/ UserDeletes(n)
    PROVE  /\ Holds(personas)'
           /\ \A m \in AllNames : m # n => personas'[m] = personas[m] /\ chosen'[m] = chosen[m]
           /\ chosen' = [m \in AllNames |-> chosen'[m]]
           /\ \/ personas'[n] = Absent /\ chosen'[n] = Absent
              \/ /\ personas'[n] # Absent /\ personas'[n].policy = chosen'[n]
                 /\ personas[n] # Absent => personas'[n].status = personas[n].status
<1>1. Holds(personas) /\ chosen = [m \in AllNames |-> chosen[m]]
  BY DEF IInv, ChosenOK
<1>2. CASE UserDeletes(n)
  BY <1>1, <1>2, WriteOne DEF UserDeletes
<1>3. CASE UserWrites(n)
  <2>1. PICK p \in Policies :
          /\ personas' = [personas EXCEPT ![n] = IF @ = Absent THEN Persona(p)
                                                 ELSE [@ EXCEPT !.policy = p]]
          /\ chosen' = [chosen EXCEPT ![n] = p]
    BY <1>3 DEF UserWrites
  <2> DEFINE x == IF personas[n] = Absent THEN Persona(p) ELSE [personas[n] EXCEPT !.policy = p]
  <2>2. p \in SelfHealingPolicy
    BY PolicyAssumption
  <2>3. /\ IsPersona(x) /\ x.policy = p /\ x # Absent
        /\ personas[n] # Absent => x.status = personas[n].status
    <3>1. CASE personas[n] = Absent
      BY <2>2, <3>1, NewPersona
    <3>2. CASE personas[n] # Absent
      <4>1. IsPersona(personas[n])
        BY <1>1, <3>2 DEF Holds
      <4> QED
        BY <2>2, <3>2, <4>1, RewritePolicy
    <3> QED
      BY <3>1, <3>2
  <2>4. personas' = [personas EXCEPT ![n] = x]
    BY <2>1
  <2> HIDE DEF x
  <2>5. /\ Holds(personas)' /\ personas'[n] = x
        /\ \A m \in AllNames : m # n => personas'[m] = personas[m]
    BY <2>3, <2>4, WriteOne
  <2>6. /\ chosen'[n] = p /\ chosen' = [m \in AllNames |-> chosen'[m]]
        /\ \A m \in AllNames : m # n => chosen'[m] = chosen[m]
    BY <1>1, <2>1
  <2> QED
    BY <2>3, <2>5, <2>6
<1> QED
  BY <1>2, <1>3

\* The personas of a step.
LEMMA PersonasStep ==
    ASSUME IInv, [Next]_vars
    PROVE  Holds(personas)' /\ ChosenOK' /\ ModeIsTheUsers'
<1>1. Holds(personas) /\ ChosenOK /\ ModeIsTheUsers
  BY DEF IInv
<1>2. CASE UNCHANGED <<personas, chosen>>
  BY <1>1, <1>2 DEF Holds, ChosenOK, ModeIsTheUsers, Present
<1>3. CASE Machine /\ chosen' = chosen
  <2>1. Holds(personas)' /\ \A n \in AllNames : Keeps(n)
    BY <1>3, MachineStep
  <2>2. ChosenOK'
    BY <1>1, <1>3, <2>1 DEF ChosenOK, Keeps
  <2>3. ModeIsTheUsers'
    <3> SUFFICES ASSUME NEW n \in AllNames, personas'[n] # Absent,
                        chosen'[n] # Absent, chosen'[n].mode # ""
                 PROVE  personas'[n].policy.mode = chosen'[n].mode
      BY DEF ModeIsTheUsers, Present
    <3>1. personas[n] # Absent /\ chosen[n] = chosen'[n]
      BY <1>1, <1>3 DEF ChosenOK
    <3>2. personas[n].policy.mode = chosen[n].mode
      BY <1>1, <3>1 DEF ModeIsTheUsers, Present
    <3> QED
      BY <2>1, <3>1, <3>2 DEF Keeps
  <2> QED
    BY <2>1, <2>2, <2>3
<1>4. ASSUME NEW n \in AllNames, UserWrites(n) \/ UserDeletes(n)
      PROVE  Holds(personas)' /\ ChosenOK' /\ ModeIsTheUsers'
  <2>1. /\ Holds(personas)'
        /\ \A m \in AllNames : m # n => personas'[m] = personas[m] /\ chosen'[m] = chosen[m]
        /\ chosen' = [m \in AllNames |-> chosen'[m]]
        /\ \/ personas'[n] = Absent /\ chosen'[n] = Absent
           \/ personas'[n] # Absent /\ personas'[n].policy = chosen'[n]
    BY <1>4, UserStep
  <2>2. ChosenOK'
    BY <1>1, <2>1 DEF ChosenOK
  <2>3. ModeIsTheUsers'
    BY <1>1, <2>1 DEF ModeIsTheUsers, Present
  <2> QED
    BY <2>1, <2>2, <2>3
<1> QED
  BY <1>2, <1>3, <1>4, StepKinds

\* The reconcile in progress.
LEMMA AtStep ==
    ASSUME IInv, [Next]_vars
    PROVE  AtOK'
<1>1. Holds(cache) /\ AtOK /\ world \in Worlds
  BY DEF IInv
<1>2. CASE at' = at
  BY <1>1, <1>2 DEF AtOK, IsPersona, IsStatus, AlwaysNodes
<1>3. CASE at' = Idle
  BY <1>3 DEF AtOK, Idle
<1>4. ASSUME NEW n \in AllNames, Reconcile(n) PROVE AtOK'
  <2> DEFINE next == IF applySelfHealingDefaults(cache[n].policy) = cache[n].policy
                     THEN "discover" ELSE "defaults"
  <2>1. at' = [pc |-> next, name |-> n, copy |-> cache[n]] /\ next \in {"discover", "defaults"}
    BY <1>4 DEF Reconcile
  <2> HIDE DEF next
  <2>2. at'.pc = next /\ at'.name = n /\ at'.copy = cache[n]
    BY <2>1
  <2>3. IsPersona(cache[n])
    BY <1>1, <1>4 DEF Reconcile, Holds
  <2> QED
    BY <2>1, <2>2, <2>3 DEF AtOK, IsPersona
<1>5. ASSUME at.pc = "defaults", at' = [at EXCEPT !.pc = "discover", !.copy = Completed]
      PROVE  AtOK'
  <2>1. /\ at = [pc |-> at.pc, name |-> at.name, copy |-> at.copy]
        /\ at.name \in AllNames /\ IsPersona(at.copy)
    BY <1>1, <1>5 DEF AtOK
  <2>2. IsPersona(Completed)
    <3>1. applySelfHealingDefaults(at.copy.policy) \in SelfHealingPolicy
      BY <2>1, Defaults DEF IsPersona
    <3> QED
      BY <2>1, <3>1, RewritePolicy DEF Completed
  <2>3. at' = [pc |-> "discover", name |-> at.name, copy |-> Completed]
    BY <1>5, <2>1
  <2>4. at'.pc = "discover" /\ at'.name = at.name /\ at'.copy = Completed
    BY <2>3
  <2> QED
    BY <2>1, <2>2, <2>3, <2>4 DEF AtOK, IsPersona
<1>6. ASSUME NEW failed, at.pc = "discover",
             at' = [pc |-> "status", name |-> at.name, copy |-> at.copy,
                    new |-> Discovered(at.copy.status, failed)]
      PROVE  AtOK'
  <2> DEFINE new == Discovered(at.copy.status, failed)
  <2>1. /\ IsStatus(new)
        /\ at.copy.status.nodes # {} /\ world.nodes # {} => new.nodes # {}
    BY DiscoveredFacts
  <2>2. at' = [pc |-> "status", name |-> at.name, copy |-> at.copy, new |-> new]
    BY <1>6
  <2> HIDE DEF new
  <2>3. at'.pc = "status" /\ at'.name = at.name /\ at'.copy = at.copy /\ at'.new = new
    BY <2>2
  <2>4. AlwaysNodes => world.nodes # {}
    BY <1>1 DEF AlwaysNodes
  <2>5. at.name \in AllNames /\ IsPersona(at.copy)
    BY <1>1, <1>6 DEF AtOK
  <2> QED
    BY <2>1, <2>3, <2>4, <2>5 DEF AtOK, IsPersona, IsStatus, AlwaysNodes
<1>7. CASE UpdatePolicy
  BY <1>3, <1>5, <1>7 DEF UpdatePolicy
<1>8. CASE Discover
  BY <1>6, <1>8 DEF Discover
<1> QED
  BY <1>2, <1>3, <1>4, <1>7, <1>8
     DEF Next, ensure, Create, StatusUpdate, WriteFails, SyncCache, Restart, UserWrites,
         UserDeletes, WorldChanges, vars

-----------------------------------------------------------------------------
(***************************************************************************)
(* The theorems.                                                           *)
(***************************************************************************)

\* The invariant holds in every reachable state.
THEOREM Invariance == Spec => []IInv
<1>1. IInv /\ [Next]_vars => IInv'
  <2> SUFFICES ASSUME IInv, [Next]_vars PROVE IInv'
    OBVIOUS
  <2>1. cache' = cache \/ (cache' = personas /\ personas' = personas)
    BY DEF Next, ensure, Create, Reconcile, UpdatePolicy, Discover, StatusUpdate, WriteFails,
           SyncCache, Restart, UserWrites, UserDeletes, WorldChanges, vars
  <2>2. Holds(cache)'
    BY <2>1 DEF IInv, Holds
  <2>3. world' \in Worlds
    BY DEF IInv, Next, ensure, Create, Reconcile, UpdatePolicy, Discover, StatusUpdate,
           WriteFails, SyncCache, Restart, UserWrites, UserDeletes, WorldChanges, vars
  <2> QED
    BY <2>2, <2>3, PersonasStep, AtStep DEF IInv
<1> QED
  BY <1>1, InitIInv, PTL DEF Spec

\* applySelfHealingDefaults and the conditional Update: no stale copy of the controller
\* overrides the mode a human chose.
THEOREM ModeKept == Spec => []ModeIsTheUsers
<1>1. IInv => ModeIsTheUsers
  BY DEF IInv
<1> QED
  BY <1>1, Invariance, PTL

\* discoverNodes and determinePhase: a cluster that always has nodes does not fall back
\* to Discovering.
THEOREM PhaseKept == Spec => NoPhaseRegression
<1>1. IInv /\ [Next]_vars =>
        [\A n \in Present :
            (/\ \A w \in Worlds : w.nodes # {}
             /\ personas[n].status.phase \in {"Ready", "Degraded"} /\ personas'[n] # Absent)
                => personas'[n].status.phase \in {"Ready", "Degraded"}]_vars
  <2> SUFFICES ASSUME IInv, [Next]_vars, NEW n \in Present, AlwaysNodes,
                      personas[n].status.phase \in {"Ready", "Degraded"}, personas'[n] # Absent
               PROVE  personas'[n].status.phase \in {"Ready", "Degraded"}
    BY DEF AlwaysNodes
  <2>1. n \in AllNames /\ personas[n] # Absent
    BY DEF Present
  <2>2. IsPersona(personas[n]) /\ IsPersona(personas'[n])
    BY <2>1, PersonasStep DEF IInv, Holds, IsPersona, IsStatus
  <2>3. personas[n].status.nodes # {}
    BY <2>2 DEF IsPersona, IsStatus
  <2>4. personas'[n].status.nodes # {}
    <3>1. CASE Machine
      BY <2>1, <2>3, <3>1, MachineStep DEF Keeps
    <3>2. ASSUME NEW m \in AllNames, UserWrites(m) \/ UserDeletes(m)
          PROVE  personas'[n].status.nodes # {}
      BY <2>1, <2>3, <3>2, UserStep
    <3>3. CASE UNCHANGED <<personas, chosen>>
      BY <2>3, <3>3
    <3> QED
      BY <3>1, <3>2, <3>3, StepKinds
  <2> QED
    BY <2>2, <2>4 DEF IsPersona, IsStatus
<1> QED
  BY <1>1, Invariance, PTL DEF Spec, NoPhaseRegression
=============================================================================
