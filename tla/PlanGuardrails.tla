---------------------------- MODULE PlanGuardrails ----------------------------
(***************************************************************************)
(* What becomes of a plan of the model before it is written: the stages of *)
(* Proposer.proposeWithPlanner, in their order, each reading and changing  *)
(* the plan the last one left, and the rule-based proposal Propose falls   *)
(* back to.  The inputs (the plan, the workload as observed, the persona,  *)
(* the diagnosis) are chosen in Init.                                      *)
(*                                                                         *)
(* A patch maps resource fields (limits or requests of cpu or memory) to   *)
(* quantities, which are integers here.  Text is a set of sentences, kept  *)
(* as what they are matched on: the quantities they mention, and whether   *)
(* they claim that a guardrail ruled.  The messages of recorded verdicts   *)
(* are exempt from every scrub, and left out.                              *)
(*                                                                         *)
(* A step keeps the place it has in the answer, and one that is dropped    *)
(* leaves a gap: only the order of the places matters.                     *)
(***************************************************************************)
EXTENDS Naturals, Sequences, FiniteSets

CONSTANTS Plans,        \* what the model may answer: sequences of planned steps
          Workloads,    \* what may be observed
          PersonaSpecs, \* the limits the persona may declare: patches
          Targets,      \* fields a diagnosis may call for, or NoField
          Whole         \* the quantity that the text "1" stands for

NoPatch == [f \in {} |-> 0]
NoField == "none"
NoCommand == [tokens |-> << >>, values |-> {}, writes |-> FALSE]
PersonaUpdate == "persona-update"

VARIABLES
    stage,      \* the last stage that is done; how Propose ended
    deploy, persona, target, critical,      \* the inputs beside the plan
    steps,      \* spec.steps, by place
    head,       \* spec.action, the single action of older clients: [patch, pre]
    summary,    \* spec.planSummary
    told,       \* spec.explanation: the step counts it states, << >> if none, and the caveat
    damped,     \* whether the confidence was lowered
    declined    \* ruleEngineDeclined

inputs == <<deploy, persona, target, critical>>
plan == <<steps, head, summary, told, damped, declined>>
vars == <<stage, inputs, plan>>

Notification == [patch |-> NoPatch, pre |-> NoPatch]
Silent == [counts |-> << >>, caveat |-> FALSE]

\* Helpers on patches.
Without(p, S) == [f \in DOMAIN p \ S |-> p[f]]
Overlay(p, q) == [f \in DOMAIN p \cup DOMAIN q |-> IF f \in DOMAIN q THEN q[f] ELSE p[f]]
Mirror(current, p) == [f \in DOMAIN p \cap DOMAIN current |-> current[f]]
IsPatch(p) == p \in [DOMAIN p -> Nat]

First(S) == CHOOSE i \in S : \A j \in S : i <= j

\* The plans are lists; every quantity is a natural number.
ASSUME PlansAssumption ==
    \A p \in Plans : /\ p.steps = [i \in 1 .. Len(p.steps) |-> p.steps[i]] /\ Len(p.steps) \in Nat
                     /\ \A i \in 1 .. Len(p.steps) : IsPatch(p.steps[i].patch)
ASSUME LimitsAssumption ==
    /\ \A w \in Workloads : IsPatch(w.limits)
    /\ \A s \in PersonaSpecs : IsPatch(s)

-----------------------------------------------------------------------------
(***************************************************************************)
(* The workload: DetectOwner and the WorkloadRef.                          *)
(***************************************************************************)
\* Field managers are [benign, op, resources]: whether they own container resources.
foreignFieldOwner(managers) ==
    \E m \in managers : ~m.benign /\ (m.op = "Apply" \/ m.resources)

\* Marks are the labels, annotations and managers that give an owner away.
DetectOwner(w) ==
    IF "argocd" \in w.marks THEN "argocd"
    ELSE IF "flux" \in w.marks THEN "flux"
    ELSE IF "helm" \in w.marks THEN "helm"
    ELSE IF "kustomize" \in w.marks THEN "kustomize"
    ELSE IF foreignFieldOwner(w.managers) THEN "unknown"
    ELSE "unmanaged"

\* observeWorkload: a failed or an ambiguous observation is an unresolved workload.
resolved == deploy.found
observed == IF resolved THEN deploy.limits ELSE NoPatch
IsOwned == ~resolved \/ DetectOwner(deploy) # "unmanaged"

-----------------------------------------------------------------------------
(***************************************************************************)
(* Commands.  A token is [kind, word]: a word, a flag, or a flag that      *)
(* holds its value.                                                        *)
(***************************************************************************)
valueTakingGlobalFlags == {"-n", "--namespace", "--context", "-o"}
booleanGlobalFlags == {"--warnings-as-errors"}
mutatingKubectlVerbs == {"apply", "delete", "patch", "scale", "set"}
readOnlyKubectlVerbs == {"describe", "get", "logs"}
readOnlySubcommands == [rollout |-> {"history", "status"}, auth |-> {"can-i", "whoami"}]

\* The position of the verb, 0 if the flags before it are not all understood.
kubectlVerb(t) ==
    LET from[i \in 2 .. Len(t) + 2] ==
            IF i > Len(t) THEN 0
            ELSE CASE t[i].kind = "word" -> i
                   [] t[i].kind = "flag=" -> IF t[i].word \in valueTakingGlobalFlags \cup booleanGlobalFlags
                                             THEN from[i + 1] ELSE 0
                   [] t[i].word \in booleanGlobalFlags -> from[i + 1]
                   [] t[i].word \in valueTakingGlobalFlags -> IF i < Len(t) THEN from[i + 2] ELSE 0
                   [] OTHER -> 0
    IN  from[2]

readsOnly(t) ==
    LET v == kubectlVerb(t)
    IN  v # 0 /\ IF t[v].word \in DOMAIN readOnlySubcommands
                 THEN v < Len(t) /\ t[v + 1].word \in readOnlySubcommands[t[v].word]
                 ELSE t[v].word \notin mutatingKubectlVerbs /\ t[v].word \in readOnlyKubectlVerbs

writesWorkload(c) == Len(c.tokens) >= 2 /\ c.tokens[1].word = "kubectl" /\ ~readsOnly(c.tokens)

\* About kubectl, not the operator: a command that readsOnly accepts does not change the
\* workload.  Programs other than kubectl are not looked at, and not marked as writing.
ASSUME KubectlAssumption ==
    \A p \in Plans : \A i \in 1 .. Len(p.steps) :
        p.steps[i].command.writes => writesWorkload(p.steps[i].command)

-----------------------------------------------------------------------------
(***************************************************************************)
(* Verdicts, and the blast radius: a value may at most double the baseline *)
(* and at least halve it.                                                  *)
(***************************************************************************)
Verdict(rule, verdict, f, requested, permitted) ==
    [rule |-> rule, verdict |-> verdict, field |-> f, requested |-> requested, permitted |-> permitted]

\* The baseline is the live value; the snapshot of the persona only if none is live.
grounded(patch, pre) == IF Mirror(observed, patch) # NoPatch THEN Mirror(observed, patch) ELSE pre

\* Mutant: the cap is measured against the persona.
checkBlastRadius_Ungrounded(patch, pre) ==
    {f \in DOMAIN patch \cap DOMAIN pre :
        pre[f] > 0 /\ (patch[f] > 2 * pre[f] \/ 2 * patch[f] < pre[f])}

checkBlastRadius(patch, pre) ==
    LET old == grounded(patch, pre)
    IN  {f \in DOMAIN patch \cap DOMAIN old :
            old[f] > 0 /\ (patch[f] > 2 * old[f] \/ 2 * patch[f] < old[f])}

fieldsAtBlastRadiusCap(patch, pre) ==
    LET old == grounded(patch, pre)
    IN  {f \in DOMAIN patch \cap DOMAIN old : old[f] > 0 /\ patch[f] >= 2 * old[f]}

Applied(s) == s.auto /\ s.type = PersonaUpdate

-----------------------------------------------------------------------------
(***************************************************************************)
(* The steps of the plan: mapPlannedSteps and buildPlanAction.             *)
(***************************************************************************)
\* A resource field the live container does not set is left out, on record.
mapPlannedStep(p) ==
    LET ours == p.type = PersonaUpdate
        dropped == IF ours /\ resolved THEN DOMAIN p.patch \ DOMAIN observed ELSE {}
        patch == IF ours THEN Without(p.patch, dropped) ELSE NoPatch
    IN  [type |-> p.type, auto |-> ours /\ patch # NoPatch, patch |-> patch,
         pre |-> Mirror(persona, patch),
         command |-> IF ours THEN NoCommand ELSE p.command,
         safety |-> {Verdict("absent-field", "rejected", f, p.patch[f], {}) : f \in dropped},
         prose |-> p.prose]

\* The first step that is applied, as a single action.
setBackCompatAction(ss) ==
    LET applied == {i \in DOMAIN ss : Applied(ss[i])}
    IN  IF applied = {} THEN Notification
        ELSE [patch |-> ss[First(applied)].patch, pre |-> ss[First(applied)].pre]

\* How many steps there are, and how many of them are applied.
planExplanation(ss) == <<Cardinality(DOMAIN ss), Cardinality({i \in DOMAIN ss : ss[i].auto})>>

\* A plan of no steps is an error, like no answer.
Init ==
    /\ \E p \in Plans, w \in Workloads, s \in PersonaSpecs :
           /\ deploy = w
           /\ persona = s
           /\ steps = [i \in DOMAIN p.steps |-> mapPlannedStep(p.steps[i])]
           /\ summary = p.summary
           /\ stage = IF p.steps = << >> THEN "failed" ELSE "built"
    /\ target \in Targets
    /\ critical \in BOOLEAN
    /\ head = setBackCompatAction(steps)
    /\ told = [counts |-> planExplanation(steps), caveat |-> FALSE]
    /\ damped = FALSE
    /\ declined = FALSE

Ends(s) == stage' = s /\ UNCHANGED <<inputs, plan>>

-----------------------------------------------------------------------------
\* The refused fields leave the patch; Dorgu's account replaces the model's.
refuseStepFields(s, refused) ==
    IF refused = {} THEN s
    ELSE [s EXCEPT !.patch = Without(@, refused), !.pre = Without(@, refused),
                   !.auto = @ /\ DOMAIN s.patch \ refused # {},
                   !.safety = @ \cup {Verdict("blast-radius", "rejected", f, s.patch[f], {}) : f \in refused},
                   !.prose = {}]

checkedStep(s) == IF Applied(s) THEN refuseStepFields(s, checkBlastRadius(s.patch, s.pre)) ELSE s

\* Every applied step is checked.  The other rules of the checker may refuse the whole
\* plan, and the check may fail.
applyStepSafety ==
    /\ stage = "built"
    /\ \/ /\ stage' = "checked"
          /\ steps' = [i \in DOMAIN steps |-> checkedStep(steps[i])]
          /\ UNCHANGED <<inputs, head, summary, told, damped, declined>>
       \/ Ends("skipped")
       \/ Ends("failed")

-----------------------------------------------------------------------------
\* Quarters by which a limit is raised.
increaseMultiplier(f) ==
    IF f = "cpu" THEN IF critical THEN 6 ELSE 5
    ELSE IF critical THEN 8 ELSE 6

scaleQuantity(q, quarters) == (q * quarters) \div 4

\* calculateLimitIncrease, of the field the diagnosis calls for: what the rule engine
\* would set it to, what a rollback restores; nothing if it declines.
calculateResourceChange ==
    IF target = NoField \/ (resolved /\ target \notin DOMAIN observed)
                        \/ (~resolved /\ target \notin DOMAIN persona)
    THEN [patch |-> NoPatch, pre |-> NoPatch]
    ELSE LET baseline == IF resolved THEN observed[target] ELSE persona[target]
             rollback == IF target \in DOMAIN persona THEN persona[target] ELSE baseline
         IN  [patch |-> [f \in {target} |-> scaleQuantity(baseline, increaseMultiplier(f))],
              pre |-> [f \in {target} |-> rollback]]

appliesDiagnosedChange(ss) == \E i \in DOMAIN ss : Applied(ss[i]) /\ target \in DOMAIN ss[i].patch

\* A refused value that Dorgu replaces becomes a clamped one.
recordDerivedValues(safety, p) ==
    LET settled == {v \in safety : v.rule = "blast-radius" /\ v.verdict = "rejected" /\ v.field \in DOMAIN p}
    IN  (safety \ settled)
        \cup {[v EXCEPT !.verdict = "clamped", !.permitted = {p[v.field]}] : v \in settled}
        \cup {Verdict("plan-validation", "derived", f, 0, {p[f]}) : f \in DOMAIN p \ {v.field : v \in settled}}

installDerivedPatch(s, change) ==
    [s EXCEPT !.auto = TRUE, !.patch = Overlay(@, change.patch), !.pre = Overlay(@, change.pre),
              !.command = NoCommand, !.safety = recordDerivedValues(@, change.patch), !.prose = {}]

\* personaUpdateStep: the first with a refusal, else the first; 0 if none can be applied.
personaUpdateStep ==
    LET ours == {i \in DOMAIN steps : steps[i].type = PersonaUpdate}
        refused == {i \in ours : \E v \in steps[i].safety : v.rule = "blast-radius" /\ v.verdict = "rejected"}
    IN  IF refused # {} THEN First(refused) ELSE IF ours # {} THEN First(ours) ELSE 0

\* A plan that does not apply the change that was diagnosed gets the rule engine's.
ensureAppliableResourcePlan ==
    /\ stage = "checked"
    /\ LET change == calculateResourceChange
           needed == target # NoField /\ ~appliesDiagnosedChange(steps)
       IN  IF needed /\ change.patch # NoPatch /\ personaUpdateStep = 0 THEN Ends("failed")
           ELSE /\ stage' = "sized"
                /\ declined' = (needed /\ change.patch = NoPatch)
                /\ steps' = IF needed /\ change.patch # NoPatch
                            THEN [steps EXCEPT ![personaUpdateStep] = installDerivedPatch(@, change)]
                            ELSE steps
                /\ UNCHANGED <<inputs, head, summary, told, damped>>

dropPatchlessPersonaUpdates ==
    /\ stage = "sized"
    /\ LET kept == {i \in DOMAIN steps : \/ steps[i].type # PersonaUpdate
                                         \/ steps[i].patch # NoPatch
                                         \/ steps[i].safety # {}}
       IN  IF kept = {} THEN Ends("failed")
           ELSE /\ stage' = "trimmed"
                /\ steps' = [i \in kept |-> steps[i]]
                /\ UNCHANGED <<inputs, head, summary, told, damped, declined>>

\* Mutant: the single action is not derived anew.
Rehead_Keeps == head

Rehead == setBackCompatAction(steps)

enforceAutoExecutableInvariant(s) == [s EXCEPT !.auto = @ /\ s.type = PersonaUpdate]

\* setBackCompatAction once more, and the invariant on every step.
RecomputeAction ==
    /\ stage = "trimmed"
    /\ stage' = "headed"
    /\ head' = Rehead
    /\ steps' = [i \in DOMAIN steps |-> enforceAutoExecutableInvariant(steps[i])]
    /\ UNCHANGED <<inputs, summary, told, damped, declined>>

\* The values the plan applies, as the instruction to an owner quotes them.
proposedResourceChanges ==
    UNION {{steps[i].patch[f] : f \in DOMAIN steps[i].patch} :
              i \in {j \in DOMAIN steps : steps[j].type = PersonaUpdate}}
    \cup {head.patch[f] : f \in DOMAIN head.patch}

\* The instruction takes the place of the description; the rationale, which is not told
\* apart from it here, stays.
stripWorkloadWriteCommands(s) ==
    IF IsOwned /\ s.type # PersonaUpdate /\ writesWorkload(s.command)
    THEN [s EXCEPT !.command = NoCommand,
                   !.prose = @ \cup {[mentions |-> proposedResourceChanges, claims |-> FALSE]}]
    ELSE s

\* applyOwnershipShaping.
ShapeForOwner ==
    /\ stage = "headed"
    /\ stage' = "shaped"
    /\ steps' = [i \in DOMAIN steps |-> stripWorkloadWriteCommands(steps[i])]
    /\ UNCHANGED <<inputs, head, summary, told, damped, declined>>

Caveat == [mentions |-> {}, claims |-> TRUE]

AtCap(s) == Applied(s) /\ fieldsAtBlastRadiusCap(s.patch, s.pre) # {}

disclosedStep(s) == IF AtCap(s) THEN [s EXCEPT !.prose = @ \cup {Caveat}] ELSE s

\* planExplanation and discloseGroundedBlastRadiusClamp.
Disclose ==
    /\ stage = "shaped"
    /\ stage' = "disclosed"
    /\ LET any == \/ \E i \in DOMAIN steps : AtCap(steps[i])
                  \/ fieldsAtBlastRadiusCap(head.patch, head.pre) # {}
       IN  /\ steps' = [i \in DOMAIN steps |-> disclosedStep(steps[i])]
           /\ told' = [counts |-> planExplanation(steps), caveat |-> any]
           /\ summary' = IF any /\ summary # {} THEN summary \cup {Caveat} ELSE summary
           /\ damped' = any
    /\ UNCHANGED <<inputs, head, declined>>

-----------------------------------------------------------------------------
(***************************************************************************)
(* The scrubs: what a guardrail refused, and what none ruled.              *)
(***************************************************************************)
\* Mutant: a clamped value is not counted as refused.
refusedValues_RejectedOnly ==
    UNION {{<<v.field, v.requested>> : v \in {x \in steps[i].safety : x.verdict = "rejected"}} : i \in DOMAIN steps}

refusedValues ==
    UNION {{<<v.field, v.requested>> :
               v \in {x \in steps[i].safety : /\ x.verdict \in {"rejected", "clamped"}
                                              /\ x.requested \notin x.permitted}} : i \in DOMAIN steps}

pruneRefusedLeaves(p) == Without(p, {f \in DOMAIN p : <<f, p[f]>> \in refusedValues})

Amounts == {r[2] : r \in refusedValues}

redactRefusedProse(text) == {s \in text : s.mentions \cap Amounts = {}}

scrubStep(s) ==
    [s EXCEPT !.patch = pruneRefusedLeaves(@),
              !.auto = @ /\ pruneRefusedLeaves(s.patch) # NoPatch,
              !.command = IF @.values \cap Amounts # {} THEN NoCommand ELSE @,
              !.prose = redactRefusedProse(@)]

\* The numbers in the sentence that states the counts.
CountsMention(c) ==
    {n * Whole : n \in IF c[2] \in {0, c[1]} THEN {c[1]} ELSE {c[1], c[2], c[1] - c[2]}}

\* The explanation is a text like any other: its sentence goes when it mentions a refused
\* amount; if it stays, its counts follow the steps.
scrubRefusedValues ==
    /\ stage = "disclosed"
    /\ stage' = "scrubbed"
    /\ steps' = IF refusedValues = {} THEN steps ELSE [i \in DOMAIN steps |-> scrubStep(steps[i])]
    /\ head' = IF pruneRefusedLeaves(head.patch) = head.patch THEN head
               ELSE IF pruneRefusedLeaves(head.patch) = NoPatch THEN Notification
               ELSE [head EXCEPT !.patch = pruneRefusedLeaves(@)]
    /\ summary' = redactRefusedProse(summary)
    /\ told' = [told EXCEPT !.counts = IF CountsMention(@) \cap Amounts # {} THEN << >>
                                       ELSE planExplanation(steps')]
    /\ UNCHANGED <<inputs, damped, declined>>

dropGuardrailClaims(text) == {s \in text : ~s.claims}

scrubFabricatedGuardrailClaims ==
    /\ stage = "scrubbed"
    /\ stage' = "clean"
    /\ IF \E i \in DOMAIN steps : steps[i].safety # {} THEN UNCHANGED <<steps, summary, told>>
       ELSE /\ steps' = [i \in DOMAIN steps |-> [steps[i] EXCEPT !.prose = dropGuardrailClaims(@)]]
            /\ summary' = dropGuardrailClaims(summary)
            /\ told' = [told EXCEPT !.caveat = FALSE]
    /\ UNCHANGED <<inputs, head, damped, declined>>

\* assertAppliableWhenResourceDiagnosed, and the Create.
CreatePlan ==
    /\ stage = "clean"
    /\ Ends(IF declined \/ target = NoField \/ appliesDiagnosedChange(steps) THEN "planned" ELSE "failed")

(***************************************************************************)
(* proposeResourceAdjustment: what the planner could not do, the rules do, *)
(* if a resource adjustment is what the diagnosis suggests.                *)
(***************************************************************************)
proposeResourceAdjustment ==
    /\ stage = "failed"
    /\ LET change == calculateResourceChange
           unlimited == persona = NoPatch /\ observed = NoPatch
           refused == checkBlastRadius(change.patch, change.pre) # {}
       IN  IF unlimited \/ change.patch = NoPatch \/ refused THEN Ends("skipped")
           ELSE \/ Ends("skipped")      \* another suggestion, or another rule
                \/ /\ stage' = "ruled"
                   /\ steps' = << >>
                   /\ head' = change
                   /\ summary' = {}
                   /\ told' = Silent    \* its text is Dorgu's, and the caveat is scrubbed again
                   /\ damped' = (fieldsAtBlastRadiusCap(change.patch, change.pre) # {})
                   /\ UNCHANGED <<inputs, declined>>

Next ==
    \/ applyStepSafety \/ ensureAppliableResourcePlan \/ dropPatchlessPersonaUpdates
    \/ RecomputeAction \/ ShapeForOwner \/ Disclose
    \/ scrubRefusedValues \/ scrubFabricatedGuardrailClaims \/ CreatePlan
    \/ proposeResourceAdjustment

Spec == Init /\ [][Next]_vars

-----------------------------------------------------------------------------
Created == stage \in {"planned", "ruled"}

\* What an approval applies.
AppliedPatches == {head.patch} \cup {steps[i].patch : i \in {j \in DOMAIN steps : steps[j].auto}}

\* What the value a field has is taken to be: the live one, or else the persona's.
Baseline(f) == IF f \in DOMAIN observed THEN observed[f] ELSE persona[f]

(***************************************************************************)
(* No plan that is created applies more than twice or less than half of    *)
(* what a field has, however the model's patch, the value Dorgu derived    *)
(* and the merge of the two came about, and none introduces a field the    *)
(* live container does not set (checkBlastRadius, installDerivedPatch,     *)
(* dropAbsentResourceKeys).                                                *)
(***************************************************************************)
WithinTheCap ==
    Created => \A p \in AppliedPatches : \A f \in DOMAIN p :
        /\ resolved => f \in DOMAIN observed
        /\ (f \in DOMAIN observed \cup DOMAIN persona /\ Baseline(f) > 0)
               => p[f] <= 2 * Baseline(f) /\ 2 * p[f] >= Baseline(f)

(***************************************************************************)
(* What was refused is offered nowhere: no patch holds it, no command and  *)
(* no sentence of the model mentions it; no command writes to a workload   *)
(* another tool owns; and no text claims a verdict none recorded           *)
(* (scrubRefusedValues, stripWorkloadWriteCommands,                        *)
(* scrubFabricatedGuardrailClaims).                                        *)
(***************************************************************************)
NothingRefusedIsOffered ==
    Created =>
        LET verdicts == UNION {steps[i].safety : i \in DOMAIN steps}
            refused == {v \in verdicts : v.verdict \in {"rejected", "clamped"}}
            texts == summary \cup UNION {steps[i].prose : i \in DOMAIN steps}
        IN  /\ \A v \in refused :
                   /\ \A p \in AppliedPatches : v.field \in DOMAIN p => p[v.field] # v.requested
                   /\ \A i \in DOMAIN steps : v.requested \notin steps[i].command.values
                   /\ \A s \in texts : v.requested \notin s.mentions
            /\ IsOwned => \A i \in DOMAIN steps : ~steps[i].command.writes
            /\ verdicts = {} => (~told.caveat /\ \A s \in texts : ~s.claims)

(***************************************************************************)
(* What older clients see is what is applied: the single action of a plan  *)
(* is its first applied step, also when the safety check, the derived      *)
(* patch or a scrub demoted or changed steps after it was first set; and   *)
(* the counts in the explanation, if it states them, are those of the plan *)
(* (setBackCompatAction, planExplanation).                                 *)
(***************************************************************************)
HeadIsWhatIsApplied ==
    stage = "planned" =>
        /\ head = setBackCompatAction(steps)
        /\ told.counts # << >> => told.counts = planExplanation(steps)
=============================================================================
