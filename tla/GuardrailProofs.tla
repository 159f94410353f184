--------------------------- MODULE GuardrailProofs ---------------------------
(***************************************************************************)
(* Proofs about PlanGuardrails, for all plans of the model, workloads,     *)
(* personas and diagnoses.                                                 *)
(***************************************************************************)
EXTENDS PlanGuardrails, WellFoundedInduction, TLAPS

-----------------------------------------------------------------------------
(***************************************************************************)
(* The inductive invariant: what each stage has established, and the later *)
(* ones keep.                                                              *)
(***************************************************************************)

Planned == {"planned"}
Clean == {"clean"} \cup Planned
Scrubbed == {"scrubbed"} \cup Clean
Disclosed == {"disclosed"} \cup Scrubbed
Shaped == {"shaped"} \cup Disclosed
Headed == {"headed"} \cup Shaped
Checked == {"checked", "sized", "trimmed"} \cup Headed

\* The value v of field f is within the cap, of the workload w and the persona o.
LiveLimits(w) == IF w.found THEN w.limits ELSE NoPatch
Base(w, o, f) == IF f \in DOMAIN LiveLimits(w) THEN LiveLimits(w)[f] ELSE o[f]

Within(w, o, f, v) ==
    /\ w.found => f \in DOMAIN LiveLimits(w)
    /\ (f \in DOMAIN LiveLimits(w) \cup DOMAIN o /\ Base(w, o, f) > 0)
           => v <= 2 * Base(w, o, f) /\ 2 * v >= Base(w, o, f)

AllWithin(w, o, p) == \A f \in DOMAIN p : Within(w, o, f, p[f])

InputsOK == deploy \in Workloads /\ persona \in PersonaSpecs

\* A refusal is recorded of a value that is not within the cap, and never of the value
\* that took its place.
IsVerdict(w, o, v) ==
    /\ v = Verdict(v.rule, v.verdict, v.field, v.requested, v.permitted)
    /\ v.verdict \in {"rejected", "clamped"} =>
           ~Within(w, o, v.field, v.requested) /\ v.requested \notin v.permitted

HasFields(s) ==
    s = [type |-> s.type, auto |-> s.auto, patch |-> s.patch, pre |-> s.pre,
         command |-> s.command, safety |-> s.safety, prose |-> s.prose]

\* A step is applied exactly when it has a patch; it is the operator's own then, and has
\* no command.
IsStep(w, o, s) ==
    /\ HasFields(s)
    /\ s.auto \in BOOLEAN
    /\ IsPatch(s.patch)
    /\ s.auto <=> DOMAIN s.patch # {}
    /\ s.auto => s.type = PersonaUpdate
    /\ s.type = PersonaUpdate => s.command = NoCommand
    /\ s.command.writes => writesWorkload(s.command)
    /\ \A v \in s.safety : IsVerdict(w, o, v)

StepsOK == DOMAIN steps \subseteq Nat /\ \A i \in DOMAIN steps : IsStep(deploy, persona, steps[i])

\* As mapped, a step names what the container sets, and the persona's values of it.
IsGrounded(w, o, s) ==
    /\ w.found => DOMAIN s.patch \subseteq DOMAIN LiveLimits(w)
    /\ s.pre = Mirror(o, s.patch)

BuiltOK == stage = "built" => \A i \in DOMAIN steps : IsGrounded(deploy, persona, steps[i])

CheckedOK == stage \in Checked => \A i \in DOMAIN steps : AllWithin(deploy, persona, steps[i].patch)

HeadedOK == stage \in Headed => head = setBackCompatAction(steps)

ShapedOK == stage \in Shaped /\ IsOwned => \A i \in DOMAIN steps : ~steps[i].command.writes

DisclosedOK ==
    /\ told = [counts |-> told.counts, caveat |-> told.caveat]
    /\ stage \in Disclosed /\ told.counts # << >> => told.counts = planExplanation(steps)

Refusals(ss) ==
    {v \in UNION {ss[i].safety : i \in DOMAIN ss} : v.verdict \in {"rejected", "clamped"}}

ScrubbedOK ==
    stage \in Scrubbed =>
        \A v \in Refusals(steps) :
            /\ \A s \in summary : v.requested \notin s.mentions
            /\ \A i \in DOMAIN steps : /\ v.requested \notin steps[i].command.values
                                       /\ \A s \in steps[i].prose : v.requested \notin s.mentions

CleanOK ==
    stage \in Clean /\ (\A i \in DOMAIN steps : steps[i].safety = {}) =>
        /\ ~told.caveat
        /\ \A s \in summary : ~s.claims
        /\ \A i \in DOMAIN steps : \A s \in steps[i].prose : ~s.claims

\* The rule-based proposal.
RuledOK ==
    stage = "ruled" => /\ DOMAIN steps = {} /\ summary = {} /\ ~told.caveat
                       /\ AllWithin(deploy, persona, head.patch)

IInv == /\ InputsOK /\ StepsOK /\ BuiltOK /\ CheckedOK /\ HeadedOK /\ ShapedOK /\ DisclosedOK
        /\ ScrubbedOK /\ CleanOK /\ RuledOK

-----------------------------------------------------------------------------
(***************************************************************************)
(* Lemmas about the operators.                                             *)
(***************************************************************************)

\* Less-than on the naturals is well-founded.
LEMMA NatOrder ==
    \E R : IsWellFoundedOn(R, Nat) /\ \A a, b \in Nat : a < b => <<a, b>> \in R
<1>1. IsWellFoundedOn(OpToRel(<, Nat), Nat)
  BY NatLessThanWellFounded
<1>2. \A a, b \in Nat : a < b => <<a, b>> \in OpToRel(<, Nat)
  BY DEF OpToRel
<1> QED
  BY <1>1, <1>2, Zenon

\* There is a first among the places.
LEMMA FirstFacts ==
    ASSUME NEW S, S \subseteq Nat, S # {}
    PROVE  First(S) \in S
<1>1. PICK R : IsWellFoundedOn(R, Nat) /\ \A a, b \in Nat : a < b => <<a, b>> \in R
  BY NatOrder
<1>2. IsWellFoundedOn(R, Nat)
  BY <1>1
<1>3. \E x \in S : \A y \in S : ~(<<y, x>> \in R)
  BY <1>2, WFMin, Zenon
<1>4. PICK x \in S : \A y \in S : ~(<<y, x>> \in R)
  BY <1>3
<1>5. ASSUME NEW y \in S PROVE x <= y
  <2>1. x \in Nat /\ y \in Nat
    OBVIOUS
  <2>2. ~(y < x)
    BY <1>1, <1>4, <2>1, Zenon
  <2> QED
    BY <2>1, <2>2
<1> QED
  BY <1>5 DEF First

\* A patch without fields is no patch.
LEMMA NoPatchFacts ==
    /\ IsPatch(NoPatch) /\ DOMAIN NoPatch = {}
    /\ \A p : IsPatch(p) /\ DOMAIN p = {} => p = NoPatch
<1>1. IsPatch(NoPatch) /\ DOMAIN NoPatch = {}
  BY DEF NoPatch, IsPatch
<1>2. ASSUME NEW p, IsPatch(p), DOMAIN p = {} PROVE p = NoPatch
  BY <1>2 DEF NoPatch, IsPatch
<1> QED
  BY <1>1, <1>2

\* A step by its fields.
LEMMA StepFields ==
    ASSUME NEW s, HasFields(s)
    PROVE  \E ty, au, pa, pr, co, sa, te :
               s = [type |-> ty, auto |-> au, patch |-> pa, pre |-> pr, command |-> co,
                    safety |-> sa, prose |-> te]
BY DEF HasFields

\* What Without leaves of a patch.
LEMMA WithoutFacts ==
    ASSUME NEW p, IsPatch(p), NEW S
    PROVE  /\ IsPatch(Without(p, S))
           /\ DOMAIN Without(p, S) = DOMAIN p \ S
           /\ \A f \in DOMAIN p \ S : Without(p, S)[f] = p[f]
BY DEF IsPatch, Without

\* The quantities the cap is measured against.
LEMMA BaselineFacts ==
    ASSUME InputsOK
    PROVE  /\ resolved = deploy.found /\ observed = LiveLimits(deploy)
           /\ \A f : Baseline(f) = Base(deploy, persona, f)
           /\ IsPatch(observed) /\ IsPatch(persona)
           /\ ~deploy.found => observed = NoPatch
           /\ \A f \in DOMAIN observed \cup DOMAIN persona : Base(deploy, persona, f) \in Nat
<1>1. resolved = deploy.found /\ observed = LiveLimits(deploy)
  BY DEF resolved, observed, LiveLimits
<1>2. \A f : Baseline(f) = Base(deploy, persona, f)
  BY <1>1 DEF Baseline, Base
<1>3. IsPatch(observed) /\ IsPatch(persona)
  BY LimitsAssumption, NoPatchFacts DEF InputsOK, observed
<1>4. ~deploy.found => observed = NoPatch
  BY DEF observed, resolved
<1>5. \A f \in DOMAIN observed \cup DOMAIN persona : Base(deploy, persona, f) \in Nat
  BY <1>1, <1>3 DEF Base, IsPatch
<1> QED
  BY <1>1, <1>2, <1>3, <1>4, <1>5

\* NoCommand changes nothing.
LEMMA NoCommandFacts == NoCommand.writes = FALSE /\ NoCommand.values = {}
BY DEF NoCommand

\* The fields of a verdict.
LEMMA VerdictFacts ==
    ASSUME NEW r, NEW d, NEW f, NEW q, NEW p
    PROVE  /\ Verdict(r, d, f, q, p).verdict = d
           /\ Verdict(r, d, f, q, p).field = f
           /\ Verdict(r, d, f, q, p).requested = q
           /\ Verdict(r, d, f, q, p).permitted = p
           /\ Verdict(r, d, f, q, p).rule = r
BY DEF Verdict

\* A refusal as it is recorded.
LEMMA RefusalFacts ==
    ASSUME NEW rule, NEW f, NEW q, NEW w, NEW o, ~Within(w, o, f, q)
    PROVE  IsVerdict(w, o, Verdict(rule, "rejected", f, q, {}))
<1> DEFINE v == Verdict(rule, "rejected", f, q, {})
<1>1. /\ v.verdict = "rejected" /\ v.field = f /\ v.requested = q /\ v.permitted = {}
      /\ v.rule = rule
  BY VerdictFacts
<1> QED
  BY <1>1 DEF IsVerdict

\* mapPlannedSteps: what the workload lacks is refused, the rest is grounded.
LEMMA MapFacts ==
    ASSUME InputsOK, NEW p, IsPatch(p.patch), p.command.writes => writesWorkload(p.command)
    PROVE  IsStep(deploy, persona, mapPlannedStep(p)) /\ IsGrounded(deploy, persona, mapPlannedStep(p))
<1> DEFINE ours == p.type = PersonaUpdate
           dropped == IF ours /\ resolved THEN DOMAIN p.patch \ DOMAIN observed ELSE {}
           patch == IF ours THEN Without(p.patch, dropped) ELSE NoPatch
           auto == ours /\ patch # NoPatch
           pre == Mirror(persona, patch)
           command == IF ours THEN NoCommand ELSE p.command
           safety == {Verdict("absent-field", "rejected", f, p.patch[f], {}) : f \in dropped}
           m == mapPlannedStep(p)
<1>1. m = [type |-> p.type, auto |-> auto, patch |-> patch, pre |-> pre, command |-> command,
           safety |-> safety, prose |-> p.prose]
  BY DEF mapPlannedStep
<1>2. IsPatch(patch)
  BY WithoutFacts, NoPatchFacts
<1>3. resolved => DOMAIN patch \subseteq DOMAIN observed
  <2>1. CASE ours
    <3>1. DOMAIN patch = DOMAIN p.patch \ dropped
      BY <2>1, WithoutFacts
    <3> HIDE DEF patch
    <3> QED
      BY <2>1, <3>1
  <2>2. CASE ~ours
    BY <2>2, NoPatchFacts
  <2> QED
    BY <2>1, <2>2
<1>4. auto \in BOOLEAN /\ (auto => ours)
  OBVIOUS
<1>5. auto <=> DOMAIN patch # {}
  <2>1. CASE ours
    <3> HIDE DEF patch
    <3> QED
      BY <1>2, <2>1, NoPatchFacts
  <2>2. CASE ~ours
    BY <2>2, NoPatchFacts
  <2> QED
    BY <2>1, <2>2
<1>6. ours => command = NoCommand
  OBVIOUS
<1>7. command.writes => writesWorkload(command)
  <2>1. CASE ours
    <3>1. command = NoCommand
      BY <2>1
    <3> HIDE DEF command
    <3> QED
      BY <3>1, NoCommandFacts
  <2>2. CASE ~ours
    BY <2>2
  <2> QED
    BY <2>1, <2>2
<1>8. ASSUME NEW f \in dropped PROVE ~Within(deploy, persona, f, p.patch[f])
  BY <1>8, BaselineFacts DEF Within
<1>9. \A v \in safety : IsVerdict(deploy, persona, v)
  <2> HIDE DEF dropped
  <2> QED
    BY <1>8, RefusalFacts
<1> HIDE DEF ours, dropped, patch, auto, pre, command, safety, m
<1>10. /\ m.type = p.type /\ m.auto = auto /\ m.patch = patch /\ m.pre = pre
       /\ m.command = command /\ m.safety = safety /\ m.prose = p.prose
  BY <1>1
<1>11. HasFields(m)
  BY <1>1, <1>10 DEF HasFields
<1>12. IsStep(deploy, persona, m)
  BY <1>2, <1>4, <1>5, <1>6, <1>7, <1>9, <1>10, <1>11 DEF IsStep, ours
<1>13. IsGrounded(deploy, persona, m)
  BY <1>3, <1>10, BaselineFacts DEF IsGrounded, pre
<1> QED
  BY <1>12, <1>13 DEF m

\* checkBlastRadius refuses of a grounded patch exactly what is not within the cap.
LEMMA RefusedFacts ==
    ASSUME InputsOK, NEW p, IsPatch(p), DOMAIN p # {},
           deploy.found => DOMAIN p \subseteq DOMAIN LiveLimits(deploy),
           NEW f \in DOMAIN p
    PROVE  f \in checkBlastRadius(p, Mirror(persona, p)) <=> ~Within(deploy, persona, f, p[f])
<1> DEFINE pre == Mirror(persona, p)
           live == Mirror(observed, p)
           old == grounded(p, pre)
<1>1. p[f] \in Nat
  BY DEF IsPatch
<1>2. f \in DOMAIN old <=> f \in DOMAIN LiveLimits(deploy) \cup DOMAIN persona
  <2>1. CASE deploy.found
    <3>1. DOMAIN live = DOMAIN p
      BY <2>1, BaselineFacts DEF Mirror
    <3>2. live # NoPatch
      BY <3>1, NoPatchFacts
    <3>3. old = live
      BY <3>2 DEF grounded
    <3> QED
      BY <2>1, <3>1, <3>3
  <2>2. CASE ~deploy.found
    <3>1. observed = NoPatch /\ LiveLimits(deploy) = NoPatch
      BY <2>2, BaselineFacts
    <3>2. live = NoPatch
      BY <3>1, NoPatchFacts DEF Mirror, NoPatch
    <3>3. old = pre
      BY <3>2 DEF grounded
    <3> QED
      BY <3>1, <3>3, NoPatchFacts DEF Mirror
  <2> QED
    BY <2>1, <2>2
<1>3. f \in DOMAIN old => old[f] = Base(deploy, persona, f)
  <2>1. CASE deploy.found
    <3>1. DOMAIN live = DOMAIN p
      BY <2>1, BaselineFacts DEF Mirror
    <3>2. live # NoPatch
      BY <3>1, NoPatchFacts
    <3>3. old = live
      BY <3>2 DEF grounded
    <3>4. f \in DOMAIN LiveLimits(deploy) /\ live[f] = LiveLimits(deploy)[f]
      BY <2>1, BaselineFacts DEF Mirror
    <3> QED
      BY <3>3, <3>4 DEF Base
  <2>2. CASE ~deploy.found
    <3>1. observed = NoPatch /\ LiveLimits(deploy) = NoPatch
      BY <2>2, BaselineFacts
    <3>2. live = NoPatch
      BY <3>1, NoPatchFacts DEF Mirror, NoPatch
    <3>3. old = pre
      BY <3>2 DEF grounded
    <3> QED
      BY <3>1, <3>3, NoPatchFacts DEF Mirror, Base
  <2> QED
    BY <2>1, <2>2
<1>4. f \in DOMAIN old => Base(deploy, persona, f) \in Nat
  BY <1>2, BaselineFacts
<1>5. checkBlastRadius(p, pre) =
          {g \in DOMAIN p \cap DOMAIN old :
              old[g] > 0 /\ (p[g] > 2 * old[g] \/ 2 * p[g] < old[g])}
  BY DEF checkBlastRadius
<1> HIDE DEF old, pre, live
<1>6. f \in checkBlastRadius(p, pre) <=>
          f \in DOMAIN old /\ old[f] > 0 /\ (p[f] > 2 * old[f] \/ 2 * p[f] < old[f])
  BY <1>5
<1>7. CASE f \in DOMAIN old
  BY <1>1, <1>2, <1>3, <1>4, <1>6, <1>7 DEF Within, pre
<1>8. CASE f \notin DOMAIN old
  BY <1>2, <1>6, <1>8 DEF Within, pre
<1> QED
  BY <1>7, <1>8

\* applyStepSafety: of a grounded step, what is within the cap is left.
LEMMA CheckedFacts ==
    ASSUME InputsOK, NEW s, IsStep(deploy, persona, s), IsGrounded(deploy, persona, s)
    PROVE  /\ IsStep(deploy, persona, checkedStep(s))
           /\ AllWithin(deploy, persona, checkedStep(s).patch)
<1> DEFINE refused == checkBlastRadius(s.patch, s.pre)
           rest == Without(s.patch, refused)
           ruled == {Verdict("blast-radius", "rejected", f, s.patch[f], {}) : f \in refused}
           t == checkedStep(s)
<1>0. /\ IsPatch(s.patch) /\ s.auto \in BOOLEAN /\ (s.auto <=> DOMAIN s.patch # {})
      /\ s.auto => s.type = PersonaUpdate
      /\ s.type = PersonaUpdate => s.command = NoCommand
      /\ s.command.writes => writesWorkload(s.command)
      /\ \A v \in s.safety : IsVerdict(deploy, persona, v)
  BY DEF IsStep
<1>1. CASE ~Applied(s)
  <2>1. t = s
    BY <1>1 DEF checkedStep
  <2>2. DOMAIN s.patch = {}
    BY <1>0, <1>1 DEF Applied
  <2> QED
    BY <2>1, <2>2 DEF AllWithin
<1>2. CASE Applied(s)
  <2>1. s.auto /\ s.type = PersonaUpdate /\ DOMAIN s.patch # {}
    BY <1>0, <1>2 DEF Applied
  <2>2. \A f \in DOMAIN s.patch : f \in refused <=> ~Within(deploy, persona, f, s.patch[f])
    BY <1>0, <2>1, RefusedFacts DEF IsGrounded
  <2>3. refused \subseteq DOMAIN s.patch
    BY DEF checkBlastRadius
  <2>4. t = refuseStepFields(s, refused)
    BY <1>2 DEF checkedStep
  <2> HIDE DEF refused
  <2>5. CASE refused = {}
    <3>1. t = s
      BY <2>4, <2>5 DEF refuseStepFields
    <3> QED
      BY <2>2, <2>5, <3>1 DEF AllWithin
  <2>6. CASE refused # {}
    <3>1. PICK ty, au, pa, pr, co, sa, te :
              s = [type |-> ty, auto |-> au, patch |-> pa, pre |-> pr, command |-> co,
                   safety |-> sa, prose |-> te]
      BY StepFields DEF IsStep
    <3>2. t = [s EXCEPT !.patch = Without(@, refused), !.pre = Without(@, refused),
                        !.auto = @ /\ DOMAIN s.patch \ refused # {},
                        !.safety = @ \cup ruled, !.prose = {}]
      BY <2>4, <2>6 DEF refuseStepFields
    <3>3. DOMAIN rest = DOMAIN s.patch \ refused /\ IsPatch(rest)
          /\ \A f \in DOMAIN s.patch \ refused : rest[f] = s.patch[f]
      BY <1>0, WithoutFacts
    <3>4. \A v \in ruled : IsVerdict(deploy, persona, v)
      BY <2>2, <2>3, RefusalFacts
    <3>5. \A v \in s.safety \cup ruled : IsVerdict(deploy, persona, v)
      <4> HIDE DEF ruled
      <4> QED
        BY <1>0, <3>4
    <3>6. AllWithin(deploy, persona, rest)
      <4> HIDE DEF rest
      <4> QED
        BY <2>2, <3>3 DEF AllWithin
    <3> DEFINE auto == s.auto /\ DOMAIN s.patch \ refused # {}
               pre == Without(s.pre, refused)
    <3>7. auto \in BOOLEAN /\ (auto <=> DOMAIN rest # {})
      BY <2>1, <3>3
    <3>8. t = [type |-> s.type, auto |-> auto, patch |-> rest, pre |-> pre,
               command |-> s.command, safety |-> s.safety \cup ruled, prose |-> {}]
      <4> HIDE DEF ruled, t
      <4> QED
        BY <3>1, <3>2
    <3> HIDE DEF t, rest, ruled, auto, pre
    <3>9. /\ t.type = s.type /\ t.auto = auto /\ t.patch = rest /\ t.pre = pre
          /\ t.command = s.command /\ t.safety = s.safety \cup ruled /\ t.prose = {}
      BY <3>8
    <3>10. HasFields(t)
      BY <3>8, <3>9 DEF HasFields
    <3>11. IsStep(deploy, persona, t)
      BY <1>0, <2>1, <3>3, <3>5, <3>7, <3>9, <3>10 DEF IsStep
    <3> QED
      BY <3>6, <3>9, <3>11 DEF t
  <2> QED
    BY <2>5, <2>6
<1> QED
  BY <1>1, <1>2

\* A raise by a quarter to a whole of the baseline is within the cap.
LEMMA ScaleFacts ==
    ASSUME NEW b \in Nat, NEW f
    PROVE  LET v == scaleQuantity(b, increaseMultiplier(f))
           IN  v \in Nat /\ v <= 2 * b /\ 2 * v >= b
<1>1. increaseMultiplier(f) \in {5, 6, 8}
  BY DEF increaseMultiplier
<1>2. CASE increaseMultiplier(f) = 5
  BY <1>2 DEF scaleQuantity
<1>3. CASE increaseMultiplier(f) = 6
  BY <1>3 DEF scaleQuantity
<1>4. CASE increaseMultiplier(f) = 8
  BY <1>4 DEF scaleQuantity
<1> QED
  BY <1>1, <1>2, <1>3, <1>4

\* calculateResourceChange: what the rules derive is within the cap.
LEMMA ChangeFacts ==
    ASSUME InputsOK
    PROVE  /\ IsPatch(calculateResourceChange.patch)
           /\ AllWithin(deploy, persona, calculateResourceChange.patch)
<1> DEFINE declines == \/ target = NoField
                       \/ resolved /\ target \notin DOMAIN observed
                       \/ ~resolved /\ target \notin DOMAIN persona
           baseline == IF resolved THEN observed[target] ELSE persona[target]
           rollback == IF target \in DOMAIN persona THEN persona[target] ELSE baseline
           value == scaleQuantity(baseline, increaseMultiplier(target))
           p == [f \in {target} |-> scaleQuantity(baseline, increaseMultiplier(f))]
<1>1. CASE declines
  <2>1. calculateResourceChange = [patch |-> NoPatch, pre |-> NoPatch]
    BY <1>1 DEF calculateResourceChange
  <2>2. calculateResourceChange.patch = NoPatch
    BY <2>1
  <2> QED
    BY <2>2, NoPatchFacts DEF AllWithin
<1>2. CASE ~declines
  <2>1. calculateResourceChange = [patch |-> p, pre |-> [f \in {target} |-> rollback]]
    BY <1>2 DEF calculateResourceChange
  <2>2. calculateResourceChange.patch = p
    BY <2>1
  <2>3. /\ baseline = Base(deploy, persona, target)
        /\ target \in DOMAIN observed \cup DOMAIN persona
        /\ deploy.found => target \in DOMAIN LiveLimits(deploy)
    <3>1. CASE deploy.found
      BY <1>2, <3>1, BaselineFacts DEF Base
    <3>2. CASE ~deploy.found
      BY <1>2, <3>2, BaselineFacts, NoPatchFacts DEF Base
    <3> QED
      BY <3>1, <3>2
  <2>4. baseline \in Nat
    BY <2>3, BaselineFacts
  <2>5. value \in Nat /\ value <= 2 * baseline /\ 2 * value >= baseline
    <3> HIDE DEF baseline
    <3> QED
      BY <2>4, ScaleFacts
  <2>6. DOMAIN p = {target} /\ p[target] = value /\ p = [f \in DOMAIN p |-> p[f]]
    OBVIOUS
  <2> HIDE DEF p, value, baseline
  <2>7. IsPatch(p)
    BY <2>5, <2>6 DEF IsPatch
  <2>8. AllWithin(deploy, persona, p)
    BY <2>3, <2>5, <2>6 DEF AllWithin, Within
  <2> QED
    BY <2>2, <2>7, <2>8
<1> QED
  BY <1>1, <1>2

\* mergePatches: of two patches within the cap.
LEMMA OverlayFacts ==
    ASSUME NEW w, NEW o, NEW p, IsPatch(p), AllWithin(w, o, p), NEW q, IsPatch(q), AllWithin(w, o, q)
    PROVE  /\ IsPatch(Overlay(p, q)) /\ AllWithin(w, o, Overlay(p, q))
           /\ DOMAIN q \subseteq DOMAIN Overlay(p, q)
<1> DEFINE m == Overlay(p, q)
<1>1. DOMAIN m = DOMAIN p \cup DOMAIN q /\ m = [f \in DOMAIN m |-> m[f]]
  BY DEF Overlay
<1>2. \A f \in DOMAIN m : m[f] = IF f \in DOMAIN q THEN q[f] ELSE p[f]
  BY DEF Overlay
<1> HIDE DEF m
<1>3. \A f \in DOMAIN m : m[f] \in Nat /\ Within(w, o, f, m[f])
  BY <1>1, <1>2 DEF IsPatch, AllWithin
<1>4. IsPatch(m)
  BY <1>1, <1>3 DEF IsPatch
<1> QED
  BY <1>1, <1>3, <1>4 DEF m, AllWithin

\* recordDerivedValues: what takes a refused value's place is not that value.
LEMMA RecordFacts ==
    ASSUME NEW w, NEW o, NEW safety, \A v \in safety : IsVerdict(w, o, v),
           NEW p, AllWithin(w, o, p)
    PROVE  \A v \in recordDerivedValues(safety, p) : IsVerdict(w, o, v)
<1> DEFINE settled == {v \in safety : v.rule = "blast-radius" /\ v.verdict = "rejected"
                                      /\ v.field \in DOMAIN p}
           Clamp(v) == [v EXCEPT !.verdict = "clamped", !.permitted = {p[v.field]}]
           Derive(f) == Verdict("plan-validation", "derived", f, 0, {p[f]})
<1>1. ASSUME NEW v \in settled PROVE IsVerdict(w, o, Clamp(v))
  <2>1. /\ v = Verdict(v.rule, v.verdict, v.field, v.requested, v.permitted)
        /\ ~Within(w, o, v.field, v.requested)
        /\ v.field \in DOMAIN p
    BY DEF IsVerdict
  <2>2. Within(w, o, v.field, p[v.field])
    BY <2>1 DEF AllWithin
  <2>3. Clamp(v) = Verdict(v.rule, "clamped", v.field, v.requested, {p[v.field]})
    <3>1. PICK ru, ve, fi, re, pe :
              v = [rule |-> ru, verdict |-> ve, field |-> fi, requested |-> re, permitted |-> pe]
      BY <2>1, Zenon DEF Verdict
    <3>2. v.rule = ru /\ v.field = fi /\ v.requested = re
      BY <3>1
    <3> DEFINE put == {p[v.field]}
    <3>3. Clamp(v) = [v EXCEPT !.verdict = "clamped", !.permitted = put]
      OBVIOUS
    <3> HIDE DEF Clamp, put
    <3>4. Clamp(v) = [rule |-> ru, verdict |-> "clamped", field |-> fi, requested |-> re,
                      permitted |-> put]
      BY <3>1, <3>3
    <3> QED
      BY <3>2, <3>4 DEF Verdict, put
  <2> DEFINE c == Clamp(v)
  <2>4. /\ c.verdict = "clamped" /\ c.field = v.field /\ c.requested = v.requested
        /\ c.permitted = {p[v.field]} /\ c.rule = v.rule
    BY <2>3, VerdictFacts
  <2>5. v.requested # p[v.field]
    BY <2>1, <2>2
  <2> HIDE DEF c
  <2>6. c = Verdict(c.rule, c.verdict, c.field, c.requested, c.permitted)
    BY <2>3, <2>4 DEF c
  <2>7. IsVerdict(w, o, c)
    BY <2>1, <2>4, <2>5, <2>6 DEF IsVerdict
  <2> QED
    BY <2>7 DEF c
<1>2. ASSUME NEW f PROVE IsVerdict(w, o, Derive(f))
  <2> DEFINE c == Derive(f)
  <2>1. /\ c.verdict = "derived" /\ c.field = f /\ c.requested = 0
        /\ c.permitted = {p[f]} /\ c.rule = "plan-validation"
    BY VerdictFacts
  <2>2. c = Verdict(c.rule, c.verdict, c.field, c.requested, c.permitted)
    BY <2>1
  <2> HIDE DEF c
  <2>3. IsVerdict(w, o, c)
    BY <2>1, <2>2 DEF IsVerdict
  <2> QED
    BY <2>3 DEF c
<1>3. recordDerivedValues(safety, p) =
          (safety \ settled) \cup {Clamp(v) : v \in settled}
          \cup {Derive(f) : f \in DOMAIN p \ {v.field : v \in settled}}
  BY DEF recordDerivedValues
<1> HIDE DEF settled, Clamp, Derive
<1>4. \A v \in safety \ settled : IsVerdict(w, o, v)
  OBVIOUS
<1>5. \A v \in {Clamp(x) : x \in settled} : IsVerdict(w, o, v)
  BY <1>1
<1>6. \A v \in {Derive(f) : f \in DOMAIN p \ {x.field : x \in settled}} : IsVerdict(w, o, v)
  BY <1>2
<1> QED
  BY <1>3, <1>4, <1>5, <1>6

\* installDerivedPatch: the derived values join the patch of a step of the operator's own.
LEMMA InstallFacts ==
    ASSUME NEW w, NEW o, NEW s, IsStep(w, o, s), s.type = PersonaUpdate,
           AllWithin(w, o, s.patch),
           NEW c, IsPatch(c.patch), AllWithin(w, o, c.patch), c.patch # NoPatch
    PROVE  /\ IsStep(w, o, installDerivedPatch(s, c))
           /\ AllWithin(w, o, installDerivedPatch(s, c).patch)
<1> DEFINE patch == Overlay(s.patch, c.patch)
           pre == Overlay(s.pre, c.pre)
           safety == recordDerivedValues(s.safety, c.patch)
           t == installDerivedPatch(s, c)
<1>1. PICK ty, au, pa, pr, co, sa, te :
          s = [type |-> ty, auto |-> au, patch |-> pa, pre |-> pr, command |-> co,
               safety |-> sa, prose |-> te]
  BY StepFields DEF IsStep
<1>2. t = [s EXCEPT !.auto = TRUE, !.patch = Overlay(@, c.patch), !.pre = Overlay(@, c.pre),
                    !.command = NoCommand, !.safety = recordDerivedValues(@, c.patch), !.prose = {}]
  BY DEF installDerivedPatch
<1>3. t = [type |-> s.type, auto |-> TRUE, patch |-> patch, pre |-> pre, command |-> NoCommand,
           safety |-> safety, prose |-> {}]
  <2> HIDE DEF t
  <2> QED
    BY <1>1, <1>2
<1>4. IsPatch(patch) /\ AllWithin(w, o, patch) /\ DOMAIN c.patch \subseteq DOMAIN patch
  BY OverlayFacts DEF IsStep
<1>5. DOMAIN c.patch # {}
  BY NoPatchFacts
<1>6. \A v \in safety : IsVerdict(w, o, v)
  BY RecordFacts DEF IsStep
<1> HIDE DEF t, patch, pre, safety
<1>7. /\ t.type = s.type /\ t.auto = TRUE /\ t.patch = patch /\ t.pre = pre
      /\ t.command = NoCommand /\ t.safety = safety /\ t.prose = {}
  BY <1>3
<1>8. HasFields(t)
  BY <1>3, <1>7 DEF HasFields
<1>9. t.auto <=> DOMAIN t.patch # {}
  BY <1>4, <1>5, <1>7
<1>10. IsStep(w, o, t)
  BY <1>4, <1>6, <1>7, <1>8, <1>9, NoCommandFacts DEF IsStep
<1> QED
  BY <1>4, <1>7, <1>10 DEF t

-----------------------------------------------------------------------------
(***************************************************************************)
(* The later stages change what a step says, not what it does.             *)
(***************************************************************************)

\* The two steps apply the same, on the same record.
Same(s, t) == /\ t.type = s.type /\ t.auto = s.auto /\ t.patch = s.patch /\ t.pre = s.pre
              /\ t.safety = s.safety

\* s with the command c and the prose x.
Retold(s, c, x) == [type |-> s.type, auto |-> s.auto, patch |-> s.patch, pre |-> s.pre,
                    command |-> c, safety |-> s.safety, prose |-> x]

\* A step that is told anew, with its command or none.
LEMMA RetoldFacts ==
    ASSUME NEW w, NEW o, NEW s, IsStep(w, o, s), NEW c, c \in {s.command, NoCommand}, NEW x,
           NEW t, t = Retold(s, c, x)
    PROVE  IsStep(w, o, t) /\ Same(s, t) /\ t.command = c /\ t.prose = x
<1>1. /\ t.type = s.type /\ t.auto = s.auto /\ t.patch = s.patch /\ t.pre = s.pre
      /\ t.command = c /\ t.safety = s.safety /\ t.prose = x
  BY DEF Retold
<1>2. HasFields(t)
  BY <1>1 DEF HasFields, Retold
<1>3. Same(s, t)
  BY <1>1 DEF Same
<1>4. t.command.writes => writesWorkload(t.command)
  BY <1>1, NoCommandFacts DEF IsStep
<1>5. IsStep(w, o, t)
  BY <1>1, <1>2, <1>4 DEF IsStep
<1> QED
  BY <1>1, <1>3, <1>5

\* The ways the stages write that.
LEMMA ExceptFacts ==
    ASSUME NEW s, HasFields(s), NEW c, NEW x, NEW t
    PROVE  /\ t = [s EXCEPT !.prose = x] => t = Retold(s, s.command, x)
           /\ t = [s EXCEPT !.command = c, !.prose = x] => t = Retold(s, c, x)
<1>1. PICK ty, au, pa, pr, co, sa, te :
          s = [type |-> ty, auto |-> au, patch |-> pa, pre |-> pr, command |-> co,
               safety |-> sa, prose |-> te]
  BY StepFields
<1>2. s.type = ty /\ s.auto = au /\ s.patch = pa /\ s.pre = pr /\ s.command = co /\ s.safety = sa
  BY <1>1
<1>3. ASSUME t = [s EXCEPT !.prose = x] PROVE t = Retold(s, s.command, x)
  <2>1. t = [type |-> ty, auto |-> au, patch |-> pa, pre |-> pr, command |-> co,
             safety |-> sa, prose |-> x]
    BY <1>1, <1>3
  <2> QED
    BY <1>2, <2>1 DEF Retold
<1>4. ASSUME t = [s EXCEPT !.command = c, !.prose = x] PROVE t = Retold(s, c, x)
  <2>1. t = [type |-> ty, auto |-> au, patch |-> pa, pre |-> pr, command |-> c,
             safety |-> sa, prose |-> x]
    BY <1>1, <1>4
  <2> QED
    BY <1>2, <2>1 DEF Retold
<1> QED
  BY <1>3, <1>4

\* A record of the single action or of the counts is the same for such steps.
LEMMA SameFacts ==
    ASSUME NEW ss, NEW tt, DOMAIN tt = DOMAIN ss, DOMAIN ss \subseteq Nat,
           \A i \in DOMAIN ss : Same(ss[i], tt[i])
    PROVE  setBackCompatAction(tt) = setBackCompatAction(ss) /\ planExplanation(tt) = planExplanation(ss)
<1> DEFINE A == {i \in DOMAIN ss : Applied(ss[i])}
           B == {i \in DOMAIN tt : Applied(tt[i])}
<1>1. A = B
  BY DEF Applied, Same
<1>2. A # {} => First(A) \in A
  BY FirstFacts
<1>3. A # {} => tt[First(A)].patch = ss[First(A)].patch /\ tt[First(A)].pre = ss[First(A)].pre
  BY <1>2 DEF Same
<1>4. setBackCompatAction(ss) = IF A = {} THEN Notification
                                ELSE [patch |-> ss[First(A)].patch, pre |-> ss[First(A)].pre]
  BY DEF setBackCompatAction
<1>5. setBackCompatAction(tt) = IF B = {} THEN Notification
                                ELSE [patch |-> tt[First(B)].patch, pre |-> tt[First(B)].pre]
  BY DEF setBackCompatAction
<1>6. {i \in DOMAIN tt : tt[i].auto} = {i \in DOMAIN ss : ss[i].auto}
  BY DEF Same
<1>7. planExplanation(tt) = planExplanation(ss)
  BY <1>6 DEF planExplanation
<1> HIDE DEF A, B
<1> QED
  BY <1>1, <1>3, <1>4, <1>5, <1>7

\* enforceAutoExecutableInvariant finds nothing to correct.
LEMMA EnforceFacts ==
    ASSUME NEW w, NEW o, NEW s, IsStep(w, o, s)
    PROVE  enforceAutoExecutableInvariant(s) = s
<1>1. PICK ty, au, pa, pr, co, sa, te :
          s = [type |-> ty, auto |-> au, patch |-> pa, pre |-> pr, command |-> co,
               safety |-> sa, prose |-> te]
  BY StepFields DEF IsStep
<1>2. s.auto = au
  BY <1>1
<1> DEFINE ours == s.auto /\ s.type = PersonaUpdate
<1>3. ours = s.auto
  BY DEF IsStep
<1>4. enforceAutoExecutableInvariant(s) = [s EXCEPT !.auto = ours]
  BY DEF enforceAutoExecutableInvariant
<1> HIDE DEF ours
<1>5. [s EXCEPT !.auto = ours] = s
  BY <1>1, <1>2, <1>3
<1> QED
  BY <1>4, <1>5

\* applyOwnershipShaping: on an owned workload no command that writes is left.
LEMMA StripFacts ==
    ASSUME NEW s, IsStep(deploy, persona, s)
    PROVE  LET t == stripWorkloadWriteCommands(s)
           IN  IsStep(deploy, persona, t) /\ Same(s, t) /\ (IsOwned => ~t.command.writes)
<1> DEFINE x == s.prose \cup {[mentions |-> proposedResourceChanges, claims |-> FALSE]}
           t == stripWorkloadWriteCommands(s)
           strips == IsOwned /\ s.type # PersonaUpdate /\ writesWorkload(s.command)
<1>1. CASE strips
  <2>1. t = [s EXCEPT !.command = NoCommand, !.prose = x]
    BY <1>1 DEF stripWorkloadWriteCommands
  <2> HIDE DEF t, x
  <2>2. IsStep(deploy, persona, t) /\ Same(s, t) /\ t.command = NoCommand
    <3>1. HasFields(s)
      BY DEF IsStep
    <3>2. t = Retold(s, NoCommand, x)
      BY <2>1, <3>1, ExceptFacts, Zenon
    <3> QED
      BY <3>2, RetoldFacts
  <2> QED
    BY <2>2, NoCommandFacts DEF t
<1>2. CASE ~strips
  <2>1. t = s
    BY <1>2 DEF stripWorkloadWriteCommands
  <2>2. IsOwned => ~s.command.writes
    BY <1>2, NoCommandFacts DEF IsStep
  <2> QED
    BY <2>1, <2>2 DEF Same
<1> QED
  BY <1>1, <1>2

\* discloseBlastRadiusClamp: only the prose changes.
LEMMA DiscloseFacts ==
    ASSUME NEW w, NEW o, NEW s, IsStep(w, o, s)
    PROVE  LET t == disclosedStep(s)
           IN  IsStep(w, o, t) /\ Same(s, t) /\ t.command = s.command
<1> DEFINE x == s.prose \cup {Caveat}
           t == disclosedStep(s)
<1>1. CASE AtCap(s)
  <2>1. t = [s EXCEPT !.prose = x]
    BY <1>1 DEF disclosedStep
  <2> HIDE DEF t, x
  <2>2. t = Retold(s, s.command, x)
    BY <2>1, ExceptFacts DEF IsStep
  <2>3. IsStep(w, o, t) /\ Same(s, t) /\ t.command = s.command
    BY <2>2, RetoldFacts
  <2> QED
    BY <2>3 DEF t
<1>2. CASE ~AtCap(s)
  BY <1>2 DEF disclosedStep, Same
<1> QED
  BY <1>1, <1>2

\* What refusedValues holds is not within the cap, and holds every refusal.
LEMMA RefusedValuesFacts ==
    ASSUME StepsOK
    PROVE  /\ \A f, v : <<f, v>> \in refusedValues => ~Within(deploy, persona, f, v)
           /\ \A v \in Refusals(steps) : <<v.field, v.requested>> \in refusedValues /\ v.requested \in Amounts
<1>1. ASSUME NEW f, NEW q, <<f, q>> \in refusedValues PROVE ~Within(deploy, persona, f, q)
  <2>1. PICK i \in DOMAIN steps :
            \E v \in steps[i].safety : /\ v.verdict \in {"rejected", "clamped"}
                                       /\ <<f, q>> = <<v.field, v.requested>>
    BY <1>1 DEF refusedValues
  <2>2. PICK v \in steps[i].safety : /\ v.verdict \in {"rejected", "clamped"}
                                     /\ <<f, q>> = <<v.field, v.requested>>
    BY <2>1
  <2>3. IsVerdict(deploy, persona, v)
    BY DEF StepsOK, IsStep
  <2>4. ~Within(deploy, persona, v.field, v.requested)
    BY <2>2, <2>3 DEF IsVerdict
  <2>5. f = v.field /\ q = v.requested
    BY <2>2
  <2> QED
    BY <2>4, <2>5
<1>2. ASSUME NEW v \in Refusals(steps)
      PROVE  <<v.field, v.requested>> \in refusedValues /\ v.requested \in Amounts
  <2>1. PICK i \in DOMAIN steps : v \in steps[i].safety
    BY DEF Refusals
  <2>2. v.verdict \in {"rejected", "clamped"}
    BY DEF Refusals
  <2>3. IsVerdict(deploy, persona, v)
    BY <2>1 DEF StepsOK, IsStep
  <2>4. v.requested \notin v.permitted
    BY <2>2, <2>3 DEF IsVerdict
  <2>5. <<v.field, v.requested>> \in refusedValues
    BY <2>1, <2>2, <2>4 DEF refusedValues
  <2>6. v.requested \in Amounts
    BY <2>5 DEF Amounts
  <2> QED
    BY <2>5, <2>6
<1> QED
  BY <1>1, <1>2

\* pruneRefusedLeaves takes nothing from a patch that is within the cap.
LEMMA PruneFacts ==
    ASSUME StepsOK, NEW p, IsPatch(p), AllWithin(deploy, persona, p)
    PROVE  pruneRefusedLeaves(p) = p
<1> DEFINE S == {f \in DOMAIN p : <<f, p[f]>> \in refusedValues}
<1>1. S = {}
  BY RefusedValuesFacts DEF AllWithin
<1>2. pruneRefusedLeaves(p) = Without(p, S)
  BY DEF pruneRefusedLeaves
<1> HIDE DEF S
<1> QED
  BY <1>1, <1>2 DEF Without, IsPatch

\* scrubStep: the patch stays; the command goes if it mentions what was refused.
LEMMA ScrubFacts ==
    ASSUME StepsOK, NEW s, IsStep(deploy, persona, s), AllWithin(deploy, persona, s.patch)
    PROVE  LET t == scrubStep(s)
           IN  /\ IsStep(deploy, persona, t) /\ Same(s, t)
               /\ t.prose = redactRefusedProse(s.prose)
               /\ t.command.values \cap Amounts = {}
               /\ t.command \in {s.command, NoCommand}
<1> DEFINE t == scrubStep(s)
           c == IF s.command.values \cap Amounts # {} THEN NoCommand ELSE s.command
           x == redactRefusedProse(s.prose)
           p == pruneRefusedLeaves(s.patch)
           a == s.auto /\ p # NoPatch
<1>1. p = s.patch
  BY PruneFacts DEF IsStep
<1>2. a = s.auto
  <2> HIDE DEF p
  <2> QED
    BY <1>1, NoPatchFacts DEF IsStep
<1>3. t = [s EXCEPT !.patch = p, !.auto = a, !.command = c, !.prose = x]
  BY DEF scrubStep
<1>4. c \in {s.command, NoCommand} /\ c.values \cap Amounts = {}
  BY NoCommandFacts
<1> HIDE DEF t, c, x, p, a
<1>5. PICK ty, au, pa, pr, co, sa, te :
          s = [type |-> ty, auto |-> au, patch |-> pa, pre |-> pr, command |-> co,
               safety |-> sa, prose |-> te]
  BY StepFields DEF IsStep
<1>6. s.auto = au /\ s.patch = pa
  BY <1>5
<1>7. t = [type |-> ty, auto |-> a, patch |-> p, pre |-> pr, command |-> c, safety |-> sa, prose |-> x]
  BY <1>3, <1>5
<1>8. s.type = ty /\ s.pre = pr /\ s.safety = sa
  BY <1>5
<1>9. t = Retold(s, c, x)
  BY <1>1, <1>2, <1>7, <1>8 DEF Retold
<1>10. IsStep(deploy, persona, t) /\ Same(s, t) /\ t.command = c /\ t.prose = x
  BY <1>4, <1>9, RetoldFacts
<1> QED
  BY <1>4, <1>10 DEF t, x

-----------------------------------------------------------------------------
(***************************************************************************)
(* The invariant is inductive.                                             *)
(***************************************************************************)

\* The inputs never change.
LEMMA InputsFrame ==
    ASSUME InputsOK, UNCHANGED inputs
    PROVE  /\ InputsOK' /\ deploy' = deploy /\ persona' = persona
           /\ IsOwned' = IsOwned
BY DEF InputsOK, inputs, IsOwned, resolved

\* What stages that only retell the steps keep.
LEMMA RetoldFrame ==
    ASSUME IInv, UNCHANGED inputs, stage \in Checked, DOMAIN steps' = DOMAIN steps,
           \A i \in DOMAIN steps : /\ IsStep(deploy, persona, steps'[i])
                                   /\ Same(steps[i], steps'[i])
    PROVE  /\ InputsOK' /\ StepsOK' /\ CheckedOK'
           /\ setBackCompatAction(steps') = setBackCompatAction(steps)
           /\ planExplanation(steps') = planExplanation(steps)
           /\ Refusals(steps') = Refusals(steps)
<1>1. InputsOK' /\ deploy' = deploy /\ persona' = persona
  BY InputsFrame DEF IInv
<1>2. StepsOK'
  BY <1>1 DEF IInv, StepsOK
<1>3. CheckedOK'
  BY <1>1 DEF IInv, CheckedOK, Same
<1>4. /\ setBackCompatAction(steps') = setBackCompatAction(steps)
      /\ planExplanation(steps') = planExplanation(steps)
  <2>1. DOMAIN steps \subseteq Nat
    BY DEF IInv, StepsOK
  <2> QED
    BY <2>1, SameFacts
<1>5. Refusals(steps') = Refusals(steps)
  BY DEF Refusals, Same
<1> QED
  BY <1>1, <1>2, <1>3, <1>4, <1>5

\* The initial plans.
LEMMA InitHolds == Init => IInv
<1> SUFFICES ASSUME Init PROVE IInv
  OBVIOUS
<1>1. PICK p \in Plans, w \in Workloads, s \in PersonaSpecs :
          /\ deploy = w /\ persona = s
          /\ steps = [i \in DOMAIN p.steps |-> mapPlannedStep(p.steps[i])]
          /\ stage = IF p.steps = << >> THEN "failed" ELSE "built"
  BY DEF Init
<1>2. InputsOK
  BY <1>1 DEF InputsOK
<1>3. DOMAIN p.steps = 1 .. Len(p.steps) /\ Len(p.steps) \in Nat
  BY PlansAssumption
<1>4. DOMAIN steps = DOMAIN p.steps /\ DOMAIN steps \subseteq Nat
  BY <1>1, <1>3
<1>5. ASSUME NEW i \in DOMAIN steps
      PROVE  IsStep(deploy, persona, steps[i]) /\ IsGrounded(deploy, persona, steps[i])
  <2>1. i \in 1 .. Len(p.steps)
    BY <1>3, <1>4
  <2>2. IsPatch(p.steps[i].patch)
    BY <2>1, PlansAssumption
  <2>3. p.steps[i].command.writes => writesWorkload(p.steps[i].command)
    BY <2>1, KubectlAssumption
  <2>4. steps[i] = mapPlannedStep(p.steps[i])
    BY <1>1, <1>4
  <2> QED
    BY <1>2, <2>2, <2>3, <2>4, MapFacts
<1>6. StepsOK /\ BuiltOK
  BY <1>4, <1>5 DEF StepsOK, BuiltOK
<1>7. stage \notin Checked /\ stage # "ruled"
  BY <1>1 DEF Checked, Headed, Shaped, Disclosed, Scrubbed, Clean, Planned
<1>8. told = [counts |-> planExplanation(steps), caveat |-> FALSE]
  BY DEF Init
<1>9. told = [counts |-> told.counts, caveat |-> told.caveat]
  BY <1>8
<1>10. CheckedOK /\ HeadedOK /\ ShapedOK /\ DisclosedOK /\ ScrubbedOK /\ CleanOK /\ RuledOK
  BY <1>7, <1>9 DEF CheckedOK, HeadedOK, ShapedOK, DisclosedOK, ScrubbedOK, CleanOK, RuledOK,
     Checked, Headed, Shaped, Disclosed, Scrubbed, Clean
<1> QED
  BY <1>2, <1>6, <1>10 DEF IInv

\* A step that ends the proposal, or creates it as it is.
LEMMA EndsStep ==
    ASSUME IInv, NEW x, Ends(x), x \in {"skipped", "failed"} \/ (stage = "clean" /\ x = "planned")
    PROVE  IInv'
<1>1. /\ UNCHANGED inputs /\ stage' = x
      /\ UNCHANGED <<steps, head, summary, told>>
  BY DEF Ends, plan
<1>2. InputsOK' /\ deploy' = deploy /\ persona' = persona /\ IsOwned' = IsOwned
  BY <1>1, InputsFrame DEF IInv
<1>3. StepsOK'
  BY <1>1, <1>2 DEF IInv, StepsOK
<1>4. CASE x \in {"skipped", "failed"}
  <2>1. stage' \notin Checked /\ stage' # "ruled" /\ stage' # "built"
    BY <1>1, <1>4 DEF Checked, Headed, Shaped, Disclosed, Scrubbed, Clean, Planned
  <2>2. (told = [counts |-> told.counts, caveat |-> told.caveat])'
    BY <1>1 DEF IInv, DisclosedOK
  <2> QED
    BY <1>2, <1>3, <2>1, <2>2 DEF IInv, BuiltOK, CheckedOK, HeadedOK, ShapedOK, DisclosedOK,
       ScrubbedOK, CleanOK, RuledOK, Checked, Headed, Shaped, Disclosed, Scrubbed, Clean
<1>5. CASE stage = "clean" /\ x = "planned"
  <2>1. /\ stage \in Clean /\ stage \in Scrubbed /\ stage \in Disclosed /\ stage \in Shaped
        /\ stage \in Headed /\ stage \in Checked
        /\ stage' # "ruled" /\ stage' # "built"
    BY <1>1, <1>5 DEF Checked, Headed, Shaped, Disclosed, Scrubbed, Clean, Planned
  <2>2. BuiltOK' /\ RuledOK'
    BY <2>1 DEF BuiltOK, RuledOK
  <2>3. CheckedOK' /\ HeadedOK' /\ ShapedOK'
    BY <1>1, <1>2, <2>1 DEF IInv, CheckedOK, HeadedOK, ShapedOK
  <2>4. DisclosedOK' /\ ScrubbedOK' /\ CleanOK'
    BY <1>1, <2>1 DEF IInv, DisclosedOK, ScrubbedOK, CleanOK
  <2> QED
    BY <1>2, <1>3, <2>2, <2>3, <2>4 DEF IInv
<1> QED
  BY <1>4, <1>5

\* applyStepSafety.
LEMMA SafetyStep == ASSUME IInv, applyStepSafety PROVE IInv'
<1>1. CASE Ends("skipped") \/ Ends("failed")
  BY <1>1, EndsStep
<1>2. CASE /\ stage' = "checked"
           /\ steps' = [i \in DOMAIN steps |-> checkedStep(steps[i])]
           /\ UNCHANGED <<inputs, head, summary, told, damped, declined>>
  <2>1. InputsOK' /\ deploy' = deploy /\ persona' = persona
    BY <1>2, InputsFrame DEF IInv
  <2>2. InputsOK
    BY DEF IInv
  <2>3. ASSUME NEW i \in DOMAIN steps
        PROVE  /\ IsStep(deploy, persona, checkedStep(steps[i]))
               /\ AllWithin(deploy, persona, checkedStep(steps[i]).patch)
    <3>1. IsStep(deploy, persona, steps[i]) /\ IsGrounded(deploy, persona, steps[i])
      BY DEF IInv, StepsOK, BuiltOK, applyStepSafety
    <3> QED
      BY <2>2, <3>1, CheckedFacts
  <2>4. StepsOK'
    BY <1>2, <2>1, <2>3 DEF IInv, StepsOK
  <2>5. CheckedOK'
    BY <1>2, <2>1, <2>3 DEF CheckedOK
  <2>6. (told = [counts |-> told.counts, caveat |-> told.caveat])'
    BY <1>2 DEF IInv, DisclosedOK
  <2> QED
    BY <1>2, <2>1, <2>4, <2>5, <2>6 DEF IInv, BuiltOK, HeadedOK, ShapedOK, DisclosedOK,
       ScrubbedOK, CleanOK, RuledOK, Headed, Shaped, Disclosed, Scrubbed, Clean, Planned
<1> QED
  BY <1>1, <1>2 DEF applyStepSafety

\* ensureAppliableResourcePlan.
LEMMA SizeStep == ASSUME IInv, ensureAppliableResourcePlan PROVE IInv'
<1> DEFINE change == calculateResourceChange
           needed == target # NoField /\ ~appliesDiagnosedChange(steps)
           installs == needed /\ change.patch # NoPatch
           k == personaUpdateStep
<1>1. CASE Ends("failed")
  BY <1>1, EndsStep
<1>2. CASE ~(installs /\ k = 0)
  <2>1. /\ stage' = "sized"
        /\ steps' = IF installs THEN [steps EXCEPT ![k] = installDerivedPatch(@, change)] ELSE steps
        /\ UNCHANGED <<inputs, head, summary, told, damped>>
    BY <1>2 DEF ensureAppliableResourcePlan
  <2>2. InputsOK' /\ deploy' = deploy /\ persona' = persona
    BY <2>1, InputsFrame DEF IInv
  <2>3. /\ DOMAIN steps \subseteq Nat
        /\ \A i \in DOMAIN steps : /\ IsStep(deploy, persona, steps[i])
                                   /\ AllWithin(deploy, persona, steps[i].patch)
    BY DEF IInv, StepsOK, CheckedOK, ensureAppliableResourcePlan, Checked
  <2>4. /\ DOMAIN steps' = DOMAIN steps
        /\ \A i \in DOMAIN steps : /\ IsStep(deploy, persona, steps'[i])
                                   /\ AllWithin(deploy, persona, steps'[i].patch)
    <3>1. CASE ~installs
      BY <2>1, <2>3, <3>1
    <3>2. CASE installs
      <4>1. k \in DOMAIN steps /\ steps[k].type = PersonaUpdate
        <5> DEFINE ours == {i \in DOMAIN steps : steps[i].type = PersonaUpdate}
                   refused == {i \in ours : \E v \in steps[i].safety :
                                   v.rule = "blast-radius" /\ v.verdict = "rejected"}
        <5>1. k = IF refused # {} THEN First(refused) ELSE IF ours # {} THEN First(ours) ELSE 0
          BY DEF personaUpdateStep
        <5>2. refused # {} => First(refused) \in refused
          BY <2>3, FirstFacts
        <5>3. ours # {} => First(ours) \in ours
          BY <2>3, FirstFacts
        <5> HIDE DEF k
        <5> QED
          BY <1>2, <3>2, <5>1, <5>2, <5>3
      <4>2. IsPatch(change.patch) /\ AllWithin(deploy, persona, change.patch)
        BY ChangeFacts DEF IInv
      <4> HIDE DEF change, k
      <4>3. steps' = [steps EXCEPT ![k] = installDerivedPatch(steps[k], change)]
        BY <2>1, <3>2
      <4>4. /\ IsStep(deploy, persona, installDerivedPatch(steps[k], change))
            /\ AllWithin(deploy, persona, installDerivedPatch(steps[k], change).patch)
        BY <2>3, <3>2, <4>1, <4>2, InstallFacts
      <4> QED
        BY <2>3, <4>1, <4>3, <4>4
    <3> QED
      BY <3>1, <3>2
  <2>5. StepsOK' /\ CheckedOK'
    BY <2>2, <2>3, <2>4 DEF StepsOK, CheckedOK
  <2>6. (told = [counts |-> told.counts, caveat |-> told.caveat])'
    BY <2>1 DEF IInv, DisclosedOK
  <2> QED
    BY <2>1, <2>2, <2>5, <2>6 DEF IInv, BuiltOK, HeadedOK, ShapedOK, DisclosedOK,
       ScrubbedOK, CleanOK, RuledOK, Headed, Shaped, Disclosed, Scrubbed, Clean, Planned
<1> QED
  BY <1>1, <1>2 DEF ensureAppliableResourcePlan

\* dropPatchlessPersonaUpdates.
LEMMA TrimStep == ASSUME IInv, dropPatchlessPersonaUpdates PROVE IInv'
<1> DEFINE kept == {i \in DOMAIN steps : \/ steps[i].type # PersonaUpdate
                                         \/ steps[i].patch # NoPatch
                                         \/ steps[i].safety # {}}
<1>1. CASE Ends("failed")
  BY <1>1, EndsStep
<1>2. CASE kept # {}
  <2>1. /\ stage' = "trimmed" /\ steps' = [i \in kept |-> steps[i]]
        /\ UNCHANGED <<inputs, head, summary, told, damped, declined>>
    BY <1>2 DEF dropPatchlessPersonaUpdates
  <2>2. InputsOK' /\ deploy' = deploy /\ persona' = persona
    BY <2>1, InputsFrame DEF IInv
  <2>3. kept \subseteq DOMAIN steps
    OBVIOUS
  <2> HIDE DEF kept
  <2>4. DOMAIN steps' \subseteq DOMAIN steps /\ \A i \in DOMAIN steps' : steps'[i] = steps[i]
    BY <2>1, <2>3
  <2>5. StepsOK'
    BY <2>2, <2>4 DEF IInv, StepsOK
  <2>6. CheckedOK'
    BY <2>2, <2>4 DEF IInv, CheckedOK, dropPatchlessPersonaUpdates, Checked
  <2>7. (told = [counts |-> told.counts, caveat |-> told.caveat])'
    BY <2>1 DEF IInv, DisclosedOK
  <2> QED
    BY <2>1, <2>2, <2>5, <2>6, <2>7 DEF IInv, BuiltOK, HeadedOK, ShapedOK, DisclosedOK,
       ScrubbedOK, CleanOK, RuledOK, Headed, Shaped, Disclosed, Scrubbed, Clean, Planned
<1> QED
  BY <1>1, <1>2 DEF dropPatchlessPersonaUpdates

\* setBackCompatAction once more, and enforceAutoExecutableInvariant.
LEMMA HeadStep == ASSUME IInv, RecomputeAction PROVE IInv'
<1>1. /\ stage = "trimmed" /\ stage' = "headed" /\ head' = setBackCompatAction(steps)
      /\ steps' = [i \in DOMAIN steps |-> enforceAutoExecutableInvariant(steps[i])]
      /\ UNCHANGED <<inputs, summary, told>>
  BY DEF RecomputeAction, Rehead
<1>2. \A i \in DOMAIN steps : IsStep(deploy, persona, steps[i])
  BY DEF IInv, StepsOK
<1>3. \A i \in DOMAIN steps : steps'[i] = steps[i]
  BY <1>1, <1>2, EnforceFacts
<1>4. stage \in Checked
  BY <1>1 DEF Checked
<1>5. DOMAIN steps' = DOMAIN steps
  BY <1>1
<1>6. \A i \in DOMAIN steps : IsStep(deploy, persona, steps'[i]) /\ Same(steps[i], steps'[i])
  BY <1>2, <1>3 DEF Same
<1>7. /\ InputsOK' /\ StepsOK' /\ CheckedOK'
      /\ setBackCompatAction(steps') = setBackCompatAction(steps)
  BY <1>1, <1>4, <1>5, <1>6, RetoldFrame
<1>8. HeadedOK'
  BY <1>1, <1>7 DEF HeadedOK
<1>9. (told = [counts |-> told.counts, caveat |-> told.caveat])'
  BY <1>1 DEF IInv, DisclosedOK
<1> QED
  BY <1>1, <1>7, <1>8, <1>9 DEF IInv, BuiltOK, ShapedOK, DisclosedOK,
     ScrubbedOK, CleanOK, RuledOK, Shaped, Disclosed, Scrubbed, Clean, Planned

\* applyOwnershipShaping.
LEMMA ShapeStep == ASSUME IInv, ShapeForOwner PROVE IInv'
<1>1. /\ stage = "headed" /\ stage' = "shaped"
      /\ steps' = [i \in DOMAIN steps |-> stripWorkloadWriteCommands(steps[i])]
      /\ UNCHANGED <<inputs, head, summary, told>>
  BY DEF ShapeForOwner
<1>2. \A i \in DOMAIN steps : IsStep(deploy, persona, steps[i])
  BY DEF IInv, StepsOK
<1>3. ASSUME NEW i \in DOMAIN steps
      PROVE  /\ IsStep(deploy, persona, steps'[i]) /\ Same(steps[i], steps'[i])
             /\ IsOwned => ~steps'[i].command.writes
  <2>1. steps'[i] = stripWorkloadWriteCommands(steps[i])
    BY <1>1
  <2> QED
    BY <1>2, <2>1, StripFacts
<1>4. stage \in Checked /\ stage \in Headed
  BY <1>1 DEF Checked, Headed
<1>5. DOMAIN steps' = DOMAIN steps
  BY <1>1
<1>6. /\ InputsOK' /\ StepsOK' /\ CheckedOK'
      /\ setBackCompatAction(steps') = setBackCompatAction(steps)
  BY <1>1, <1>3, <1>4, <1>5, RetoldFrame
<1>7. HeadedOK'
  BY <1>1, <1>4, <1>6 DEF IInv, HeadedOK
<1>8. IsOwned' = IsOwned
  BY <1>1, InputsFrame DEF IInv
<1>9. ShapedOK'
  BY <1>3, <1>5, <1>8 DEF ShapedOK
<1>10. (told = [counts |-> told.counts, caveat |-> told.caveat])'
  BY <1>1 DEF IInv, DisclosedOK
<1> QED
  BY <1>1, <1>6, <1>7, <1>9, <1>10 DEF IInv, BuiltOK, DisclosedOK,
     ScrubbedOK, CleanOK, RuledOK, Disclosed, Scrubbed, Clean, Planned

\* planExplanation and discloseGroundedBlastRadiusClamp.
LEMMA DiscloseStep == ASSUME IInv, Disclose PROVE IInv'
<1>1. /\ stage = "shaped" /\ stage' = "disclosed"
      /\ steps' = [i \in DOMAIN steps |-> disclosedStep(steps[i])]
      /\ UNCHANGED <<inputs, head>>
  BY DEF Disclose
<1>2. PICK any : told' = [counts |-> planExplanation(steps), caveat |-> any]
  BY DEF Disclose
<1>3. \A i \in DOMAIN steps : IsStep(deploy, persona, steps[i])
  BY DEF IInv, StepsOK
<1>4. ASSUME NEW i \in DOMAIN steps
      PROVE  /\ IsStep(deploy, persona, steps'[i]) /\ Same(steps[i], steps'[i])
             /\ steps'[i].command = steps[i].command
  <2>1. steps'[i] = disclosedStep(steps[i])
    BY <1>1
  <2> QED
    BY <1>3, <2>1, DiscloseFacts
<1>5. stage \in Checked /\ stage \in Headed /\ stage \in Shaped
  BY <1>1 DEF Checked, Headed, Shaped
<1>6. DOMAIN steps' = DOMAIN steps
  BY <1>1
<1>7. /\ InputsOK' /\ StepsOK' /\ CheckedOK'
      /\ setBackCompatAction(steps') = setBackCompatAction(steps)
      /\ planExplanation(steps') = planExplanation(steps)
  BY <1>1, <1>4, <1>5, <1>6, RetoldFrame
<1>8. HeadedOK'
  BY <1>1, <1>5, <1>7 DEF IInv, HeadedOK
<1>9. IsOwned' = IsOwned
  BY <1>1, InputsFrame DEF IInv
<1>10. ShapedOK'
  BY <1>4, <1>5, <1>6, <1>9 DEF IInv, ShapedOK
<1>11. told'.counts = planExplanation(steps) /\ told' = [counts |-> told'.counts, caveat |-> told'.caveat]
  BY <1>2
<1>12. DisclosedOK'
  BY <1>7, <1>11 DEF DisclosedOK
<1> QED
  BY <1>1, <1>7, <1>8, <1>10, <1>12 DEF IInv, BuiltOK,
     ScrubbedOK, CleanOK, RuledOK, Scrubbed, Clean, Planned

\* scrubRefusedValues.
LEMMA ScrubStep == ASSUME IInv, scrubRefusedValues PROVE IInv'
<1>1. /\ stage = "disclosed" /\ stage' = "scrubbed"
      /\ steps' = IF refusedValues = {} THEN steps ELSE [i \in DOMAIN steps |-> scrubStep(steps[i])]
      /\ head' = IF pruneRefusedLeaves(head.patch) = head.patch THEN head
                 ELSE IF pruneRefusedLeaves(head.patch) = NoPatch THEN Notification
                 ELSE [head EXCEPT !.patch = pruneRefusedLeaves(@)]
      /\ summary' = redactRefusedProse(summary)
      /\ UNCHANGED inputs
  BY DEF scrubRefusedValues
<1>2. stage \in Checked /\ stage \in Headed /\ stage \in Shaped
  BY <1>1 DEF Checked, Headed, Shaped, Disclosed
<1>3. /\ StepsOK /\ DOMAIN steps \subseteq Nat
      /\ \A i \in DOMAIN steps : /\ IsStep(deploy, persona, steps[i])
                                 /\ AllWithin(deploy, persona, steps[i].patch)
  BY <1>2 DEF IInv, StepsOK, CheckedOK
<1>4. DOMAIN steps' = DOMAIN steps
  BY <1>1
<1>5. ASSUME NEW i \in DOMAIN steps, refusedValues # {}
      PROVE  /\ IsStep(deploy, persona, steps'[i]) /\ Same(steps[i], steps'[i])
             /\ steps'[i].prose = redactRefusedProse(steps[i].prose)
             /\ steps'[i].command.values \cap Amounts = {}
             /\ steps'[i].command \in {steps[i].command, NoCommand}
  <2>1. steps'[i] = scrubStep(steps[i])
    BY <1>1, <1>5
  <2> QED
    BY <1>3, <2>1, ScrubFacts
<1>6. ASSUME NEW i \in DOMAIN steps
      PROVE  /\ IsStep(deploy, persona, steps'[i]) /\ Same(steps[i], steps'[i])
             /\ steps'[i].command \in {steps[i].command, NoCommand}
  <2>1. CASE refusedValues # {}
    BY <1>5, <2>1
  <2>2. CASE refusedValues = {}
    BY <1>1, <1>3, <2>2 DEF Same
  <2> QED
    BY <2>1, <2>2
<1>7. /\ InputsOK' /\ StepsOK' /\ CheckedOK'
      /\ setBackCompatAction(steps') = setBackCompatAction(steps)
      /\ Refusals(steps') = Refusals(steps)
  BY <1>1, <1>2, <1>4, <1>6, RetoldFrame
<1>8. IsPatch(head.patch) /\ AllWithin(deploy, persona, head.patch)
  <2> DEFINE A == {i \in DOMAIN steps : Applied(steps[i])}
  <2>1. head = IF A = {} THEN Notification
               ELSE [patch |-> steps[First(A)].patch, pre |-> steps[First(A)].pre]
    BY <1>2 DEF IInv, HeadedOK, setBackCompatAction
  <2>2. CASE A = {}
    <3>1. head.patch = NoPatch
      BY <2>1, <2>2 DEF Notification
    <3> QED
      BY <3>1, NoPatchFacts DEF AllWithin
  <2>3. CASE A # {}
    <3>1. First(A) \in DOMAIN steps
      BY <1>3, <2>3, FirstFacts
    <3> HIDE DEF A
    <3>2. head.patch = steps[First(A)].patch
      BY <2>1, <2>3
    <3> QED
      BY <1>3, <3>1, <3>2 DEF IsStep
  <2> QED
    BY <2>2, <2>3
<1>9. head' = head
  BY <1>1, <1>3, <1>8, PruneFacts
<1>10. HeadedOK'
  BY <1>2, <1>7, <1>9 DEF IInv, HeadedOK
<1>11. IsOwned' = IsOwned
  BY <1>1, InputsFrame DEF IInv
<1>12. ShapedOK'
  BY <1>2, <1>4, <1>6, <1>11, NoCommandFacts DEF IInv, ShapedOK
<1>13. DisclosedOK'
  <2>1. PICK n : told' = [told EXCEPT !.counts = n] /\ n \in {<< >>, planExplanation(steps')}
    BY DEF scrubRefusedValues
  <2>2. PICK c, v : told = [counts |-> c, caveat |-> v]
    BY DEF IInv, DisclosedOK
  <2>3. told' = [counts |-> n, caveat |-> v]
    BY <2>1, <2>2
  <2>4. told'.counts = n /\ told'.caveat = v
    BY <2>3
  <2> QED
    BY <2>1, <2>3, <2>4 DEF DisclosedOK
<1>14. ScrubbedOK'
  <2> SUFFICES ASSUME NEW v \in Refusals(steps')
               PROVE  /\ \A s \in summary' : v.requested \notin s.mentions
                      /\ \A i \in DOMAIN steps' :
                             /\ v.requested \notin steps'[i].command.values
                             /\ \A s \in steps'[i].prose : v.requested \notin s.mentions
    BY DEF ScrubbedOK
  <2>1. v.requested \in Amounts /\ refusedValues # {}
    BY <1>3, <1>7, RefusedValuesFacts
  <2>2. \A s \in summary' : v.requested \notin s.mentions
    BY <1>1, <2>1 DEF redactRefusedProse
  <2>3. ASSUME NEW i \in DOMAIN steps'
        PROVE  /\ v.requested \notin steps'[i].command.values
               /\ \A s \in steps'[i].prose : v.requested \notin s.mentions
    <3>1. /\ steps'[i].prose = redactRefusedProse(steps[i].prose)
          /\ steps'[i].command.values \cap Amounts = {}
      BY <1>4, <1>5, <2>1
    <3> QED
      BY <2>1, <3>1 DEF redactRefusedProse
  <2> QED
    BY <2>2, <2>3
<1> QED
  BY <1>1, <1>7, <1>10, <1>12, <1>13, <1>14 DEF IInv, BuiltOK, CleanOK, RuledOK, Clean, Planned

\* scrubFabricatedGuardrailClaims.
LEMMA CleanStep == ASSUME IInv, scrubFabricatedGuardrailClaims PROVE IInv'
<1> DEFINE ruled == \E i \in DOMAIN steps : steps[i].safety # {}
<1>1. stage = "scrubbed" /\ stage' = "clean" /\ UNCHANGED inputs /\ head' = head
  BY DEF scrubFabricatedGuardrailClaims
<1>2. /\ stage \in Checked /\ stage \in Headed /\ stage \in Shaped /\ stage \in Disclosed
      /\ stage \in Scrubbed
  BY <1>1 DEF Checked, Headed, Shaped, Disclosed, Scrubbed
<1>3. /\ StepsOK /\ DOMAIN steps \subseteq Nat
      /\ \A i \in DOMAIN steps : IsStep(deploy, persona, steps[i])
  BY DEF IInv, StepsOK
<1>4. IsOwned' = IsOwned
  BY <1>1, InputsFrame DEF IInv
<1>5. CASE ruled
  <2>1. UNCHANGED <<steps, summary, told>>
    BY <1>5 DEF scrubFabricatedGuardrailClaims
  <2>2. \A i \in DOMAIN steps : IsStep(deploy, persona, steps'[i]) /\ Same(steps[i], steps'[i])
    BY <1>3, <2>1 DEF Same
  <2>3. InputsOK' /\ StepsOK' /\ CheckedOK'
    BY <1>1, <1>2, <2>1, <2>2, RetoldFrame
  <2>4. HeadedOK' /\ ShapedOK' /\ DisclosedOK' /\ ScrubbedOK'
    BY <1>1, <1>2, <1>4, <2>1 DEF IInv, HeadedOK, ShapedOK, DisclosedOK, ScrubbedOK
  <2>5. CleanOK'
    BY <1>5, <2>1 DEF CleanOK
  <2> QED
    BY <1>1, <2>3, <2>4, <2>5 DEF IInv, BuiltOK, RuledOK
<1>6. CASE ~ruled
  <2>1. /\ steps' = [i \in DOMAIN steps |-> [steps[i] EXCEPT !.prose = dropGuardrailClaims(@)]]
        /\ summary' = dropGuardrailClaims(summary)
        /\ told' = [told EXCEPT !.caveat = FALSE]
    BY <1>6 DEF scrubFabricatedGuardrailClaims
  <2>2. DOMAIN steps' = DOMAIN steps
    BY <2>1
  <2>3. ASSUME NEW i \in DOMAIN steps
        PROVE  /\ IsStep(deploy, persona, steps'[i]) /\ Same(steps[i], steps'[i])
               /\ steps'[i].command = steps[i].command
               /\ steps'[i].prose = dropGuardrailClaims(steps[i].prose)
    <3> DEFINE s == steps[i]
               t == steps'[i]
               x == dropGuardrailClaims(s.prose)
    <3>1. t = [s EXCEPT !.prose = x]
      BY <2>1
    <3>2. IsStep(deploy, persona, s) /\ HasFields(s)
      BY <1>3 DEF IsStep
    <3> HIDE DEF s, t, x
    <3>3. t = Retold(s, s.command, x)
      BY <3>1, <3>2, ExceptFacts
    <3>4. IsStep(deploy, persona, t) /\ Same(s, t) /\ t.command = s.command /\ t.prose = x
      BY <3>2, <3>3, RetoldFacts
    <3> QED
      BY <3>4 DEF s, t, x
  <2>4. /\ InputsOK' /\ StepsOK' /\ CheckedOK'
        /\ setBackCompatAction(steps') = setBackCompatAction(steps)
        /\ planExplanation(steps') = planExplanation(steps)
        /\ Refusals(steps') = Refusals(steps)
    BY <1>1, <1>2, <2>2, <2>3, RetoldFrame
  <2>5. HeadedOK' /\ ShapedOK'
    BY <1>1, <1>2, <1>4, <2>2, <2>3, <2>4 DEF IInv, HeadedOK, ShapedOK
  <2>6. told' = [counts |-> told.counts, caveat |-> FALSE]
    <3>1. PICK c, v : told = [counts |-> c, caveat |-> v]
      BY DEF IInv, DisclosedOK
    <3>2. told.counts = c
      BY <3>1
    <3> QED
      BY <2>1, <3>1, <3>2
  <2>7. told'.counts = told.counts /\ told'.caveat = FALSE
    BY <2>6
  <2>8. told' = [counts |-> told'.counts, caveat |-> told'.caveat]
    BY <2>6, <2>7
  <2>9. DisclosedOK'
    BY <1>2, <2>4, <2>7, <2>8 DEF IInv, DisclosedOK
  <2>10. ScrubbedOK'
    <3>1. summary' \subseteq summary
      BY <2>1 DEF dropGuardrailClaims
    <3>2. \A i \in DOMAIN steps : /\ steps'[i].command = steps[i].command
                                  /\ steps'[i].prose \subseteq steps[i].prose
      BY <2>3 DEF dropGuardrailClaims
    <3>3. \A v \in Refusals(steps) :
              /\ \A s \in summary : v.requested \notin s.mentions
              /\ \A i \in DOMAIN steps : /\ v.requested \notin steps[i].command.values
                                         /\ \A s \in steps[i].prose : v.requested \notin s.mentions
      BY <1>2 DEF IInv, ScrubbedOK
    <3>4. \A v \in Refusals(steps) :
              /\ \A s \in summary' : v.requested \notin s.mentions
              /\ \A i \in DOMAIN steps : /\ v.requested \notin steps'[i].command.values
                                         /\ \A s \in steps'[i].prose : v.requested \notin s.mentions
      BY <3>1, <3>2, <3>3
    <3> QED
      BY <2>2, <2>4, <3>4 DEF ScrubbedOK
  <2>11. CleanOK'
    BY <2>1, <2>2, <2>3, <2>7 DEF CleanOK, dropGuardrailClaims
  <2> QED
    BY <1>1, <2>4, <2>5, <2>9, <2>10, <2>11 DEF IInv, BuiltOK, RuledOK
<1> QED
  BY <1>5, <1>6

\* proposeResourceAdjustment: what the rules propose is within the cap as it is.
LEMMA RuleStep == ASSUME IInv, proposeResourceAdjustment PROVE IInv'
<1>1. CASE Ends("skipped")
  BY <1>1, EndsStep
<1>2. CASE ~Ends("skipped")
  <2>1. /\ stage' = "ruled" /\ steps' = << >> /\ head' = calculateResourceChange
        /\ summary' = {} /\ told' = Silent /\ UNCHANGED inputs
    BY <1>2 DEF proposeResourceAdjustment
  <2>2. InputsOK' /\ deploy' = deploy /\ persona' = persona
    BY <2>1, InputsFrame DEF IInv
  <2>3. DOMAIN steps' = {}
    BY <2>1
  <2>4. StepsOK'
    BY <2>3 DEF StepsOK
  <2>5. told' = [counts |-> << >>, caveat |-> FALSE]
    BY <2>1 DEF Silent
  <2>6. told'.counts = << >> /\ told'.caveat = FALSE
    BY <2>5
  <2>7. told' = [counts |-> told'.counts, caveat |-> told'.caveat]
    BY <2>5, <2>6
  <2>8. AllWithin(deploy, persona, calculateResourceChange.patch)
    BY ChangeFacts DEF IInv
  <2>9. RuledOK'
    BY <2>1, <2>2, <2>3, <2>6, <2>8 DEF RuledOK
  <2>10. stage' \notin Checked /\ stage' # "built"
    BY <2>1 DEF Checked, Headed, Shaped, Disclosed, Scrubbed, Clean, Planned
  <2> QED
    BY <2>2, <2>4, <2>7, <2>9, <2>10 DEF IInv, BuiltOK, CheckedOK, HeadedOK, ShapedOK, DisclosedOK,
       ScrubbedOK, CleanOK, Checked, Headed, Shaped, Disclosed, Scrubbed, Clean
<1> QED
  BY <1>1, <1>2

\* assertAppliableWhenResourceDiagnosed, and the Create.
LEMMA CreateStep == ASSUME IInv, CreatePlan PROVE IInv'
<1>1. PICK x \in {"planned", "failed"} : stage = "clean" /\ Ends(x)
  BY DEF CreatePlan
<1> QED
  BY <1>1, EndsStep

\* A stuttering step.
LEMMA StutterStep == ASSUME IInv, UNCHANGED vars PROVE IInv'
<1>1. UNCHANGED <<stage, steps, head, summary, told>> /\ UNCHANGED inputs
  BY DEF vars, plan
<1>2. InputsOK' /\ deploy' = deploy /\ persona' = persona /\ IsOwned' = IsOwned
  BY <1>1, InputsFrame DEF IInv
<1>3. StepsOK' /\ BuiltOK' /\ CheckedOK' /\ RuledOK'
  BY <1>1, <1>2 DEF IInv, StepsOK, BuiltOK, CheckedOK, RuledOK
<1>4. HeadedOK' /\ ShapedOK' /\ DisclosedOK' /\ ScrubbedOK' /\ CleanOK'
  BY <1>1, <1>2 DEF IInv, HeadedOK, ShapedOK, DisclosedOK, ScrubbedOK, CleanOK
<1> QED
  BY <1>2, <1>3, <1>4 DEF IInv

(***************************************************************************)
(* What a stage of proposeWithPlanner established, the later stages keep:  *)
(* the invariant holds in every reachable state, whatever the model        *)
(* answered and whatever the workload and the persona are.                 *)
(***************************************************************************)
THEOREM Invariance == Spec => []IInv
<1>1. IInv /\ [Next]_vars => IInv'
  BY SafetyStep, SizeStep, TrimStep, HeadStep, ShapeStep, DiscloseStep, ScrubStep, CleanStep,
     CreateStep, RuleStep, StutterStep DEF Next
<1> QED
  BY InitHolds, <1>1, PTL DEF Spec

-----------------------------------------------------------------------------
(***************************************************************************)
(* What follows.                                                           *)
(***************************************************************************)

\* What is applied of a proposal that is created is within the cap.
LEMMA AppliedFacts ==
    ASSUME IInv, Created, NEW p \in AppliedPatches
    PROVE  AllWithin(deploy, persona, p)
<1>1. CASE stage = "ruled"
  <2>1. DOMAIN steps = {} /\ AllWithin(deploy, persona, head.patch)
    BY <1>1 DEF IInv, RuledOK
  <2>2. p = head.patch
    BY <2>1 DEF AppliedPatches
  <2> QED
    BY <2>1, <2>2
<1>2. CASE stage = "planned"
  <2>1. stage \in Checked /\ stage \in Headed
    BY <1>2 DEF Checked, Headed, Shaped, Disclosed, Scrubbed, Clean, Planned
  <2>2. \A i \in DOMAIN steps : AllWithin(deploy, persona, steps[i].patch)
    BY <2>1 DEF IInv, CheckedOK
  <2>3. CASE p = head.patch
    <3> DEFINE A == {i \in DOMAIN steps : Applied(steps[i])}
    <3>1. head = IF A = {} THEN Notification
                 ELSE [patch |-> steps[First(A)].patch, pre |-> steps[First(A)].pre]
      BY <2>1 DEF IInv, HeadedOK, setBackCompatAction
    <3>2. CASE A = {}
      <4>1. head.patch = NoPatch
        BY <3>1, <3>2 DEF Notification
      <4> QED
        BY <2>3, <4>1, NoPatchFacts DEF AllWithin
    <3>3. CASE A # {}
      <4>1. First(A) \in DOMAIN steps
        BY <3>3, FirstFacts DEF IInv, StepsOK
      <4> HIDE DEF A
      <4>2. head.patch = steps[First(A)].patch
        BY <3>1, <3>3
      <4> QED
        BY <2>2, <2>3, <4>1, <4>2
    <3> QED
      BY <3>2, <3>3
  <2>4. CASE p # head.patch
    <3>1. PICK i \in DOMAIN steps : p = steps[i].patch
      BY <2>4 DEF AppliedPatches
    <3> QED
      BY <2>2, <3>1
  <2> QED
    BY <2>3, <2>4
<1> QED
  BY <1>1, <1>2 DEF Created

(***************************************************************************)
(* WithinTheCap: no plan that is created applies more than twice or less   *)
(* than half of what a field has, and none introduces a field the live     *)
(* container does not set (checkBlastRadius, installDerivedPatch,          *)
(* dropAbsentResourceKeys).                                                *)
(***************************************************************************)
THEOREM CapHolds == Spec => []WithinTheCap
<1>1. IInv => WithinTheCap
  <2> SUFFICES ASSUME IInv, Created, NEW p \in AppliedPatches, NEW f \in DOMAIN p
               PROVE  /\ resolved => f \in DOMAIN observed
                      /\ (f \in DOMAIN observed \cup DOMAIN persona /\ Baseline(f) > 0)
                             => p[f] <= 2 * Baseline(f) /\ 2 * p[f] >= Baseline(f)
    BY DEF WithinTheCap
  <2>1. Within(deploy, persona, f, p[f])
    BY AppliedFacts DEF AllWithin
  <2>2. InputsOK
    BY DEF IInv
  <2> QED
    BY <2>1, <2>2, BaselineFacts DEF Within
<1> QED
  BY Invariance, <1>1, PTL

(***************************************************************************)
(* NothingRefusedIsOffered: what was refused is in no patch, no command    *)
(* and no sentence; no command writes to a workload another tool owns; no  *)
(* text claims a verdict that none recorded (scrubRefusedValues,           *)
(* stripWorkloadWriteCommands, scrubFabricatedGuardrailClaims).            *)
(***************************************************************************)
THEOREM NothingRefused == Spec => []NothingRefusedIsOffered
<1>1. IInv => NothingRefusedIsOffered
  <2> SUFFICES ASSUME IInv, Created PROVE NothingRefusedIsOffered
    BY DEF NothingRefusedIsOffered
  <2> DEFINE verdicts == UNION {steps[i].safety : i \in DOMAIN steps}
             texts == summary \cup UNION {steps[i].prose : i \in DOMAIN steps}
  <2>1. ASSUME NEW v \in Refusals(steps)
        PROVE  /\ \A p \in AppliedPatches : v.field \in DOMAIN p => p[v.field] # v.requested
               /\ \A i \in DOMAIN steps : v.requested \notin steps[i].command.values
               /\ \A s \in texts : v.requested \notin s.mentions
    <3>1. stage = "planned" /\ stage \in Scrubbed
      <4>1. DOMAIN steps # {}
        BY DEF Refusals
      <4>2. stage # "ruled"
        BY <4>1 DEF IInv, RuledOK
      <4> QED
        BY <4>2 DEF Created, Scrubbed, Clean, Planned
    <3>2. ~Within(deploy, persona, v.field, v.requested)
      BY RefusedValuesFacts DEF IInv
    <3>3. \A p \in AppliedPatches : v.field \in DOMAIN p => p[v.field] # v.requested
      BY <3>2, AppliedFacts DEF AllWithin
    <3>4. /\ \A s \in summary : v.requested \notin s.mentions
          /\ \A i \in DOMAIN steps : /\ v.requested \notin steps[i].command.values
                                     /\ \A s \in steps[i].prose : v.requested \notin s.mentions
      BY <3>1 DEF IInv, ScrubbedOK
    <3> QED
      BY <3>3, <3>4
  <2>2. IsOwned => \A i \in DOMAIN steps : ~steps[i].command.writes
    <3>1. CASE stage = "ruled"
      BY <3>1 DEF IInv, RuledOK
    <3>2. CASE stage = "planned"
      BY <3>2 DEF IInv, ShapedOK, Shaped, Disclosed, Scrubbed, Clean, Planned
    <3> QED
      BY <3>1, <3>2 DEF Created
  <2>3. ASSUME verdicts = {} PROVE ~told.caveat /\ \A s \in texts : ~s.claims
    <3>1. CASE stage = "ruled"
      BY <3>1 DEF IInv, RuledOK
    <3>2. CASE stage = "planned"
      <4>1. \A i \in DOMAIN steps : steps[i].safety = {}
        BY <2>3
      <4>2. /\ ~told.caveat
            /\ \A s \in summary : ~s.claims
            /\ \A i \in DOMAIN steps : \A s \in steps[i].prose : ~s.claims
        BY <3>2, <4>1 DEF IInv, CleanOK, Clean, Planned
      <4> QED
        BY <4>2
    <3> QED
      BY <3>1, <3>2 DEF Created
  <2> QED
    BY <2>1, <2>2, <2>3 DEF NothingRefusedIsOffered, Refusals
<1> QED
  BY Invariance, <1>1, PTL

(***************************************************************************)
(* HeadIsWhatIsApplied: the single action older clients see is the first   *)
(* step that is applied, and the counts the explanation states are those   *)
(* of the plan (setBackCompatAction, planExplanation).                     *)
(***************************************************************************)
THEOREM HeadHolds == Spec => []HeadIsWhatIsApplied
<1>1. IInv => HeadIsWhatIsApplied
  BY DEF IInv, HeadedOK, DisclosedOK, HeadIsWhatIsApplied, Headed, Shaped, Disclosed, Scrubbed,
     Clean, Planned
<1> QED
  BY Invariance, <1>1, PTL
=============================================================================
