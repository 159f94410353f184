------------------------------- MODULE Proposal -------------------------------
(***************************************************************************)
(* How RemediationActions of one persona come to be.  In every cycle the   *)
(* health check asks, for each diagnosis of an open incident, whether a    *)
(* rejection still holds, and then the Proposer: policy, dedup, a plan     *)
(* from the model or from the rules, the safety checks, Create and a first *)
(* status.  Each question lists the actions again from the informer cache, *)
(* while humans and the RemediationController move them on.                *)
(***************************************************************************)
EXTENDS Naturals, FiniteSets

CONSTANTS
    Plans,             \* bound: the RemediationActions that can be created
    Incidents,         \* the open incidents of the persona
    Paths,             \* the resource paths a fix can patch
    Target,            \* Target[i]: the path the rules' fix of i patches, or None
    MaxPerHour,        \* the rate limit
    RateWindow,        \* ticks: the hour the limit is about
    FailedCooldown,    \* ticks
    RejectionCooldown, \* ticks
    Planner,           \* is a model configured?
    MaxDiagnoses,      \* bound: diagnoses in one cycle
    None

ASSUME PlansAssumption == IsFiniteSet(Plans)
ASSUME TimeAssumption ==
    RateWindow \in Nat /\ FailedCooldown \in Nat /\ RejectionCooldown \in Nat
ASSUME LimitAssumption == MaxPerHour \in Nat \ {0} /\ MaxDiagnoses \in Nat
ASSUME PlannerAssumption == Planner \in BOOLEAN
ASSUME NoneAssumption == None \notin Incidents \cup Plans \cup Paths
ASSUME TargetAssumption == Target \in [Incidents -> Paths \cup {None}]

(***************************************************************************)
(* To the checks below Applying and Verifying are the same, and so are the *)
(* phases in which a plan has ended well: Running and Closed.              *)
(***************************************************************************)
activeRemediationPhases == {"", "Pending", "Approved", "Running"}
Phase == activeRemediationPhases \cup {"absent", "Closed", "Failed", "Rejected"}

Action == [ phase    : Phase,
            incident : Incidents \cup {None},
            applied  : BOOLEAN,     \* status.appliedAt is set
            refused  : BOOLEAN,     \* Applied = PreconditionRejected
            stamped  : BOOLEAN,     \* the Rejected condition is set
            patches  : SUBSET Paths ]

VARIABLES
    ra,          \* the stored RemediationActions
    cache,       \* the informer cache: an earlier state of them all
    age,         \* ticks since creation, apply and rejection stamp, saturating
    pc,          \* where the health-check loop is
    todo,        \* how many diagnoses are left in this cycle
    cur,         \* the incident being proposed for
    escalated,   \* its diagnosis outgrew the one a human declined
    ai,          \* the plan in hand is the model's
    violated,    \* a safety check was violated
    made,        \* the action just created
    declined,    \* history: the plans rejected since the cycle began
    fresh        \* history: the plans created since the cycle began

loop == <<pc, todo, cur, escalated, ai, violated, made>>
history == <<declined, fresh>>
vars == <<ra, cache, age, loop, history>>

Clock == {"created", "applied", "stamped"}
Limit == [ created |-> IF RateWindow > FailedCooldown THEN RateWindow ELSE FailedCooldown,
           applied |-> FailedCooldown, stamped |-> RejectionCooldown ]

NoAction == [ phase |-> "absent", incident |-> None, applied |-> FALSE, refused |-> FALSE,
              stamped |-> FALSE, patches |-> {} ]

Init ==
    /\ ra = [p \in Plans |-> NoAction]
    /\ cache = ra
    /\ age = [p \in Plans |-> [c \in Clock |-> 0]]
    /\ pc = "idle"
    /\ todo = 0
    /\ cur = None
    /\ escalated = FALSE
    /\ ai = FALSE
    /\ violated = FALSE
    /\ made = None
    /\ declined = {} /\ fresh = {}

Exists(list, p) == list[p].phase # "absent"
Live(p) == ra[p].phase \in activeRemediationPhases

-----------------------------------------------------------------------------
(***************************************************************************)
(* One cycle.  A minute lies between two of them, in which the watch       *)
(* delivers what the last one wrote; within a cycle it may lag.  An        *)
(* incident can come up more than once in it: a diagnosis of which the     *)
(* model changed the suggested action has a deduplicationKey of its own,   *)
(* and that of the rules survives beside it.                               *)
(***************************************************************************)
StartCycle ==
    /\ pc = "idle"
    /\ cache = ra
    /\ todo' \in 1 .. MaxDiagnoses
    /\ pc' = "next"
    /\ UNCHANGED <<ra, cache, age, history, cur, escalated, ai, violated, made>>

\* The tail of processDiagnosis, for an incident that is on record and not Resolved.
processDiagnosis(i) ==
    /\ pc = "next"
    /\ todo > 0
    /\ todo' = todo - 1
    /\ cur' = i
    /\ pc' = "rejection"
    /\ UNCHANGED <<ra, cache, age, history, escalated, ai, violated, made>>

EndCycle ==
    /\ pc = "next"
    /\ todo = 0
    /\ pc' = "idle"
    /\ declined' = {} /\ fresh' = {}
    /\ UNCHANGED <<ra, cache, age, todo, cur, escalated, ai, violated, made>>

\* Mutant: the action made for one diagnosis is taken along to the next.
Leave_KeepsAction ==
    /\ pc' = "next"
    /\ cur' = None
    /\ escalated' = FALSE
    /\ ai' = FALSE
    /\ violated' = FALSE
    /\ UNCHANGED made

\* Done with this diagnosis.
Leave ==
    /\ pc' = "next"
    /\ cur' = None
    /\ escalated' = FALSE
    /\ ai' = FALSE
    /\ violated' = FALSE
    /\ made' = None

\* After an error: what the model proposed falls back to the rules.
AfterError ==
    \/ ~ai /\ Leave
    \/ ai /\ pc' = "plan" /\ violated' = FALSE /\ UNCHANGED <<cur, escalated, ai, made>>

\* A question of the loop: it goes on to the next one, or leaves this diagnosis.
Ask(here, ok, next) ==
    /\ pc = here
    /\ \/ ok /\ pc' = next /\ UNCHANGED <<cur, escalated, ai, violated, made>>
       \/ ~ok /\ Leave
    /\ UNCHANGED <<ra, cache, age, history, todo>>

\* A rejection of the same fix for this incident still holds.  One that the
\* RemediationController has not stamped yet holds as well.
RejectionActive(list, q, i) ==
    /\ list[q].phase = "Rejected"
    /\ list[q].incident = i
    /\ list[q].stamped => age[q]["stamped"] < RejectionCooldown

\* Mutant: a rejection counts from its stamp on.
rejectionSuppressesProposal_StampNeeded(i) ==
    \E q \in Plans : RejectionActive(cache, q, i) /\ cache[q].stamped

rejectionSuppressesProposal(i) == \E q \in Plans : RejectionActive(cache, q, i)

\* severityEscalated: a diagnosis worse than the one a human declined goes on.
AskRejections ==
    \/ Ask("rejection", ~rejectionSuppressesProposal(cur), "policy")
    \/ /\ pc = "rejection"
       /\ rejectionSuppressesProposal(cur)
       /\ escalated' = TRUE
       /\ pc' = "policy"
       /\ UNCHANGED <<ra, cache, age, history, todo, cur, ai, violated, made>>

\* proposalSuppressedByMode and NamespaceDenied: the administrator's choice.
AskPolicy == \E allowed \in BOOLEAN : Ask("policy", allowed, "dedup")

\* Mutant: a plan without a status is not active.
activeRemediationExists_BlankIsDead(i) ==
    \E q \in Plans :
        /\ cache[q].phase \in activeRemediationPhases \ {""}
        /\ cache[q].incident = i \/ Target[i] \in cache[q].patches

activeRemediationExists(i) ==
    \E q \in Plans :
        /\ cache[q].phase \in activeRemediationPhases
        /\ cache[q].incident = i \/ Target[i] \in cache[q].patches

AskDedup == Ask("dedup", ~activeRemediationExists(cur), "plan")

(***************************************************************************)
(* The plan: the model's, else the rules'.  A model is not asked about a   *)
(* protected namespace.  The rules know a fix only for a resource target,  *)
(* and may find nothing to adjust.                                         *)
(***************************************************************************)
proposeWithPlanner ==
    /\ pc = "plan"
    /\ Planner /\ ~ai
    /\ ai' = TRUE
    /\ pc' \in {"rate", "plan"}    \* "plan": no answer, or an empty one
    /\ UNCHANGED <<ra, cache, age, history, todo, cur, escalated, violated, made>>

proposeResourceAdjustment ==
    /\ pc = "plan"
    /\ \/ /\ Target[cur] # None
          /\ pc' = "rate"
          /\ ai' = FALSE
          /\ UNCHANGED <<cur, escalated, violated, made>>
       \/ Leave
    /\ UNCHANGED <<ra, cache, age, history, todo>>

(***************************************************************************)
(* The safety checks, each on a list of its own.  A violation does not     *)
(* stop them, but is decisive at their end.  Each applicable step of a     *)
(* model's plan goes through all of them.                                  *)
(***************************************************************************)
listRecentActions == {q \in Plans : Exists(cache, q) /\ age[q]["created"] < RateWindow}

\* Mutant: the limit itself is still allowed.
checkRateLimit_OffByOne == Cardinality(listRecentActions) <= MaxPerHour

checkRateLimit == Cardinality(listRecentActions) < MaxPerHour

checkConcurrent == \A q \in Plans : cache[q].phase \notin {"Approved", "Running"}

rejectedBeforeApply(a) == ~a.applied /\ a.refused

CoolingDown(list, q) ==
    /\ list[q].phase = "Failed"
    /\ ~rejectedBeforeApply(list[q])
    /\ age[q][IF list[q].applied THEN "applied" ELSE "created"] < FailedCooldown

\* Mutant: the cooldown is measured from the creation, whatever happened since.
checkFailedCooldown_FromCreation ==
    \A q \in Plans : ~(/\ cache[q].phase = "Failed"
                       /\ ~rejectedBeforeApply(cache[q])
                       /\ age[q]["created"] < FailedCooldown)

checkFailedCooldown == \A q \in Plans : ~CoolingDown(cache, q)

Check(here, ok, next) ==
    /\ pc = here
    /\ pc' = next
    /\ violated' = (violated \/ ~ok)
    /\ UNCHANGED <<ra, cache, age, history, todo, cur, escalated, ai, made>>

AskRateLimit  == Check("rate", checkRateLimit, "concurrent")
AskConcurrent == Check("concurrent", checkConcurrent, "cooldown")
AskCooldown   == Check("cooldown", checkFailedCooldown, "caps")

\* The deny list again, and checkBlastRadius: it ends a plan of the rules; of a
\* model's plan it strips fields.
AskCaps == \E within \in BOOLEAN : Ask("caps", within /\ ~violated, "create")

AskNextStep == ai /\ Check("caps", TRUE, "rate")

\* A list fails, which is an error to all who ask.
ListFails ==
    /\ pc \in {"rejection", "dedup", "rate", "concurrent", "cooldown"}
    /\ AfterError
    /\ UNCHANGED <<ra, cache, age, history, todo>>

(***************************************************************************)
(* Create, under a name never used before, and the first status.           *)
(***************************************************************************)
NewAction(patches) ==
    [NoAction EXCEPT !.phase = "", !.incident = cur, !.patches = patches]

\* The rules patch the target, a model any of the paths or none.  The reply
\* may be lost.
Create(p) ==
    /\ pc = "create"
    /\ ~Exists(ra, p)
    /\ \E patches \in IF ai THEN SUBSET Paths ELSE {{Target[cur]}} :
           ra' = [ra EXCEPT ![p] = NewAction(patches)]
    /\ fresh' = fresh \cup {p}
    /\ \/ /\ pc' = "status" /\ made' = p
          /\ UNCHANGED <<cur, escalated, ai, violated>>
       \/ AfterError
    /\ UNCHANGED <<cache, age, declined, todo>>

\* The request fails, or the model's plan does not survive its last checks.
CreateFails ==
    /\ pc = "create"
    /\ AfterError
    /\ UNCHANGED <<ra, cache, age, history, todo>>

\* A failure is only logged.
InitialStatus ==
    /\ pc = "status"
    /\ \/ ra' = [ra EXCEPT ![made].phase = "Pending"]
       \/ UNCHANGED ra
    /\ Leave
    /\ UNCHANGED <<cache, age, history, todo>>

-----------------------------------------------------------------------------
(***************************************************************************)
(* Others.  The CLI decides, the RemediationController carries on, one     *)
(* transition a step: what it is made of is RemediationLifecycle's subject.*)
(***************************************************************************)
Move(p, sources, target) ==
    /\ ra[p].phase \in sources
    /\ ra' = [ra EXCEPT ![p].phase = target]
    /\ UNCHANGED <<cache, age, history, loop>>

Approve(p) == Move(p, {"Pending"}, "Approved")
Close(p)   == Move(p, {"Approved", "Running"}, "Closed")

Reject(p) ==
    /\ ra[p].phase \in {"Pending", "Approved", "Running"}
    /\ ra' = [ra EXCEPT ![p].phase = "Rejected"]
    /\ declined' = IF pc = "idle" THEN declined ELSE declined \cup {p}
    /\ UNCHANGED <<cache, age, loop, fresh>>

recordRejection(p) ==
    /\ ra[p].phase = "Rejected"
    /\ ~ra[p].stamped
    /\ ra' = [ra EXCEPT ![p].stamped = TRUE]
    /\ age' = [age EXCEPT ![p]["stamped"] = 0]
    /\ UNCHANGED <<cache, loop, history>>

handleApproved(p) ==
    /\ ra[p].phase = "Approved"
    /\ ra' = [ra EXCEPT ![p].phase = "Running", ![p].applied = TRUE]
    /\ age' = [age EXCEPT ![p]["applied"] = 0]
    /\ UNCHANGED <<cache, loop, history>>

transitionToFailed(p, refused) ==
    /\ ra[p].phase \in IF refused THEN {"Approved"} ELSE {"Approved", "Running"}
    /\ ra' = [ra EXCEPT ![p].phase = "Failed", ![p].refused = refused]
    /\ UNCHANGED <<cache, age, loop, history>>

SyncCache ==
    /\ cache # ra
    /\ cache' = ra
    /\ UNCHANGED <<ra, age, loop, history>>

\* Does clock c of p run?
Runs(p, c) == CASE c = "created" -> Exists(ra, p)
                [] c = "applied" -> ra[p].applied
                [] c = "stamped" -> ra[p].stamped

Tick ==
    /\ age' = [p \in Plans |-> [c \in Clock |->
                  age[p][c] + IF Runs(p, c) /\ age[p][c] < Limit[c] THEN 1 ELSE 0]]
    /\ age' # age
    /\ UNCHANGED <<ra, cache, history, loop>>

-----------------------------------------------------------------------------
Propose ==
    \/ StartCycle
    \/ \E i \in Incidents : processDiagnosis(i)
    \/ EndCycle
    \/ AskRejections \/ AskPolicy \/ AskDedup
    \/ proposeWithPlanner \/ proposeResourceAdjustment
    \/ AskRateLimit \/ AskConcurrent \/ AskCooldown \/ AskCaps \/ AskNextStep
    \/ \E p \in Plans : Create(p)
    \/ InitialStatus

Others ==
    \/ \E p \in Plans : \/ Approve(p) \/ Reject(p) \/ Close(p)
                        \/ recordRejection(p) \/ handleApproved(p)
                        \/ \E refused \in BOOLEAN : transitionToFailed(p, refused)
    \/ SyncCache
    \/ Tick

Next == Propose \/ Others \/ ListFails \/ CreateFails

Spec == Init /\ [][Next]_vars

-----------------------------------------------------------------------------
\* The loop works on an incident exactly between two diagnoses, and holds an action
\* exactly between Create and its first status.
TypeOK ==
    /\ ra \in [Plans -> Action] /\ cache \in [Plans -> Action]
    /\ \A p \in Plans, c \in Clock : age[p][c] \in 0 .. Limit[c]
    /\ pc \in {"idle", "next", "rejection", "policy", "dedup", "plan", "rate", "concurrent",
               "cooldown", "caps", "create", "status"}
    /\ todo \in 0 .. MaxDiagnoses
    /\ cur \in Incidents \cup {None}
    /\ escalated \in BOOLEAN /\ ai \in BOOLEAN /\ violated \in BOOLEAN
    /\ made \in Plans \cup {None}
    /\ cur = None <=> pc \in {"idle", "next"}
    /\ made # None <=> pc = "status"
    /\ declined \subseteq Plans /\ fresh \subseteq Plans

\* p comes to be in this step.
Born(p) == ~Exists(ra, p) /\ ra'[p].phase # "absent"

\* q is a plan of incident i, or patches what the rules' fix of i patches.
Covers(q, i) == ra[q].incident = i \/ Target[i] \in ra[q].patches

(***************************************************************************)
(* No plan is made for an incident while a live plan of an earlier cycle   *)
(* covers it, its own or one of another incident with the same root cause, *)
(* whatever the order in which the loop, the humans and the controller     *)
(* move, and also when that plan never got a status or its Create was      *)
(* answered with an error: activeRemediationExists.  Plans of the same     *)
(* cycle are excepted: the list may not show them yet, so the rules' and   *)
(* the model's diagnosis of one incident can each get a plan.              *)
(***************************************************************************)
LivePlanBlocksAnother ==
    [][\A p \in Plans, q \in Plans \ fresh :
          Born(p) /\ Live(q) => ~Covers(q, ra'[p].incident)]_vars

(***************************************************************************)
(* The rate limit is counted in the cache, so the plans of one cycle can   *)
(* pass it together; a plan is never made once the plans of the earlier    *)
(* cycles alone use the limit up: checkRateLimit.                          *)
(***************************************************************************)
RateBounded ==
    [][\A p \in Plans : Born(p) =>
          Cardinality({q \in Plans \ fresh :
                          Exists(ra, q) /\ age[q]["created"] < RateWindow}) < MaxPerHour]_vars

(***************************************************************************)
(* No plan is made for an incident while a failed plan of it from an       *)
(* earlier cycle cools down, although the list the check reads is older    *)
(* than the store: dedup, which precedes it, keeps a plan that could still *)
(* fail in the way (checkFailedCooldown, activeRemediationExists).         *)
(***************************************************************************)
FailedPlanCoolsDown ==
    [][\A p \in Plans, q \in Plans \ fresh :
          Born(p) /\ ra[q].incident = ra'[p].incident => ~CoolingDown(ra, q)]_vars

(***************************************************************************)
(* A rejection that a human made before the cycle began keeps the same fix *)
(* for the same incident from being proposed, stamped by the controller or *)
(* not, until the cooldown is over or the diagnosis is more severe:        *)
(* rejectionSuppressesProposal.                                            *)
(***************************************************************************)
RejectionHolds ==
    [][\A p \in Plans, q \in Plans \ declined :
          Born(p) /\ ~escalated => ~RejectionActive(ra, q, ra'[p].incident)]_vars
=============================================================================
