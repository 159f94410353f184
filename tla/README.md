# A TLA+ development of the Dorgu operator

The Dorgu operator watches a Kubernetes cluster, records outages as
`IncidentMemory` objects, proposes a `RemediationAction` for them, and, once a
human has approved one through the CLI, patches the `ApplicationPersona` and
verifies or rolls back. Everything it knows lives in API objects that several
controllers, the CLI and users write concurrently; every read comes from an
informer cache that lags; a handler makes several writes to several objects and
can stop between any two. That is what these modules are about.

## Inventory

| Component | State it keeps | Operations | Interacts through | What is hard | Correct when |
|---|---|---|---|---|---|
| Remediation controller | phase, conditions, AppliedAt of each `RemediationAction` | one handler per phase | reads actions from the cache, drives executor, verifier, rollback; writes incidents | crash or conflict between persona, status and incident writes; stale reads; retries | nothing is written without approval; a settled action stays settled; a phase says what happened |
| Executor, verifier, rollback | the persona's spec | merge a patch, judge signals, merge the snapshot | called by the controller | lost replies, conflicts, partial snapshots | a rollback undoes the patch and says what it did not reach |
| Health-check reconciler | `IncidentMemory` spec and status | one cycle a minute: detect, diagnose, record, close | detection, diagnosis, proposer | two-request writes, stale lists, silence versus recovery | an outage has an open incident, a recovery closes it, silence does not |
| Incident controller | labels and conditions of incidents, count on the persona | reconcile | cache events | races with the other two writers of an incident | labels and count agree with the phases in the end |
| Remediation proposer | creates `RemediationAction`s | Propose | health check, safety checker, planner | dedup on a stale list, two-request create | a live plan blocks another for its incident and target; limits, cooldowns and rejections hold |
| Safety checker | none (reads actions) | Check, NamespaceDenied | proposer | rate limits and cooldowns from timestamps and stale lists, cap arithmetic | a plan beyond a limit is refused |
| AI plan guardrails | none | the stages of `proposeWithPlanner` | proposer | each stage changes what an earlier one decided | what is applied stays within its caps; what was refused is offered nowhere |
| AI planner | none | one model call | proposer | I/O | out of scope |
| Workload ownership | none | match, observe, manager precedence | proposer, persona controller, rollback scope | ambiguity | ambiguous is unresolved, unknown counts as owned |
| Detection, diagnosis | none | collect, group, analyse | health check | | out of scope |
| Event pipeline | dedup map, `DorguEvent`s | watch, store, emit, clean up | Kubernetes Events, health check | failed writes behind the dedup, redelivery, its own Events coming back, retention against resync | what lasts is recorded, its own Events are not, the cap spares the newest, records drain |
| WebSocket server | clients, subscriptions, bounded channels | a fan-out, two pumps per client | controllers broadcast | slow and vanished clients, blocked pumps | a slow client harms nobody else, a gone one is released |
| ApplicationPersona controller, ArgoCD watcher | persona status | reconcile | API objects, incident controller | three writers of one status from stale copies; ambiguous Deployments | no writer undoes another, the status converges |
| ClusterPersona controller, bootstrap | `ClusterPersona`s | ensure, default, discover | API objects, users | stale lists, users' edits, partial discovery, new leaders | there is one and it describes the cluster; the user's mode stands |
| LLM, Prometheus, metrics, wiring | none | I/O | | | out of scope |

`PROJECT.json` lists the same components with their sources and status, and the
hazards of the code at the line where each one bites.

## Modules

| Module | What it is |
|---|---|
| `RemediationContract` | abstract specification: what a client of `RemediationAction` may rely on |
| `RemediationLifecycle` | the controller, executor, verifier, rollback and incident write-back |
| `RemediationProofs`, `IncidentProofs`, `ProposalProofs`, `GuardrailProofs`, `EventProofs`, `HubProofs`, `PersonaProofs`, `ClusterProofs` | theorems about `RemediationLifecycle`, `IncidentLifecycle`, `Proposal`, `PlanGuardrails`, `EventPipeline`, `WebSocketHub`, `PersonaStatus` and `ClusterPersona`, checked by TLAPS |
| `IncidentLifecycle` | the incidents of one workload and their three writers |
| `Proposal` | the health-check loop creating the `RemediationAction`s of one persona: rejections, policy, dedup, planning, safety checks, creation |
| `PlanGuardrails` | a model's plan through the stages that decide what of it is created, and the rule-based fallback |
| `EventPipeline` | Kubernetes Events and signals becoming `DorguEvent`s, and their retention |
| `WebSocketHub` | the broadcast server, its clients and channels |
| `PersonaStatus` | the three writers of an `ApplicationPersona`'s status |
| `ClusterPersona` | bootstrap, controller and users of the `ClusterPersona`s |
| `MC*` and `*.cfg` | instances for TLC |

Operators named `X_Reason` are deliberate faults: variants of `X` that a
plausible bug would produce. No specification uses them; each shows that some
property notices the bug.

### RemediationLifecycle

* `act[a]` is the stored object of action `a` with its resource version `rv`,
  `cache[a]` the informer's copy. `SyncCache` brings the cache up to date at any
  time; intermediate versions may be skipped, older ones never return.
* The worker (`MaxConcurrentReconciles` is 1 and there is one leader) is
  `pc, cur, obj, outcome`: it picks a request (`handleApproved`, `handleApplying`,
  `handleVerifying`, `recordRejection`), works on a local copy `obj`, and each
  request to the API server is a step of its own: `ExecutorApply`,
  `RunVerifier`, `RollbackExecute`, `WriteStatus`, `UpdateIncidentSpec`,
  `UpdateIncidentStatus`. In between anything may happen.
* A status write is accepted iff the version matches (`WriteStatus`,
  `WriteStatusRefused`); a write that changes nothing makes no new version. A
  persona write is read, merge, update under the version read: it takes effect
  at one instant or fails (`applyPatch`). Any write may land with its reply lost.
* `persona` and `live` are the resource fields of the persona and of the
  Deployment; `origin` and `liveOrigin` say whose value a field holds. A merge
  patch is flattened to its leaves. Signals, and whether the cluster can be
  read, are chosen freely at each verification.
* `liveCache` is the informer's copy of the Deployment, brought up to date by
  `SyncLive`. After a successful rollback `InspectWorkload` compares that copy with
  what was observed, as `InspectRollback` does, so it can miss a recent heal. The
  history `overlooked` holds the actions inspected while it did.
* External, modelled from how the code depends on it: the CLI approves a Pending
  action; rejects by an unversioned phase patch that may land until verification
  starts; heals the workload while the action is Approved or Applying. Users
  edit persona and workload, the operator crashes; all of these, and lost
  replies and failed requests, draw on one budget `MaxFaults`.
* `age` counts ticks since AppliedAt and saturates at the plan's delay. The
  phase `Expired` of the API type is never set by the code and has no action.

### IncidentLifecycle

* `im[i]` is the stored incident, cut down to existence, phase label, phase,
  resolution and whether the count is positive; `cache[i]` the shared cache's
  copy. Two versions are told apart by that content. The retry loops of
  `retryIncidentWrite` are modelled by waiting until the copy is current, and
  their exhaustion by `reportDiscardedDiagnosis` and `markResolvedFails`.
* `pc, todo, seen, cur, why` is the health-check loop, one action per request;
  `icPc, icCur` the incident controller; `rem` the remediation controller between
  its two writes. Signals seen in a cycle are any subset of what is visible: a
  backed-off crash loop is silent.
* `quiet` (since LastSeen) and `stable` (time Ready) are saturating clocks. The
  loop is the only writer of LastSeen and re-reads it before it counts the
  occurrence, so the cached LastSeen it judges by is the stored one.
* `Attribution` distinguishes the incident against a bare workload from the one
  against its persona; `Onboard` is `dorgu persona import`. `Signal` is what
  `signalKey` names. It leaves the attribution out, so both incidents of a workload
  are still active when the signal of one is seen (`StillActive`).
* Left out: conditions, other labels, root cause, affected resources and event
  records, which no decision here reads; the proposal at the end of
  `processDiagnosis`, which is `Proposal`. A second diagnosis of an incident in one
  cycle, the model's beside the rules', repeats the same writes and is left out here.

### Proposal

* `ra[p]` is the stored action, cut down to its phase (Applying and Verifying are
  one phase, the good endings another), its incident, the resource paths it
  patches and what the cooldowns read; `cache` the informer's copy of all of
  them, from which every list of the proposer is served.
* `pc, todo, cur, escalated, ai, violated, made` is the health-check loop inside
  `processDiagnosis` and `Propose`. Every list is a step of its own, in the
  code's order: rejections, dedup, and for each plan rate limit, concurrency and
  cooldown; `Create` and `InitialStatus` are the two writes. In between humans
  and the `RemediationController` move actions on.
* `todo` counts the diagnoses left in a cycle, each of any incident; `MaxDiagnoses`
  bounds them. An incident can come up more than once: a model may change the suggested
  action, which is part of `deduplicationKey`, and then its diagnosis and that of the
  rules both survive `Analyze`, and one cycle proposes twice for the incident.
* A model's plan patches any paths or none, goes through the checks once per
  applicable step, and falls back to the rules on any error, a failed or
  unanswered `Create` included. A safety violation ends either path. Policy
  (mode, deny list), caps and the rules' arithmetic are free choices here. Any list or
  write may fail, any number of times, and any reply be lost.
* `age` has one saturating clock per timestamp the checks subtract from the time.
  Histories: `declined`, the rejections made since the cycle began, and `fresh`, the
  plans created since then.
* The cache is current when a cycle starts, a minute after the last one; within a
  cycle it may lag. `Plans` bounds the actions ever created; beyond it
  `Create` fails. Approve, Reject and the passing of time are external.

### PlanGuardrails

* `stage` walks through `proposeWithPlanner`: mapping of the planned steps and the
  plan action (`Init`), safety per step, the derived patch, the removal of
  patchless updates, the recomputed single action, ownership shaping, disclosure,
  the two scrubs and the guards before Create; any stage that returns an error
  leads to the rules' own proposal. The inputs are chosen once: the plan, the
  workload as observed, the persona, the diagnosed field and the severity.
* `steps`, `head`, `summary`, `told` are the fields of the spec that stages read and
  change. `steps` maps a step's place in the plan to the step: a stage that drops
  one leaves a gap, and only the order of the places means something. A patch maps
  resource fields to integers; a command is its tokens, the quantities in it and whether running it writes to the workload, so that the verb
  parser is checked against what the command does; prose is a set of sentences
  kept as the quantities they mention and whether they claim a verdict.
* `Whole` is the quantity whose text is also a plain number: a refused `1` (core)
  and a count of 1 step are the same token to the scrub.

### EventPipeline

* An occurrence is a number into `occ`; `live` is the latest one of each Kubernetes
  Event, of which several may share a `DedupKey` and, in the names of their records,
  a `Subject`: neither holds the message or the UID. `inbox` is what the informer has
  delivered, `at` the watcher and the health-check reconciler inside `Store` and
  `Emit`, one request a step; `seen` is the dedup window, `records` the `DorguEvent`s.
  The cleaner lists (`cleanup`) and then deletes one record a step.
* Number 0 is the operator's own Event, delivered like any other. `Legacy` records
  have no TTL of their own. A restart clears the dedup window, makes the informer
  list everything again and moves the startup window.

### WebSocketHub

* One fan-out, and per client a reader, a writer and a channel. A fan-out holds
  `clientsMu` from its first to its last `Offer`; a registration or a removal waits for it.
  An answer is a blocking send, an event a non-blocking one.
* `Leavers` are the clients whose peer may vanish; the server may stop at any time.

### PersonaStatus and ClusterPersona

* A writer takes its copy from the cache and writes the whole object; the API server
  accepts it iff it is the stored one. Each writer's task holds the copy and the
  intended result, and between the two anything may happen.
* `PersonaStatus` has two Deployments that match the persona on any rungs of the chain
  `workload.Resolve` walks, the ArgoCD Application, the count of incidents, and a
  persona of the same name elsewhere. A persona's limits are strings: one that is no
  quantity makes the validation of a Deployment panic, which the queue retries
  (`ReconcilePanics`).
* `ClusterPersona` has the bootstrap loop, which creates when its list is empty; the
  reconciler, which writes policy defaults and then the status, keeping or skipping
  the parts whose discovery failed; and users who create, edit and delete.

## Runs

| Run | Instance | Result |
|---|---|---|
| `one_plan` | one memory plan, three disturbances; verification decides now and then | all safety and action properties hold, the contract is implemented, approved plans settle; a rollback's report is wrong only if the cache lacked the heal |
| `mixed_plans` | three plans of one persona: without rollback on an unresolved workload, advisory, without a snapshot | the last two are refused before any write; plans do not leak into each other |
| `verification_unknown` | verification stays unreadable | **violated**: the retry count never reaches its maximum |
| `one_incident` | one incident, one outcome, one fault, fair | closed only on observation, never unexplained, label and count converge, recovery closes |
| `onboarding` | both incidents of one workload, fair | the bare incident gives way to the persona's, unless every cycle sees the signal they share |
| `recurrence` | breaks again after Resolved | **violated**: the outage is folded into the Resolved incident |
| `propose` | two incidents of one root cause, up to two diagnoses a cycle, of both or of one twice, two plans, a planner that may fall back, any failures | a live plan blocks another from the next cycle on; rate limit and failure cooldown hold; a rejection holds from the next cycle on |
| `guardrails` | plans of up to two steps, values at and around the caps, four workloads, two personas | caps hold for whatever is applied; refused values appear nowhere; the single action is what is applied |
| `events` | two Events of one dedup key, one signal, a legacy record, three occurrences in all, one fault | no echo, the cap spares the newest, of the lasting Events of a key one is recorded, records drain |
| `websocket` | two clients, one may vanish, channels of one, two events | order and unsubscription respected, the fan-out flows, a gone client is released but for one case |
| `personas` | two Deployments, three specs, one with an unparseable limit, two changes, one failed request | no writer undoes another; the status comes to describe the world, but for the Deployment of a persona whose limit does not parse |
| `cluster` | the user's persona beside the bootstrap's, two worlds, two changes, one failure | the user's mode stands, no phase regression, the cluster ends up described |

The violated runs state what a comment or the repository's README says of the
code; `findings` quotes the line and says what TLC shows.

Modelling also met disagreements that no run is kept for. Remediation:

* a field that the patch introduces is missing from the snapshot, and the merge of
  `Rollback.Execute` cannot remove it (`rollback.go:63`), while `rollback.go:43`
  speaks of restoring; `RolledBackIsUndone` is about the snapshot's fields;
* a conflict or failure during `Rollback.Execute` settles the action as Failed
  with the degrading patch in place (`remediation_controller.go:317`), while the
  repository's README says the snapshot is reapplied;
* `InspectRollback` reads the Deployment from the informer cache
  (`rollback_divergence.go:135`): a heal that has not reached it is missed and the
  rollback reported as clean, for good, although the condition exists to say what a
  rollback did not reach (`remediation_controller.go:325`).
  `RollbackScopeIsReported` sets these actions apart (`overlooked`) and shows that
  there is no other way to a wrong report;
* a rejection that lands while the worker is between reading Approved and writing the
  persona does not stop the write;
* `checkConcurrent` runs when an action is proposed and not when one is approved,
  so two Pending actions can be approved and run together (`CHANGELOG.md:389`
  says "1 concurrent").

Incidents and proposals:

* the comment at `healthcheck_reconciler.go:649` says that `updateExistingIncident`
  repairs a lost initial status on the next cycle; it counts the occurrence and sets
  no phase (`:527`);
* the comment at `healthcheck_reconciler.go:797` says that onboarding mid-outage does
  not leave the outage counted twice; `signalKey` (`:988`) has no attribution, so the
  bare incident is skipped as still active while the persona's signal is seen
  (`:731`), and stays open if every cycle sees it;
* two incidents of one root cause, diagnosed in one cycle, can each get a live plan
  for one path, since the second dedup lists from a cache without the first plan
  (`proposer.go:121`; the comment at `:274` rules this out). So can one incident: a
  model that changes the suggested action (`ai.go:153`) changes the diagnosis' key
  (`rules.go:118`), and the rules' diagnosis is proposed for as well;
* an unanswered Create of the model's plan falls back to the rules behind the
  dedup and makes a second plan (`proposer_ai.go:173`). `LivePlanBlocksAnother` and
  `FailedPlanCoolsDown` are therefore about plans of earlier cycles;
* a rejection that reaches the cache between the two lists of one cycle is seen
  by neither, which is why `RejectionHolds` speaks of the next cycle;
* the failure cooldown counts from the apply, so verification time is missing from
  it (`safety.go:204`), and `FailedPlanCoolsDown` is about that cooldown;
* an action whose first status write failed (`proposer.go:454`) is never offered
  for approval and blocks its incident;
* several incidents of one cycle can each take the last place of the rate limit;
  `RateBounded` counts what was there when the cycle began;
* a refused quantity whose text equals a step count takes the sentence with the
  counts out of the explanation (`refused_values.go:152`), which
  `proposer_ai.go:444` means to keep; `HeadIsWhatIsApplied` is about counts that
  are stated;
* a field without a baseline, or with a zero one, is not capped (`safety.go`), so
  `WithinTheCap` is about fields that have one.

Events, clients and personas:

* a one-shot signal whose write fails is lost: its key is marked first
  (`store.go:147`) and nothing delivers it again. `LastingEventIsRecorded` is about
  Events, which a resync redelivers;
* a record the cap deleted comes back at the next resync while its Event is listed,
  and every resync emits the operator's Event anew;
* the dedup map has no hard bound (`store.go:150`): only expired keys are pruned;
* signals are stored with an empty Reason, so two kinds of signal of one category and
  object share a dedup key, which the comment at `store.go:120` does not expect;
* nor does the key (`store.go:125`) hold the kind, the UID or the message, so distinct
  Events share one (two `Failed` of a pod, two `Unhealthy`). At each resync the one
  delivered first suppresses the other, which may never be recorded:
  `LastingEventIsRecorded` is about one Event of each key;
* a persona limit that is no quantity, which the CRD admits
  (`applicationpersona_types.go:104`), makes `resource.MustParse` panic
  (`applicationpersona_validation.go:41`, `:53`) in every reconcile that finds a
  Deployment. controller-runtime recovers and retries, and the status never describes
  that Deployment: the exception in `StatusSettles`;
* a reader that answers into a full channel after its writer has returned waits for
  ever and keeps its client registered (`handlers.go:56`): the exception in
  `GoneIsReleased`;
* `trustLevel: 0` is within the CRD's range (`clusterpersona_types.go:118`) and is
  replaced by 2 (`clusterpersona_controller.go:193`), so only the mode is claimed to
  be the user's;
* the condition `Discovered=False` of a failed discovery
  (`clusterpersona_controller.go:99`) is overwritten in the same reconcile;
* the bootstrap, listing from a stale cache, can create `dorgu-cluster` beside a
  persona a user has just created under another name, which its comment
  (`clusterpersona_bootstrap.go:73`) excludes;
* a failed list of the destination namespace makes the ArgoCD watcher look for the
  persona in all namespaces and may update a namesake (`argocd_watcher.go:151`);
* a failed write of the active count is logged and not retried
  (`incident_controller.go:97`); the next reconcile of an incident repairs it.

Bounds. `MaxFaults` of three is enough for two independent disturbances plus a
crash within one action's life; the mixed plans meet only in the shared worker,
persona and cache, so they need no disturbances of their own. Three values
per field separate patched, snapshot and live. Delays of one and two ticks
distinguish "before" and "after" the delay. For incidents, grace and stability
of one tick separate silent from quiet and Ready from stable, and one incident
of each attribution covers the handover. For proposals, windows and cooldowns of
one tick separate within from after; two plans show a duplicate or exceed a
limit of one, and two diagnoses in a cycle are two incidents or one incident twice;
plans are interchangeable, and so are incidents with one target,
which `propose` uses as symmetry (it checks no liveness). The sample plans put values
at, just beyond and far beyond twice and half of the live value, in one step, in two
and merged with the derived one, and every class of command the verb parser tells
apart. For events a tick is the resync period, all other times are one tick, and a
cap and a batch of one are exceeded by two records; two Events are enough for one to
suppress the other. Channels of one
are full after one message. Two changes of the world and one failed request are
enough for a change behind a stale copy and another behind its retry. Deadlock is not
checked where everything may come to rest (the remediation, websocket and guardrails runs).

Fairness. The work queue requeues on error and on `RequeueAfter`, is FIFO and
deduplicating, and a restart lists every object: an action that stays in an
unsettled phase is handled again and again, hence strong fairness of the three
handlers, which compete for the one worker; the same goes for the `ClusterPersona`s,
which share one. Steps of a running handler, goroutines that can run, the watch and time are
weakly fair. The health-check, bootstrap and cleanup tickers never stop; the
incident controller sees each object at least on the periodic resync. The watcher goes on
as long as something is delivered, and nothing is assumed of the order it takes. Nothing
is assumed of humans, of clients, of signals or of workloads: a
client may stop asking, and one whose peer is gone only sees its next read or write
fail. Two specifications add one assumption each, only where the question needs it:
`ReadableSpec`, that verification does not answer Unknown for ever (without it
`ApprovedSettles` fails, which is what `verification_unknown` shows), and `SeeingSpec`,
that a broken workload is seen now and then, which makes `recurrence` about the
program rather than about a silent workload.

## Proofs

Every invariant and every action property that a passing run checks is also a
theorem, and so is the refinement: TLC shows it on the instance of the run, the
proof for every value of the constants, from the named assumptions of the modules
only. Each proof module has one inductive invariant `IInv`; TLC has checked each
of them on the instances of the runs too. The last steps are the same everywhere:
`Init => IInv`, one step per action for `IInv /\ [Next]_vars => IInv'`
(`Invariance`), and then the property from `IInv`.

### RemediationProofs

For every set of actions, fields, plans, signals and any number of disturbances
(plans are well formed, `None` and `User` are no values or actions):

* `TypeCorrect`, `ApprovalGate`, `NothingApplied`, `VerifiedApplied`,
  `RollbackUndoes`, `IncidentClosure`: the safety invariants of the runs;
* `SettledForGood`, `AppliesBeforeVerifying`: the action properties;
* `Refinement`: `RemediationLifecycle` implements `RemediationContract`;
* `ScopeReported`: a rollback does not hide what it left on the workload, if the cache
  showed it when the workload was inspected.

None of the invariants is inductive alone. `IInv` is

* `TypeOK`;
* `Copies`: whatever copy of an action exists, stored, cached or in the worker's
  hands, a phase past Pending needs an approval, a phase past Approved needs the
  patch in the persona and AppliedAt, and Acknowledged and PreconditionRejected
  are said only of plans that can never be applied;
* `Writers`: a written plan is approved and applicable, an approved one not Pending;
* `Versions`: the cache never runs ahead, and a version determines the phase;
* `Worker`: what the worker holds at each stage, and, while its copy is current
  (`Fresh`), that the stored phase is the one it acts on;
* `Order`: once verification has begun neither the cache nor the worker still
  believes in Approved;
* `Rollbacks`: where the worker is about to store RolledBack, or it is stored, the
  snapshot is in force;
* `Incidents`: a closed incident belongs to a completed action.

The argument throughout: a worker on a stale copy is stopped at its status write,
which the version check refuses, so what it can disturb is the persona alone; and
`Order` shows that this cannot happen once verification has begun, because the
one worker moves an action to Verifying only from a cache that has seen Applying.
`Steps` summarises what one step does to phase, approvals and writes, and the
action properties and the refinement follow from it case by case.

`ScopeReported` has a hypothesis of its own, `MovesTheWorkload`: a plan with a
patch and an observed workload patches only fields that were observed, with
another value. `InspectRollback` compares the live workload with what was
observed and so can tell nothing of other plans. The proposer drops fields that
the container does not set; a plan that asks for the value already there, whose
heal changes nothing, is what the hypothesis excludes. The plans of both runs satisfy
it. The invariant `Scope` adds that what the CLI healed is what the plan says
and that a report stays true, for actions that are not `overlooked`; `InspectFacts` is
the fact that a heal the cache shows is seen. No heal can come after the report: a worker with a
current copy that is about to store RolledBack means that the stored phase is
Verifying, and the CLI heals in Approved and Applying only.

### IncidentProofs

`TypeCorrect`, `Explained` (`ResolvedIsExplained`) and `Observed`
(`ClosedOnObservation`), for any finite set of incidents, either attribution, any
grace period, stability window and number of faults. `IInv` adds to the types that the
cache shows nothing that was never stored (`StoreOK`), that the incidents the loop
may close exist (`CandidatesExist`), that each closing writer knows why in its first
request and has said so by its second (`WhyOK`), and that what the loop is about to
close on observation has recovered (`ObservedOK`).
Both closing writers write the resolution first, so a crash between the two leaves
an open incident with a reason, never a closed one without.

### ProposalProofs

`TypeCorrect`, `Dedup` (`LivePlanBlocksAnother`), `RateLimit` (`RateBounded`),
`Cooldown` (`FailedPlanCoolsDown`) and `Rejection` (`RejectionHolds`), for any finite
set of plans, any incidents, paths, limits and windows. The difficulty is that each
check reads its own list from a cache that lags, and that the plan is created
several steps later. `IInv` says how a passed check stays worth something:

* `Older`: the cache is older than the store, and what it shows as ended has ended;
* `Unseen`: a plan the cache does not show was made in this cycle;
* `DedupPassed`: behind the dedup every plan of an earlier cycle that covers the incident
  has ended, in the cache already, and so stays ended;
* `CooldownPassed`, `RatePassed`: between the check and the create, what the check
  excluded is still excluded, because only this loop creates plans and clocks only grow;
* `RejectionsSeen`, `RejectionPassed`: rejections from before the cycle are in the
  cache, and behind the check none of them is active;
* `AgeOK`, `LoopOK`, `StoreOK`: clocks within their bounds, what the loop holds at
  each step, what a stored plan looks like.

### GuardrailProofs

`CapHolds` (`WithinTheCap`), `NothingRefused` (`NothingRefusedIsOffered`) and
`HeadHolds` (`HeadIsWhatIsApplied`), for any plans of any length, workloads and
personas. `IInv` has one conjunct per stage (`BuiltOK`, `CheckedOK`, `HeadedOK`,
`ShapedOK`, `DisclosedOK`, `ScrubbedOK`, `CleanOK`, and `RuledOK` for the fallback):
what a stage established holds at every later one. `StepsOK` is the rule of a step: it
is applied exactly when it has a patch, and has no command then. The facts it rests on:
`checkBlastRadius` refuses exactly what is not within the cap of a grounded patch;
a scaled value is within it; a refused value never is, so pruning the refused
values takes nothing from a patch within the cap; and the later stages only
reword or drop steps, and recompute the head from what is left.

Assumptions: patches map fields to integers (`PlansAssumption`, `LimitsAssumption`),
and `KubectlAssumption`, that the verb parser recognises every command of a plan
that writes to the workload. That one is a statement about kubectl's commands
and not about the operator's stages; TLC evaluates it on the sample commands, which
cover every class of command that the parser tells apart.

### EventProofs

`NoEchoHolds` (`NoEcho`) and `CapKeeps` (`CapKeepsNewest`), for any keys, windows,
cap, batch size and backlog. `IInv` types the occurrences, the informer, the two
writers and the records; its core is `DoomedOK`: each record on the cleaner's list has
expired, or is outlived by `MaxRecords` records that are not on it and are at least as
new. Arrivals between the list and the deletes only add to those.

### HubProofs

`TypeCorrect`, which includes that no channel holds more than its size, and
`ViewHolds` (`ClientView`), for any clients, topics and channel sizes. What a client has
seen and what waits in its channel form one line; `ViewOK`, `FreshOK`,
`UnsubscribedOK` and `AnswerOK` say of that line, and of the answer about to join
it, what `ClientView` says of its front: events in order, each at most once, and none
behind the confirmation of an unsubscription unless the client asked again.
`FreshOK` and `QueueOK` put the events still to be offered behind it.

### PersonaProofs and ClusterProofs

* `WritersApart` (`WritersKeepApart`): each part of a persona's status changes only in
  its own writer's write, for any Deployments, specs and interleaving. What a writer
  holds differs from the copy it read in its own part only (`TaskOK`), and a write that
  is accepted finds that copy stored.
* `MirrorsTheCluster`: what the persona controller computes from a copy with the
  current spec describes the cluster, and a reconcile that panics on a limit computes
  and writes nothing. It is the safety half of `StatusSettles`; that
  the controller runs again is the other half.
* `ModeKept` (`ModeIsTheUsers`) and `PhaseKept` (`NoPhaseRegression`): every stored and
  cached `ClusterPersona` counts as discovered exactly when it lists nodes (`Holds`);
  the reconcile in progress works on such a copy, and what it has discovered lists
  nodes if the copy did (`AtOK`); a choice is forgotten with its persona (`ChosenOK`).
  The conditional Update keeps a copy from before the user's edit out.
  `PolicyAssumption` says that users write policies the CRD admits.

### Model-checked only

* Liveness: `ApprovedSettles`, `RecoveredIsClosed`, `LabelFollowsPhase`,
  `ClosedCountIsZero`, `NotCountedTwice`, `LastingEventIsRecorded`, `RetentionDrains`,
  `BroadcastFlows`, `GoneIsReleased`, `StatusSettles`, `ClusterIsDescribed`. They
  rest on fairness and ENABLED, which the prover does not handle.
* What `kubectlVerb` computes, a recursion over a command's tokens: an induction
  over data. `KubectlAssumption` carries it into the proofs.
* The two violated runs, which are counterexamples.

## Not modelled, and the plan

Next:

1. The step lemmas behind the liveness properties, as far as they are safety: that the
   helpful step, once taken, reaches the goal (as `MirrorsTheCluster` does), for
   `LabelFollowsPhase`, `ClosedCountIsZero`, `ClusterIsDescribed` and `RetentionDrains`.
2. That what these steps achieved is lost only to a named disturbance, as action
   properties.
3. Shorter proofs for `HubProofs` and `ProposalProofs`, whose facts on sequences and on
   the checks' lists could share lemmas.

Left out for good: the detection collectors and the diagnosis rules, which are
single-pass functions without state whose results the models take as inputs; the
event correlator, a lookup; platform and version discovery, conditions and wording,
which no decision reads; parsing of quantities (`PlanGuardrails` starts from their
values); prompts, model and Prometheus calls, metrics, CRD schemas, charts and
generated code.
