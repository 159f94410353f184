---------------------------- MODULE ProposalProofs ----------------------------
(***************************************************************************)
(* Proofs about Proposal, for every set of incidents, providers and paths, *)
(* any finite set of plans, every limit and cooldown.                      *)
(***************************************************************************)
EXTENDS Proposal, FiniteSetTheorems, TLAPS

-----------------------------------------------------------------------------
(***************************************************************************)
(* The inductive invariant, part by part.                                  *)
(***************************************************************************)

Dead == {"Closed", "Failed", "Rejected"}

\* Where the loop has put dedup behind it.
BehindDedup == {"plan", "rate", "concurrent", "cooldown", "caps", "create"}

\* Where it works on an incident for which no action was created, except in vain.
Deciding == {"rejection", "policy", "dedup"} \cup BehindDedup

AgeOK == age \in [Plans -> [Clock -> Nat]]

\* What the loop holds at each of its steps.
LoopOK ==
    /\ pc \in {"idle", "next", "rejection", "policy", "dedup"} => ~ai
    /\ pc = "create" => ~violated
    /\ pc \in BehindDedup \ {"plan"} /\ ~ai => Target[cur] # None
    /\ pc = "status" => ra[made].phase = ""

\* What is not stored is blank.
StoreOK == \A q \in Plans : ~Exists(ra, q) => ra[q] = NoAction

\* The cache is older than the store, and a plan that has ended does not change
\* any more but for its rejection stamp.
Older ==
    \A q \in Plans :
        /\ Exists(cache, q) => /\ Exists(ra, q)
                               /\ ra[q].incident = cache[q].incident
                               /\ ra[q].patches = cache[q].patches
        /\ cache[q].phase \in Dead => /\ ra[q].phase = cache[q].phase
                                      /\ ra[q].applied = cache[q].applied
                                      /\ ra[q].refused = cache[q].refused
        /\ cache[q].stamped => ra[q].stamped

\* A plan the cache does not show was created in this cycle.
Unseen ==
    \A q \in Plans : pc # "idle" /\ Exists(ra, q) /\ ~Exists(cache, q) => q \in fresh

\* Behind the dedup every earlier cycle's plan that covers the incident has ended, in
\* the cache already.
DedupPassed ==
    pc \in BehindDedup =>
        \A q \in Plans \ fresh : Exists(ra, q) /\ Covers(q, cur) => cache[q].phase \in Dead

\* Behind the cooldown check no earlier cycle's plan of the incident is cooling down.
CooldownPassed ==
    pc \in {"caps", "create"} /\ ~violated =>
        \A q \in Plans \ fresh : ra[q].incident = cur => ~CoolingDown(ra, q)

\* The plans of the earlier cycles that count for the rate limit.
Recent == {q \in Plans \ fresh : Exists(ra, q) /\ age[q]["created"] < RateWindow}

RatePassed ==
    pc \in {"concurrent", "cooldown", "caps", "create"} /\ ~violated =>
        Cardinality(Recent) < MaxPerHour

\* A rejection from before the cycle is in the cache.
RejectionsSeen ==
    pc # "idle" =>
        \A q \in Plans \ declined : ra[q].phase = "Rejected" => cache[q].phase = "Rejected"

RejectionPassed ==
    pc \in Deciding \ {"rejection"} /\ ~escalated =>
        \A q \in Plans \ declined : ~RejectionActive(ra, q, cur)

IInv ==
    /\ TypeOK /\ AgeOK /\ LoopOK /\ StoreOK /\ Older /\ Unseen
    /\ DedupPassed /\ CooldownPassed /\ RatePassed /\ RejectionsSeen /\ RejectionPassed

-----------------------------------------------------------------------------
(***************************************************************************)
(* The initial states, and type correctness.                               *)
(***************************************************************************)

\* The saturation bounds are numbers, and no cooldown is longer than its clock's.
LEMMA LimitFacts ==
    /\ \A c \in Clock : Limit[c] \in Nat
    /\ RateWindow <= Limit["created"]
    /\ FailedCooldown <= Limit["created"]
    /\ FailedCooldown <= Limit["applied"]
    /\ RejectionCooldown <= Limit["stamped"]
BY TimeAssumption DEF Limit, Clock

\* Nothing is stored at first, and nothing is asked.
LEMMA InitIInv == Init => IInv
<1> SUFFICES ASSUME Init PROVE IInv
  OBVIOUS
<1>1. NoAction \in Action /\ NoAction.phase = "absent"
  BY DEF NoAction, Action, Phase
<1>2. ra \in [Plans -> Action] /\ cache \in [Plans -> Action]
  BY <1>1 DEF Init
<1>3. (\A p \in Plans, c \in Clock : age[p][c] \in 0 .. Limit[c]) /\ AgeOK
  BY LimitFacts DEF Init, AgeOK
<1>4. TypeOK
  <2>1. escalated \in BOOLEAN /\ ai \in BOOLEAN /\ violated \in BOOLEAN
    BY DEF Init
  <2>2. todo \in 0 .. MaxDiagnoses /\ declined \subseteq Plans /\ fresh \subseteq Plans
    BY LimitAssumption DEF Init
  <2>3. cur = None <=> pc \in {"idle", "next"}
    BY DEF Init
  <2>4. made # None <=> pc = "status"
    BY DEF Init
  <2>5. cur \in Incidents \cup {None} /\ made \in Plans \cup {None}
    BY DEF Init
  <2> QED
    BY <1>2, <1>3, <2>1, <2>2, <2>3, <2>4, <2>5 DEF TypeOK, Init
<1>5. LoopOK /\ StoreOK /\ Older /\ Unseen
  BY <1>1 DEF Init, LoopOK, StoreOK, Older, Unseen, Exists, BehindDedup, NoAction, Dead
<1>6. DedupPassed /\ CooldownPassed /\ RatePassed /\ RejectionsSeen /\ RejectionPassed
  BY DEF Init, DedupPassed, CooldownPassed, RatePassed, RejectionsSeen, RejectionPassed,
         Deciding, BehindDedup
<1> QED
  BY <1>3, <1>4, <1>5, <1>6 DEF IInv

-----------------------------------------------------------------------------
(***************************************************************************)
(* What a step can do.  A step of the loop other than Create and the first *)
(* status only reads the actions; a step of the others leaves the loop     *)
(* alone.                                                                  *)
(***************************************************************************)

LoopStep ==
    \/ StartCycle
    \/ \E i \in Incidents : processDiagnosis(i)
    \/ EndCycle
    \/ AskRejections \/ AskPolicy \/ AskDedup
    \/ proposeWithPlanner \/ proposeResourceAdjustment
    \/ AskRateLimit \/ AskConcurrent \/ AskCooldown \/ AskCaps \/ AskNextStep
    \/ ListFails \/ CreateFails

\* Every step of the loop or of the others is of one of these kinds.
LEMMA StepKinds ==
    ASSUME [Next]_vars
    PROVE  LoopStep \/ (\E p \in Plans : Create(p)) \/ InitialStatus \/ Others \/ UNCHANGED vars
BY DEF Next, Propose, LoopStep

\* The loop's questions change neither the store nor the cache nor the clocks.
LEMMA LoopFrame == ASSUME LoopStep PROVE UNCHANGED <<ra, cache, age>>
BY DEF LoopStep, StartCycle, processDiagnosis, EndCycle, AskRejections, AskPolicy, AskDedup, Ask,
       proposeWithPlanner, proposeResourceAdjustment, AskRateLimit, AskConcurrent, AskCooldown,
       AskCaps, AskNextStep, Check, ListFails, CreateFails, history

\* Humans, the controller, the watch and the time do not move the loop.
LEMMA OthersFrame == ASSUME Others PROVE UNCHANGED <<loop, fresh>>
BY DEF Others, Approve, Close, Move, Reject, recordRejection, handleApproved, transitionToFailed,
       SyncCache, Tick, loop, history

\* Who else moves plan p, and what becomes of it.
Moves(p) ==
    \/ Approve(p) \/ Reject(p) \/ Close(p)
    \/ recordRejection(p) \/ handleApproved(p)
    \/ \E refused \in BOOLEAN : transitionToFailed(p, refused)

Moved(p) ==
    /\ ra'[p].incident = ra[p].incident /\ ra'[p].patches = ra[p].patches
    /\ ra[p].phase \notin {"absent", "", "Closed", "Failed"}
    /\ ra'[p].phase \notin {"absent", "", "Pending"}
    /\ ra[p].phase = "Rejected" => /\ ra'[p].phase = "Rejected"
                                   /\ ra'[p].applied = ra[p].applied
                                   /\ ra'[p].refused = ra[p].refused
    /\ ra[p].stamped => ra'[p].stamped

\* A plan that has ended, or has no status yet, is not moved, but for the stamp of
\* its rejection.
LEMMA MoveFacts ==
    ASSUME ra \in [Plans -> Action], NEW p \in Plans, Moves(p)
    PROVE  /\ ra' \in [Plans -> Action]
           /\ \A q \in Plans : q # p => ra'[q] = ra[q]
           /\ Moved(p)
           /\ cache' = cache
<1> DEFINE Goal == /\ ra' \in [Plans -> Action]
                   /\ \A q \in Plans : q # p => ra'[q] = ra[q]
                   /\ Moved(p)
                   /\ cache' = cache
<1>1. CASE Approve(p)
  BY <1>1 DEF Approve, Move, Action, Phase, activeRemediationPhases, Moved
<1>2. CASE Close(p)
  BY <1>2 DEF Close, Move, Action, Phase, activeRemediationPhases, Moved
<1>3. CASE Reject(p)
  BY <1>3 DEF Reject, Action, Phase, activeRemediationPhases, Moved
<1>4. CASE recordRejection(p)
  BY <1>4 DEF recordRejection, Action, Phase, activeRemediationPhases, Moved
<1>5. CASE handleApproved(p)
  <2>1. [[ra[p] EXCEPT !.phase = "Running"] EXCEPT !.applied = TRUE] \in Action
    BY DEF Action, Phase, activeRemediationPhases
  <2> QED
    BY <1>5, <2>1 DEF handleApproved, Moved, Action
<1>6. ASSUME NEW refused \in BOOLEAN, transitionToFailed(p, refused)
      PROVE  Goal
  <2>1. [[ra[p] EXCEPT !.phase = "Failed"] EXCEPT !.refused = refused] \in Action
    BY DEF Action, Phase, activeRemediationPhases
  <2>2. ra[p].phase \in {"Approved", "Running"}
    BY <1>6 DEF transitionToFailed
  <2> QED
    BY <1>6, <2>1, <2>2 DEF transitionToFailed, Moved, Action
<1> QED
  BY <1>1, <1>2, <1>3, <1>4, <1>5, <1>6 DEF Moves

\* What is not stored carries nothing.
LEMMA NoActionFacts ==
    NoAction.phase = "absent" /\ NoAction.incident = None /\ ~NoAction.stamped
BY DEF NoAction

\* Create makes one plan, of the current incident, without a status; the rules' plan
\* patches their target.
LEMMA CreateFacts ==
    ASSUME IInv, NEW p \in Plans, Create(p)
    PROVE  /\ ra' \in [Plans -> Action]
           /\ \A q \in Plans : q # p => ra'[q] = ra[q]
           /\ ra[p] = NoAction
           /\ ra'[p].phase = "" /\ ra'[p].incident = cur
           /\ ~ra'[p].stamped
           /\ cur \in Incidents
<1>1. cur \in Incidents /\ pc = "create"
  BY DEF IInv, TypeOK, Create
<1>2. ASSUME NEW patches \in SUBSET Paths
      PROVE  /\ NewAction(patches) \in Action
             /\ NewAction(patches).phase = "" /\ NewAction(patches).incident = cur
             /\ ~NewAction(patches).stamped
  BY <1>1 DEF NewAction, NoAction, Action, Phase, activeRemediationPhases
<1>3. ~ai => Target[cur] \in Paths
  BY <1>1, TargetAssumption DEF IInv, LoopOK, BehindDedup
<1>4. PICK patches \in SUBSET Paths : ra' = [ra EXCEPT ![p] = NewAction(patches)]
  BY <1>3 DEF Create
<1>5. ra \in [Plans -> Action] /\ ra[p] = NoAction
  BY DEF IInv, TypeOK, StoreOK, Create
<1> QED
  BY <1>1, <1>2, <1>4, <1>5

\* The first status makes the plan just created Pending, or is lost.
LEMMA InitialStatusFacts ==
    ASSUME IInv, InitialStatus
    PROVE  /\ made \in Plans /\ ra[made].phase = ""
           /\ ra' \in [Plans -> Action]
           /\ \A q \in Plans : q # made => ra'[q] = ra[q]
           /\ ra'[made].phase \in {"", "Pending"}
           /\ ra'[made].incident = ra[made].incident /\ ra'[made].patches = ra[made].patches
           /\ ra[made].stamped => ra'[made].stamped
<1>1. /\ made \in Plans /\ ra[made].phase = ""
      /\ ra \in [Plans -> Action]
  BY DEF IInv, TypeOK, LoopOK, InitialStatus
<1>2. CASE ra' = [ra EXCEPT ![made].phase = "Pending"]
  BY <1>1, <1>2 DEF Action, Phase, activeRemediationPhases
<1>3. CASE UNCHANGED ra
  BY <1>1, <1>3
<1> QED
  BY <1>2, <1>3 DEF InitialStatus

\* What a step keeps of plan q: a stored plan stays, with what it covers; a plan that
\* has ended stays as it is, but for its stamp; none comes back to life; one
\* without a status is touched by the first status only; only Create stores one.
Keeps(q) ==
    /\ Exists(ra, q) => /\ ra'[q].phase # "absent"
                        /\ ra'[q].incident = ra[q].incident /\ ra'[q].patches = ra[q].patches
    /\ ra[q].phase \in Dead => /\ ra'[q].phase = ra[q].phase
                               /\ ra'[q].applied = ra[q].applied
                               /\ ra'[q].refused = ra[q].refused
    /\ ra[q].stamped => ra'[q].stamped
    /\ ra'[q].phase \in activeRemediationPhases => Live(q) \/ ~Exists(ra, q)
    /\ ra[q].phase = "" => ra'[q].phase = "" \/ (pc = "status" /\ q = made)
    /\ ~Exists(ra, q) => ra'[q] = ra[q] \/ Create(q)

\* Every step keeps that of every plan.
LEMMA StoreStep ==
    ASSUME IInv, [Next]_vars
    PROVE  /\ ra' \in [Plans -> Action] /\ cache' \in [Plans -> Action]
           /\ \A q \in Plans : Keeps(q)
<1> DEFINE Goal == /\ ra' \in [Plans -> Action] /\ cache' \in [Plans -> Action]
                   /\ \A q \in Plans : Keeps(q)
<1> USE DEF Keeps, Dead, Exists, Live
<1>1. ra \in [Plans -> Action] /\ cache \in [Plans -> Action]
  BY DEF IInv, TypeOK
<1>2. CASE UNCHANGED <<ra, cache>>
  BY <1>1, <1>2 DEF activeRemediationPhases
<1>3. ASSUME NEW p \in Plans, Create(p)
      PROVE  Goal
  <2>1. /\ ra' \in [Plans -> Action]
        /\ \A q \in Plans : q # p => ra'[q] = ra[q]
        /\ ra[p] = NoAction
        /\ ra'[p].phase = "" /\ ra'[p].incident = cur
        /\ ~ra'[p].stamped
    BY <1>3, CreateFacts
  <2>2. cache' = cache
    BY <1>3 DEF Create
  <2>3. ra[p].phase = "absent" /\ ~ra[p].stamped
    BY <2>1, NoActionFacts
  <2>4. Keeps(p)
    BY <1>3, <2>3
  <2>5. \A q \in Plans : q # p => Keeps(q)
    BY <1>1, <2>1
  <2> QED
    BY <1>1, <2>1, <2>2, <2>4, <2>5
<1>4. CASE InitialStatus
  <2>1. cache' = cache /\ pc = "status"
    BY <1>4 DEF InitialStatus
  <2>2. /\ made \in Plans /\ ra[made].phase = ""
        /\ ra' \in [Plans -> Action]
        /\ \A q \in Plans : q # made => ra'[q] = ra[q]
        /\ ra'[made].phase \in {"", "Pending"}
        /\ ra'[made].incident = ra[made].incident /\ ra'[made].patches = ra[made].patches
        /\ ra[made].stamped => ra'[made].stamped
    BY <1>4, InitialStatusFacts
  <2>3. Keeps(made)
    BY <2>1, <2>2 DEF activeRemediationPhases
  <2>4. \A q \in Plans : q # made => Keeps(q)
    BY <1>1, <2>2
  <2> QED
    BY <1>1, <2>1, <2>2, <2>3, <2>4
<1>5. ASSUME NEW p \in Plans, Moves(p)
      PROVE  Goal
  <2>1. /\ ra' \in [Plans -> Action]
        /\ \A q \in Plans : q # p => ra'[q] = ra[q]
        /\ Moved(p)
        /\ cache' = cache
    BY <1>1, <1>5, MoveFacts
  <2> QED
    BY <1>1, <2>1 DEF Moved, activeRemediationPhases, Action, Phase
<1>6. CASE SyncCache
  BY <1>1, <1>6 DEF SyncCache, activeRemediationPhases
<1>7. CASE Tick
  BY <1>1, <1>2, <1>7 DEF Tick
<1>8. CASE LoopStep
  BY <1>2, <1>8, LoopFrame
<1>9. CASE UNCHANGED vars
  BY <1>2, <1>9 DEF vars
<1>10. CASE Others
  BY <1>5, <1>6, <1>7, <1>10 DEF Others, Moves
<1> QED
  BY <1>3, <1>4, <1>8, <1>9, <1>10, StepKinds

\* A clock only runs on, but for the two that start with what they measure.
LEMMA ClockStep ==
    ASSUME IInv, [Next]_vars
    PROVE  /\ AgeOK'
           /\ \A q \in Plans, c \in Clock : age'[q][c] \in 0 .. Limit[c]
           /\ \A q \in Plans :
                 /\ age'[q]["created"] >= age[q]["created"]
                 /\ age'[q]["applied"] >= age[q]["applied"] \/ ra[q].phase = "Approved"
                 /\ age'[q]["stamped"] >= age[q]["stamped"] \/ ~ra[q].stamped
<1> DEFINE Goal == /\ AgeOK'
                   /\ \A q \in Plans, c \in Clock : age'[q][c] \in 0 .. Limit[c]
                   /\ \A q \in Plans :
                         /\ age'[q]["created"] >= age[q]["created"]
                         /\ age'[q]["applied"] >= age[q]["applied"] \/ ra[q].phase = "Approved"
                         /\ age'[q]["stamped"] >= age[q]["stamped"] \/ ~ra[q].stamped
<1>1. /\ age \in [Plans -> [Clock -> Nat]]
      /\ \A q \in Plans, c \in Clock : age[q][c] \in 0 .. Limit[c]
      /\ \A c \in Clock : Limit[c] \in Nat
      /\ "created" \in Clock /\ "applied" \in Clock /\ "stamped" \in Clock
  BY LimitFacts DEF IInv, TypeOK, AgeOK, Clock
<1>2. CASE UNCHANGED age
  BY <1>1, <1>2 DEF AgeOK
<1>3. ASSUME NEW p \in Plans, recordRejection(p)
      PROVE  Goal
  BY <1>1, <1>3 DEF recordRejection, AgeOK
<1>4. ASSUME NEW p \in Plans, handleApproved(p)
      PROVE  Goal
  BY <1>1, <1>4 DEF handleApproved, AgeOK
<1>5. CASE Tick
  <2> DEFINE next(q, c) == age[q][c] + IF Runs(q, c) /\ age[q][c] < Limit[c] THEN 1 ELSE 0
  <2>1. \A q \in Plans, c \in Clock :
            next(q, c) \in Nat /\ next(q, c) >= age[q][c] /\ next(q, c) \in 0 .. Limit[c]
    BY <1>1
  <2>2. age' = [q \in Plans |-> [c \in Clock |-> next(q, c)]]
    BY <1>5 DEF Tick
  <2> HIDE DEF next
  <2>3. \A q \in Plans, c \in Clock : age'[q][c] = next(q, c)
    BY <2>2
  <2>4. age' \in [Plans -> [Clock -> Nat]]
    BY <2>1, <2>2
  <2> QED
    BY <1>1, <2>1, <2>3, <2>4 DEF AgeOK
<1>6. CASE LoopStep \/ InitialStatus \/ UNCHANGED vars \/ (\E p \in Plans : Create(p))
  BY <1>2, <1>6, LoopFrame DEF InitialStatus, vars, Create
<1>7. CASE Others
  BY <1>2, <1>3, <1>4, <1>5, <1>7
     DEF Others, Approve, Close, Move, Reject, transitionToFailed, SyncCache
<1> QED
  BY <1>6, <1>7, StepKinds

LoopTypes ==
    /\ pc \in {"idle", "next", "rejection", "policy", "dedup", "plan", "rate", "concurrent",
               "cooldown", "caps", "create", "status"}
    /\ todo \in 0 .. MaxDiagnoses
    /\ cur \in Incidents \cup {None}
    /\ made \in Plans \cup {None}
    /\ cur = None <=> pc \in {"idle", "next"}
    /\ made # None <=> pc = "status"

\* The loop holds an incident between two questions and an action until its status.
LEMMA LoopStepTypes ==
    ASSUME IInv, [Next]_vars
    PROVE  LoopTypes'
<1>1. LoopTypes
  BY DEF IInv, TypeOK, LoopTypes
<1>2. CASE UNCHANGED loop
  BY <1>1, <1>2 DEF LoopTypes, loop
<1>3. CASE StartCycle \/ (\E i \in Incidents : processDiagnosis(i)) \/ EndCycle
  BY <1>1, <1>3, NoneAssumption, LimitAssumption DEF LoopTypes, StartCycle, processDiagnosis, EndCycle
<1>4. CASE AskRejections \/ AskPolicy \/ AskDedup \/ AskCaps
  BY <1>1, <1>4 DEF LoopTypes, AskRejections, AskPolicy, AskDedup, AskCaps, Ask, Leave
<1>5. CASE proposeWithPlanner \/ proposeResourceAdjustment
  BY <1>1, <1>5 DEF LoopTypes, proposeWithPlanner, proposeResourceAdjustment, Leave
<1>6. CASE AskRateLimit \/ AskConcurrent \/ AskCooldown \/ AskNextStep
  BY <1>1, <1>6 DEF LoopTypes, AskRateLimit, AskConcurrent, AskCooldown, AskNextStep, Check
<1>7. CASE ListFails \/ CreateFails
  BY <1>1, <1>7 DEF LoopTypes, ListFails, CreateFails, AfterError, Leave
<1>8. CASE InitialStatus \/ (\E p \in Plans : Create(p))
  BY <1>1, <1>8, NoneAssumption DEF LoopTypes, InitialStatus, Create, AfterError, Leave
<1>9. CASE Others \/ UNCHANGED vars
  BY <1>2, <1>9, OthersFrame DEF vars
<1> QED
  BY <1>3, <1>4, <1>5, <1>6, <1>7, <1>8, <1>9, StepKinds DEF LoopStep

FlagTypes == escalated \in BOOLEAN /\ ai \in BOOLEAN /\ violated \in BOOLEAN

\* The flags are truth values.
LEMMA FlagStep ==
    ASSUME IInv, [Next]_vars
    PROVE  FlagTypes'
<1>1. FlagTypes
  BY DEF IInv, TypeOK, FlagTypes
<1>2. CASE Leave
  BY <1>2 DEF Leave, FlagTypes
<1>3. CASE AfterError
  BY <1>1, <1>2, <1>3 DEF AfterError, FlagTypes
<1>4. CASE UNCHANGED <<escalated, ai, violated>>
  BY <1>1, <1>4 DEF FlagTypes
<1>5. CASE AskRejections \/ AskPolicy \/ AskDedup \/ AskCaps
  BY <1>1, <1>2, <1>4, <1>5 DEF FlagTypes, AskRejections, AskPolicy, AskDedup, AskCaps, Ask
<1>6. CASE proposeWithPlanner \/ proposeResourceAdjustment
  BY <1>1, <1>2, <1>6 DEF FlagTypes, proposeWithPlanner, proposeResourceAdjustment
<1>7. CASE AskRateLimit \/ AskConcurrent \/ AskCooldown \/ AskNextStep
  BY <1>1, <1>7 DEF FlagTypes, AskRateLimit, AskConcurrent, AskCooldown, AskNextStep, Check
<1>8. CASE InitialStatus \/ ListFails \/ CreateFails \/ (\E p \in Plans : Create(p))
  BY <1>2, <1>3, <1>4, <1>8 DEF InitialStatus, Create, ListFails, CreateFails
<1>9. CASE StartCycle \/ (\E i \in Incidents : processDiagnosis(i)) \/ EndCycle
  BY <1>4, <1>9 DEF StartCycle, processDiagnosis, EndCycle
<1>10. CASE Others \/ UNCHANGED vars
  BY <1>4, <1>10, OthersFrame DEF vars, loop
<1> QED
  BY <1>5, <1>6, <1>7, <1>8, <1>9, <1>10, StepKinds DEF LoopStep

HistoryTypes == declined \subseteq Plans /\ fresh \subseteq Plans

\* The histories are of plans.
LEMMA HistoryStep ==
    ASSUME IInv, [Next]_vars
    PROVE  HistoryTypes'
<1>1. HistoryTypes
  BY DEF IInv, TypeOK, HistoryTypes
<1>2. CASE UNCHANGED history
  BY <1>1, <1>2 DEF HistoryTypes, history
<1>3. CASE EndCycle \/ InitialStatus \/ ListFails \/ CreateFails
  BY <1>1, <1>3 DEF HistoryTypes, EndCycle, InitialStatus, ListFails, CreateFails, history
<1>4. ASSUME NEW p \in Plans, Create(p) \/ Reject(p)
      PROVE  HistoryTypes'
  BY <1>1, <1>4 DEF HistoryTypes, Create, Reject
<1>5. CASE StartCycle \/ (\E i \in Incidents : processDiagnosis(i))
           \/ AskRejections \/ AskPolicy \/ AskDedup \/ AskCaps
  BY <1>2, <1>5 DEF StartCycle, processDiagnosis, AskRejections, AskPolicy, AskDedup, AskCaps, Ask
<1>6. CASE proposeWithPlanner \/ proposeResourceAdjustment
           \/ AskRateLimit \/ AskConcurrent \/ AskCooldown \/ AskNextStep
  BY <1>2, <1>6 DEF proposeWithPlanner, proposeResourceAdjustment,
                    AskRateLimit, AskConcurrent, AskCooldown, AskNextStep, Check
<1>7. CASE Others
  BY <1>2, <1>4, <1>7 DEF Others, Approve, Close, Move, recordRejection, handleApproved,
                          transitionToFailed, SyncCache, Tick
<1>8. CASE UNCHANGED vars
  BY <1>2, <1>8 DEF vars
<1> QED
  BY <1>3, <1>4, <1>5, <1>6, <1>7, <1>8, StepKinds DEF LoopStep

\* Type correctness is preserved.
LEMMA TypeStep ==
    ASSUME IInv, [Next]_vars
    PROVE  TypeOK'
<1>1. /\ ra' \in [Plans -> Action] /\ cache' \in [Plans -> Action]
      /\ \A p \in Plans, c \in Clock : age'[p][c] \in 0 .. Limit[c]
  BY StoreStep, ClockStep
<1> QED
  BY <1>1, LoopStepTypes, FlagStep, HistoryStep
     DEF TypeOK, LoopTypes, FlagTypes, HistoryTypes

-----------------------------------------------------------------------------
(***************************************************************************)
(* The other parts, one by one.                                            *)
(***************************************************************************)

\* Only the planner's plans and their checks carry the planner's flag, and a plan of
\* the rules has a target.
LEMMA LoopPart ==
    ASSUME IInv, [Next]_vars
    PROVE  LoopOK'
<1> DEFINE Flags == /\ pc \in {"idle", "next", "rejection", "policy", "dedup"} => ~ai
                    /\ pc = "create" => ~violated
                    /\ pc \in BehindDedup \ {"plan"} /\ ~ai => Target[cur] # None
           Status == pc = "status" => ra[made].phase = ""
<1>1. Flags /\ Status /\ LoopTypes
  BY DEF IInv, LoopOK, TypeOK, LoopTypes
<1>2. Flags'
  <2> USE DEF BehindDedup
  <2>1. CASE UNCHANGED loop
    BY <1>1, <2>1 DEF loop
  <2>2. CASE Leave
    BY <2>2 DEF Leave
  <2>3. CASE AfterError /\ pc \notin {"idle", "next", "policy"}
    BY <1>1, <2>2, <2>3 DEF AfterError
  <2>4. ASSUME ai' = ai, pc \in {"idle", "next", "rejection", "policy", "dedup"},
               pc' \in {"idle", "next", "rejection", "policy", "dedup", "plan"}
        PROVE  Flags'
    BY <1>1, <2>4
  <2>5. CASE StartCycle \/ (\E i \in Incidents : processDiagnosis(i)) \/ EndCycle
    BY <2>4, <2>5 DEF StartCycle, processDiagnosis, EndCycle
  <2>6. CASE AskRejections
    BY <2>2, <2>4, <2>6 DEF AskRejections, Ask
  <2>7. CASE AskPolicy \/ AskDedup
    BY <2>2, <2>4, <2>7 DEF AskPolicy, AskDedup, Ask
  <2>8. CASE AskCaps
    BY <1>1, <2>2, <2>8 DEF AskCaps, Ask
  <2>9. CASE proposeWithPlanner \/ proposeResourceAdjustment
    BY <1>1, <2>2, <2>9 DEF proposeWithPlanner, proposeResourceAdjustment
  <2>10. CASE AskRateLimit \/ AskConcurrent \/ AskCooldown \/ AskNextStep
    BY <1>1, <2>10 DEF AskRateLimit, AskConcurrent, AskCooldown, AskNextStep, Check
  <2>11. CASE ListFails \/ CreateFails
    BY <1>1, <2>3, <2>11 DEF ListFails, CreateFails
  <2>12. CASE InitialStatus \/ (\E p \in Plans : Create(p))
    BY <1>1, <2>2, <2>3, <2>12 DEF InitialStatus, Create
  <2>13. CASE Others \/ UNCHANGED vars
    BY <2>1, <2>13, OthersFrame DEF vars
  <2> QED
    BY <2>5, <2>6, <2>7, <2>8, <2>9, <2>10, <2>11, <2>12, <2>13, StepKinds DEF LoopStep
<1>3. Status'
  <2>1. CASE LoopStep \/ InitialStatus
    <3>1. pc' # "status"
      BY <2>1 DEF LoopStep, StartCycle, processDiagnosis, EndCycle, AskRejections, AskPolicy,
                  AskDedup, AskCaps, Ask, proposeWithPlanner, proposeResourceAdjustment,
                  AskRateLimit, AskConcurrent, AskCooldown, AskNextStep, Check, ListFails,
                  CreateFails, AfterError, Leave, InitialStatus
    <3> QED
      BY <3>1
  <2>2. ASSUME NEW p \in Plans, Create(p), pc' = "status"
        PROVE  ra'[made'].phase = ""
    <3>1. made' = p
      BY <2>2 DEF Create, AfterError, Leave
    <3> QED
      BY <2>2, <3>1, CreateFacts
  <2>3. CASE Others \/ UNCHANGED vars
    <3>1. pc' = pc /\ made' = made
      BY <2>3, OthersFrame DEF vars, loop
    <3>2. ASSUME pc = "status"
          PROVE  ra'[made].phase = ""
      <4>1. made \in Plans /\ ra[made].phase = "" /\ ra \in [Plans -> Action]
        BY <1>1, <3>2 DEF LoopTypes, IInv, TypeOK
      <4>2. ASSUME NEW p \in Plans, Moves(p)
            PROVE  ra'[made] = ra[made]
        BY <4>1, <4>2, MoveFacts DEF Moved
      <4> QED
        BY <2>3, <4>1, <4>2 DEF Others, Moves, SyncCache, Tick, vars
    <3> QED
      BY <1>1, <3>1, <3>2
  <2> QED
    BY <2>1, <2>2, <2>3, StepKinds
<1> QED
  BY <1>2, <1>3 DEF LoopOK

\* What is not stored stays blank until Create.
LEMMA StorePart ==
    ASSUME IInv, [Next]_vars
    PROVE  StoreOK'
<1> SUFFICES ASSUME NEW q \in Plans, ra'[q].phase = "absent"
             PROVE  ra'[q] = NoAction
  BY DEF StoreOK, Exists
<1>1. Keeps(q) /\ (~Exists(ra, q) => ra[q] = NoAction)
  BY StoreStep DEF IInv, StoreOK
<1>2. ~Exists(ra, q)
  BY <1>1 DEF Keeps
<1>3. ~Create(q)
  BY CreateFacts
<1> QED
  BY <1>1, <1>2, <1>3 DEF Keeps

\* The cache is the store of now, or what it was before.
LEMMA CacheStep ==
    ASSUME [Next]_vars
    PROVE  cache' = cache \/ (cache' = ra /\ SyncCache)
<1>1. CASE LoopStep \/ InitialStatus \/ UNCHANGED vars \/ (\E p \in Plans : Create(p))
  BY <1>1, LoopFrame DEF InitialStatus, vars, Create
<1>2. CASE Others
  BY <1>2 DEF Others, Approve, Close, Move, Reject, recordRejection, handleApproved,
              transitionToFailed, SyncCache, Tick
<1> QED
  BY <1>1, <1>2, StepKinds

\* The cache stays older than the store.
LEMMA OlderPart ==
    ASSUME IInv, [Next]_vars
    PROVE  Older'
<1>1. CASE cache' = cache
  <2>1. Older /\ \A q \in Plans : Keeps(q)
    BY StoreStep DEF IInv
  <2> SUFFICES ASSUME NEW q \in Plans
               PROVE  /\ Exists(cache, q) => /\ ra'[q].phase # "absent"
                                            /\ ra'[q].incident = cache[q].incident
                                            /\ ra'[q].patches = cache[q].patches
                      /\ cache[q].phase \in Dead => /\ ra'[q].phase = cache[q].phase
                                                    /\ ra'[q].applied = cache[q].applied
                                                    /\ ra'[q].refused = cache[q].refused
                      /\ cache[q].stamped => ra'[q].stamped
    BY <1>1 DEF Older, Exists
  <2> QED
    BY <2>1 DEF Older, Keeps
<1>2. CASE cache' = ra /\ SyncCache
  <2>1. ra' = ra
    BY <1>2 DEF SyncCache
  <2> QED
    BY <1>2, <2>1 DEF Older, Exists
<1> QED
  BY <1>1, <1>2, CacheStep

\* How the loop comes behind each of its questions: it was there already, for the same
\* incident, or it has just been answered well.
LEMMA LoopMoves ==
    ASSUME IInv, LoopStep
    PROVE  /\ pc' \in BehindDedup =>
                 /\ cur' = cur
                 /\ pc \in BehindDedup \/ (pc = "dedup" /\ ~activeRemediationExists(cur))
           /\ pc' \in {"concurrent", "cooldown", "caps", "create"} /\ ~violated' =>
                 /\ ~violated
                 /\ \/ pc \in {"concurrent", "cooldown", "caps", "create"}
                    \/ pc = "rate" /\ checkRateLimit
           /\ pc' \in {"caps", "create"} /\ ~violated' =>
                 /\ ~violated
                 /\ pc \in {"caps", "create"} \/ (pc = "cooldown" /\ checkFailedCooldown)
           /\ pc' \in Deciding \ {"rejection"} /\ ~escalated' =>
                 /\ cur' = cur /\ ~escalated
                 /\ \/ pc \in Deciding \ {"rejection"}
                    \/ pc = "rejection" /\ ~rejectionSuppressesProposal(cur)
           /\ pc' # "idle" =>
                 /\ declined' = declined /\ fresh' = fresh
                 /\ cache = ra \/ pc # "idle"
<1> USE DEF Deciding, BehindDedup
<1>1. /\ pc \in {"idle", "next", "rejection", "policy", "dedup"} => ~ai
      /\ FlagTypes
  BY DEF IInv, LoopOK, TypeOK, FlagTypes
<1>2. CASE StartCycle \/ (\E i \in Incidents : processDiagnosis(i)) \/ EndCycle
  BY <1>2 DEF StartCycle, processDiagnosis, EndCycle, history
<1>3. CASE AskRejections
  BY <1>3 DEF AskRejections, Ask, Leave, history
<1>4. CASE AskPolicy \/ AskDedup
  BY <1>4 DEF AskPolicy, AskDedup, Ask, Leave, history
<1>5. CASE AskCaps
  BY <1>5 DEF AskCaps, Ask, Leave, history
<1>6. CASE proposeWithPlanner \/ proposeResourceAdjustment
  BY <1>6 DEF proposeWithPlanner, proposeResourceAdjustment, Leave, history
<1>7. CASE AskRateLimit \/ AskConcurrent \/ AskCooldown \/ AskNextStep
  <2>1. /\ pc \in {"rate", "concurrent", "cooldown", "caps"}
        /\ pc' \in {"rate", "concurrent", "cooldown", "caps"}
        /\ cur' = cur /\ declined' = declined /\ fresh' = fresh
        /\ escalated' = escalated
        /\ pc' = "concurrent" => pc = "rate"
        /\ pc' = "cooldown" => pc = "concurrent"
        /\ pc' = "caps" => pc = "cooldown"
    BY <1>7 DEF AskRateLimit, AskConcurrent, AskCooldown, AskNextStep, Check, history
  <2>2. ~violated' => ~violated
    BY <1>7 DEF AskRateLimit, AskConcurrent, AskCooldown, AskNextStep, Check
  <2>3. pc = "rate" /\ ~violated' => checkRateLimit
    BY <1>7 DEF AskRateLimit, AskConcurrent, AskCooldown, AskNextStep, Check
  <2>4. pc = "cooldown" /\ ~violated' => checkFailedCooldown
    BY <1>7 DEF AskRateLimit, AskConcurrent, AskCooldown, AskNextStep, Check
  <2> QED
    BY <2>1, <2>2, <2>3, <2>4
<1>8. CASE ListFails \/ CreateFails
  BY <1>1, <1>8 DEF ListFails, CreateFails, AfterError, Leave, history
<1> QED
  BY <1>2, <1>3, <1>4, <1>5, <1>6, <1>7, <1>8 DEF LoopStep

\* After Create the loop goes on to the status, leaves the diagnosis, or has the rules
\* plan for it beside what the model's request may have stored.
LEMMA CreateMoves ==
    ASSUME NEW p \in Plans, Create(p)
    PROVE  /\ pc = "create" /\ declined' = declined
           /\ fresh' = fresh \cup {p} /\ age' = age /\ cache' = cache
           /\ pc' \in {"status", "next", "plan"}
           /\ pc' = "plan" => cur' = cur /\ escalated' = escalated
BY DEF Create, AfterError, Leave

\* What the others leave alone.
LEMMA OthersMoves ==
    ASSUME IInv, Others \/ UNCHANGED vars, [Next]_vars
    PROVE  /\ pc' = pc /\ cur' = cur /\ escalated' = escalated
           /\ violated' = violated /\ fresh' = fresh
           /\ declined \subseteq declined'
           /\ \A q \in Plans : ~Exists(ra, q) => ra'[q] = ra[q]
<1>1. /\ pc' = pc /\ cur' = cur /\ escalated' = escalated
      /\ violated' = violated /\ fresh' = fresh
  BY OthersFrame DEF loop, vars, history
<1>2. declined \subseteq declined'
  BY DEF Others, Approve, Close, Move, Reject, recordRejection, handleApproved,
         transitionToFailed, SyncCache, Tick, vars, history
<1>3. \A q \in Plans : ~Exists(ra, q) => ra'[q] = ra[q]
  <2>1. ASSUME NEW q \in Plans, Create(q), Others \/ UNCHANGED vars
        PROVE  FALSE
    BY <1>1, <2>1 DEF Create, AfterError, Leave
  <2> QED
    BY <2>1, StoreStep DEF Keeps
<1> QED
  BY <1>1, <1>2, <1>3

\* Plans the cache does not show are of this cycle.
LEMMA UnseenPart ==
    ASSUME IInv, [Next]_vars
    PROVE  Unseen'
<1> SUFFICES ASSUME NEW q \in Plans, pc' # "idle", ra'[q].phase # "absent", cache'[q].phase = "absent"
             PROVE  q \in fresh'
  BY DEF Unseen, Exists
<1>1. cache' = cache
  BY CacheStep DEF SyncCache
<1>2. Unseen /\ Keeps(q)
  BY StoreStep DEF IInv
<1>3. CASE Exists(ra, q)
  <2>1. pc # "idle" => q \in fresh
    BY <1>1, <1>2, <1>3 DEF Unseen, Exists
  <2>2. CASE LoopStep
    <3>1. cache # ra
      BY <1>1, <1>3 DEF Exists
    <3> QED
      BY <2>1, <2>2, <3>1, LoopMoves
  <2>3. ASSUME NEW p \in Plans, Create(p) PROVE q \in fresh'
    BY <2>1, <2>3, CreateMoves
  <2>4. CASE InitialStatus
    BY <2>1, <2>4 DEF InitialStatus, history
  <2>5. CASE Others \/ UNCHANGED vars
    BY <2>1, <2>5, OthersMoves
  <2> QED
    BY <2>2, <2>3, <2>4, <2>5, StepKinds
<1>4. CASE ~Exists(ra, q)
  <2>1. Create(q)
    BY <1>2, <1>4 DEF Keeps, Exists
  <2> QED
    BY <2>1, CreateMoves
<1> QED
  BY <1>3, <1>4

\* Behind the dedup the earlier plans that cover the incident have ended and stay so.
LEMMA DedupPart ==
    ASSUME IInv, [Next]_vars
    PROVE  DedupPassed'
<1> SUFFICES ASSUME pc' \in BehindDedup, NEW q \in Plans, q \notin fresh',
                    ra'[q].phase # "absent",
                    ra'[q].incident = cur' \/ Target[cur'] \in ra'[q].patches
             PROVE  cache'[q].phase \in Dead
  BY DEF DedupPassed, Exists, Covers
<1>1. /\ Older /\ Unseen /\ DedupPassed /\ Keeps(q) /\ cache \in [Plans -> Action]
  BY StoreStep DEF IInv, TypeOK
<1>2. CASE LoopStep
  <2>1. /\ ra' = ra /\ cache' = cache /\ cur' = cur /\ fresh' = fresh
        /\ pc \in BehindDedup \/ (pc = "dedup" /\ ~activeRemediationExists(cur))
    BY <1>2, LoopFrame, LoopMoves DEF BehindDedup
  <2>2. CASE pc \in BehindDedup
    BY <1>1, <2>1, <2>2 DEF DedupPassed, Covers, Exists
  <2>3. CASE pc = "dedup" /\ ~activeRemediationExists(cur)
    <3>1. Exists(cache, q)
      BY <1>1, <2>1, <2>3 DEF Unseen, Exists
    <3>2. cache[q].incident = cur \/ Target[cur] \in cache[q].patches
      BY <1>1, <2>1, <3>1 DEF Older
    <3>3. cache[q].phase \notin activeRemediationPhases
      BY <2>3, <3>2 DEF activeRemediationExists
    <3>4. cache[q].phase \in Phase
      BY <1>1 DEF Action
    <3> QED
      BY <2>1, <3>1, <3>3, <3>4 DEF Phase, Dead, Exists
  <2> QED
    BY <2>1, <2>2, <2>3
<1>3. ASSUME NEW p \in Plans, Create(p)
      PROVE  cache'[q].phase \in Dead
  <2>1. pc = "create" /\ cache' = cache /\ cur' = cur /\ fresh' = fresh \cup {p}
    BY <1>3, CreateMoves DEF BehindDedup
  <2>2. ra'[q] = ra[q]
    BY <1>3, <2>1, CreateFacts
  <2> QED
    BY <1>1, <2>1, <2>2 DEF DedupPassed, BehindDedup, Covers, Exists
<1>4. CASE InitialStatus
  BY <1>4 DEF InitialStatus, Leave, BehindDedup
<1>5. CASE Others \/ UNCHANGED vars
  <2>1. pc' = pc /\ cur' = cur /\ fresh' = fresh /\ (~Exists(ra, q) => ra'[q] = ra[q])
    BY <1>5, OthersMoves
  <2>2. Exists(ra, q) /\ Covers(q, cur)
    BY <1>1, <2>1 DEF Keeps, Covers, Exists
  <2>3. cache[q].phase \in Dead
    BY <1>1, <2>1, <2>2 DEF DedupPassed
  <2>4. ra[q].phase \in Dead
    BY <1>1, <2>3 DEF Older
  <2> QED
    BY <2>3, <2>4, CacheStep
<1> QED
  BY <1>2, <1>3, <1>4, <1>5, StepKinds

\* Behind the dedup and the cooldown check nothing of the incident starts to cool down.
LEMMA CooldownPart ==
    ASSUME IInv, [Next]_vars
    PROVE  CooldownPassed'
<1> SUFFICES ASSUME pc' \in {"caps", "create"}, ~violated',
                    NEW q \in Plans, q \notin fresh', ra'[q].incident = cur', CoolingDown(ra, q)'
             PROVE  FALSE
  BY DEF CooldownPassed
<1>1. Older /\ DedupPassed /\ CooldownPassed /\ Keeps(q)
  BY StoreStep DEF IInv
<1>2. ra'[q].phase = "Failed" /\ ~rejectedBeforeApply(ra'[q])
  BY DEF CoolingDown
<1>3. CASE LoopStep
  <2>1. /\ ra' = ra /\ age' = age /\ cur' = cur /\ ~violated /\ fresh' = fresh
        /\ pc \in {"caps", "create"} \/ (pc = "cooldown" /\ checkFailedCooldown)
    BY <1>3, LoopFrame, LoopMoves DEF BehindDedup
  <2>2. CoolingDown(ra, q)
    BY <2>1 DEF CoolingDown
  <2>3. CASE pc \in {"caps", "create"}
    BY <1>1, <2>1, <2>2, <2>3 DEF CooldownPassed
  <2>4. CASE pc = "cooldown" /\ checkFailedCooldown
    <3>1. cache[q].phase \in Dead
      BY <1>1, <1>2, <2>1, <2>4 DEF DedupPassed, BehindDedup, Covers, Exists
    <3>2. /\ cache[q].phase = ra[q].phase /\ cache[q].applied = ra[q].applied
          /\ cache[q].refused = ra[q].refused
      BY <1>1, <3>1 DEF Older
    <3>3. CoolingDown(cache, q)
      BY <2>2, <3>2 DEF CoolingDown, rejectedBeforeApply
    <3> QED
      BY <2>4, <3>3 DEF checkFailedCooldown
  <2> QED
    BY <2>1, <2>3, <2>4
<1>4. ASSUME NEW p \in Plans, Create(p)
      PROVE  FALSE
  BY <1>4, CreateMoves
<1>5. CASE InitialStatus
  BY <1>5 DEF InitialStatus, Leave
<1>6. CASE Others \/ UNCHANGED vars
  <2>1. /\ pc' = pc /\ cur' = cur /\ violated' = violated /\ fresh' = fresh
        /\ (~Exists(ra, q) => ra'[q] = ra[q])
    BY <1>6, OthersMoves
  <2>2. ra[q].incident = cur /\ ~CoolingDown(ra, q)
    BY <1>1, <2>1 DEF Keeps, CooldownPassed
  <2>3. Exists(ra, q)
    BY <1>2, <2>1 DEF Exists
  <2>4. ra[q].phase \in Dead
    BY <1>1, <2>1, <2>2, <2>3 DEF DedupPassed, BehindDedup, Older, Covers
  <2>5. /\ ra[q].phase = "Failed" /\ ra[q].applied = ra'[q].applied
        /\ ra[q].refused = ra'[q].refused
    BY <1>1, <1>2, <2>4 DEF Keeps
  <2>6. /\ age'[q]["created"] >= age[q]["created"] /\ age'[q]["applied"] >= age[q]["applied"]
        /\ age \in [Plans -> [Clock -> Nat]] /\ age' \in [Plans -> [Clock -> Nat]]
    BY <2>5, ClockStep DEF IInv, AgeOK
  <2> DEFINE c == IF ra[q].applied THEN "applied" ELSE "created"
  <2>7. age'[q][c] < FailedCooldown
    BY <2>5 DEF CoolingDown
  <2>8. age[q][c] < FailedCooldown
    BY <2>6, <2>7, TimeAssumption DEF Clock
  <2>9. ~rejectedBeforeApply(ra[q])
    BY <1>2, <2>5 DEF rejectedBeforeApply
  <2> QED
    BY <2>2, <2>5, <2>8, <2>9 DEF CoolingDown
<1> QED
  BY <1>3, <1>4, <1>5, <1>6, StepKinds

\* The earlier cycles' plans that count for the limit only become fewer.
LEMMA RatePart ==
    ASSUME IInv, [Next]_vars
    PROVE  RatePassed'
<1> SUFFICES ASSUME pc' \in {"concurrent", "cooldown", "caps", "create"}, ~violated'
             PROVE  Cardinality(Recent') < MaxPerHour
  BY DEF RatePassed
<1> USE LimitAssumption
<1>1. /\ \A q \in Plans : age'[q]["created"] >= age[q]["created"]
      /\ age \in [Plans -> [Clock -> Nat]] /\ age' \in [Plans -> [Clock -> Nat]]
      /\ "created" \in Clock
  BY ClockStep DEF IInv, AgeOK, Clock
<1>2. IsFiniteSet(Recent)
  BY PlansAssumption, FS_Subset DEF Recent
<1>3. ASSUME Cardinality(Recent) < MaxPerHour, Recent' \subseteq Recent
      PROVE  Cardinality(Recent') < MaxPerHour
  <2>1. /\ Cardinality(Recent) \in Nat /\ Cardinality(Recent') \in Nat
        /\ Cardinality(Recent') <= Cardinality(Recent)
    BY <1>2, <1>3, FS_Subset, FS_CardinalityType
  <2> QED
    BY <1>3, <2>1
<1>4. CASE LoopStep
  <2>1. /\ ra' = ra /\ age' = age /\ fresh' = fresh /\ ~violated /\ pc # "idle"
        /\ \/ pc \in {"concurrent", "cooldown", "caps", "create"}
           \/ pc = "rate" /\ checkRateLimit
    BY <1>4, LoopFrame, LoopMoves
  <2>2. Recent' = Recent
    BY <2>1 DEF Recent, Exists
  <2>3. CASE pc \in {"concurrent", "cooldown", "caps", "create"}
    BY <2>1, <2>2, <2>3 DEF IInv, RatePassed
  <2>4. CASE pc = "rate" /\ checkRateLimit
    <3>1. Recent \subseteq listRecentActions
      BY <2>1 DEF IInv, Unseen, Recent, listRecentActions
    <3>2. IsFiniteSet(listRecentActions)
      BY PlansAssumption, FS_Subset DEF listRecentActions
    <3>3. /\ Cardinality(Recent) <= Cardinality(listRecentActions)
          /\ Cardinality(Recent) \in Nat /\ Cardinality(listRecentActions) \in Nat
      BY <1>2, <3>1, <3>2, FS_Subset, FS_CardinalityType
    <3> QED
      BY <2>2, <2>4, <3>3 DEF checkRateLimit
  <2> QED
    BY <2>1, <2>3, <2>4
<1>5. ASSUME NEW p \in Plans, Create(p)
      PROVE  FALSE
  BY <1>5, CreateMoves
<1>6. CASE InitialStatus
  BY <1>6 DEF InitialStatus, Leave
<1>7. CASE Others \/ UNCHANGED vars
  <2>1. /\ pc' = pc /\ violated' = violated /\ fresh' = fresh
        /\ \A q \in Plans : ~Exists(ra, q) => ra'[q] = ra[q]
    BY <1>7, OthersMoves
  <2>2. Recent' \subseteq Recent
    BY <1>1, <2>1, TimeAssumption DEF Recent, Exists
  <2> QED
    BY <1>3, <2>1, <2>2 DEF IInv, RatePassed
<1> QED
  BY <1>4, <1>5, <1>6, <1>7, StepKinds

\* Only a human's rejection makes a plan Rejected, and during a cycle it is noted.
LEMMA RejectStep ==
    ASSUME IInv, Others \/ UNCHANGED vars, pc # "idle", NEW q \in Plans,
           ra'[q].phase = "Rejected", ra[q].phase # "Rejected"
    PROVE  q \in declined'
<1>1. ra \in [Plans -> Action]
  BY DEF IInv, TypeOK
<1>2. ASSUME NEW p \in Plans, Approve(p) \/ Close(p)
      PROVE  FALSE
  BY <1>1, <1>2 DEF Approve, Close, Move, Action
<1>3. ASSUME NEW p \in Plans, recordRejection(p)
      PROVE  FALSE
  BY <1>1, <1>3 DEF recordRejection, Action
<1>4. ASSUME NEW p \in Plans, handleApproved(p)
      PROVE  FALSE
  BY <1>1, <1>4 DEF handleApproved, Action
<1>5. ASSUME NEW p \in Plans, NEW refused \in BOOLEAN, transitionToFailed(p, refused)
      PROVE  FALSE
  BY <1>1, <1>5 DEF transitionToFailed, Action
<1>6. ASSUME NEW p \in Plans, Reject(p)
      PROVE  q \in declined'
  BY <1>1, <1>6 DEF Reject, Action
<1>7. ra' # ra
  OBVIOUS
<1> QED
  BY <1>2, <1>3, <1>4, <1>5, <1>6, <1>7 DEF Others, SyncCache, Tick, vars

\* The cache of a cycle knows the rejections from before it.
LEMMA RejectionsSeenPart ==
    ASSUME IInv, [Next]_vars
    PROVE  RejectionsSeen'
<1> SUFFICES ASSUME pc' # "idle", NEW q \in Plans, q \notin declined', ra'[q].phase = "Rejected"
             PROVE  cache'[q].phase = "Rejected"
  BY DEF RejectionsSeen
<1>1. RejectionsSeen
  BY DEF IInv
<1>2. CASE LoopStep
  BY <1>1, <1>2, LoopFrame, LoopMoves DEF RejectionsSeen
<1>3. ASSUME NEW p \in Plans, Create(p)
      PROVE  cache'[q].phase = "Rejected"
  <2>1. pc = "create" /\ cache' = cache /\ declined' = declined
    BY <1>3, CreateMoves
  <2>2. ra'[q] = ra[q]
    BY <1>3, CreateFacts
  <2> QED
    BY <1>1, <2>1, <2>2 DEF RejectionsSeen
<1>4. CASE InitialStatus
  <2>1. pc = "status" /\ cache' = cache /\ declined' = declined
    BY <1>4 DEF InitialStatus, history
  <2>2. ra'[q] = ra[q]
    BY <1>4, InitialStatusFacts
  <2> QED
    BY <1>1, <2>1, <2>2 DEF RejectionsSeen
<1>5. CASE Others \/ UNCHANGED vars
  <2>1. pc' = pc /\ declined \subseteq declined'
    BY <1>5, OthersMoves
  <2>2. ra[q].phase = "Rejected"
    BY <1>5, <2>1, RejectStep
  <2>3. cache[q].phase = "Rejected"
    BY <1>1, <2>1, <2>2 DEF RejectionsSeen
  <2> QED
    BY <2>2, <2>3, CacheStep
<1> QED
  BY <1>2, <1>3, <1>4, <1>5, StepKinds

\* Behind the first question no earlier rejection of the incident holds, unless the
\* diagnosis escalated.
LEMMA RejectionPart ==
    ASSUME IInv, [Next]_vars
    PROVE  RejectionPassed'
<1> SUFFICES ASSUME pc' \in Deciding \ {"rejection"}, ~escalated',
                    NEW q \in Plans, q \notin declined', RejectionActive(ra, q, cur)'
             PROVE  FALSE
  BY DEF RejectionPassed
<1>1. /\ RejectionPassed /\ RejectionsSeen /\ Older /\ Keeps(q)
      /\ "absent" # "Rejected"
  BY StoreStep DEF IInv
<1>2. /\ ra'[q].phase = "Rejected" /\ ra'[q].incident = cur'
      /\ ra'[q].stamped => age'[q]["stamped"] < RejectionCooldown
  BY DEF RejectionActive
<1>3. CASE LoopStep
  <2>1. /\ ra' = ra /\ age' = age /\ cur' = cur /\ ~escalated /\ declined' = declined
        /\ \/ pc \in Deciding \ {"rejection"}
           \/ pc = "rejection" /\ ~rejectionSuppressesProposal(cur)
    BY <1>3, LoopFrame, LoopMoves DEF Deciding, BehindDedup
  <2>2. RejectionActive(ra, q, cur)
    BY <1>2, <2>1 DEF RejectionActive
  <2>3. CASE pc \in Deciding \ {"rejection"}
    BY <1>1, <2>1, <2>2, <2>3 DEF RejectionPassed
  <2>4. CASE pc = "rejection" /\ ~rejectionSuppressesProposal(cur)
    <3>1. cache[q].phase = "Rejected"
      BY <1>1, <1>2, <2>1, <2>4 DEF RejectionsSeen
    <3>2. cache[q].incident = cur /\ (cache[q].stamped => ra[q].stamped)
      BY <1>1, <1>2, <2>1, <3>1 DEF Older, Exists
    <3>3. RejectionActive(cache, q, cur)
      BY <1>2, <2>1, <3>1, <3>2 DEF RejectionActive
    <3> QED
      BY <2>4, <3>3 DEF rejectionSuppressesProposal
  <2> QED
    BY <2>1, <2>3, <2>4
<1>4. ASSUME NEW p \in Plans, Create(p)
      PROVE  FALSE
  <2>1. /\ pc = "create" /\ cur' = cur /\ escalated' = escalated
        /\ declined' = declined /\ age' = age
    BY <1>4, CreateMoves DEF Deciding, BehindDedup
  <2>2. ra'[q] = ra[q]
    BY <1>2, <1>4, CreateFacts
  <2>3. RejectionActive(ra, q, cur)
    BY <1>2, <2>1, <2>2 DEF RejectionActive
  <2> QED
    BY <1>1, <2>1, <2>3 DEF RejectionPassed, Deciding, BehindDedup
<1>5. CASE InitialStatus
  BY <1>5 DEF InitialStatus, Leave, Deciding, BehindDedup
<1>6. CASE Others \/ UNCHANGED vars
  <2>1. /\ pc' = pc /\ cur' = cur /\ escalated' = escalated /\ declined \subseteq declined'
    BY <1>6, OthersMoves
  <2>2. ra[q].phase = "Rejected"
    BY <1>2, <1>6, <2>1, RejectStep DEF Deciding, BehindDedup
  <2>3. ra[q].incident = cur /\ (ra[q].stamped => ra'[q].stamped)
    BY <1>1, <1>2, <2>1, <2>2 DEF Keeps, Exists
  <2>4. ~RejectionActive(ra, q, cur)
    BY <1>1, <2>1 DEF RejectionPassed
  <2>5. ra[q].stamped /\ ~(age[q]["stamped"] < RejectionCooldown)
    BY <2>2, <2>3, <2>4 DEF RejectionActive
  <2>6. /\ age'[q]["stamped"] >= age[q]["stamped"]
        /\ age \in [Plans -> [Clock -> Nat]] /\ age' \in [Plans -> [Clock -> Nat]]
    BY <2>5, ClockStep DEF IInv, AgeOK
  <2> QED
    BY <1>2, <2>3, <2>5, <2>6, TimeAssumption DEF Clock
<1> QED
  BY <1>3, <1>4, <1>5, <1>6, StepKinds

-----------------------------------------------------------------------------
(***************************************************************************)
(* The theorems.                                                           *)
(***************************************************************************)

\* The invariant holds in every reachable state.
THEOREM Invariance == Spec => []IInv
<1>1. IInv /\ [Next]_vars => IInv'
  <2> SUFFICES ASSUME IInv, [Next]_vars PROVE IInv'
    OBVIOUS
  <2> QED
    BY TypeStep, ClockStep, LoopPart, StorePart, OlderPart, UnseenPart, DedupPart, CooldownPart,
       RatePart, RejectionsSeenPart, RejectionPart DEF IInv
<1> QED
  BY <1>1, InitIInv, PTL DEF Spec

\* Type correctness of the loop, the stored and the cached RemediationActions.
THEOREM TypeCorrect == Spec => []TypeOK
<1>1. IInv => TypeOK
  BY DEF IInv
<1> QED
  BY <1>1, Invariance, PTL

\* A plan comes to be by Create only.
LEMMA BornByCreate ==
    ASSUME IInv, [Next]_vars, NEW p \in Plans, Born(p)
    PROVE  /\ Create(p) /\ pc = "create" /\ ~violated /\ ra'[p].incident = cur
<1>1. Create(p)
  BY StoreStep DEF Keeps, Born, Exists
<1> QED
  BY <1>1, CreateFacts, CreateMoves DEF IInv, LoopOK

(***************************************************************************)
(* activeRemediationExists: no plan is made for an incident while a live   *)
(* plan of an earlier cycle is of that incident or patches the same path,  *)
(* although the list it reads is older than the store, the humans and the  *)
(* controller move on between the question and Create, and an incident can *)
(* come up several times in a cycle.                                       *)
(***************************************************************************)
THEOREM Dedup == Spec => LivePlanBlocksAnother
<1>1. IInv /\ [Next]_vars =>
        [\A p \in Plans, q \in Plans \ fresh :
            Born(p) /\ Live(q) => ~Covers(q, ra'[p].incident)]_vars
  <2> SUFFICES ASSUME IInv, [Next]_vars, NEW p \in Plans, NEW q \in Plans \ fresh,
                      Born(p), Live(q), Covers(q, ra'[p].incident)
               PROVE  FALSE
    OBVIOUS
  <2>1. pc = "create" /\ Covers(q, cur)
    BY BornByCreate DEF Covers
  <2>2. Exists(ra, q)
    BY DEF Live, Exists, activeRemediationPhases
  <2>3. cache[q].phase \in Dead /\ ra[q].phase = cache[q].phase
    BY <2>1, <2>2 DEF IInv, DedupPassed, BehindDedup, Older
  <2> QED
    BY <2>3 DEF Live, Dead, activeRemediationPhases
<1> QED
  BY <1>1, Invariance, PTL DEF Spec, LivePlanBlocksAnother

\* checkRateLimit: no plan is made once the earlier cycles' plans use the limit up.
THEOREM RateLimit == Spec => RateBounded
<1>1. IInv /\ [Next]_vars =>
        [\A p \in Plans : Born(p) =>
            Cardinality({q \in Plans \ fresh :
                            Exists(ra, q) /\ age[q]["created"] < RateWindow}) < MaxPerHour]_vars
  BY BornByCreate DEF IInv, RatePassed, Recent
<1> QED
  BY <1>1, Invariance, PTL DEF Spec, RateBounded

\* checkFailedCooldown: no plan is made while an earlier cycle's failed plan of its
\* incident cools down.
THEOREM Cooldown == Spec => FailedPlanCoolsDown
<1>1. IInv /\ [Next]_vars =>
        [\A p \in Plans, q \in Plans \ fresh :
            Born(p) /\ ra[q].incident = ra'[p].incident => ~CoolingDown(ra, q)]_vars
  BY BornByCreate DEF IInv, CooldownPassed
<1> QED
  BY <1>1, Invariance, PTL DEF Spec, FailedPlanCoolsDown

\* rejectionSuppressesProposal: a rejection from before the cycle is respected.
THEOREM Rejection == Spec => RejectionHolds
<1>1. IInv /\ [Next]_vars =>
        [\A p \in Plans, q \in Plans \ declined :
            Born(p) /\ ~escalated => ~RejectionActive(ra, q, ra'[p].incident)]_vars
  <2> SUFFICES ASSUME IInv, [Next]_vars, NEW p \in Plans, NEW q \in Plans \ declined,
                      Born(p), ~escalated
               PROVE  ~RejectionActive(ra, q, ra'[p].incident)
    OBVIOUS
  <2> QED
    BY BornByCreate DEF IInv, RejectionPassed, Deciding, BehindDedup
<1> QED
  BY <1>1, Invariance, PTL DEF Spec, RejectionHolds
=============================================================================
