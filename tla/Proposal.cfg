\* Two incidents of one root cause, or one of them twice in a cycle, a planner
\* that may fall back to the rules, and any number of failed requests and lost replies.
CONSTANTS
    mem = mem
    None = None
    Plans = {p1, p2}
    Incidents = {oom, crash}
    Paths = {mem}
    Target <- SameTarget
    MaxPerHour = 1
    RateWindow = 1
    FailedCooldown = 1
    RejectionCooldown = 1
    Planner = TRUE
    MaxDiagnoses = 2

SPECIFICATION Spec
SYMMETRY Symmetry
INVARIANTS
    TypeOK
PROPERTIES
    LivePlanBlocksAnother
    RateBounded
    FailedPlanCoolsDown
    RejectionHolds
