\* One resource plan, three disturbances.
CONSTANTS
    a1 = a1
    a2 = a2
    a3 = a3
    mem = mem
    cpu = cpu
    Actions = {a1}
    Fields = {mem}
    Values = {1, 2, 4}
    None = None
    User = User
    Plan <- MemoryPlans
    Signals <- MCSignals
    InitialPersona <- MCPersona
    InitialLive <- MCLive
    MaxFaults = 3

SPECIFICATION ReadableSpec
INVARIANTS
    TypeOK
    OnlyApprovedPlansWrite
    NothingAppliedIsTrue
    VerifiedWasApplied
    RolledBackIsUndone
    RollbackScopeIsReported
    IncidentClosedOnlyByCompleted
PROPERTIES
    SettledStaysSettled
    NoLateApply
    ImplementsContract
    ApprovedSettles
CHECK_DEADLOCK FALSE
