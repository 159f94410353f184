\* A CPU plan, an advisory one and one without a snapshot share the worker.
CONSTANTS
    a1 = a1
    a2 = a2
    a3 = a3
    mem = mem
    cpu = cpu
    Actions = {a1, a2, a3}
    Fields = {mem, cpu}
    Values = {1, 2, 4}
    None = None
    User = User
    Plan <- MixedPlans
    Signals <- MCSignals
    InitialPersona <- MCPersona
    InitialLive <- MCLive
    MaxFaults = 0

SPECIFICATION Spec
INVARIANTS
    NothingAppliedIsTrue
PROPERTIES
    ImplementsContract
CHECK_DEADLOCK FALSE
