\* Verification that stays Unknown.
CONSTANTS
    a1 = a1
    a2 = a2
    a3 = a3
    mem = mem
    cpu = cpu
    Actions = {a1}
    Fields = {mem}
    Values = {1, 2, 4}
    None = None
    User = User
    Plan <- MemoryPlans
    Signals <- MCSignals
    InitialPersona <- MCPersona
    InitialLive <- MCLive
    MaxFaults = 0

SPECIFICATION FairSpec
PROPERTIES
    VerifyingEnds
CHECK_DEADLOCK FALSE
