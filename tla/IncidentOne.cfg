\* One incident of a claimed workload: two faults, one remediation outcome.
CONSTANTS
    named = named
    bare = bare
    Incidents = {named}
    Attribution <- MCAttribution
    Signal <- MCSignal
    GracePeriod = 1
    StabilityWindow = 2
    MaxOutcomes = 1
    MaxFaults = 2
    None = None

SPECIFICATION FairSpec
INVARIANTS
    TypeOK
    ResolvedIsExplained
PROPERTIES
    ClosedOnObservation
    LabelFollowsPhase
    RecoveredIsClosed
    ClosedCountIsZero
