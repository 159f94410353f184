\* A workload breaks again after its incident was resolved.
CONSTANTS
    named = named
    bare = bare
    Incidents = {named}
    Attribution <- MCAttribution
    Signal <- MCSignal
    GracePeriod = 1
    StabilityWindow = 1
    MaxOutcomes = 0
    MaxFaults = 0
    None = None

SPECIFICATION SeeingSpec
PROPERTIES
    OutageIsReported
