\* A workload onboarded in the middle of an outage: two incident records.
CONSTANTS
    named = named
    bare = bare
    Incidents = {named, bare}
    Attribution <- MCAttribution
    Signal <- MCSignal
    GracePeriod = 1
    StabilityWindow = 1
    MaxOutcomes = 0
    MaxFaults = 0
    None = None

SPECIFICATION FairSpec
PROPERTIES
    NotCountedTwice
