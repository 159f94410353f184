SPECIFICATION Spec
CONSTANTS
    Plans <- SomePlans
    Workloads <- SomeWorkloads
    PersonaSpecs <- SomePersonas
    Targets = {"none", "memory", "cpu"}
    Whole = 8
CHECK_DEADLOCK FALSE
INVARIANTS
    WithinTheCap
    NothingRefusedIsOffered
    HeadIsWhatIsApplied
