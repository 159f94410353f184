SPECIFICATION Spec
CONSTANTS
    mine = mine
    Names = {mine}
    Policies <- SomePolicies
    Worlds <- SomeWorlds
    MaxChanges = 2
    MaxFailures = 1
INVARIANT ModeIsTheUsers
PROPERTIES
    NoPhaseRegression
    ClusterIsDescribed
