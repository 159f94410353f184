SPECIFICATION Spec
CONSTANTS
    d1 = d1
    d2 = d2
    Deployments = {d1, d2}
    Workloads <- SomeWorkloads
    Specs <- SomeSpecs
    MaxChanges = 2
    MaxFailures = 1
PROPERTIES
    WritersKeepApart
    StatusSettles
