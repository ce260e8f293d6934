CONSTANTS
    a = a
    b = b
    c = c
    shared = shared
    ownA = ownA
    ownB = ownB
    ownC = ownC
    None = None
    Torn = Torn
    Deployments <- MCDeployments
    Objects <- MCObjects
    Refs <- MCRefs
    WithLoader <- MCWithLoader
    MaxAborts = 1
SPECIFICATION Spec
INVARIANTS
    StagedComplete
