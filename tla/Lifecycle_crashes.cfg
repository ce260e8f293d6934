CONSTANTS
    a = a
    b = b
    c = c
    shared = shared
    ownA = ownA
    ownB = ownB
    ownC = ownC
    None = None
    Torn = Torn
    Deployments <- MCDeployments
    Objects <- MCObjects
    Refs <- MCRefs
    WithLoader <- MCWithLoader
    MaxAborts = 2
SPECIFICATION Spec
INVARIANTS
    TypeOK
    HeldObjectsPresent
    RolesOnDisk
    QuietCoherent
PROPERTIES
    EntriesSpec
    PowerLossSafe
    GcReclaims
    RolesSpec
    StoreLandingSpec
    MaterializesWhole
    NamedStayWhole
