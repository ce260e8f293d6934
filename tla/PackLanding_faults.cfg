CONSTANTS
    o1 = o1
    o2 = o2
    o3 = o3
    o4 = o4
    o5 = o5
    inlined = inlined
    Index <- MCIndex
    Refs <- MCRefs
    Gap = 1
    Jobs = 2
    MaxFaults = 2
SPECIFICATION FairLanding
INVARIANTS
    LandingTypeOK
    StagingHeld
PROPERTIES
    FailsForCause
    LandingReturns
    StoreLandingSpec
