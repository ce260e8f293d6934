CONSTANTS
    a = a
    b = b
    shared = shared
    ownA = ownA
    hostname = hostname
    passwd = passwd
    None = None
    Torn = Torn
    Deployments <- MCDeployments
    Objects <- MCObjects
    Refs <- MCRefs
    WithLoader <- MCWithLoader
    FactoryFiles = {hostname, passwd}
    Calls <- MCCalls
    MaxAborts = 2
    DriverTries = 2
    DeviceTries = 3
SPECIFICATION BootSpec
INVARIANT
    FirstBootSeeds
CHECK_DEADLOCK FALSE
