CONSTANTS
    a = a
    b = b
    shared = shared
    ownA = ownA
    hostname = hostname
    passwd = passwd
    None = None
    Torn = Torn
    Deployments <- MCDeployments
    Objects <- MCObjects
    Refs <- MCRefs
    WithLoader <- MCWithLoader
    FactoryFiles = {hostname, passwd}
    Calls <- MCCalls
    MaxAborts = 2
    DriverTries = 2
    DeviceTries = 3
SPECIFICATION FairBoot
INVARIANTS
    MachineTypeOK
    CurrentWhole
    DiskInstallWhole
    SeedWhole
PROPERTIES
    MountsReleased
    EditsKept
    DiskInstallRecovers
    BootEnds
    InstalledHostBoots
CHECK_DEADLOCK FALSE
