SPECIFICATION FairSpec
CONSTANTS
    Safe <- MCSafe
    ValidIds <- MCValidIds
    Setups <- MCSetups
    Builds <- MCBuilds
    Disks <- MCDisks
    Paths <- MCPaths
    MaxFaults = 2
INVARIANTS
    TypeOK
    OwnExit
    ListensOnlyIfFit
    WholePairs
    DependencyVerdict
PROPERTIES
    EventuallyServes
CHECK_DEADLOCK FALSE
