SPECIFICATION FairSpec
CONSTANTS
    Requests = {"r1", "r2", "r3"}
    Processes = {"p", "q"}
    Users = {"u", "v"}
    Names = {"n", "nu", "nv", "nx"}
    UserOf <- UserOfMC
    ProcessOf <- ProcessOfMC
    BaseName <- BaseNameMC
    Suffixed <- SuffixedMC
    Images <- ImagesMC
    OldHomes <- OldHomesMC
    MaxUid = 6
    MaxFaults = 2
\* Every request has been answered.
CHECK_DEADLOCK FALSE
INVARIANTS
    Separate
PROPERTIES
    BindingStable
    ReturnedReady
    RefusedByImage
    Converges
