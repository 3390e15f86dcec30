SPECIFICATION FairSpec
CONSTANTS
    root = root
    nub = nub
    leaf = leaf
    d1 = d1
    d2 = d2
    a = a
    b = b
    k = k
    c1 = c1
    c2 = c2
    Services <- Tree
    Provider <- TreeProvider
    Published <- RootOnly
    Drivers <- TwoDrivers
    Matches <- LeafAndRoot
    Listed <- LeafDriver
    Clients <- ThreeClients
    Scenarios <- FewScenarios
    ConfigThreads <- TwoThreads
    NoService = NoService
    NoDriver = NoDriver
    Nobody = Nobody
INVARIANTS
    TypeOK
    BusyConserved
    SingleThreadedPerProvider
    JobsHaveThreads
    DriversAreFound
PROPERTIES
    RegistrationsAreMatched
    WaitersReturn
CHECK_DEADLOCK FALSE
