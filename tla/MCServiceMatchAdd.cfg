SPECIFICATION Spec
CONSTANTS
    root = root
    nub = nub
    leaf = leaf
    d1 = d1
    d2 = d2
    a = a
    b = b
    k = k
    c1 = c1
    c2 = c2
    Services <- Tree
    Provider <- TreeProvider
    Published <- RootOnly
    Drivers <- TwoDrivers
    Matches <- LeafAndRoot
    Listed <- NoDrivers
    Clients <- ThreeClients
    Scenarios <- AddWhileRegistering
    ConfigThreads <- TwoThreads
    NoService = NoService
    NoDriver = NoDriver
    Nobody = Nobody
INVARIANTS
    DriversAreFound
CHECK_DEADLOCK FALSE
