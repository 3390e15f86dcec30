SPECIFICATION FairSpec
CONSTANTS
    e1 = e1
    i1 = i1
    t1 = t1
    t2 = t2
    f = f
    g = g
    External <- OneExternal
    Internal <- OneInternal
    Funcs <- TwoFuncs
    FuncOf <- ExternalRunsF
    Threads <- TwoThreads
    ThreadMin = 1
    MaxBlocked = 1
    Cpus = 2
    MaxTime = 1
INVARIANTS
    TypeOK
    CountsAgree
    PendingIsServed
    DelayedIsTimed
    EntryHasOnePlace
PROPERTY
    CallsGetRun
