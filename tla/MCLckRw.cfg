SPECIFICATION FairSpec
CONSTANTS
    t1 = t1
    t2 = t2
    t3 = t3
    Threads <- ThreeThreads
    NoThread = NoThread
INVARIANTS
    TypeOK
    WordTellsHold
    SleeperIsAnnounced
PROPERTIES
    ImplementsRWLock
    WaitersGetThrough
