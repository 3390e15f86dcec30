SPECIFICATION FairSpec
CONSTANTS
    t1 = t1
    t2 = t2
    t3 = t3
    s1 = s1
    s2 = s2
    s3 = s3
    Threads <- ThreeThreads
    Services <- ThreeServices
    Nobody = Nobody
    MaxCount = 2
INVARIANTS
    TypeOK
    NoCircularWait
    WaitedIsHeld
PROPERTIES
    FailsOnlyForDeadlock
    WaitersGetThrough
CHECK_DEADLOCK FALSE
