SPECIFICATION Spec
CONSTANTS
    Threads = {t1, t2, t3, t4, t5}
INVARIANTS
    TypeOK
    MutualExclusion
    Bookkeeping
    WokenIsFront
    FrontIsWoken
    QueueMatchesThreads
    SemaphoresOfTheQueue
    DestructorAsserts
PROPERTIES
    NoOvertaking
    EveryRequestGranted
    ImplementsFairRWLock
