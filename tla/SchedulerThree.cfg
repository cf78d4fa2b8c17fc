CONSTANTS
    N = 3
    Concurrentsyncs = 2
    MaxWaking = 2
SPECIFICATION FairSpec
INVARIANTS
    TypeOK
    OneSyncPerFolder
    WithinConcurrentsyncs
    NoLostWakeup
PROPERTIES
    SyncsUnlessWedged
    KeepsThePool
CHECK_DEADLOCK FALSE
