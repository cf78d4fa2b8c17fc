CONSTANTS
    N = 2
    Concurrentsyncs = 2
    MaxWaking = 2
SPECIFICATION FairSpec
PROPERTY FoldersKeepSyncing
CHECK_DEADLOCK FALSE
