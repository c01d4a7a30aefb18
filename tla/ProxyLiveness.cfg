SPECIFICATION WatchedSpec
CONSTANTS
    Sessions = {s1, s2, s3}
    None = None
    MaxSessions = 0
    PoolThreads = 1
    MaxAcceptErrors = 0
    DbMayFail = FALSE
PROPERTIES
    SessionServed
    QueuedStarted
