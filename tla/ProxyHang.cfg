SPECIFICATION FairSpec
CONSTANTS
    Sessions = {s1, s2, s3}
    None = None
    MaxSessions = 2
    PoolThreads = 2
    MaxAcceptErrors = 0
    DbMayFail = FALSE
PROPERTY
    CompletedReadsServed
