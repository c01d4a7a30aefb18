SPECIFICATION Spec
CONSTANTS
    Sessions = {s1, s2, s3, s4}
    None = None
    MaxSessions = 2
    PoolThreads = 2
    MaxAcceptErrors = 1
    DbMayFail = FALSE
INVARIANT
    LimitHonoured
