SPECIFICATION FairSpec
CONSTANTS
    Pool = {t1}
    Levels = {2, 5}
    LogLevels = {0, 1, 2, 6, Invalid}
    Invalid = Invalid
    MaxPosts = 5
INVARIANTS
    TypeOK
    OrderKept
    SinksAsConfigured
    AllTold
PROPERTIES
    LogDrains
CHECK_DEADLOCK FALSE
