SPECIFICATION FairSpec
CONSTANTS
    Sessions = {s1}
    None = None
    MaxBytes = 2
    BufferSizes = {0, 2}
    SocketRoom = 1
INVARIANTS
    TypeOK
    CountedIsPut
PROPERTIES
    ImplementsPipe
    BytesArrive
CHECK_DEADLOCK FALSE
