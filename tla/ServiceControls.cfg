SPECIFICATION SystemSpec
CONSTANTS
    PipeSize = 2
    MaxReboots = 1
INVARIANTS
    ControlTypeOK
    NoOrphan
    StoppedUnlessRaced
PROPERTIES
    NobodyWaits
    DoneAsAsked
CHECK_DEADLOCK FALSE
