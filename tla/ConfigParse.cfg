SPECIFICATION Spec
CONSTANTS
    Lines <- MCLines
    MaxLines = 5
    WideSize = TRUE
INVARIANTS
    TypeOK
    ReadAsWritten
CHECK_DEADLOCK FALSE
