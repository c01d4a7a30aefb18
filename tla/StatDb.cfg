SPECIFICATION FairSpec
CONSTANTS
    Sessions = {s1, s2}
    Pool = {p1, p2}
    None = None
    MaxRows = 2
    Amounts = {1}
    MaxBytes = 2
    Half = 2
INVARIANTS
    TypeOK
    RowsMatchSessions
    TotalsExactBelowHalf
PROPERTIES
    ImplementsLedger
    CallsReturn
