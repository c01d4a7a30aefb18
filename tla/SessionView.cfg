SPECIFICATION Spec
CONSTANTS
    TextFilters = {"user"}
    DateFilters = {"fromDate"}
    BytesFilters = {"bytesSent"}
    Marks = {m1}
    Epoch = 2
    LastDate = 3
    Half = 2
    MaxRows = 2
    MaxBytes = 2
INVARIANTS
    TypeOK
    
    HeadingsFit
