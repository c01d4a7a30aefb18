SPECIFICATION Spec
CONSTANTS
    MaxEndpoints = 3
    Words <- SampleWords
INVARIANTS
    TypeOK
    RepliesInProtocol
    ConnectsOnFullRequest
    OutcomeTold
    OutcomeSummary
    WordsPassedOn
CHECK_DEADLOCK FALSE
