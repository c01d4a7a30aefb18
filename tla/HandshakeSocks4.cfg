SPECIFICATION Spec
CONSTANTS
    MaxEndpoints = 3
    Words <- SampleWords
INVARIANT CredentialsChecked
CHECK_DEADLOCK FALSE
