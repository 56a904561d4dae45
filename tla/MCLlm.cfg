SPECIFICATION Spec
CONSTANTS
    NumDocuments = 4
    Limit = 2
    MaxTries = 2
    MaxAttempts = 2
    ProviderFailure <- Failures
    GitMessage <- GitMessages
INVARIANTS
    TypeOK
    BoundedConcurrency
    
    
PROPERTIES
    JobEnds
CHECK_DEADLOCK FALSE
