SPECIFICATION Spec
CONSTANTS
    Installation <- Accounts
    Repo <- Repositories
    Handler <- Slots
    PageSize = 1
    NoRow = NoRow
    MaxChanges = 3
    MaxFaults = 1
    MaxUserOps = 1
    MaxEvents = 3
INVARIANTS
    TypeOK
    
    SettingsSurvive
PROPERTY
    RepeatedSyncRepairs
CHECK_DEADLOCK FALSE
