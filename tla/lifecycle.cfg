CONSTANTS
    Configs <- MCConfigs
    OutCap = 1
    DepositCap = 1
    Undecided = 1
    MaxDeposits = 2
    MaxFailures = 1
SPECIFICATION FairSpec
INVARIANTS
    PushHasReader
    PanicCauses
    BoundIsScanned
    AcceptedIsServable
PROPERTIES
    EndsWhenDue
CHECK_DEADLOCK FALSE
