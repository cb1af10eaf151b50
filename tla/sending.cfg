CONSTANTS
    d1 = d1
    d2 = d2
    d3 = d3
    d4 = d4
    d5 = d5
    NoDeposit = NoDeposit
    Deposits <- MCDeposits
    Invalid <- MCInvalid
    BadTxid <- MCBadTxid
    FirstStatus <- MCFirstStatus
    SendEnabled = TRUE
    DepositCap = 2
    MaxRestarts = 1
    MaxDbFailures = 1
SPECIFICATION FairSpec
INVARIANTS
    TypeOK
    DoneIsKnown
    NoneForgotten
    AskIsServed
PROPERTIES
    ConfirmedIsDone
    ShutdownEnds
CHECK_DEADLOCK FALSE
