CONSTANTS
    d1 = d1
    d2 = d2
    d3 = d3
    a1 = a1
    a2 = a2
    BTC = BTC
    SKY = SKY
    NoDeposit = NoDeposit
    Deposits <- MCTwoDeposits
    CoinTypes <- MCCoinTypes
    Addresses <- MCAddresses
    Bound <- MCBoundFirst
    CoinType <- MCCoinType
    Address <- MCAddress
    Value <- MCValue
    Price <- MCPrice
    ScannedCap = 2
    OutCap = 1
    DepositsCap = 1
    MaxRestarts = 1
    MaxDbFailures = 1
SPECIFICATION FairSpec
PROPERTIES
    EveryDepositSettles
    EveryStepIsProgress
CHECK_DEADLOCK FALSE
