CONSTANTS
    d1 = d1
    d2 = d2
    d3 = d3
    a1 = a1
    a2 = a2
    BTC = BTC
    SKY = SKY
    NoDeposit = NoDeposit
    Deposits <- MCDeposits
    CoinTypes <- MCCoinTypes
    Addresses <- MCAddresses
    Bound <- MCAddresses
    CoinType <- MCCoinType
    Address <- MCAddress
    Value <- MCValue
    Price <- MCLowPrice
    ScannedCap = 2
    OutCap = 1
    DepositsCap = 1
    MaxRestarts = 0
    MaxDbFailures = 0
SPECIFICATION FairSpec
PROPERTY CompletingDepositIsSent
CHECK_DEADLOCK FALSE
