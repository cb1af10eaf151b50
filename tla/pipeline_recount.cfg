CONSTANTS
    d1 = d1
    d2 = d2
    d3 = d3
    a1 = a1
    a2 = a2
    BTC = BTC
    SKY = SKY
    NoDeposit = NoDeposit
    Deposits <- MCDeposits
    CoinTypes <- MCOneScanner
    Addresses <- MCAddresses
    Bound <- MCAddresses
    CoinType <- MCOneCoin
    Address <- MCAddress
    Value <- MCValue
    Price <- MCPrice
    ScannedCap = 2
    OutCap = 1
    DepositsCap = 1
    MaxRestarts = 1
    MaxDbFailures = 0
SPECIFICATION Spec
INVARIANT AmountIsCountedValue
CHECK_DEADLOCK FALSE
