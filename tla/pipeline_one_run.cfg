CONSTANTS
    d1 = d1
    d2 = d2
    d3 = d3
    a1 = a1
    a2 = a2
    BTC = BTC
    SKY = SKY
    NoDeposit = NoDeposit
    Deposits <- MCDeposits
    CoinTypes <- MCOneScanner
    Addresses <- MCAddresses
    Bound <- MCAddresses
    CoinType <- MCOneCoin
    Address <- MCOneAddress
    Value <- MCValue
    Price <- MCPrice
    ScannedCap = 2
    OutCap = 1
    DepositsCap = 1
    MaxRestarts = 0
    MaxDbFailures = 2
SPECIFICATION Spec
INVARIANTS
    AmountIsCountedValue
PROPERTY LedgerAtMostOnce
CHECK_DEADLOCK FALSE
