CONSTANTS
    k1 = k1
    k2 = k2
    k3 = k3
    u1 = u1
    u2 = u2
    b1 = b1
    b2 = b2
    s1 = s1
    None = None
    Kitties <- MCKitties
    Users <- MCUsers
    CoinTypes <- MCCoinTypes
    ScannedCoins <- MCDummyScanners
    Pool <- MCPool
    ListedStatus <- MCListedStatus
    ScannerUsesDb = FALSE
    MaxRestarts = 0
    MaxCommitFailures = 0
SPECIFICATION Spec
INVARIANT ReservedAnswerIsTrue
