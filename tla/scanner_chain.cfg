CONSTANTS
    t1 = t1
    t2 = t2
    a1 = a1
    a2 = a2
    BTC = BTC
    SKY = SKY
    Txs <- MCTxs
    Addresses <- MCAddresses
    Pays <- MCPays
    FirstAddresses <- MCFirstAddresses
    CoinTypes <- MCCoinTypes
    Forking <- MCBitcoin
    ByHash <- MCBitcoin
    Confirmations <- MCConfirmations
    CountAhead <- MCCountAhead
    InitialHeight = 2
    MaxHeight = 5
    MaxForks = 1
    MaxRestarts = 2
SPECIFICATION FairSpec
INVARIANTS
    TypeOK
    NoneFoundTwice
    PassedIsFound
    NoBlockSkipped
    FoundIsTrue
PROPERTY ConfirmedIsFound
CHECK_DEADLOCK FALSE
