SPECIFICATION Spec
CONSTANTS
    w0 = w0
    w1 = w1
    w2 = w2
    w3 = w3
    NodeWallets <- MCWallets
    Unnamed = w0
    Filters <- MCFilters
    MaxBlocks = 4
    Configurations <- MCConfigurations
INVARIANTS
    TypeOK
    StatsOfATip
    WalletDataIsItsOwn
    FailsOnlyForUnloaded
    SucceedsComplete
    NoSeriesTwice
