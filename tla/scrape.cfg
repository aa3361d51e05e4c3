SPECIFICATION Spec
CONSTANTS
    r1 = r1
    r2 = r2
    r3 = r3
    w1 = w1
    w2 = w2
    w3 = w3
    FeeTargets <- MCTargets
    OnlyWallets <- MCNames
    NodeWallets <- MCWallets
    BlockStats = TRUE
    PeerDetail = TRUE
    Request = {r1}
    MaxInFlight = 1
    Configurations <- AloneAndTogether
INVARIANTS
    TypeOK
    SuccessMeansComplete
    DeadlineIsReported
    NoClash
    ChannelClosedLast
PROPERTIES
    ServiceAnswered
