SPECIFICATION FairSpec
CONSTANTS
    Block = {1, 2}
    Mine = {1}
    Height <- PairHeight
    LightMode = TRUE
    Required = 3
    Grace = 2
    Retries = 1
    DiskMayFail = FALSE
    PeersMayFail = TRUE
    MaxHeight = 4
    MaxRestarts = 1
    MaxQueries = 2
INVARIANT SolvedKept
PROPERTY Settled
