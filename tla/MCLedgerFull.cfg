SPECIFICATION Spec
CONSTANTS
    Block = {1, 2, 3}
    Mine = {1, 3}
    Height <- RivalHeight
    LightMode = FALSE
    Required = 3
    Grace = 2
    Retries = 2
    DiskMayFail = FALSE
    PeersMayFail = FALSE
    MaxHeight = 4
    MaxRestarts = 1
    MaxQueries = 2
INVARIANTS LedgerTypeOK OnePerHeight PaidIsMature SolvedKept GivesUpLast
