SPECIFICATION FairStoreSpec
CONSTANTS
    Hash = {1, 2}
    Parent <- TwoParent
    Diff <- TwoDiff
    Stale = {}
    Ts <- TwoTs
    Defect <- TwoDefect
    Solved = {}
    Expected <- TwoExpected
    TotalWork <- MCTotalWork
    TotalLen <- MCTotalLen
    MinPoolShareDiff = 1
    TargetLookbehind = 2
    MedianTimeShares = 1
    PPLNSShares = 3
    PPLNSWork = 9
    MaxPPLNSWindowAge = 0
    MaxShareTimeFuture = 1
    MaxShareAge = 0
    UnverifiedShareTTL = 1
    MaxUnverifiedShares = 1
    ConsensusV2Activation = 0
    V2MandatoryActivation = 1
    ConsensusV3Activation = 1
    MaxTime = 3
    MaxWait = 1
    MaxCallers = 2
    Legacy = {1}
INVARIANTS StoreTypeOK DbExact StoredSound
PROPERTY DiskCatchesUp
