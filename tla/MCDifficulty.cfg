SPECIFICATION Spec
CONSTANTS
    Hash = {1, 2, 3}
    Parent <- LineParent
    Diff <- BadLineDiff
    Stale = {}
    Ts <- LineTs
    Defect <- BadLineDefect
    Solved = {}
    Expected <- Ones
    TotalWork <- MCTotalWork
    TotalLen <- MCTotalLen
    MinPoolShareDiff = 1
    TargetLookbehind = 2
    MedianTimeShares = 1
    PPLNSShares = 3
    PPLNSWork = 9
    MaxPPLNSWindowAge = 0
    MaxShareTimeFuture = 1
    MaxShareAge = 1
    UnverifiedShareTTL = 1
    MaxUnverifiedShares = 2
    ConsensusV2Activation = 0
    V2MandatoryActivation = 1
    ConsensusV3Activation = 1
    MaxTime = 2
    MaxWait = 1
    MaxCallers = 2
INVARIANT DifficultyEnforced
