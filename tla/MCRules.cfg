SPECIFICATION Spec
CONSTANTS
    Hash = {1, 2, 3, 4}
    Parent <- RulesParent
    Diff <- RulesDiff
    Stale = {2}
    Ts <- RulesTs
    Defect <- RulesDefect
    Solved = {3}
    Expected <- RulesExpected
    TotalWork <- MCTotalWork
    TotalLen <- MCTotalLen
    MinPoolShareDiff = 1
    TargetLookbehind = 1
    MedianTimeShares = 1
    PPLNSShares = 2
    PPLNSWork = 9
    MaxPPLNSWindowAge = 0
    MaxShareTimeFuture = 1
    MaxShareAge = 0
    UnverifiedShareTTL = 1
    MaxUnverifiedShares = 2
    ConsensusV2Activation = 0
    V2MandatoryActivation = 1
    ConsensusV3Activation = 1
    MaxTime = 2
    MaxWait = 1
    MaxCallers = 2
INVARIANTS TipIsBest RejectedForCause
