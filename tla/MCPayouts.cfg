SPECIFICATION Spec
CONSTANTS
    Address = 1
    Kind <- MCKind
    Reward = {7}
    TargetLookbehind = 2
    PPLNSWindow = 3
    MaxWindowAge = 0
    maxShareAge = 1
    MaxShareTimePast = 1
    MaxShareTimeFuture = 0
    MaxJobAge = 0
    MinPoolShareDiff = 10
    MaxCredit = 20
    BlockCap = 35
    ShareTime = 1
    MaxChain = 4
    MaxTime = 1
INVARIANTS HonestVerifies PaysReward
PROPERTY PruneKeepsWindow
