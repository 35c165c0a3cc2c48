SPECIFICATION FairSpec
CONSTANTS
    Miner = {1}
    Prev <- TwoPrev
    Nonce = {1}
    ChanSize = 2
    MaxActive = 1
    MaxTip = 1
    MaxJobs = 3
INVARIANTS MiningTypeOK CountsOnce
PROPERTIES NeverStepsBack CatchesUp GetsWork
