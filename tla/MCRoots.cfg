SPECIFICATION Spec
CONSTANTS
    Miner = {1}
    Prev <- TwoPrev
    Nonce = {1}
    ChanSize = 1
    MaxActive = 3
    MaxTip = 1
    MaxJobs = 2
INVARIANT RootsMatch
