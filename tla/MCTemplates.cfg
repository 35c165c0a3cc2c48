SPECIFICATION FairSpec
CONSTANTS
    Peer = {1, 2}
    Pinned = {1}
    VoterKey <- TwoKeys
    Block = {1, 2}
    Chain <- TwoBlocks
    Tx = {1, 2, 3}
    TxId <- Claimed
    Genuine = {1, 2}
    Depends <- Spends
    FreshFor = 1
    LapseAfter = 1
    Window = 100
    MaxHeaders = 1
    Strikes = 0
    Lists = {{1, 2}, {2}, {2, 3}}
    MaxHeight = 3
INVARIANTS VotesTypeOK SelfContained
PROPERTIES Vouched NotDeserted Follows
