SPECIFICATION FairSpec
CONSTANTS
    Node = {1, 2}
    Hash = {1, 2, 3, 4, 5, 6}
    Parent <- MCParent
    Diff <- MCDiff
    Invalid = {5}
    Foreign = {1, 5, 6}
    Loaded <- MCLoaded
    TargetLookbehind = 1
    PPLNSWindow = 2
    StopDepth = 1
    MaxDownloadParents = 1
    MaxExpiries = 1
PROPERTIES Converges FillsIn
