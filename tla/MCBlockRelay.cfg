SPECIFICATION FairSpec
CONSTANTS
    Node = {1, 2, 3, 4}
    Full = {3, 4}
    Peers <- MCPeers
    Unsteady = {4}
INVARIANT OneSubmission
PROPERTIES Quiet Lands OwnSubmitted
CHECK_DEADLOCK FALSE
