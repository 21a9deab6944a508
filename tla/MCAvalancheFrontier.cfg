SPECIFICATION Spec
CONSTANTS
    g = g
    s = s
    e = e
    w = w
    x = x
    p1 = p1
    p2 = p2
    PlaceHolder = PlaceHolder
    Txns <- MCTxns
    InUtxo <- MCInUtxo
    Correct <- MCCorrect
    PeerBlocks <- MCPeerBlocks
    blk_len = 2
    MaxQuota = 3
    MaxLosses = 0
CHECK_DEADLOCK FALSE
INVARIANT FreeInFrontier
