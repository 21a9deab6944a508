SPECIFICATION Spec
CONSTANTS
    g = g
    s1 = s1
    s2 = s2
    p1 = p1
    p2 = p2
    p3 = p3
    q2 = q2
    o1 = o1
    o2 = o2
    Zero = Zero
    Txn <- MCTxn
    PeerBlocks <- MCPeerBlocks
    OwnIds <- MCOwnIds
    MaxBlockTxns = 2
    commit_depth = 1
    MaxDrops = 0
CHECK_DEADLOCK FALSE
INVARIANT PreparationEnds
