SPECIFICATION Spec
CONSTANTS
    g = g
    s1 = s1
    s2 = s2
    c = c
    e = e
    h = h
    d = d
    A = A
    B = B
    PlaceHolder = PlaceHolder
    NoTxn = NoTxn
    Txns <- MCTxns
    InUtxo <- MCInUtxo
    Sender <- MCSender
    OwnBatches <- MCOwnBatches
    PeerBatches <- MCPeerBatches
    BlizzardOwnBatches <- MCBlizzardOwnBatches
    BlizzardPeerBatches <- MCBlizzardPeerBatches
    k = 3
    vote_thresh = 2
    beta1 = 2
    beta2 = 3
    bk = 2
    bvote_thresh = 1
    bbeta1 = 1
    bbeta2 = 2
    MaxInflight = 2
    Variants = {"basic", "blizzard", "vote_no"}
CHECK_DEADLOCK FALSE
INVARIANTS PrefHasMaxConfidence AncestorsLead AcceptedOnce RoundsSumConfidence AcceptedRivalsFarApart
PROPERTY PollsKept
