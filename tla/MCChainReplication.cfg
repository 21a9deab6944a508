SPECIFICATION FairSpec
CONSTANTS
    N = 3
    Size <- MCSize
    block_size = 2
    MaxLosses = 1
INVARIANTS CommittedInOrder CommittedIsReplicated
PROPERTIES FullBlocksLeave CommitsUnlessLost
CHECK_DEADLOCK FALSE
