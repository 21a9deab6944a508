SPECIFICATION FairSpec
CONSTANTS
    g = g
    c = c
    d = d
    Txns <- MCTxns
    InUtxo <- MCInUtxo
    Signed <- MCTxns
    Correct <- MCTxns
    BlockTxns <- MCBlockTxns
    Tasks <- MCTasks
    BatchSize = 2
    Cores = 2
    PipeSize = 1
    MaxCopies <- MCMaxCopies
CHECK_DEADLOCK FALSE
INVARIANTS ReleasedOnceInOrder WaitsForMissing
PROPERTY ReleasedInTheEnd
