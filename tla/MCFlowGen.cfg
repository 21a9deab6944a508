SPECIFICATION FairSpec
CONSTANTS
    NumClients = 2
    NumAccounts = 3
    NumNodes = 2
    TxnSpan = 1
    Chains <- MCChains
    MaxInflight = 2
    Frequencies = {0, 1}
    MAX_BATCH_FREQ = 2
    CommitDepth = 1
    Pay = 1
    BitcoinGrant = 2
    MaxSingles <- MCMaxSingles
    MaxConflicts = 2
    MaxHeight = 2
INVARIANTS CountersExact OnlyRivalsConflict SentAfterInputs HeightsCounted
PROPERTY KeepsGenerating
CHECK_DEADLOCK FALSE
