SPECIFICATION FairNetSpec
CONSTANTS
    p = p
    q = q
    r = r
    x = x
    y = y
    Nodes <- MCNodes
    Pipes <- MCPipes
    Txns <- MCTxns
    Clients <- MCClients
    Patterns <- MCPatterns
    DISSEM_BATCH_SIZE = 2
    MaxFailures = 1
CHECK_DEADLOCK FALSE
INVARIANTS OncePerLink NoNeighbourLeftOut BroadcastReachesAll
PROPERTY GossipSpreads
