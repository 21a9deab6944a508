\* Two blocks in flight out of three, three votes per poll, two failed sends.
SPECIFICATION FairSpec
CONSTANTS
    MaxInflight = 2
    K = 3
    Peers = {p1, p2}
    MaxBlk = 3
    MaxDrops = 2
INVARIANTS QuotaConserved PollBookkeeping
PROPERTIES EveryBlockSettles PollsKept QuotaReturns
CHECK_DEADLOCK FALSE
