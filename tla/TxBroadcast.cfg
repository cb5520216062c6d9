SPECIFICATION FairSpec
CONSTANTS
    t1 = t1
    t2 = t2
    Txs <- MCTxs
    Journal <- MCJournal
    Designs <- OneLock
    Capacity = 3
    MempoolSize = 2
    MaxTickets = 2
INVARIANTS
    TypeOK
    MempoolCached
    OrderPreserved
PROPERTIES
    EveryoneAnswered
    RefusedLeave
