SPECIFICATION Spec
CONSTANTS
    a = a
    b = b
    c = c
    Accounts <- MCAccounts
    Contracts <- MCContracts
    Txs <- MCTxs
    InitBalance <- MCInitBalance
    BlockGas = 2
INVARIANTS
    TypeOK
    SenderStaysCached
    MempoolRunnable
    FundsCovered
