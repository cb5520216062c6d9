SPECIFICATION Spec
CONSTANTS
    Payloads = {p, q}
    MaxHeight = 3
    MaxLost = 1
INVARIANTS
    TypeOK
    AppNotAhead
    ChainOfStore
    StrategyOfChain
