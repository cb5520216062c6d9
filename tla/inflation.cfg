SPECIFICATION Spec
CONSTANTS
    s = s
    t = t
    u = u
    Signers <- MCSigners
    Beneficiary <- MCBeneficiary
    ZeroAddress = Zero
    DefaultReceiver = Two
    GenesisBalance <- MCGenesisBalance
    YearBlocks = 2
    SwitchHeight = 2
    VersionAt <- MCVersionAt
    Receivers <- MCReceivers
    Votes <- MCVotes
    EvidenceAt = {3}
    MaxEvidence = 2
INVARIANT YearlyIncrement
