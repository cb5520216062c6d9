SPECIFICATION FairSpec
CONSTANTS
    Signers = {1, 2, 3}
    GenesisValidators = {1, 2}
    UnbondWait = 1
    AddressRank <- MCAddressRank
    EpochBlocks = 2
    HeightArray <- LateHeights
    VersionArray <- MCVersions
    SelectCount = 1
    DKGMembersLimit = 2
    NoSeed = NoSeed
    SeedValue <- MCSeedValue
    HeightValue <- MCHeightValue
    MaxDraws = 6
    Bigguy = Bigguy
    DefaultReceiver = DefaultReceiver
    InitSlots <- MCPoorInitSlots
    HeaderVersion = 1
    BondSlots = {1}
    Seeds = {}
    AuthFrom = 100
    CallHeights = {}
    BusyHeights = {1, 3}
    MaxOps = 1
    MaxAbsent = 0
    MaxHeight = 4
    MaxLag = 2
INVARIANTS
    ValidatorsTracked
    UpdatesAccepted
PROPERTY CatchesUp
