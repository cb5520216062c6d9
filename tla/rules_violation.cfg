SPECIFICATION Spec
CONSTANTS
    Signers = {1, 2, 3}
    GenesisValidators = {1, 2}
    UnbondWait = 1
    AddressRank <- MCAddressRank
    EpochBlocks = 3
    HeightArray <- ForkHeights
    VersionArray <- MCVersions
    SelectCount = 1
    DKGMembersLimit = 2
    NoSeed = NoSeed
    SeedValue <- MCSeedValue
    HeightValue <- MCHeightValue
    MaxDraws = 6
    Bigguy = Bigguy
    DefaultReceiver = DefaultReceiver
    InitSlots <- MCInitSlots
    HeaderVersion = 1
    BondSlots = {1}
    Seeds = {1}
    AuthFrom = 100
    CallHeights = {6}
    BusyHeights = {6}
    MaxOps = 1
    MaxAbsent = 0
    MaxHeight = 7
    MaxLag = 1
INVARIANT ReplayAgrees
