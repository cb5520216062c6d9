SPECIFICATION Spec
CONSTANTS
    Signers = {1, 2, 3}
    GenesisValidators = {1, 2, 3}
    UnbondWait = 1
    AddressRank <- MCAddressRank
    EpochBlocks = 3
    HeightArray <- EarlyHeights
    VersionArray <- FourVersions
    SelectCount = 2
    DKGMembersLimit = 2
    NoSeed = NoSeed
    SeedValue <- MCSeedValue
    HeightValue <- MCHeightValue
    MaxDraws = 6
    Bigguy = Bigguy
    DefaultReceiver = DefaultReceiver
    InitSlots <- MCInitSlots
    HeaderVersion = 1
    BondSlots = {1}
    Seeds = {}
    AuthFrom = 100
    CallHeights = {5}
    BusyHeights = {2, 4, 5}
    MaxOps = 1
    MaxAbsent = 0
    MaxHeight = 8
    MaxLag = 1
INVARIANTS
    TypeOK
    RestartTransparent
    ReplayAgrees
    ValidatorsTracked
    UpdatesAccepted
    RewardsFound
    UnbondedLeave
    Coherent
PROPERTY ImplementsMachine
