------------------------------ MODULE Strategy ------------------------------
(***************************************************************************)
(* types/strategy.go: which validators the application asks Tendermint to  *)
(* use after a block, under which rules (the version a height falls in)    *)
(* and who receives a block's fees.  Pure operators over PosTable tables;  *)
(* voting powers are abstracted to "selected" and "removed" (power 0).     *)
(***************************************************************************)
EXTENDS PosTable, Sequences

CONSTANTS
    EpochBlocks,          \* txfilter.EpochBlocks, the length of an epoch
    HeightArray,          \* version.HeightArray, the hard-fork heights
    VersionArray,         \* version.VersionArray, the version from each of them
    SelectCount,          \* --select_count, 0 means everybody
    DKGMembersLimit,      \* --dkg_members_limit, no limit given if not positive
    NoSeed,               \* the nil seed of RequestEndBlock
    SeedValue(_, _),      \* (seed, i): the random number behind the i-th draw
    HeightValue(_),       \* (index): the number behind a draw without a seed
    MaxDraws,             \* bound on the draws of one selection
    Bigguy,               \* the receiver of every block of version 4
    DefaultReceiver       \* address 0x...02

ASSUME StrategyAssumption ==
    /\ EpochBlocks \in Nat \ {0}
    /\ SelectCount \in Nat /\ DKGMembersLimit \in Int /\ MaxDraws \in Nat
    /\ HeightArray \in Seq(Nat) /\ VersionArray \in Seq(Nat)
    /\ Len(HeightArray) >= 4 /\ Len(VersionArray) = Len(HeightArray)

\* BlockVersion from the highest fork reached, or the fallback given.
BlockVersionAt(height, fallback) ==
    LET passed == {i \in 1..Len(HeightArray) : height >= HeightArray[i]}
    IN  IF passed = {} THEN fallback
        ELSE VersionArray[CHOOSE i \in passed : \A j \in passed : j <= i]

IsEpochEnd(height) == height % EpochBlocks = 0

-----------------------------------------------------------------------------
(***************************************************************************)
(* enterSelectValidators: draw from the table of the current epoch.  Below *)
(* version 2 exactly selectCount draws are made; from version 2 on, draws  *)
(* go on until selectCount distinct signers were drawn.                    *)
(***************************************************************************)
\* The item in the table at a position taken modulo its size: nobody if empty.
ItemAt(t, value) ==
    {s \in Bonded(t) : Cardinality({u \in Bonded(t) : AddressRank(u) < AddressRank(s)})
                         = value % Cardinality(Bonded(t))}

\* SelectItemBySeedValue(seed, i), or SelectItemByHeightValue(height + i).
SelectItem(t, seed, height, i) ==
    ItemAt(t, IF seed = NoSeed THEN HeightValue(height + i) ELSE SeedValue(seed, i))

\* selectedValidators after n draws.
Drawn(t, seed, height, n) == UNION {SelectItem(t, seed, height, i) : i \in 0..(n - 1)}

SelectCountOf(t) == IF SelectCount = 0 THEN Cardinality(Bonded(t)) ELSE SelectCount

\* How many draws the loop makes: the possible values, empty if it cannot end.
DrawCounts(t, version, seed, height) ==
    IF version >= 2
    THEN {n \in 0..MaxDraws : Cardinality(Drawn(t, seed, height, n)) = SelectCountOf(t)}
    ELSE {SelectCountOf(t)}

\* A draw from an empty table panics, a draw count that never comes hangs.
CanSelect(t, version, seed, height) ==
    /\ SelectCountOf(t) > 0 => Bonded(t) # {}
    /\ DrawCounts(t, version, seed, height) # {}

EnterSelectValidators(t, version, seed, height) ==
    LET counts == DrawCounts(t, version, seed, height)
    IN  Drawn(t, seed, height, CHOOSE n \in counts : TRUE)

\* blsValidators: the table's heaviest signers, all of them at HeightArray[3].
BlsValidators(t, height) ==
    IF height = HeightArray[4] THEN Bonded(t)
    ELSE TopKSigners(t, IF DKGMembersLimit <= 0 THEN 100 ELSE DKGMembersLimit)

\* GetUpdatedValidators: the new Validators map.
CanUpdate(t, version, seed, height) ==
    IsEpochEnd(height) \/ CanSelect(t, version, seed, height)

GetUpdatedValidators(t, version, seed, height) ==
    IF IsEpochEnd(height) THEN BlsValidators(t, height)
    ELSE EnterSelectValidators(t, version, seed, height)

-----------------------------------------------------------------------------
\* Receiver: the beneficiary of the proposer's item, the signer itself here.
Receiver(t, version, proposer) ==
    IF version = 4 THEN Bigguy
    ELSE IF proposer \in Bonded(t) \cup (Unbonding(t) \ t.slashed) THEN proposer
    ELSE DefaultReceiver

\* The administrator InitPersistData sets for a version.
AdminOf(version) == IF version <= 4 THEN "public" ELSE "private"

\* Mutant: the live node never changes its administrator.
AdminKept(admin, height) == admin

\* blsValidators' assignment to PPChainAdmin at an epoch end.
AdminAfter(admin, height) ==
    IF ~IsEpochEnd(height) THEN admin
    ELSE IF height = HeightArray[3] THEN "public"
    ELSE IF height = HeightArray[4] THEN "private"
    ELSE admin
=============================================================================
