------------------------------- MODULE DtfnApp -------------------------------
(***************************************************************************)
(* One dtfn node: the ABCI application (app/app.go, app/utils.go), the     *)
(* Ethereum work state and chain it writes (ethereum/eth_state.go), and    *)
(* the Tendermint node that drives it, with crashes and restarts.          *)
(*                                                                         *)
(* Tendermint stores a decided block, runs BeginBlock, DeliverTx..,        *)
(* EndBlock, Commit and then saves its own state.  A crash loses the       *)
(* application's memory and up to MaxLag blocks of the Ethereum chain; on  *)
(* restart the application reloads what SetPersistenceData wrote and       *)
(* Tendermint replays the stored blocks the chain has lost.  ABCI calls    *)
(* are serialised by the local client's mutex, so handlers are atomic.     *)
(*                                                                         *)
(* Abstracted: balances, gas, nonces and EVM effects; a transaction is one *)
(* of those that change the tables below.  Beneficiary = signer.           *)
(***************************************************************************)
EXTENDS Strategy

CONSTANTS
    GenesisValidators,    \* the validators of Tendermint's genesis
    InitSlots,            \* what a genesis balance is worth; 0: not enough, or no account
    HeaderVersion,        \* Version.App in headers below the first fork
    BondSlots,            \* slots a bond transaction may carry
    Seeds,                \* seeds other than NoSeed
    AuthFrom,             \* height of the first auth transaction
    CallHeights,          \* heights of blocks with contract calls
    BusyHeights,          \* bound: heights of blocks that are not empty
    MaxOps,               \* bound: transactions and evidence of a block
    MaxAbsent,            \* bound: validators whose vote a block lacks
    MaxHeight,            \* bound: heights explored
    MaxLag                \* bound: committed blocks a crash may lose

Ignored == {s \in GenesisValidators : InitSlots[s] = 0}

ASSUME AppAssumption ==
    /\ GenesisValidators \subseteq Signers /\ InitSlots \in [Signers -> Nat]
    /\ Ignored # GenesisValidators    \* else InitChain panics
    /\ HeaderVersion \in Nat /\ AuthFrom \in Nat /\ CallHeights \subseteq Nat /\ BondSlots \subseteq Nat \ {0}
    /\ MaxOps \in Nat /\ MaxAbsent \in Nat /\ MaxHeight \in Nat /\ MaxLag \in Nat

VARIABLES
    phase,         \* where the node is in the block cycle
    halt,          \* why it stopped, "none" if it did not
    \* the strategy, in memory
    height,        \* CurrentHeightValData.Height and HFExpectedData.Height
    blockVersion,  \* HFExpectedData.BlockVersion
    validators,    \* the keys of CurrentHeightValData.Validators
    curr,          \* CurrEpochValData.PosTable
    next,          \* NextEpochValData.PosTable
    changed,       \* NextEpochValData.PosTable.ChangedFlagThisBlock
    auth,          \* AuthTable
    authChanged,   \* AuthTable.ThisBlockChangedMap
    admin,         \* txfilter.PPChainAdmin
    work,          \* es.work: the state trie and the header being built
    \* the Ethereum chain on disk
    head,          \* height of CurrentBlock
    ledger,        \* the recent blocks' states, and what Tendermint knows them to hash to
    rules,         \* the chain configuration, which the EVM follows
    \* Tendermint
    store,         \* the recent decided blocks
    tmHeight,      \* height of the saved consensus state
    tm,            \* validator sets: of tmHeight, of the next two heights, of the past
    resp           \* saved response of EndBlock at tmHeight + 1

memVars == <<height, blockVersion, validators, curr, next, changed, auth, authChanged, admin>>
tmVars == <<store, tmHeight, tm>>
vars == <<phase, halt, memVars, work, head, ledger, rules, tmVars, resp>>

Phases == {"down", "fresh", "idle", "block", "ended", "halted"}

\* Why a node stops: a panic of the application, a loop that does not end, or
\* Tendermint refusing what the application returned.
Halts == {"none", "select", "reward", "tmReject", "tmEmpty", "appHash"}

Admins == {"public", "private"}
Rules == {"genesis", "constantinople"}
Tx == [kind : {"bond"}, signer : Signers, slots : BondSlots]
      \cup [kind : {"unbond"}, signer : Signers]
      \cup [kind : {"auth"}, signer : Signers, by : Admins]
      \cup [kind : {"call"}]

Block == [proposer : Signers, votes : SUBSET Signers, evidence : SUBSET Signers,
          txs : Seq(Tx), seed : Seeds \cup {NoSeed}]

\* A state trie with the block header on top of it.  Its hash is the app hash.
WorkState == [height : Nat, validators : SUBSET Signers, curr : Table, next : Table,
              auth : SUBSET Signers,
              version : Nat, coinbase : Signers \cup {Bigguy, DefaultReceiver},
              fined : SUBSET Signers, paid : SUBSET Signers, results : Seq(BOOLEAN)]

EmptyState == [height |-> 0, validators |-> {}, curr |-> CreatePosTable,
               next |-> CreatePosTable, auth |-> {}, version |-> 0,
               coinbase |-> DefaultReceiver, fined |-> {}, paid |-> {}, results |-> <<>>]

\* Strategy as NewStrategy leaves it; also what is left after a crash.
NewStrategy ==
    /\ height' = 0 /\ blockVersion' = 0 /\ validators' = {}
    /\ curr' = CreatePosTable /\ next' = CreatePosTable /\ changed' = FALSE
    /\ auth' = {} /\ authChanged' = {} /\ admin' = "unset"

Init ==
    /\ phase = "down" /\ halt = "none"
    /\ height = 0 /\ blockVersion = 0 /\ validators = {}
    /\ curr = CreatePosTable /\ next = CreatePosTable /\ changed = FALSE
    /\ auth = {} /\ authChanged = {} /\ admin = "unset"
    /\ work = EmptyState
    /\ head = 0 /\ ledger = <<>> /\ rules = "genesis" /\ store = <<>> /\ tmHeight = 0
    /\ tm = [last |-> {}, cur |-> GenesisValidators, next |-> GenesisValidators,
             past |-> GenesisValidators]
    /\ resp = [add |-> {}, del |-> {}, authItems |-> {}]

-----------------------------------------------------------------------------
(***************************************************************************)
(* SetPersistenceData: what the strategy writes into the work state.       *)
(***************************************************************************)
\* Mutants: the next table is not written at an epoch end; the authorisations
\* are written above version 4 only.
PersistIfFlagged(w, h, version, vals, c, n, flag, a) ==
    [w EXCEPT !.height = h,
              !.validators = vals,
              !.next = IF flag THEN n ELSE @,
              !.auth = IF flag /\ version >= 4 THEN a ELSE @,
              !.curr = IF IsEpochEnd(h) THEN c ELSE @]
PersistAuthLate(w, h, version, vals, c, n, flag, a) ==
    LET writeNext == flag \/ IsEpochEnd(h)
    IN  [w EXCEPT !.height = h,
                  !.validators = vals,
                  !.next = IF writeNext THEN n ELSE @,
                  !.auth = IF writeNext /\ version > 4 THEN a ELSE @,
                  !.curr = IF IsEpochEnd(h) THEN c ELSE @]

SetPersistenceData(w, h, version, vals, c, n, flag, a) ==
    LET writeNext == flag \/ IsEpochEnd(h)
    IN  [w EXCEPT !.height = h,
                  !.validators = vals,
                  !.next = IF writeNext THEN n ELSE @,
                  !.auth = IF writeNext /\ version >= 4 THEN a ELSE @,
                  !.curr = IF IsEpochEnd(h) THEN c ELSE @]

\* NewEthermintApplication, then InitPersistData on a chain that has data.
InitPersistData ==
    LET w == ledger[head] IN
    /\ phase' = "idle"
    /\ work' = w
    /\ height' = w.height /\ validators' = w.validators
    /\ blockVersion' = BlockVersionAt(w.height, 0)
    /\ admin' = AdminOf(BlockVersionAt(w.height, 0))
    /\ curr' = w.curr /\ next' = w.next /\ changed' = FALSE
    /\ auth' = w.auth /\ authChanged' = {}

\* ... and on a chain at genesis, where it finds nothing.
InitNoPersistData ==
    /\ phase' = "fresh"
    /\ work' = EmptyState
    /\ NewStrategy

Start ==
    /\ phase = "down"
    /\ IF head = 0 THEN InitNoPersistData ELSE InitPersistData
    /\ UNCHANGED <<halt, head, ledger, rules, tmVars, resp>>

\* The table InsertPosItemInit leaves: one item per genesis validator whose
\* account is known and whose balance is worth a slot.
InitialTable ==
    [CreatePosTable EXCEPT !.slots =
        [s \in Signers |-> IF s \in GenesisValidators THEN InitSlots[s] ELSE 0]]

InitChain ==
    /\ phase = "fresh"
    /\ phase' = "idle"
    /\ validators' = GenesisValidators \ Ignored
    /\ next' = InitialTable /\ curr' = InitialTable /\ changed' = TRUE
    /\ work' = SetPersistenceData(work, height, blockVersion, validators', curr', next',
                                  changed', auth)
    /\ UNCHANGED <<halt, height, blockVersion, auth, authChanged, admin,
                   head, ledger, rules, tmVars, resp>>

-----------------------------------------------------------------------------
(***************************************************************************)
(* Tendermint decides the next block: its votes come from the validators   *)
(* of the height before, its evidence from validators of any time.         *)
(***************************************************************************)
TxAllowed(tx, h) ==
    /\ tx.kind = "auth" => h >= AuthFrom
    /\ tx.kind = "call" => h \in CallHeights

Decide ==
    /\ phase = "idle" /\ head = tmHeight
    /\ tmHeight < MaxHeight /\ (tmHeight + 1) \notin DOMAIN store
    /\ \E proposer \in tm.cur, votes \in SUBSET tm.last, evidence \in SUBSET tm.past,
          seed \in Seeds \cup {NoSeed}, n \in 0..MaxOps :
        /\ Cardinality(tm.last \ votes) <= MaxAbsent
        /\ Cardinality(evidence) + n <= IF tmHeight + 1 \in BusyHeights THEN MaxOps ELSE 0
        /\ \E txs \in [1..n -> {tx \in Tx : TxAllowed(tx, tmHeight + 1)}] :
              store' = [h \in DOMAIN store \cup {tmHeight + 1} |->
                          IF h \in DOMAIN store THEN store[h]
                          ELSE [proposer |-> proposer, votes |-> votes,
                                evidence |-> evidence, txs |-> txs, seed |-> seed]]
    /\ UNCHANGED <<phase, halt, memVars, work, head, ledger, rules, tmHeight, tm, resp>>

\* DoPunish: the fine of every signer the table knows; a bonded one is unbonded.
Punished(t, evidence) == evidence \cap Known(t)
DoPunish(t, evidence, h) == SlashAll(t, evidence \cap Bonded(t), h)

\* Info: the height after which Tendermint replays, or goes on.
LastBlockHeight == head

\* UpdateHeaderCoinbase and UpdateHeaderWithTimeInfo: the header and the lists of
\* a new block.
UpdateHeader(w, version, coinbase) ==
    [w EXCEPT !.version = version, !.coinbase = coinbase, !.paid = {}, !.results = <<>>]

BeginBlock ==
    /\ phase = "idle" /\ (LastBlockHeight + 1) \in DOMAIN store
    /\ LET h == LastBlockHeight + 1
           b == store[h]
           version == BlockVersionAt(h, HeaderVersion)
       IN  /\ height' = h /\ blockVersion' = version
           /\ changed' = (b.evidence \cap Bonded(next) # {})
           /\ next' = DoPunish(next, b.evidence, h)
           /\ work' = [UpdateHeader(work, version, Receiver(curr, version, b.proposer))
                         EXCEPT !.fined = Punished(next, b.evidence)]
    /\ phase' = "block"
    /\ UNCHANGED <<halt, validators, curr, auth, authChanged, admin, head, ledger,
                   rules, tmVars, resp>>

-----------------------------------------------------------------------------
(***************************************************************************)
(* DeliverTx: the table-changing effects of ApplyTransactionWithInfo.      *)
(***************************************************************************)
CurrentBlock == store[height]
ThisTx == CurrentBlock.txs[Len(work.results) + 1]

\* What DeliverTx leaves of a transaction: the status of its receipt, or FALSE if
\* ApplyTransactionWithInfo returns an error, which adds neither the transaction
\* nor a receipt to the block.
Result(ok) == work' = [work EXCEPT !.results = Append(@, ok)]

DeliverBond(tx) ==
    /\ CanInsert(next, tx.signer, tx.slots)
    /\ next' = InsertPosItem(next, tx.signer, tx.slots)
    /\ changed' = TRUE
    /\ Result(TRUE)
    /\ UNCHANGED <<auth, authChanged>>

\* Mutant: an unbond does not flag the change.
UnbondUnflagged(tx) ==
    /\ CanRemove(next, tx.signer)
    /\ next' = RemovePosItem(next, tx.signer, height, FALSE)
    /\ Result(TRUE)
    /\ UNCHANGED <<changed, auth, authChanged>>

DeliverUnbond(tx) ==
    /\ CanRemove(next, tx.signer)
    /\ next' = RemovePosItem(next, tx.signer, height, FALSE)
    /\ changed' = TRUE
    /\ Result(TRUE)
    /\ UNCHANGED <<auth, authChanged>>

\* The administrator admits a signer, or dismisses it.
CanAuth(tx) == blockVersion >= 4 /\ tx.by = admin
DeliverAuth(tx) ==
    /\ CanAuth(tx)
    /\ auth' = IF tx.signer \in auth THEN auth \ {tx.signer} ELSE auth \cup {tx.signer}
    /\ authChanged' = authChanged \cup {tx.signer}
    /\ changed' = TRUE
    /\ Result(TRUE)
    /\ UNCHANGED next

\* A contract call whose outcome depends on the rules: gas, or an opcode.
DeliverCall(tx) ==
    /\ Result(rules = "genesis")
    /\ UNCHANGED <<next, changed, auth, authChanged>>

\* An error: an error code for Tendermint, and no receipt.
DeliverFailed(tx) ==
    /\ \/ tx.kind = "bond" /\ ~CanInsert(next, tx.signer, tx.slots)
       \/ tx.kind = "unbond" /\ ~CanRemove(next, tx.signer)
       \/ tx.kind = "auth" /\ ~CanAuth(tx)
    /\ Result(FALSE)
    /\ UNCHANGED <<next, changed, auth, authChanged>>

DeliverTx ==
    /\ phase = "block" /\ Len(work.results) < Len(CurrentBlock.txs)
    /\ \/ ThisTx.kind = "bond" /\ DeliverBond(ThisTx)
       \/ ThisTx.kind = "unbond" /\ DeliverUnbond(ThisTx)
       \/ ThisTx.kind = "auth" /\ DeliverAuth(ThisTx)
       \/ ThisTx.kind = "call" /\ DeliverCall(ThisTx)
       \/ DeliverFailed(ThisTx)
    /\ UNCHANGED <<phase, halt, height, blockVersion, validators, curr, admin,
                   head, ledger, rules, tmVars, resp>>

-----------------------------------------------------------------------------
(***************************************************************************)
(* EndBlock: at an epoch's end the next table becomes the current one, and *)
(* the waits that are over are dropped from the next one only; then the    *)
(* validators are chosen and the difference is sent to Tendermint, which   *)
(* refuses to remove a stranger and to be left without validators.         *)
(***************************************************************************)
\* Mutants: the waits that are over are dropped before the switch; no switch.
DropThenSwitch ==
    IF IsEpochEnd(height) THEN TryRemoveUnbondPosItems(next, height) ELSE curr
NeverSwitch == curr

EpochTable == IF IsEpochEnd(height) THEN next ELSE curr

\* Mutants: no removals; removals computed from the table, not from the map.
UpdatesNoRemovals(selected) == [add |-> selected, del |-> {}, authItems |-> {}]
UpdatesFromTable(selected) ==
    [add |-> selected, del |-> Bonded(curr) \ selected, authItems |-> {}]

\* getAuthTmItems: the changes Tendermint's own table of peers has to follow.
AuthItems == IF blockVersion >= 5 THEN authChanged ELSE {}

Updates(selected) ==
    [add |-> selected, del |-> validators \ selected, authItems |-> AuthItems]

TmNext(u) == (tm.next \ u.del) \cup u.add

TmVerdict(u) == IF ~(u.del \subseteq tm.next) THEN "tmReject"
                ELSE IF TmNext(u) = {} THEN "tmEmpty"
                ELSE "none"

\* WriteChainConfig: the configuration in the database, at once and for good.
RulesAfter(h) ==
    IF IsEpochEnd(h) /\ h = HeightArray[4] THEN "constantinople" ELSE rules

EndBlock ==
    /\ phase = "block" /\ Len(work.results) = Len(CurrentBlock.txs)
    /\ CanUpdate(EpochTable, blockVersion, CurrentBlock.seed, height)
    /\ curr' = EpochTable
    /\ next' = IF IsEpochEnd(height) THEN TryRemoveUnbondPosItems(next, height) ELSE next
    /\ LET selected == GetUpdatedValidators(EpochTable, blockVersion, CurrentBlock.seed, height)
           replayed == height <= tmHeight
       IN  /\ validators' = selected
           /\ resp' = IF replayed THEN resp ELSE Updates(selected)
           /\ halt' = IF replayed THEN "none" ELSE TmVerdict(Updates(selected))
    /\ phase' = IF halt' = "none" THEN "ended" ELSE "halted"
    /\ admin' = AdminAfter(admin, height)
    /\ authChanged' = {}
    /\ rules' = RulesAfter(height)
    /\ UNCHANGED <<height, blockVersion, changed, auth, work, head, ledger, tmVars>>

\* EndBlock when the selection panics on an empty table or never ends.
EndBlockStuck ==
    /\ phase = "block" /\ Len(work.results) = Len(CurrentBlock.txs)
    /\ ~CanUpdate(EpochTable, blockVersion, CurrentBlock.seed, height)
    /\ phase' = "halted" /\ halt' = "select"
    /\ UNCHANGED <<memVars, work, head, ledger, rules, tmVars, resp>>

-----------------------------------------------------------------------------
(***************************************************************************)
(* Commit: pay the voters, persist the strategy, write the Ethereum block. *)
(* On a replayed block Tendermint compares the app hash with the one the   *)
(* chain has agreed on, and stops for good if they differ.                 *)
(***************************************************************************)
AccumulateRewardsPanics(t, version, votes) == version < 4 /\ ~(votes \subseteq Known(t))

Rewarded(version, votes) == IF version >= 4 THEN {} ELSE votes

CommittedState ==
    SetPersistenceData([work EXCEPT !.paid = Rewarded(blockVersion, CurrentBlock.votes)],
                       height, blockVersion, validators, curr, next, changed, auth)

\* Mutant: the written block does not become the current one.
WriteSideBlock ==
    /\ phase' = "idle" /\ halt' = "none"
    /\ head' = head
    /\ ledger' = [h \in DOMAIN ledger \cup {height} |->
                    IF h = height THEN CommittedState ELSE ledger[h]]

WriteBlock ==
    /\ phase' = "idle" /\ halt' = "none"
    /\ head' = height
    /\ ledger' = [h \in DOMAIN ledger \cup {height} |->
                    IF h = height THEN CommittedState ELSE ledger[h]]

\* The next block is built on the state just committed.
ResetWorkState == work' = CommittedState

Commit ==
    /\ phase = "ended"
    /\ IF AccumulateRewardsPanics(curr, blockVersion, CurrentBlock.votes)
       THEN phase' = "halted" /\ halt' = "reward" /\ UNCHANGED <<work, head, ledger>>
       ELSE IF height \in DOMAIN ledger /\ ledger[height] # CommittedState
       THEN phase' = "halted" /\ halt' = "appHash" /\ UNCHANGED <<work, head, ledger>>
       ELSE WriteBlock /\ ResetWorkState
    /\ UNCHANGED <<memVars, rules, tmVars, resp>>

\* Tendermint saves its state: the validator sets move up one height.  What no
\* crash can need again is forgotten.
Recent(h) == h + MaxLag >= tmHeight + 1

SaveState ==
    /\ phase = "idle" /\ head = tmHeight + 1
    /\ tmHeight' = tmHeight + 1
    /\ tm' = [last |-> tm.cur, cur |-> tm.next, next |-> TmNext(resp),
              past |-> tm.past \cup TmNext(resp)]
    /\ resp' = [add |-> {}, del |-> {}, authItems |-> {}]
    /\ ledger' = [h \in {g \in DOMAIN ledger : Recent(g)} |-> ledger[h]]
    /\ store' = [h \in {g \in DOMAIN store : Recent(g)} |-> store[h]]
    /\ UNCHANGED <<phase, halt, memVars, work, head, rules>>

-----------------------------------------------------------------------------
\* Mutant: the items that wait for their release are left out.
WhitelistBonded == auth \cup Bonded(next)

\* Query "/p2p/whitelist": the peers Tendermint may connect to, from the table of
\* the next epoch and the authorisations.
Whitelist == auth \cup Bonded(next) \cup Unbonding(next)

-----------------------------------------------------------------------------
\* The process dies, or is restarted after it stopped.
Crash ==
    /\ phase # "down"
    /\ phase' = "down" /\ halt' = "none"
    /\ NewStrategy
    /\ work' = EmptyState
    /\ head' \in {h \in DOMAIN ledger \cup {0} : h <= head /\ h + MaxLag >= tmHeight}
    /\ UNCHANGED <<ledger, rules, tmVars, resp>>

Next ==
    \/ Start \/ InitChain
    \/ Decide \/ BeginBlock \/ DeliverTx \/ EndBlock \/ EndBlockStuck
    \/ Commit \/ SaveState
    \/ Crash

Spec == Init /\ [][Next]_vars

\* Tendermint drives the application through the handshake and the block cycle
\* without waiting for anybody; deciding a block and crashing are not promised.
Progress ==
    \/ Start \/ InitChain
    \/ BeginBlock \/ DeliverTx \/ EndBlock \/ EndBlockStuck
    \/ Commit \/ SaveState

FairSpec == Spec /\ WF_vars(Progress)

-----------------------------------------------------------------------------
TypeOK ==
    /\ phase \in Phases /\ halt \in Halts
    /\ height \in Nat /\ blockVersion \in Nat /\ validators \in SUBSET Signers
    /\ curr \in Table /\ next \in Table /\ changed \in BOOLEAN
    /\ auth \in SUBSET Signers /\ authChanged \in SUBSET Signers
    /\ admin \in Admins \cup {"unset"}
    /\ work \in WorkState
    /\ head \in Nat /\ tmHeight \in Nat /\ rules \in Rules
    /\ DOMAIN ledger \subseteq Nat \ {0} /\ \A h \in DOMAIN ledger : ledger[h] \in WorkState
    /\ DOMAIN store \subseteq Nat \ {0} /\ \A h \in DOMAIN store : store[h] \in Block
    /\ tm \in [last : SUBSET Signers, cur : SUBSET Signers, next : SUBSET Signers,
               past : SUBSET Signers]
    /\ resp \in [add : SUBSET Signers, del : SUBSET Signers, authItems : SUBSET Signers]

\* After every Commit, what a restart would load is what the node has in
\* memory: nothing the strategy remembers from block to block is lost because
\* a write was skipped (InitPersistData reads back SetPersistenceData).
RestartTransparent ==
    phase = "idle" /\ head > 0 =>
        LET w == ledger[head] IN
        /\ height = head /\ w.height = head
        /\ validators = w.validators
        /\ curr = w.curr /\ next = w.next
        /\ auth = w.auth

\* A block executed again after a crash, by a restarted node, has the app hash
\* it had the first time.
ReplayAgrees == halt # "appHash"

\* The Validators map is Tendermint's set two heights ahead, except for genesis
\* validators that InitChain ignored: only their removal was never requested.
ValidatorsTracked ==
    phase = "idle" /\ head = tmHeight =>
        /\ validators \subseteq tm.next
        /\ tm.next \ validators \subseteq Ignored

\* Tendermint never has to refuse an update that removes a stranger.
UpdatesAccepted == halt # "tmReject"

\* accumulateRewards finds the signer of every vote, also of a validator that
\* was unbonded, and of one whose epoch ended between its vote and its reward.
RewardsFound == halt # "reward"

\* A signer that unbonded or was punished is out of the validator set from the
\* first epoch end on, also when its wait is over and the table has forgotten it:
\* a validator is bonded, or has unbonded since the last epoch end.
LastEpochEnd(h) == h - (h % EpochBlocks)
UnbondedLeave ==
    phase = "idle" /\ head = tmHeight /\ head > 0 =>
        \A s \in tm.next \ Ignored :
            s \in Bonded(next) \/ next.unbondAt[s] > LastEpochEnd(head)

\* Whoever is in office may connect: the whitelist is made from the table of the
\* next epoch, while the validators come from the current one and stay for two
\* more heights, also those who unbonded or were punished.  Needs a wait of at
\* least an epoch.
PeersWhitelisted ==
    phase = "idle" /\ head = tmHeight /\ head > 0 =>
        (tm.cur \cup tm.next) \ Ignored \subseteq Whitelist

\* If crashes end, the node executes all that Tendermint has stored, again and
\* again, or stops: no restart leaves it in front of a block it never finishes.
Synced == phase = "idle" /\ head = tmHeight /\ (tmHeight + 1) \notin DOMAIN store
CatchesUp == <>[][~Crash]_vars => []<>(Synced \/ phase = "halted")
-----------------------------------------------------------------------------
(***************************************************************************)
(* The inductive invariant behind RestartTransparent, ValidatorsTracked    *)
(* and UpdatesAccepted.                                                    *)
(***************************************************************************)
\* The state InitChain leaves, and the state after a height of the chain.
GenesisState ==
    SetPersistenceData(EmptyState, 0, 0, GenesisValidators \ Ignored, InitialTable,
                       InitialTable, TRUE, {})
StateOf(h) == IF h = 0 THEN GenesisState ELSE ledger[h]

\* Chain, stored blocks and Tendermint's height are never more than a block apart.
Chain ==
    /\ head > 0 => head \in DOMAIN ledger
    /\ tmHeight > 0 => tmHeight \in DOMAIN ledger
    /\ head <= tmHeight + 1
    /\ \A h \in DOMAIN ledger : ledger[h].height = h
    /\ \A h \in DOMAIN store : h <= tmHeight + 1
    /\ phase \in {"block", "ended"} => height = head + 1 /\ height \in DOMAIN store
    /\ phase = "fresh" => head = 0

\* What memory and the work state have in common, at each point of a block:
\* they differ only where a flag says that Commit will write.
Unsaved(w) == ~changed /\ (next # w.next \/ auth # w.auth)
Memory ==
    /\ phase = "fresh" =>
          work = EmptyState /\ height = 0 /\ blockVersion = 0 /\ auth = {}
    /\ phase = "idle" =>
          /\ height = head /\ work = StateOf(head)
          /\ validators = work.validators
          /\ curr = work.curr /\ next = work.next /\ auth = work.auth
    /\ phase = "block" =>
          /\ validators = StateOf(head).validators
          /\ curr = work.curr /\ ~Unsaved(work)
    /\ phase = "ended" => IsEpochEnd(height) \/ (curr = work.curr /\ ~Unsaved(work))
    /\ phase \in {"block", "ended"} /\ blockVersion < 4 => auth = work.auth

\* Tendermint's set two heights ahead follows the validators of the chain.
Follows(tmSet, vals) == vals \subseteq tmSet /\ tmSet \ vals \subseteq Ignored
Tracking ==
    /\ Follows(tm.next, StateOf(tmHeight).validators)
    /\ head = tmHeight + 1 => Follows(TmNext(resp), StateOf(head).validators)
    /\ phase = "ended" /\ height = tmHeight + 1 => Follows(TmNext(resp), validators)
    /\ halt # "tmReject"

\* Between any two calls of Tendermint, chain, memory and Tendermint fit together.
Coherent == Chain /\ Memory /\ Tracking

-----------------------------------------------------------------------------
(***************************************************************************)
(* The inductive invariants behind UnbondedLeave, PeersWhitelisted and     *)
(* RewardsFound: what the tables know of those who are in office.          *)
(***************************************************************************)
\* Whoever is bonded in the table of the epoch is bonded in the next one, too, or
\* has unbonded since the epoch began.
Serving(c, n, began) == \A s \in Bonded(c) : s \in Bonded(n) \/ n.unbondAt[s] > began

\* Every state of the chain takes its validators from its table of the epoch.
Seated ==
    /\ \A h \in DOMAIN ledger \cup {0} :
          /\ StateOf(h).validators \subseteq Bonded(StateOf(h).curr)
          /\ Serving(StateOf(h).curr, StateOf(h).next, LastEpochEnd(h))
    /\ phase = "block" => Serving(curr, next, LastEpochEnd(head))
    /\ phase = "ended" =>
          /\ validators \subseteq Bonded(curr)
          /\ Serving(curr, next, LastEpochEnd(height))

\* A block adds to what the next table knows, and only an epoch's end changes the
\* current one, and takes it from the next.
Succeeds(w, c, h) ==
    IF IsEpochEnd(h) THEN Known(w.next) \subseteq Known(c) ELSE c = w.curr
Successive ==
    /\ phase = "block" =>
          curr = StateOf(head).curr /\ Known(StateOf(head).next) \subseteq Known(next)
    /\ phase = "ended" => Succeeds(StateOf(head), curr, height)
    /\ head = tmHeight + 1 => Succeeds(StateOf(tmHeight), StateOf(head).curr, head)

\* With a wait of at least an epoch, whoever was in office before a block is still
\* known to the next table after it.
LongWait == UnbondWait >= EpochBlocks
Remembered ==
    /\ tm.cur \ Ignored \subseteq Known(StateOf(tmHeight).next)
    /\ phase = "ended" => StateOf(head).validators \subseteq Known(next)
    /\ head = tmHeight + 1 => StateOf(tmHeight).validators \subseteq Known(StateOf(head).next)

\* In epochs of three blocks or more, the validators of the last three heights are
\* known to the table of the epoch; they are bonded there, unless an epoch has ended
\* since they were chosen.
LongEpochs == EpochBlocks >= 3
InOffice ==
    LET c == StateOf(tmHeight).curr IN
    /\ tm.cur \ Ignored \subseteq IF IsEpochEnd(tmHeight) THEN Known(c) ELSE Bonded(c)
    /\ tm.last \ Ignored \subseteq
          IF IsEpochEnd(tmHeight) \/ IsEpochEnd(tmHeight - 1)
          THEN Known(c) ELSE Bonded(c)
    /\ tmHeight + 1 \in DOMAIN store => store[tmHeight + 1].votes \subseteq tm.last
=============================================================================
