# A TLA+ model of dtfn

dtfn runs an Ethereum state machine as an ABCI application of Tendermint.
Tendermint agrees on blocks; the application executes their transactions,
keeps the table of bonded validators, chooses the next validators and writes an
Ethereum block per height. This directory holds TLA+ modules for the parts that
carry that logic, TLC configurations that check them on small instances, and
TLAPS proofs. Line numbers are in `PROJECT.json`, which maps every definition
that models code.

## 1. Inventory

| Component | State | Operations | Talks to |
|---|---|---|---|
| ABCI application (`app/app.go`, `app/utils.go`) | check state, cache of recovered senders, counters of `HFExpectedData` | `Info`, `InitChain`, `CheckTx`, `BeginBlock`, `DeliverTx`, `EndBlock`, `Commit`, `InitPersistData`, `SetPersistenceData` | called by Tendermint, under the local client's mutex; calls strategy, backend, punishment |
| Strategy (`types/strategy.go`) | `CurrentHeightValData` (height, votes, `Validators`), the tables of the current and the next epoch, `AuthTable`, `HFExpectedData` | `GetUpdatedValidators`, `enterSelectValidators`, `blsValidators`, `Receiver`, `InitialValidators` | read and written by every handler |
| Bonding tables (`txfilter`, in the go-ethereum fork) | items, unbonding items, address map, changed flag | insert, remove, release, selection by seed or height, top-k | changed by transactions inside the EVM's `ApplyTransaction` |
| Ethereum work state (`ethereum/eth_state.go`) | state trie, header, receipts, gas pool, logs | `DeliverTx`, `AccumulateRewards`, `Commit`, `ResetWorkState`, `UpdateHeaderWithTimeInfo`, `Pending` | called under the local client's mutex; its own is never contended |
| Punishment (`app/punishment.go`) | the receiver of fines | `DoPunish`: unbond and fine the signers of evidence | strategy, work state |
| Backend and broadcast (`ethereum/backend.go`, `ethereum/txs.go`) | pool subscription, `currentTxInfo`, cached transaction infos | loop from the pool to Tendermint's mempool, local checks, `Stop` | own goroutine, the pool's locks |
| Start-up (`cmd/dtfn/dtfn.go`, `cmd/utils`) | flags, rollback height | build the application, cut the Ethereum chain by `SetHead`, load the strategy, start Tendermint, which cuts its own store | all of the above |
| Fork schedule (`version/`) | `HeightArray`, `VersionArray` | `InitConfig`, version lookup | strategy, application, work state |
| HTTP server (`httpserver/`) | none | JSON views of the strategy | nothing starts it |
| Account map, genesis files, command line, unused strategies | files | read and write | start-up |

**What is hard here.**
1. *Partial persistence.* `SetPersistenceData` writes the validators at every
   height, the next epoch's table and the authorisations only if a flag says
   they changed or an epoch ends, the current table only at an epoch's end. A
   restart reads all of them back. One missed write and a restarted node
   diverges from the others.
2. *Restart and replay.* The Ethereum chain and Tendermint's store are separate
   databases. After a crash the chain may be behind, and Tendermint replays
   blocks into a process that has only the persisted state. Everything that a
   handler reads must be derivable from it, including globals
   (`txfilter.PPChainAdmin`, the chain configuration).
3. *Two views of the validator set.* Updates are differences against the
   `Validators` map, applied by Tendermint two heights later, and chosen from
   a table that changes at epoch ends while votes are still arriving from the
   validators before.
4. *The draw loop*, whose end depends on how many signers are bonded.
5. *Transaction admission*, on a check state which blocks replace, with a cache
   that deliveries and rechecks shrink while new checks arrive.
6. *Locks*: the broadcast loop, the pool and the mempool.
7. *Rollback*: two databases cut by two steps of a start-up which has already
   built its work state.
8. *Amounts*: integer division, a bonus that is not persisted, a fine whose
   receiver may be the offender.

**What makes each correct**: the application is a function of the chain (a
restart changes nothing, a replay gives the same app hash); Tendermint can apply
every update, and the two views agree; who unbonded leaves at the next epoch's
end; whoever voted can be paid; a selection ends and its response is exactly the
difference of two sets; a recheck never panics, and the mempool holds
transactions in an order that can run, each covered on its own; after a rollback the chain is an outcome
of Tendermint's blocks; a block issues its bonus and no more, and a fine is lost.

## 2. Modules

| Module | Models |
|---|---|
| `PosTable` | the external bonding table, as operators on a record |
| `Strategy` | `types/strategy.go`, the fork schedule: pure operators |
| `DtfnApp` | the node: application, chain, Tendermint's block cycle, crashes, replay |
| `ChainMachine` | the abstract specification: a state per height, computed from the state before and the block |
| `DtfnRefinement` | `DtfnApp` implements `ChainMachine` |
| `MCDtfnApp` | instances of both |
| `DtfnAppProofs`, `DtfnReplayProofs` | TLAPS theorems about `DtfnApp`, and its refinement of `ChainMachine` |
| `SelectLoop` | `enterSelectValidators` and its powers, one iteration per step |
| `CheckTx`, `MCCheckTx` | `CheckTx`/`validateTx`, the sender cache, rechecks, blocks |
| `TxBroadcast`, `MCTxBroadcast` | the broadcast loop between pool and mempool, `Stop` |
| `Rollback` | start-up with `--rollback_flag`: two databases, crashes in between |
| `Rewards`, `MCRewards` | amounts: fines, the bonus of `Info`, `accumulateRewards` |
| `Mempool` | what stays of Tendermint's list after a block, for `CheckTx` and `TxBroadcast` |
| `Sums`, `SumProofs` | sums over finite sets, and lemmas about them |
| `SelectLoopProofs`, `CheckTxProofs`, `TxBroadcastProofs`, `RollbackProofs`, `RewardsProofs` | TLAPS theorems about the module of the name |

`DtfnApp` extends `Strategy`, which extends `PosTable`. `SelectLoop` shows, step
by step and for every sequence of draws, what `DtfnApp` does in one step.

### DtfnApp and the code

Tendermint's local client serialises ABCI calls with a mutex, so a handler is one
action. `phase` is the place in the block cycle.

* `Start`: `NewEthermintApplication` and `InitPersistData`; with an empty chain
  it leaves a `NewStrategy`, and Tendermint calls `InitChain` next.
* `Decide`: Tendermint stores a block. Votes come from the validators of the
  height before, evidence from validators of any time. (External.)
* `BeginBlock`: the cleared flag, the version for the height, the coinbase from
  `Receiver`, `DoPunish`, in this order.
* `DeliverTx`: one transaction of the block. Of its effects, those on the tables
  are kept: bond, unbond, authorisation, and a contract call whose receipt
  depends on the chain rules. Other transactions change only balances, which the
  model leaves out. `work.results` has an entry per transaction: the status of its
  receipt, or `FALSE` if `ApplyTransactionWithInfo` returned an error. Such a
  transaction leaves no receipt in the code; its entry stands for its absence
  from the block.
* `EndBlock` / `EndBlockStuck`: switch of tables, release of unbonded items,
  selection, administrator, chain configuration, and Tendermint's verdict on the
  updates. The stuck form stands for a draw from an empty table (panic) and a
  loop that does not end.
* `Commit`: reward lookups, `SetPersistenceData`, `WriteBlockWithState`, new work
  state. If the height was committed before, Tendermint compares app hashes.
  The model compares before it writes; in the code the block is written first,
  and then Tendermint stops for good, so nothing reads it.
* `SaveState`: Tendermint saves its state, and its sets move up one height.
  `Crash`: memory is gone, and up to `MaxLag` committed Ethereum blocks.

A committed state *is* its app hash: the record `WorkState` holds what the trie
and the header depend on. `tm.next` is Tendermint's set two heights ahead.
Go's `HeightArray[2]` and `HeightArray[3]` are `HeightArray[3]` and
`HeightArray[4]` in TLA+, whose sequences start at 1.

Abstractions: a signer, its Tendermint address and its beneficiary are one
value; powers are left to `SelectLoop`; balances and gas to `CheckTx`.
Assumptions about `txfilter`, whose code is not here: a bond fails on a known
address, an unbond on an unknown one; both, and an accepted authorisation, set
the flag that `SetPersistenceData` reads; from version 4 on an authorisation is
accepted if it comes from `PPChainAdmin`; unbonded items are released after a
fixed wait.

`Whitelist` is the answer to Tendermint's query `/p2p/whitelist`, which decides with
whom a node may connect; the other queries are views or go to the Ethereum RPC.

### ChainMachine and the refinement

`ChainMachine` says what the network relies on. Its state of a height is
`Apply(state before, decided block, height)`: evidence, transactions (`TxSteps`, one after the
other), epoch end, selection, in one expression. The chain's rules and the administrator are read
off the fork schedule, not remembered. It has three steps: `Decide`, `Execute`,
once per height, and `Save`, by which Tendermint adopts the validators of the new
state. There is no memory, flag, crash or replay.

`DtfnRefinement` maps `saved`, `decided`, `states` and `office` to `tmHeight`,
`store`, `ledger` and `tm.next`. A crash, a restart, and the second execution of a
block after it are stuttering steps: the mapping holds only if they lead to
nothing new. `ImplementsMachine` is stronger than `ReplayAgrees`, which compares a
node with itself: a node that computes the same wrong state twice passes the one
and not the other. Both sides use the operators of `Strategy` and `PosTable`, so
the refinement is about *when and on what* they are applied, what is written, and
what a restart brings back. It does not hold under the schedules of the
findings in section 4.

### SelectLoop and the code

`Draw` is an iteration of either `for`; `Remove` an entry of the `range` over the
`Validators` map, in any order. `index` is `selectedValidators`, from signer to
position. The counter of the second loop is kept modulo `DrawWrap` (only
equality with the end matters there: the length of the slice decides), and powers
stop at `MaxPower`.

### CheckTx and the code

`check` is `checkTxState`, `work` the state of the block being executed, `cached`
the cache of senders. `CheckTxNew` may come between any two deliveries.
After `Commit` Tendermint locks the mempool and rechecks what is left
(`Recheck`). Gas is one unit a transaction. A refused transaction changes
nothing, so it is not an action; filters of `txfilter` may refuse any recheck.
`FundsCovered` says that every pending transaction is covered by what its payer has after the
debits and credits of those before it, as `validateTx` makes them. It holds of a plain transfer too,
but not of several transfers of one account together, since none of them is debited (section 4).
A transaction refused near the end of a full block for want of gas changes nothing, and no
property is about it. The instance has a transfer
between the two accounts, so that what one receives pays for what it sends.

### TxBroadcast and the code

The loop's program counter follows `txBroadcastLoop`: `WaitForServer`,
`HandleJournalTxs`, then for each event `ReceiveEvent` (which sets
`currentTxInfo`), `BroadcastTx` (the local check, under the mempool's lock) and
`EndBroadcast` (the answer, and `go RemoveTx` if it failed). Around it are
submitters, which may hold the pool's lock while they wait, peers, and consensus,
which holds the mempool's lock from a block to the end of the rechecks and then
calls `RemoveTxs`. Pool and mempool are forks; whether each keeps its lock while it
calls out is the input `Designs`. The runs take the two designs in which exactly
one does. If both do, a submitter, the loop and consensus wait in a circle: the
forks must not be built that way. `Stop` is called by a `defer` of the command,
which returns only when Tendermint's node cannot be created or started; every
normal end of the process is a crash in the sense of `DtfnApp`.

### Rollback and the code

The actions are the steps of `ethermintCmd` in their order: `NewEthermintApplication`
builds the work state on the chain's head, `WhetherRollbackEthApp` cuts the chain,
`InitPersistData` loads the strategy from the work state, `TmRollback` (in the
Tendermint fork, which is given the same flag and height) cuts the store, and
`Handshake` compares. Payloads stand for blocks; the sequence of payloads that led
to a state stands for the state and for its hash. `work.parent` is the block
that the work state was built on; `work.done` what was executed on it since.
A commit whose parent is gone is refused by `WriteBlockWithState`
(external: go-ethereum does not write a block with an unknown ancestor); `Commit` then
returns the empty hash, and Tendermint goes on with it if all validators do
(`Decide`), or stops if others have a real one (`Refused`). At height 0 Tendermint
calls `InitChain`, which needs the account map that the command only sets when
nothing was loaded.

### Rewards and the code

`Info` sets `minorBonus` in every handshake; nothing else does. `BeginBlock` fines the
signers of its evidence one after the other (`DoPunish`, a `Fine` each). The whole balance goes to the zero
address: the assertion for `TransferStrategy` in `DoPunish` fails on the pointer that
`NewEthermintApplication` installs. `Commit` pays: nothing from version 4 on; else,
above `SwitchHeight` (3588000), the bonus to the coinbase, and in any case each
voter's share, rounded before it is multiplied, and not multiplied below version 3.
Which accounts are found is `DtfnApp`'s concern.

## 3. Runs

| Run | Expect | Question |
|---|---|---|
| `early` | pass | versions 1 and 2, three validators, rewards, bonds, unbonds, evidence, two epoch ends, a crash at any point that loses a block: eight invariants, the inductive one included, and the refinement |
| `forks` | pass | versions 2 to 6, both special fork heights at epoch ends, seeds, authorisations: restart, replay, unbonding, the whitelist, and the refinement |
| `catchup` | pass | a genesis validator that `InitChain` skips and that may bond later; crashes that lose two blocks: does tracking survive, and does the node finish what is stored? |
| `rollback` | pass | every rollback height, crashes between any two start-up steps, restarts with and without the flag: is the chain always an outcome of Tendermint's blocks, and never ahead of them? |
| `rewards` | pass | repeated evidence, an offender that proposes, transfers, versions 2 to 4, both sides of the switch, restarts: conservation, fines that stick, exact shares, the bonus known |
| `select` | pass | both loops, every table, previous set and count: exact response, no duplicates, powers, termination |
| `checktx` | pass | competing nonces, a shared payer, a transfer, blocks of other proposers, rechecks |
| `broadcast` | pass | submitters, journal, peers, blocks, rechecks: cached infos, order, every submitter answered, what was refused leaves the pool |
| `rules` | violation | replay of the block of `HeightArray[3]` |
| `rollback_state` | violation | the claim that a rollback rolls back the state |
| `inflation` | violation | the claim of 1% a year, above the switch |
| `select_short` | violation | at most four bonded signers with the default select count |

**Bounds.** Three signers are the fewest with one that stays, one that leaves and
one that joins. `EpochBlocks` is 3, so that an epoch has a first, a middle and a
last block; heights go to the second epoch end and two blocks beyond, since an
update takes effect two heights later. `BusyHeights` places transactions and
evidence before, at and after an epoch's end; one per block is enough because a
block's transactions act one after the other and the flag is sticky.
`UnbondWait` is 1 in `early`, where an item is released at the next epoch end, and 3
in `forks`, where it outlives one. `MaxLag = 1` loses the last block, and `catchup` loses two.
`PeersWhitelisted` needs `UnbondWait >= EpochBlocks`, as in `forks`: with a shorter wait an
item may be released at the epoch end that takes its signer out of the set, two
heights before it leaves. `MaxAbsent = 0`:
absent votes only make `RewardsFound` easier. `MaxDraws = 6` is twice the signers,
which covers every draw sequence of `MCSeedValue`.
In `TxBroadcast` a journalled transaction, two submissions and two
transactions give a submitter that holds the lock, one in the channel and one that
is refused; `Capacity` holds all of them, as 50000 does in the code. Selection takes 1 or 2 of 3, so
both full and partial sets occur.
`Rollback` has two payloads, so that a branch decided after a rollback can differ from
the deleted one, and three heights, so that a rollback can leave a block before and
delete two. In `Rewards` a year has two blocks and the bonus (5 and 10) leaves a
remainder for the powers 2 + 1 and 3; versions and switch come in the order of the
production network, which has version 3 from 1300000 on and version 4 from 3623000.

**Fairness.** `catchup` assumes weak fairness of `Progress`: Tendermint drives
handshake, replay and block cycle on one goroutine without waiting for a peer.
Deciding a block and crashing are not promised; the property speaks of behaviours
in which crashes end. `select` assumes that the goroutine runs (WF) and that a
random generator does not for ever avoid a signer of the table (SF of each
draw). Without a seed the draws walk through the table, which is stronger.
`broadcast` assumes that goroutines run, and that one waiting for a Go mutex gets it
in the end (SF): the mutex serves a waiter of more than a millisecond first.
Submitters, peers and blocks are not promised.

**Deadlock** is checked in every run: a node at its last height can still crash and restart,
and the last steps of `SelectLoop` and of a stopped `TxBroadcast` stutter.

**Mutants.** Each property of a passing run has a mutant of a mapped definition
that breaks it: a write skipped at the epoch's end, an unbond that does not set the
flag, removals taken from the table, a block that does not become the head, a
draw too many, a recheck that empties the cache, a block written on a deleted parent,
a bonus divided by heads and not by powers, and so on. They are
defined next to what they mutate, marked "Mutant".

## 4. What the runs found

1. **`select_short`**: from version 2 on, `enterSelectValidators` draws until
   `selectCount` different signers came up. With fewer bonded signers than that
   `EndBlock` never returns, on every node at the same height. The default count
   is 7, and a table that small only prints a message.
2. **`rules`**: `EndBlock` at `HeightArray[3]` writes the Constantinople
   configuration, for block 0 on, before the block is committed. A node that has
   to replay this block runs its calls under the new rules.
3. **`rollback_state`**: the chain is cut after the work state, the check state
   and, through them, the strategy were taken from the old head. Every commit then
   fails on a deleted parent and returns an empty hash. `rollback` shows that nothing
   wrong is written meanwhile, and the model that a second start finds
   everything in order if no empty hash was saved. After a rollback to height 0
   `InitChain` has no account map.
4. **`inflation`**: above height 3588000 each block issues four times the bonus of
   1% a year: the divisor is halved, which doubles the bonus, and it is paid twice.

Seen on the way, without a run:
* A live node sets `PPChainAdmin` at `HeightArray[2]` only if this is an epoch end; a
  restarted one always. With the default heights (40 in an epoch of 200) they can
  judge authorisations differently; how depends on the initial value in the
  `txfilter` fork.
* A genesis validator that `InitChain` refuses is never removed from Tendermint's
  set, against the comment there (`app.go:187-191`); below version 4 its first vote
  makes `accumulateRewards` panic.
* Plain transfers are not debited in the check state, so a sender's pending transfers
  are each checked against its whole balance (`app.go:758`).
* Fines go to the zero address and not to the proposer (`punishment.go:87`).
* `Backend.Stop` unsubscribes `txSub`, which nothing assigns, a nil pointer when the
  Tendermint node cannot be created or started.

The runs that pass say that these are the exceptions: with the special heights at
epoch ends and calls elsewhere (`forks`), or before them (`early`), restart and
replay are invisible and the node implements the abstract machine.

## 5. Proofs

Every invariant that a run checks, and the refinement, is also a theorem that TLAPS checks:
for all sets of signers, accounts and transactions, all schedules, tables, draws, bounds and
numbers of crashes. The proofs rest on the modules' named assumptions (types of the constants,
finiteness of `Accounts`, `IsInjective(Journal)`: the journal lists no transaction twice; some genesis
validator can pay), which TLC evaluates in every run, and on the hypotheses named below.
None of the properties is inductive; the invariant that makes it so is given with it, and is
defined at the end of the component's module, where TLC can check it.

### The node: `DtfnAppProofs`

| Theorem | States | Hypothesis |
|---|---|---|
| `TypeCorrect`, `Coherence` | `TypeOK`, `Coherent` | |
| `RestartLosesNothing` | `RestartTransparent` | |
| `ValidatorsAreTracked`, `UpdatesAreAccepted` | `ValidatorsTracked`, `UpdatesAccepted` | |
| `SeatsAccounted` | `Seated /\ Successive` | |
| `UnbondedAreOut` | `UnbondedLeave` | |
| `OfficeIsWhitelisted` | `PeersWhitelisted` | `LongWait`: `UnbondWait >= EpochBlocks` |
| `VotersStayKnown` | `InOffice` | `LongEpochs`: `EpochBlocks >= 3` |

`Coherent` consists of:
* `Chain`: how far apart chain head, stored blocks and Tendermint's height can be,
  and that the chain has a state for each of them: a crash moves `head` back, so
  this must speak of every state in `ledger`;
* `Memory`: what memory and the open work state share at *each* phase. Between
  blocks they agree. Inside a block the tables may differ only if the flag is
  set (`~Unsaved`), or, after `EndBlock`, if the height is an epoch's end.
  Below version 4 the authorisations never change. That is exactly the
  condition under which `SetPersistenceData` writes;
* `Tracking`: Tendermint's set two heights ahead contains the validators of the
  state at Tendermint's height, and more only by ignored genesis validators; the
  same with the saved response applied, for the block between `Commit` and
  `SaveState`. A replayed block leaves this alone.

`Seated` says of every state on the chain, and of the open block, that its validators are bonded in
its current table, and that whoever is bonded there is bonded in the next table too, or has unbonded
since the epoch began. `Successive` says how a block may change the tables: the next one forgets
nobody before an epoch's end, and only an epoch's end changes the current one. From `Seated`
follows that who unbonded is gone after the epoch's end. `Remembered` and `InOffice` carry
the last sets of Tendermint: who is in office, or may still vote, was chosen up to three
heights ago, perhaps from the table of an earlier epoch. This is where the two hypotheses are needed.
An epoch has 200 blocks by default; the wait is a constant of the `txfilter` fork.

### Replay and the refinement: `DtfnReplayProofs`

| Theorem | States | Hypotheses |
|---|---|---|
| `ChainIsDetermined` | `Replayable` | `ForkSchedule` |
| `ReplaysAgree` | `ReplayAgrees` | `ForkSchedule` |
| `NodeImplementsMachine` | `ImplementsMachine` | `ForkSchedule` |
| `RewardsAreFound` | `RewardsFound` | `ForkSchedule`, `LongEpochs`, `Ignored = {}` |

`ForkSchedule` is the condition that separates the runs `early` and `forks`, whose constants
satisfy it, from finding 2 and the first remark of section 4: the fork heights are in order, and versions
above 4 begin at the fourth; that height, which changes the chain's rules, is an epoch's end, and no contract
call is in its block or in one before it that a crash can lose with it; the third height, which sets the
administrator, is an epoch's end before the first authorisation, or authorisations begin only
after the fourth. The default heights satisfy the last part only in its second form.
`Replayable` says that every `ledger[h]` is `Apply` of its predecessor and the stored block, that a block in
progress is where the abstract machine is after as many transactions, that the globals which are not
in the state (rules, administrator) are those of the height, and that chain and store keep what a crash can lead back to. The refinement is then one lemma per
action: `Decide`, the first `Commit` of a height and `SaveState` are steps of `ChainMachine`,
everything else, crashes and replays included, is a stuttering step. `Ignored = {}` is needed
because a genesis validator which `InitChain` refused votes without being in the table (section 4).

### The other components

* **`SelectLoopProofs`**: `UpdatesAreDistinct`, `SelectionIsExact`, from `SelectionConsistent`:
  slice and index point at each other, and whoever left the map has its removal in the slice,
  at every iteration and in every order of the `range`. `PowersAreDraws`, from
  `DrawsCounted`: the powers add up to the draws so far. Its hypothesis `Uncapped` says that the
  bound `MaxPower`, which the code does not have, stops no power; the run's constants satisfy it.
* **`RollbackProofs`**: `AppIsNotAhead`, `ChainIsOfStore`, `StrategyIsOfChain`, from
  `RollbackSound`: the distances of chain, hashes and store at every step of the start-up
  (`Distances`), and that a work state whose parent was cut off never finds it at
  the head again, because its chain would have to be shorter than what it executed (`WorkOfChain`).
* **`CheckTxProofs`**: `SenderIsCached`, `MempoolIsRunnable`, from `AdmissionHolds`: the check
  state's nonces are the committed ones plus the mempool's transactions of each sender, no transaction
  is twice in the mempool and in what is rechecked, and what is not cached was delivered by
  the current block. `FundsAreCovered`, from `AccountsAreSolvent`: the check state is the
  committed one less what the mempool owes plus what it brings, and no balance is below zero, so that what a check finds is what the transactions before it left.
* **`TxBroadcastProofs`**: `MempoolIsCached`, `OrderIsPreserved`, from `BroadcastOrderly`:
  rechecks happen under the mempool's lock, and mempool, rechecks, the loop's event and the channel
  form one line of tickets, for every combination of the two designs.
* **`RewardsProofs`**: `BonusIsKnown`, `BlocksConserve`, `FinesStick`, `SharesAreExact`, from
  `RewardsAccounted`: the bonus is there from `Info` on, and the work state starts from the committed
  one (`Ready`). The argument is arithmetic: rounded shares, times powers, stay below the bonus and miss it
  by less than the divisor.
* **`SumProofs`**: what these need about sums over finite sets (taking one term out, adding two
  sums, order, changing one term, splitting by class).

Each component's `TypeOK` is a theorem too. The induction theorems of the library cannot be used by the
installed provers, so the recursive functions (the fold behind `Sum`, `DoPunish`, `TxSteps`) are shown
to be well defined, and to have their properties, by a least counterexample: `SmallestSubset` and
`SmallestNumber` give a smallest set or number where it fails, and a step leads to a smaller one.
`Mempool.Selection` is written as a set with one member instead of `SelectSeq`, which the
provers cannot expand.

**Only model-checked**: `CatchesUp`, `EndsIfEnough`, `EveryoneAnswered` and `RefusedLeave`. They are
liveness properties under fairness, out of the prover's reach. The four findings are runs with
a violation.

## 6. Not modelled

Files, flags, keys, logging, JSON formatting and the RPC shim hold no logic of their
own. The EVM, the pool and `txfilter` are in other repositories. `strategies/` has no
caller, and neither have the HTTP server (`StartHttpServer`) and `EthState.Pending`:
nothing reads the work state beside the ABCI calls, which are serialised, so the mutex
of `EthState` needs no model. The extended authorisation table only mirrors the
authorisations for Tendermint's peer filter. `SetFlowLimit` only slows submitters down.
`FixedAmountStrategy` and `BurnStrategy` are used by tests only.

## 7. Plan

Every safety property of the runs is proved. What could follow:

1. `ReplayAgrees` and the refinement under a weaker schedule, which would show which of the
   conjuncts of `ForkSchedule` an operator has to keep to and which are convenient for the proof.
2. Action properties as theorems: a committed state never changes, `tm` moves only in `SaveState`.
3. A theorem that joins the components: what `SelectLoop` returns is the selection `DtfnApp` makes in one step.
