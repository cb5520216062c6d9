--------------------------- MODULE DtfnAppProofs ---------------------------
(***************************************************************************)
(* Theorems about DtfnApp, for every set of signers, every epoch length,   *)
(* fork schedule and bound.                                                *)
(***************************************************************************)
EXTENDS DtfnApp, TLAPS, SequenceTheorems, WellFoundedInduction

-----------------------------------------------------------------------------
(* The operators of PosTable and Strategy. *)

\* Every operation on a table leaves a table.
LEMMA TableOps ==
    ASSUME NEW t \in Table
    PROVE  /\ CreatePosTable \in Table
           /\ InitialTable \in Table
           /\ \A s \in Signers, n \in Nat : InsertPosItem(t, s, n) \in Table
           /\ \A s \in Signers, h \in Nat : RemovePosItem(t, s, h, FALSE) \in Table
           /\ \A S \in SUBSET Signers, h \in Nat : SlashAll(t, S, h) \in Table
           /\ \A h \in Nat : TryRemoveUnbondPosItems(t, h) \in Table
<1>1. CreatePosTable \in Table
  BY DEF CreatePosTable, Table
<1>2. InitialTable \in Table
  BY <1>1, AppAssumption DEF InitialTable, CreatePosTable, Table
<1>3. \A s \in Signers, n \in Nat : InsertPosItem(t, s, n) \in Table
  BY DEF InsertPosItem, Table
<1>4. \A s \in Signers, h \in Nat : RemovePosItem(t, s, h, FALSE) \in Table
  BY DEF RemovePosItem, Table
<1>5. \A S \in SUBSET Signers, h \in Nat : SlashAll(t, S, h) \in Table
  BY DEF SlashAll, Table
<1>6. \A h \in Nat : TryRemoveUnbondPosItems(t, h) \in Table
  BY DEF TryRemoveUnbondPosItems, Table
<1> QED BY <1>1, <1>2, <1>3, <1>4, <1>5, <1>6

\* Of the forks a height has passed, one is the last.
Passed(h) == {i \in 1..Len(HeightArray) : h >= HeightArray[i]}
LastPassed(h) == CHOOSE i \in Passed(h) : \A j \in Passed(h) : j <= i

LEMMA LastForkExists ==
    ASSUME NEW h \in Nat, Passed(h) # {}
    PROVE  LastPassed(h) \in Passed(h) /\ \A j \in Passed(h) : j <= LastPassed(h)
<1> DEFINE T == {Len(HeightArray) - i : i \in Passed(h)}
           R == OpToRel(<, Nat)
<1>1. Len(HeightArray) \in Nat
  BY StrategyAssumption
<1>2. T \subseteq Nat /\ T # {}
  BY <1>1 DEF Passed
<1>3. PICK x \in T : \A y \in T : ~(<<y, x>> \in R)
  <2>1. IsWellFoundedOn(R, Nat)
    BY NatLessThanWellFounded
  <2> HIDE DEF T, R
  <2> QED BY <1>2, <2>1, WFMin
<1>4. \A y \in T : x <= y
  <2> SUFFICES ASSUME NEW y \in T, ~(x <= y) PROVE FALSE
    OBVIOUS
  <2>1. x \in Nat /\ y \in Nat
    BY <1>2
  <2>2. y < x
    BY <2>1
  <2>3. <<y, x>> \in R
    BY <2>1, <2>2 DEF OpToRel
  <2> QED BY <1>3, <2>3, Zenon
<1>5. PICK i \in Passed(h) : x = Len(HeightArray) - i
  BY <1>3
<1>6. \A j \in Passed(h) : j <= i
  <2> SUFFICES ASSUME NEW j \in Passed(h) PROVE j <= i
    OBVIOUS
  <2>1. Len(HeightArray) - j \in T /\ i \in Nat /\ j \in Nat
    BY DEF Passed
  <2>2. x <= Len(HeightArray) - j
    BY <1>4, <2>1
  <2> QED BY <1>1, <1>5, <2>1, <2>2
<1> QED BY <1>6 DEF LastPassed

LEMMA VersionOfLastFork ==
    ASSUME NEW h, NEW fallback
    PROVE  BlockVersionAt(h, fallback)
             = IF Passed(h) = {} THEN fallback ELSE VersionArray[LastPassed(h)]
BY DEF BlockVersionAt, Passed, LastPassed

\* A height has one version.
LEMMA VersionIsNat ==
    ASSUME NEW h \in Nat, NEW fallback \in Nat
    PROVE  BlockVersionAt(h, fallback) \in Nat
<1>1. CASE Passed(h) = {}
  BY <1>1, VersionOfLastFork
<1>2. CASE Passed(h) # {}
  <2>1. \A k \in Passed(h) : VersionArray[k] \in Nat
    BY StrategyAssumption, ElementOfSeq DEF Passed
  <2> QED BY <1>2, <2>1, LastForkExists, VersionOfLastFork
<1> QED BY <1>1, <1>2

\* Every selection takes its validators from the table it is given.
LEMMA SelectionIsBonded ==
    ASSUME NEW t, NEW version, NEW seed, NEW h
    PROVE  GetUpdatedValidators(t, version, seed, h) \subseteq Bonded(t)
<1>1. \A n : Drawn(t, seed, h, n) \subseteq Bonded(t)
  BY DEF Drawn, SelectItem, ItemAt
<1>2. EnterSelectValidators(t, version, seed, h) \subseteq Bonded(t)
  BY <1>1 DEF EnterSelectValidators
<1>3. BlsValidators(t, h) \subseteq Bonded(t)
  BY DEF BlsValidators, TopKSigners
<1> QED BY <1>2, <1>3 DEF GetUpdatedValidators

\* What SetPersistenceData and an empty trie contain.
LEMMA WorkStateOps ==
    /\ EmptyState \in WorkState
    /\ \A w \in WorkState, h \in Nat, version \in Nat, vals \in SUBSET Signers,
          c \in Table, n \in Table, flag \in BOOLEAN, a \in SUBSET Signers :
          SetPersistenceData(w, h, version, vals, c, n, flag, a) \in WorkState
<1>1. CreatePosTable \in Table
  BY DEF CreatePosTable, Table
<1>2. EmptyState \in WorkState
  BY <1>1, EmptySeq DEF EmptyState, WorkState
<1>3. ASSUME NEW w \in WorkState, NEW h \in Nat, NEW version \in Nat,
             NEW vals \in SUBSET Signers, NEW c \in Table, NEW n \in Table,
             NEW flag \in BOOLEAN, NEW a \in SUBSET Signers
      PROVE  SetPersistenceData(w, h, version, vals, c, n, flag, a) \in WorkState
  BY DEF SetPersistenceData, WorkState
<1> QED BY <1>2, <1>3

-----------------------------------------------------------------------------
(* Type correctness.  Reading the chain needs Chain: the head is on it. *)

LEMMA TypeInit == Init => TypeOK
<1> SUFFICES ASSUME Init PROVE TypeOK
  OBVIOUS
<1> USE DEF Init
<1>1. CreatePosTable \in Table
  BY DEF CreatePosTable, Table
<1>2. work \in WorkState
  BY WorkStateOps
<1>3. DOMAIN ledger = {} /\ DOMAIN store = {}
  OBVIOUS
<1>4. tm \in [last : SUBSET Signers, cur : SUBSET Signers, next : SUBSET Signers,
              past : SUBSET Signers]
  BY AppAssumption
<1>5. resp \in [add : SUBSET Signers, del : SUBSET Signers, authItems : SUBSET Signers]
  OBVIOUS
<1>6. curr \in Table /\ next \in Table
  BY <1>1
<1>7. phase \in Phases /\ halt \in Halts /\ admin \in Admins \cup {"unset"} /\ rules \in Rules
  BY DEF Phases, Halts, Admins, Rules
<1>8. /\ height \in Nat /\ blockVersion \in Nat /\ validators \in SUBSET Signers
      /\ changed \in BOOLEAN /\ auth \in SUBSET Signers /\ authChanged \in SUBSET Signers
      /\ head \in Nat /\ tmHeight \in Nat
  OBVIOUS
<1> QED BY <1>2, <1>3, <1>4, <1>5, <1>6, <1>7, <1>8, Zenon DEF TypeOK

LEMMA TypeStart == TypeOK /\ Chain /\ Start => TypeOK'
<1> SUFFICES ASSUME TypeOK, Chain, Start PROVE TypeOK'
  OBVIOUS
<1>1. CreatePosTable \in Table
  BY DEF CreatePosTable, Table
<1>2. CASE head = 0
  BY <1>1, <1>2, WorkStateOps DEF Start, InitNoPersistData, NewStrategy, TypeOK, Phases, tmVars
<1>3. CASE head # 0
  <2>1. ledger[head] \in WorkState
    BY <1>3 DEF TypeOK, Chain
  <2>2. /\ ledger[head].height \in Nat /\ ledger[head].validators \in SUBSET Signers
        /\ ledger[head].curr \in Table /\ ledger[head].next \in Table
        /\ ledger[head].auth \in SUBSET Signers
    BY <2>1 DEF WorkState
  <2>3. BlockVersionAt(ledger[head].height, 0) \in Nat
    BY <2>2, VersionIsNat
  <2> QED BY <1>3, <2>1, <2>2, <2>3
         DEF Start, InitPersistData, TypeOK, Phases, AdminOf, Admins, tmVars
<1> QED BY <1>2, <1>3

LEMMA TypeInitChain == TypeOK /\ InitChain => TypeOK'
<1> SUFFICES ASSUME TypeOK, InitChain PROVE TypeOK'
  OBVIOUS
<1>1. InitialTable \in Table
  BY TableOps DEF TypeOK
<1>2. validators' \in SUBSET Signers /\ curr' \in Table /\ next' \in Table /\ changed' \in BOOLEAN
  BY <1>1, AppAssumption DEF InitChain
<1>3. work' \in WorkState
  BY <1>2, WorkStateOps DEF InitChain, TypeOK
<1> QED BY <1>2, <1>3 DEF InitChain, TypeOK, Phases, tmVars

LEMMA TypeDecide == TypeOK /\ Decide => TypeOK'
<1> SUFFICES ASSUME TypeOK, Decide PROVE TypeOK'
  OBVIOUS
<1>1. PICK proposer \in tm.cur, votes \in SUBSET tm.last, evidence \in SUBSET tm.past,
           seed \in Seeds \cup {NoSeed}, n \in 0..MaxOps :
        /\ Cardinality(tm.last \ votes) <= MaxAbsent
        /\ Cardinality(evidence) + n <= IF tmHeight + 1 \in BusyHeights THEN MaxOps ELSE 0
        /\ \E txs \in [1..n -> {tx \in Tx : TxAllowed(tx, tmHeight + 1)}] :
              store' = [h \in DOMAIN store \cup {tmHeight + 1} |->
                          IF h \in DOMAIN store THEN store[h]
                          ELSE [proposer |-> proposer, votes |-> votes,
                                evidence |-> evidence, txs |-> txs, seed |-> seed]]
  BY Zenon DEF Decide
<1>2. PICK txs \in [1..n -> {tx \in Tx : TxAllowed(tx, tmHeight + 1)}] :
              store' = [h \in DOMAIN store \cup {tmHeight + 1} |->
                          IF h \in DOMAIN store THEN store[h]
                          ELSE [proposer |-> proposer, votes |-> votes,
                                evidence |-> evidence, txs |-> txs, seed |-> seed]]
  BY <1>1
<1>3. txs \in Seq(Tx)
  <2>1. n \in Nat
    BY AppAssumption
  <2> QED BY <2>1
<1> DEFINE b == [proposer |-> proposer, votes |-> votes,
                 evidence |-> evidence, txs |-> txs, seed |-> seed]
<1>4. b \in Block
  BY <1>3 DEF Block, TypeOK
<1>5. /\ DOMAIN store' = DOMAIN store \cup {tmHeight + 1}
      /\ \A h \in DOMAIN store' : store'[h] = IF h \in DOMAIN store THEN store[h] ELSE b
  BY <1>2
<1> HIDE DEF b
<1>6. DOMAIN store' \subseteq Nat \ {0} /\ \A h \in DOMAIN store' : store'[h] \in Block
  BY <1>4, <1>5 DEF TypeOK
<1> QED BY <1>6 DEF TypeOK, Decide, memVars

LEMMA TypeBeginBlock == TypeOK /\ BeginBlock => TypeOK'
<1> SUFFICES ASSUME TypeOK, BeginBlock PROVE TypeOK'
  OBVIOUS
<1> DEFINE b == store[head + 1]
           version == BlockVersionAt(head + 1, HeaderVersion)
<1>1. b \in Block /\ head + 1 \in Nat
  BY DEF TypeOK, LastBlockHeight, UpdateHeader, BeginBlock
<1>2. version \in Nat
  BY <1>1, VersionIsNat, AppAssumption
<1>3. next' \in Table
  <2>1. b.evidence \cap Bonded(next) \in SUBSET Signers
    BY DEF Bonded
  <2> QED BY <1>1, <2>1, TableOps DEF LastBlockHeight, UpdateHeader, BeginBlock, DoPunish, TypeOK
<1>4. Receiver(curr, version, b.proposer) \in Signers \cup {Bigguy, DefaultReceiver}
  BY DEF Receiver, Bonded, Unbonding
<1>5. Punished(next, b.evidence) \in SUBSET Signers
  BY <1>1 DEF Punished, Block
<1>6. work' = [work EXCEPT !.version = version,
                           !.coinbase = Receiver(curr, version, b.proposer),
                           !.fined = Punished(next, b.evidence),
                           !.paid = {},
                           !.results = <<>>]
  BY DEF LastBlockHeight, UpdateHeader, BeginBlock
<1>7. /\ height' = head + 1 /\ blockVersion' = version /\ changed' \in BOOLEAN
      /\ phase' = "block"
      /\ UNCHANGED <<halt, validators, curr, auth, authChanged, admin, head, ledger,
                     rules, tmVars, resp>>
  BY DEF LastBlockHeight, UpdateHeader, BeginBlock
<1> HIDE DEF b, version
<1>8. work' \in WorkState
  BY <1>2, <1>4, <1>5, <1>6, EmptySeq DEF TypeOK, WorkState
<1> QED BY <1>1, <1>2, <1>3, <1>7, <1>8 DEF TypeOK, Phases, tmVars

\* The transaction DeliverTx executes.
LEMMA ThisTxType ==
    ASSUME TypeOK, Chain, phase = "block", Len(work.results) < Len(CurrentBlock.txs)
    PROVE  ThisTx \in Tx
<1>1. CurrentBlock \in Block
  BY DEF CurrentBlock, TypeOK, Chain
<1>2. CurrentBlock.txs \in Seq(Tx) /\ work.results \in Seq(BOOLEAN)
  BY <1>1 DEF Block, TypeOK, WorkState
<1> QED BY <1>2, ElementOfSeq DEF ThisTx

\* Appending a result changes nothing else of the work state.
LEMMA ResultType ==
    ASSUME TypeOK, NEW ok \in BOOLEAN, Result(ok)
    PROVE  /\ work' \in WorkState
           /\ work'.curr = work.curr /\ work'.next = work.next /\ work'.auth = work.auth
<1>1. work.results \in Seq(BOOLEAN)
  BY DEF TypeOK, WorkState
<1>2. Append(work.results, ok) \in Seq(BOOLEAN)
  BY <1>1
<1> DEFINE r == Append(work.results, ok)
<1>3. work' = [work EXCEPT !.results = r]
  BY DEF Result
<1> HIDE DEF r
<1> QED BY <1>2, <1>3 DEF TypeOK, WorkState, r

\* What any transaction does, in one formula: it changes the next table or the
\* authorisations only together with the flag, the latter from version 4 on.
LEMMA DeliverEffect ==
    ASSUME TypeOK, Chain, DeliverTx
    PROVE  /\ next' \in Table /\ changed' \in BOOLEAN
           /\ auth' \in SUBSET Signers /\ authChanged' \in SUBSET Signers
           /\ work' \in WorkState
           /\ work'.curr = work.curr /\ work'.next = work.next /\ work'.auth = work.auth
           /\ changed' \/ (next' = next /\ auth' = auth /\ changed' = changed)
           /\ blockVersion < 4 => auth' = auth
<1> DEFINE tx == ThisTx
<1>0. tx \in Tx
  BY ThisTxType DEF DeliverTx
<1>t. TypeOK
  OBVIOUS
<1>d. \/ tx.kind = "bond" /\ DeliverBond(tx)
      \/ tx.kind = "unbond" /\ DeliverUnbond(tx)
      \/ tx.kind = "auth" /\ DeliverAuth(tx)
      \/ DeliverCall(tx)
      \/ DeliverFailed(tx)
  BY DEF DeliverTx
<1>s. tx.kind # "call" => tx.signer \in Signers /\ (tx.kind = "bond" => tx.slots \in Nat)
  BY <1>0, AppAssumption DEF Tx
<1> HIDE DEF tx
<1>1. CASE tx.kind = "bond" /\ DeliverBond(tx)
  <2>1. next' \in Table
    BY <1>1, <1>s, TableOps DEF TypeOK, DeliverBond
  <2> QED BY <1>1, <2>1, ResultType DEF TypeOK, DeliverBond
<1>2. CASE tx.kind = "unbond" /\ DeliverUnbond(tx)
  <2>1. next' \in Table
    BY <1>2, <1>s, TableOps DEF TypeOK, DeliverUnbond
  <2> QED BY <1>2, <2>1, ResultType DEF TypeOK, DeliverUnbond
<1>3. CASE tx.kind = "auth" /\ DeliverAuth(tx)
  <2>1. auth' \in SUBSET Signers /\ authChanged' \in SUBSET Signers
    BY <1>3, <1>s, <1>t DEF TypeOK, DeliverAuth
  <2>2. changed' = TRUE /\ next' = next /\ Result(TRUE) /\ blockVersion >= 4
    BY <1>3 DEF DeliverAuth, CanAuth
  <2>3. next \in Table /\ blockVersion \in Nat
    BY <1>t DEF TypeOK
  <2>4. ~(blockVersion < 4)
    BY <2>2, <2>3
  <2> QED BY <2>1, <2>2, <2>3, <2>4, ResultType
<1>4. CASE DeliverFailed(tx)
  BY <1>4, ResultType DEF TypeOK, DeliverFailed
<1>5. CASE DeliverCall(tx)
  BY <1>5, ResultType DEF TypeOK, DeliverCall
<1> QED BY <1>1, <1>2, <1>3, <1>4, <1>5, <1>d

LEMMA TypeDeliverTx == TypeOK /\ Chain /\ DeliverTx => TypeOK'
<1> SUFFICES ASSUME TypeOK, Chain, DeliverTx PROVE TypeOK'
  OBVIOUS
<1>1. UNCHANGED <<phase, halt, height, blockVersion, validators, curr, admin,
                  head, ledger, rules, tmVars, resp>>
  BY DEF DeliverTx
<1> QED BY <1>1, DeliverEffect DEF TypeOK, tmVars

LEMMA TypeEndBlock == TypeOK /\ EndBlock => TypeOK'
<1> SUFFICES ASSUME TypeOK, EndBlock PROVE TypeOK'
  OBVIOUS
<1> DEFINE selected == GetUpdatedValidators(EpochTable, blockVersion, CurrentBlock.seed, height)
<1>1. selected \in SUBSET Signers
  BY SelectionIsBonded DEF Bonded
<1>2. curr' \in Table /\ next' \in Table
  BY TableOps DEF EndBlock, EpochTable, TypeOK
<1>3. Updates(selected) \in [add : SUBSET Signers, del : SUBSET Signers,
                             authItems : SUBSET Signers]
  BY <1>1 DEF Updates, AuthItems, TypeOK
<1>4. /\ validators' = selected
      /\ resp' = IF height <= tmHeight THEN resp ELSE Updates(selected)
      /\ halt' = IF height <= tmHeight THEN "none" ELSE TmVerdict(Updates(selected))
      /\ phase' = IF halt' = "none" THEN "ended" ELSE "halted"
      /\ admin' = AdminAfter(admin, height) /\ authChanged' = {}
      /\ UNCHANGED <<height, blockVersion, changed, auth, work, head, ledger, tmVars>>
  BY DEF EndBlock
<1> HIDE DEF selected
<1>5. halt' \in Halts /\ phase' \in Phases
  BY <1>4 DEF TmVerdict, Halts, Phases
<1>6. admin' \in Admins \cup {"unset"}
  BY <1>4 DEF AdminAfter, Admins, TypeOK
<1>7. rules' \in Rules
  BY DEF EndBlock, RulesAfter, Rules, TypeOK
<1> QED BY <1>1, <1>2, <1>3, <1>4, <1>5, <1>6, <1>7 DEF TypeOK, tmVars

\* What Commit writes.
LEMMA CommittedType ==
    ASSUME TypeOK, Chain, phase = "ended"
    PROVE  CommittedState \in WorkState
<1> DEFINE w == [work EXCEPT !.paid = Rewarded(blockVersion, CurrentBlock.votes)]
<1>1. CurrentBlock \in Block
  BY DEF CurrentBlock, TypeOK, Chain
<1>2. Rewarded(blockVersion, CurrentBlock.votes) \in SUBSET Signers
  BY <1>1 DEF Rewarded, Block
<1>3. w \in WorkState
  BY <1>2 DEF TypeOK, WorkState
<1>4. CommittedState = SetPersistenceData(w, height, blockVersion, validators, curr, next,
                                          changed, auth)
  BY DEF CommittedState
<1> HIDE DEF w
<1> QED BY <1>3, <1>4, WorkStateOps DEF TypeOK

LEMMA TypeCommit == TypeOK /\ Chain /\ Commit => TypeOK'
<1> SUFFICES ASSUME TypeOK, Chain, Commit PROVE TypeOK'
  OBVIOUS
<1>1. CommittedState \in WorkState
  BY CommittedType DEF Commit, ResetWorkState
<1>2. height \in Nat \ {0}
  BY DEF Commit, ResetWorkState, Chain, TypeOK
<1>3. /\ UNCHANGED <<memVars, rules, tmVars, resp>>
      /\ \/ phase' = "halted" /\ halt' \in {"reward", "appHash"} /\ UNCHANGED <<work, head, ledger>>
         \/ WriteBlock /\ work' = CommittedState
  BY DEF Commit, ResetWorkState
<1> HIDE DEF Commit, ResetWorkState
<1>4. CASE phase' = "halted" /\ halt' \in {"reward", "appHash"} /\ UNCHANGED <<work, head, ledger>>
  BY <1>1, <1>3, <1>4 DEF TypeOK, memVars, tmVars, Phases, Halts
<1>5. CASE WriteBlock /\ work' = CommittedState
  <2> DEFINE c == CommittedState
  <2>1. /\ DOMAIN ledger' = DOMAIN ledger \cup {height}
        /\ \A h \in DOMAIN ledger' : ledger'[h] = IF h = height THEN c ELSE ledger[h]
    BY <1>5 DEF WriteBlock
  <2>2. phase' = "idle" /\ halt' = "none" /\ head' = height
    BY <1>5 DEF WriteBlock
  <2> HIDE DEF c
  <2>3. DOMAIN ledger' \subseteq Nat \ {0} /\ \A h \in DOMAIN ledger' : ledger'[h] \in WorkState
    BY <1>1, <1>2, <2>1 DEF TypeOK, c
  <2> QED BY <1>1, <1>2, <1>3, <1>5, <2>2, <2>3 DEF TypeOK, memVars, tmVars, Phases, Halts
<1> QED BY <1>3, <1>4, <1>5

LEMMA TypeSaveState == TypeOK /\ SaveState => TypeOK'
<1> SUFFICES ASSUME TypeOK, SaveState PROVE TypeOK'
  OBVIOUS
<1>1. /\ DOMAIN ledger' \subseteq DOMAIN ledger
      /\ \A h \in DOMAIN ledger' : ledger'[h] = ledger[h]
      /\ DOMAIN store' \subseteq DOMAIN store
      /\ \A h \in DOMAIN store' : store'[h] = store[h]
  BY DEF SaveState
<1>2. TmNext(resp) \in SUBSET Signers
  BY DEF TmNext, TypeOK
<1>3. tm' \in [last : SUBSET Signers, cur : SUBSET Signers, next : SUBSET Signers,
               past : SUBSET Signers]
  BY <1>2 DEF SaveState, TypeOK
<1>4. resp' \in [add : SUBSET Signers, del : SUBSET Signers, authItems : SUBSET Signers]
  BY DEF SaveState
<1>5. tmHeight' \in Nat /\ UNCHANGED <<phase, halt, memVars, work, head, rules>>
  BY DEF SaveState, TypeOK
<1> QED BY <1>1, <1>3, <1>4, <1>5 DEF TypeOK, memVars

LEMMA TypeCrash == TypeOK /\ Crash => TypeOK'
<1> SUFFICES ASSUME TypeOK, Crash PROVE TypeOK'
  OBVIOUS
<1>1. CreatePosTable \in Table
  BY DEF CreatePosTable, Table
<1>2. head' \in Nat
  BY DEF Crash, TypeOK
<1> QED BY <1>1, <1>2, WorkStateOps DEF Crash, NewStrategy, TypeOK, Phases, Halts, tmVars

LEMMA TypeNext == TypeOK /\ Chain /\ [Next]_vars => TypeOK'
<1> SUFFICES ASSUME TypeOK, Chain, [Next]_vars PROVE TypeOK'
  OBVIOUS
<1>1. CASE EndBlockStuck
  BY <1>1 DEF EndBlockStuck, TypeOK, Phases, Halts, memVars, tmVars
<1>2. CASE UNCHANGED vars
  BY <1>2 DEF TypeOK, vars, memVars, tmVars
<1> QED BY <1>1, <1>2, TypeStart, TypeInitChain, TypeDecide, TypeBeginBlock, TypeDeliverTx,
           TypeEndBlock, TypeCommit, TypeSaveState, TypeCrash DEF Next
-----------------------------------------------------------------------------
(* Chain: the head, the stored blocks and Tendermint's height. *)

\* The field SetPersistenceData sets for every height.
LEMMA PersistedFields ==
    ASSUME NEW w \in WorkState, NEW h \in Nat, NEW version \in Nat,
           NEW vals \in SUBSET Signers, NEW c \in Table, NEW n \in Table,
           NEW flag \in BOOLEAN, NEW a \in SUBSET Signers
    PROVE  LET p == SetPersistenceData(w, h, version, vals, c, n, flag, a) IN
           /\ p.height = h /\ p.validators = vals
           /\ p.curr = IF IsEpochEnd(h) THEN c ELSE w.curr
           /\ p.next = IF flag \/ IsEpochEnd(h) THEN n ELSE w.next
           /\ p.auth = IF (flag \/ IsEpochEnd(h)) /\ version >= 4 THEN a ELSE w.auth
BY DEF SetPersistenceData, WorkState

\* The state Commit writes, field by field.
LEMMA CommittedFields ==
    ASSUME TypeOK, Chain, phase = "ended"
    PROVE  LET p == CommittedState IN
           /\ p.height = height /\ p.validators = validators
           /\ p.curr = IF IsEpochEnd(height) THEN curr ELSE work.curr
           /\ p.next = IF changed \/ IsEpochEnd(height) THEN next ELSE work.next
           /\ p.auth = IF (changed \/ IsEpochEnd(height)) /\ blockVersion >= 4
                       THEN auth ELSE work.auth
<1> DEFINE w == [work EXCEPT !.paid = Rewarded(blockVersion, CurrentBlock.votes)]
<1>1. CurrentBlock \in Block
  BY DEF CurrentBlock, TypeOK, Chain
<1>2. Rewarded(blockVersion, CurrentBlock.votes) \in SUBSET Signers
  BY <1>1 DEF Rewarded, Block
<1>3. w \in WorkState /\ w.curr = work.curr /\ w.next = work.next /\ w.auth = work.auth
  BY <1>2 DEF TypeOK, WorkState
<1>4. CommittedState = SetPersistenceData(w, height, blockVersion, validators, curr, next,
                                          changed, auth)
  BY DEF CommittedState
<1> HIDE DEF w
<1>5. /\ height \in Nat /\ blockVersion \in Nat /\ validators \in SUBSET Signers
      /\ curr \in Table /\ next \in Table /\ changed \in BOOLEAN /\ auth \in SUBSET Signers
  BY DEF TypeOK
<1> QED BY <1>3, <1>4, <1>5, PersistedFields

\* What a successful Commit does to head and chain.
LEMMA WriteEffect ==
    ASSUME TypeOK, Chain, Commit, WriteBlock
    PROVE  /\ phase' = "idle" /\ halt' = "none" /\ head' = height /\ work' = CommittedState
           /\ DOMAIN ledger' = DOMAIN ledger \cup {height}
           /\ ledger'[height] = CommittedState
           /\ \A h \in DOMAIN ledger : h # height => ledger'[h] = ledger[h]
<1> DEFINE c == CommittedState
<1>1. /\ phase' = "idle" /\ halt' = "none" /\ head' = height /\ work' = c
      /\ ledger' = [h \in DOMAIN ledger \cup {height} |-> IF h = height THEN c ELSE ledger[h]]
  BY DEF WriteBlock, Commit, ResetWorkState
<1> HIDE DEF c
<1> QED BY <1>1 DEF c

\* A Commit writes the block, or stops the node and leaves the chain alone.
LEMMA CommitCases ==
    ASSUME Commit
    PROVE  /\ phase = "ended" /\ UNCHANGED <<memVars, tmVars, resp>>
           /\ \/ phase' = "halted" /\ halt' \in {"reward", "appHash"} /\ UNCHANGED <<head, ledger>>
              \/ WriteBlock /\ (height \in DOMAIN ledger => ledger[height] = CommittedState)
BY DEF Commit, ResetWorkState

LEMMA ChainNext == TypeOK /\ Chain /\ [Next]_vars => Chain'
<1> SUFFICES ASSUME TypeOK, Chain, [Next]_vars PROVE Chain'
  OBVIOUS
<1>t. TypeOK /\ Chain
  OBVIOUS
<1>1. CASE Start
  BY <1>1 DEF Start, InitPersistData, InitNoPersistData, Chain, TypeOK, tmVars
<1>2. CASE InitChain
  BY <1>2 DEF InitChain, Chain, tmVars
<1>3. CASE Decide
  <2>1. DOMAIN store' = DOMAIN store \cup {tmHeight + 1}
    BY <1>3 DEF Decide
  <2>2. UNCHANGED <<phase, halt, memVars, work, head, ledger, tmHeight, tm, resp>>
    BY <1>3, Zenon DEF Decide
  <2> HIDE <1>3
  <2> QED BY <2>1, <2>2 DEF Chain, memVars, TypeOK
<1>4. CASE BeginBlock
  BY <1>4 DEF LastBlockHeight, UpdateHeader, BeginBlock, Chain, tmVars
<1>5. CASE DeliverTx
  <2>1. UNCHANGED <<phase, halt, height, blockVersion, validators, curr, admin,
                    head, ledger, tmVars, resp>>
    BY <1>5 DEF DeliverTx
  <2> HIDE <1>5
  <2> QED BY <2>1 DEF Chain, tmVars
<1>6. CASE EndBlock
  <2>1. UNCHANGED <<height, head, ledger, tmVars>> /\ phase = "block"
        /\ phase' \in {"ended", "halted"}
    BY <1>6 DEF EndBlock
  <2> HIDE <1>6
  <2> QED BY <2>1 DEF Chain, tmVars
<1>7. CASE EndBlockStuck
  BY <1>7 DEF EndBlockStuck, Chain, memVars, tmVars
<1>8. CASE Commit
  <2>1. phase = "ended" /\ UNCHANGED <<memVars, tmVars, resp>>
    BY <1>8, CommitCases
  <2>2. CASE phase' = "halted" /\ UNCHANGED <<head, ledger>>
    BY <2>1, <2>2 DEF Chain, memVars, tmVars
  <2>3. CASE WriteBlock
    <3>1. /\ phase' = "idle" /\ head' = height
          /\ DOMAIN ledger' = DOMAIN ledger \cup {height}
          /\ ledger'[height] = CommittedState
          /\ \A h \in DOMAIN ledger : h # height => ledger'[h] = ledger[h]
      BY <1>8, <2>3, WriteEffect
    <3>2. CommittedState.height = height
      BY <2>1, CommittedFields
    <3> QED BY <2>1, <3>1, <3>2 DEF Chain, memVars, tmVars, TypeOK
  <2> QED BY <1>8, <2>2, <2>3, CommitCases
<1>9. CASE SaveState
  <2>1. /\ phase = "idle" /\ head = tmHeight + 1 /\ tmHeight' = tmHeight + 1
        /\ UNCHANGED <<phase, halt, memVars, work, head>>
        /\ DOMAIN ledger' = {g \in DOMAIN ledger : Recent(g)}
        /\ \A h \in DOMAIN ledger' : ledger'[h] = ledger[h]
        /\ DOMAIN store' \subseteq DOMAIN store
    BY <1>9 DEF SaveState
  <2>2. Recent(head)
    BY <2>1, AppAssumption DEF Recent, TypeOK
  <2>3. head \in DOMAIN ledger'
    BY <2>1, <2>2 DEF Chain, TypeOK
  <2>4. \A h \in DOMAIN store' : h <= tmHeight' + 1
    BY <2>1 DEF Chain, TypeOK
  <2> HIDE <1>9
  <2> QED BY <2>1, <2>3, <2>4 DEF Chain, TypeOK, memVars
<1>10. CASE Crash
  <2>1. /\ phase' = "down" /\ head' \in DOMAIN ledger \cup {0} /\ head' <= head
        /\ UNCHANGED <<ledger, tmVars>>
    BY <1>10 DEF Crash
  <2>2. head' \in Nat
    BY <2>1 DEF TypeOK
  <2> QED BY <2>1, <2>2 DEF Chain, TypeOK, tmVars
<1>11. CASE UNCHANGED vars
  BY <1>11 DEF Chain, vars, memVars, tmVars
<1> QED BY <1>1, <1>2, <1>3, <1>4, <1>5, <1>6, <1>7, <1>8, <1>9, <1>10, <1>11 DEF Next
-----------------------------------------------------------------------------
(* Memory: where the strategy and the work state differ, a flag says so. *)

\* InitChain's state, field by field.
LEMMA GenesisFields ==
    /\ GenesisState \in WorkState
    /\ GenesisState.height = 0
    /\ GenesisState.validators = GenesisValidators \ Ignored
    /\ GenesisState.curr = InitialTable /\ GenesisState.next = InitialTable
    /\ GenesisState.auth = {}
<1>1. CreatePosTable \in Table
  BY DEF CreatePosTable, Table
<1>2. InitialTable \in Table
  BY <1>1, TableOps
<1>3. EmptyState \in WorkState /\ EmptyState.auth = {}
  BY WorkStateOps DEF EmptyState
<1>4. IsEpochEnd(0)
  BY StrategyAssumption DEF IsEpochEnd
<1>5. GenesisValidators \ Ignored \in SUBSET Signers
  BY AppAssumption
<1>6. 0 \in Nat /\ TRUE \in BOOLEAN /\ {} \in SUBSET Signers /\ ~(0 >= 4)
  OBVIOUS
<1> DEFINE V == GenesisValidators \ Ignored
           p == SetPersistenceData(EmptyState, 0, 0, V, InitialTable, InitialTable, TRUE, {})
<1>7. p \in WorkState
  BY <1>2, <1>3, <1>5, <1>6, WorkStateOps
<1>8. /\ p.height = 0 /\ p.validators = V
      /\ p.curr = IF IsEpochEnd(0) THEN InitialTable ELSE EmptyState.curr
      /\ p.next = IF TRUE \/ IsEpochEnd(0) THEN InitialTable ELSE EmptyState.next
      /\ p.auth = IF (TRUE \/ IsEpochEnd(0)) /\ 0 >= 4 THEN {} ELSE EmptyState.auth
  BY <1>3 DEF SetPersistenceData, WorkState
<1> QED BY <1>3, <1>4, <1>6, <1>7, <1>8 DEF GenesisState

\* Punishing nobody changes nothing.
LEMMA SlashNobody ==
    ASSUME NEW t \in Table, NEW h
    PROVE  SlashAll(t, {}, h) = t
BY DEF SlashAll, Table

LEMMA MemoryBeginBlock == TypeOK /\ Chain /\ Memory /\ BeginBlock => Memory'
<1> SUFFICES ASSUME TypeOK, Chain, Memory, BeginBlock PROVE Memory'
  OBVIOUS
<1> DEFINE b == store[head + 1]
<1>1. /\ phase = "idle" /\ phase' = "block" /\ UNCHANGED <<validators, curr, auth, head, ledger>>
      /\ changed' = (b.evidence \cap Bonded(next) # {})
      /\ next' = SlashAll(next, b.evidence \cap Bonded(next), head + 1)
  BY DEF LastBlockHeight, UpdateHeader, BeginBlock, DoPunish
<1>2. work'.curr = work.curr /\ work'.next = work.next /\ work'.auth = work.auth
  BY DEF LastBlockHeight, UpdateHeader, BeginBlock, TypeOK, WorkState
<1>3. changed' \/ next' = next
  BY <1>1, SlashNobody DEF TypeOK
<1>4. StateOf(head)' = StateOf(head)
  <2>1. ledger' = ledger /\ head' = head
    BY <1>1
  <2> QED BY <2>1 DEF StateOf, GenesisState, SetPersistenceData, EmptyState, InitialTable
<1>5. /\ validators = StateOf(head).validators
      /\ curr = work.curr /\ next = work.next /\ auth = work.auth
  BY <1>1 DEF Memory
<1> HIDE DEF b
<1> QED BY <1>1, <1>2, <1>3, <1>4, <1>5 DEF Memory, Unsaved

\* What Commit is about to write agrees with memory, whatever was flagged.
LEMMA CommittedMemory ==
    ASSUME TypeOK, Chain, Memory, phase = "ended"
    PROVE  CommittedState.curr = curr /\ CommittedState.next = next /\ CommittedState.auth = auth
<1> DEFINE p == CommittedState
<1>1. /\ p.curr = IF IsEpochEnd(height) THEN curr ELSE work.curr
      /\ p.next = IF changed \/ IsEpochEnd(height) THEN next ELSE work.next
      /\ p.auth = IF (changed \/ IsEpochEnd(height)) /\ blockVersion >= 4
                  THEN auth ELSE work.auth
  BY CommittedFields
<1> HIDE DEF p
<1>2. p.curr = curr /\ p.next = next
  BY <1>1 DEF Memory, Unsaved
<1>3. CASE blockVersion >= 4
  BY <1>1, <1>2, <1>3 DEF Memory, Unsaved, p
<1>4. CASE ~(blockVersion >= 4)
  BY <1>1, <1>2, <1>4 DEF Memory, TypeOK, p
<1> QED BY <1>3, <1>4

LEMMA MemoryNext == TypeOK /\ Chain /\ Memory /\ [Next]_vars => Memory'
<1> SUFFICES ASSUME TypeOK, Chain, Memory, [Next]_vars PROVE Memory'
  OBVIOUS
<1>1. CASE Start
  <2>1. CASE head = 0
    BY <1>1, <2>1 DEF Start, InitNoPersistData, NewStrategy, Memory
  <2>2. CASE head # 0
    <3>1. /\ phase' = "idle" /\ work' = ledger[head] /\ height' = ledger[head].height
          /\ validators' = ledger[head].validators /\ curr' = ledger[head].curr
          /\ next' = ledger[head].next /\ auth' = ledger[head].auth
          /\ UNCHANGED <<head, ledger>>
      BY <1>1, <2>2 DEF Start, InitPersistData
    <3>2. ledger[head].height = head
      BY <2>2 DEF Chain, TypeOK
    <3>3. StateOf(head)' = ledger[head]
      BY <2>2, <3>1 DEF StateOf
    <3> QED BY <3>1, <3>2, <3>3 DEF Memory
  <2> QED BY <2>1, <2>2
<1>2. CASE InitChain
  <2>1. /\ work = EmptyState /\ height = 0 /\ blockVersion = 0 /\ auth = {} /\ head = 0
        /\ phase' = "idle" /\ UNCHANGED <<height, auth, head>>
    BY <1>2 DEF InitChain, Memory, Chain
  <2>2. /\ validators' = GenesisValidators \ Ignored
        /\ next' = InitialTable /\ curr' = InitialTable /\ changed' = TRUE
        /\ work' = SetPersistenceData(work, height, blockVersion, validators', curr', next',
                                      changed', auth)
    BY <1>2 DEF InitChain
  <2>3. work' = GenesisState
    BY <2>1, <2>2 DEF GenesisState
  <2>4. StateOf(head)' = GenesisState
    BY <2>1 DEF StateOf
  <2> HIDE <1>2
  <2> QED BY <2>1, <2>2, <2>3, <2>4, GenesisFields DEF Memory
<1>3. CASE Decide
  <2>1. UNCHANGED <<phase, halt, memVars, work, head, ledger, tmHeight, tm, resp>>
    BY <1>3, Zenon DEF Decide
  <2> HIDE <1>3
  <2> QED BY <2>1 DEF Memory, Unsaved, StateOf, memVars
<1>4. CASE BeginBlock
  BY <1>4, MemoryBeginBlock
<1>5. CASE DeliverTx
  <2>1. /\ phase = "block"
        /\ UNCHANGED <<phase, height, blockVersion, validators, curr, head, ledger>>
    BY <1>5 DEF DeliverTx
  <2>2. /\ work'.curr = work.curr /\ work'.next = work.next /\ work'.auth = work.auth
        /\ changed' \/ (next' = next /\ auth' = auth /\ changed' = changed)
        /\ blockVersion < 4 => auth' = auth
    BY <1>5, DeliverEffect
  <2> HIDE <1>5
  <2> QED BY <2>1, <2>2 DEF Memory, Unsaved, StateOf
<1>6. CASE EndBlock
  <2>1. /\ phase = "block" /\ phase' \in {"ended", "halted"}
        /\ curr' = IF IsEpochEnd(height) THEN next ELSE curr
        /\ IsEpochEnd(height) \/ next' = next
        /\ UNCHANGED <<height, blockVersion, changed, auth, work>>
    BY <1>6 DEF EndBlock, EpochTable
  <2> HIDE <1>6
  <2> QED BY <2>1 DEF Memory, Unsaved
<1>7. CASE EndBlockStuck
  BY <1>7 DEF EndBlockStuck, Memory
<1>8. CASE Commit
  <2>1. phase = "ended" /\ UNCHANGED <<memVars, tmVars, resp>>
    BY <1>8, CommitCases
  <2>2. CASE phase' = "halted"
    BY <2>2 DEF Memory
  <2>3. CASE WriteBlock
    <3> DEFINE p == CommittedState
    <3>1. /\ phase' = "idle" /\ head' = height /\ work' = p /\ ledger'[height] = p
      BY <1>8, <2>3, WriteEffect
    <3>2. p.validators = validators /\ p.curr = curr /\ p.next = next /\ p.auth = auth
      BY <2>1, CommittedFields, CommittedMemory
    <3> HIDE DEF p
    <3>3. StateOf(head)' = p
      <4>1. height # 0
        BY <2>1 DEF Chain, TypeOK
      <4> QED BY <3>1, <4>1 DEF StateOf
    <3> QED BY <2>1, <3>1, <3>2, <3>3 DEF Memory, memVars
  <2> QED BY <1>8, <2>2, <2>3, CommitCases
<1>9. CASE SaveState
  <2>1. phase = "idle" /\ head = tmHeight + 1 /\ UNCHANGED <<phase, memVars, work, head>>
    BY <1>9 DEF SaveState
  <2>2. ledger'[head] = ledger[head]
    <3>1. Recent(head)
      BY <2>1, AppAssumption DEF Recent, TypeOK
    <3>2. head \in DOMAIN ledger
      BY <2>1 DEF Chain, TypeOK
    <3> QED BY <1>9, <3>1, <3>2 DEF SaveState
  <2>3. StateOf(head)' = StateOf(head)
    BY <2>1, <2>2 DEF StateOf
  <2> HIDE <1>9
  <2> QED BY <2>1, <2>3 DEF Memory, memVars
<1>10. CASE Crash
  BY <1>10 DEF Crash, Memory
<1>11. CASE UNCHANGED vars
  BY <1>11 DEF Memory, Unsaved, StateOf, vars, memVars, tmVars
<1> QED BY <1>1, <1>2, <1>3, <1>4, <1>5, <1>6, <1>7, <1>8, <1>9, <1>10, <1>11 DEF Next
-----------------------------------------------------------------------------
(* Tracking: the application's Validators map and Tendermint's sets. *)

\* The difference that EndBlock returns keeps Tendermint's set in step: nobody
\* is removed twice, and what was out of step stays within Ignored.
LEMMA UpdatesFollow ==
    ASSUME Follows(tm.next, validators), NEW selected
    PROVE  /\ Updates(selected).del \subseteq tm.next
           /\ Follows(TmNext(Updates(selected)), selected)
<1>1. Updates(selected).del = validators \ selected /\ Updates(selected).add = selected
  BY DEF Updates
<1> QED BY <1>1 DEF Follows, TmNext

LEMMA TrackingEndBlock == TypeOK /\ Chain /\ Memory /\ Tracking /\ EndBlock => Tracking'
<1> SUFFICES ASSUME TypeOK, Chain, Memory, Tracking, EndBlock PROVE Tracking'
  OBVIOUS
<1> DEFINE selected == GetUpdatedValidators(EpochTable, blockVersion, CurrentBlock.seed, height)
<1>1. /\ phase = "block" /\ validators' = selected
      /\ resp' = IF height <= tmHeight THEN resp ELSE Updates(selected)
      /\ halt' = IF height <= tmHeight THEN "none" ELSE TmVerdict(Updates(selected))
      /\ UNCHANGED <<height, head, ledger, tmVars>>
  BY DEF EndBlock
<1> HIDE DEF selected
<1>2. height = head + 1 /\ height <= tmHeight + 1 /\ validators = StateOf(head).validators
  BY <1>1 DEF Chain, Memory
<1>3. head # tmHeight + 1
  BY <1>2 DEF TypeOK
<1>4. StateOf(tmHeight)' = StateOf(tmHeight)
  BY <1>1 DEF StateOf, tmVars
<1>5. CASE height <= tmHeight
  BY <1>1, <1>2, <1>3, <1>4, <1>5 DEF Tracking, TypeOK, tmVars, TmNext
<1>6. CASE ~(height <= tmHeight)
  <2>1. head = tmHeight
    BY <1>2, <1>6 DEF TypeOK
  <2>2. Follows(tm.next, validators)
    BY <1>2, <2>1 DEF Tracking
  <2>3. /\ Updates(selected).del \subseteq tm.next
        /\ Follows(TmNext(Updates(selected)), selected)
    BY <2>2, UpdatesFollow
  <2>4. halt' # "tmReject"
    BY <1>1, <1>6, <2>3 DEF TmVerdict
  <2>5. TmNext(resp)' = TmNext(Updates(selected))
    BY <1>1, <1>6 DEF TmNext, tmVars
  <2>6. Follows(TmNext(resp)', validators')
    BY <1>1, <2>3, <2>5
  <2>7. Follows(tm'.next, StateOf(tmHeight)'.validators)
    BY <1>1, <1>4 DEF Tracking, tmVars
  <2>8. head' # tmHeight' + 1
    BY <1>1, <1>3 DEF tmVars
  <2> QED BY <2>4, <2>6, <2>7, <2>8 DEF Tracking
<1> QED BY <1>5, <1>6

LEMMA TrackingCommit == TypeOK /\ Chain /\ Tracking /\ Commit => Tracking'
<1> SUFFICES ASSUME TypeOK, Chain, Tracking, Commit PROVE Tracking'
  OBVIOUS
<1>1. phase = "ended" /\ UNCHANGED <<memVars, tmVars, resp>>
  BY CommitCases
<1>2. TmNext(resp)' = TmNext(resp) /\ tm' = tm /\ tmHeight' = tmHeight
  BY <1>1 DEF TmNext, tmVars
<1>3. CASE phase' = "halted" /\ halt' \in {"reward", "appHash"} /\ UNCHANGED <<head, ledger>>
  BY <1>1, <1>2, <1>3 DEF Tracking, StateOf
<1>4. CASE WriteBlock /\ (height \in DOMAIN ledger => ledger[height] = CommittedState)
  <2> DEFINE p == CommittedState
  <2>1. /\ phase' = "idle" /\ halt' = "none" /\ head' = height /\ ledger'[height] = p
        /\ \A h \in DOMAIN ledger : h # height => ledger'[h] = ledger[h]
    BY <1>4, WriteEffect
  <2>2. p.validators = validators
    BY <1>1, CommittedFields
  <2>3. height \in DOMAIN ledger => ledger[height] = p
    BY <1>4
  <2> HIDE DEF p
  <2>4. StateOf(tmHeight)' = StateOf(tmHeight)
    <3>1. CASE tmHeight = 0
      BY <1>2, <3>1 DEF StateOf
    <3>2. CASE tmHeight # 0
      <4>1. ledger'[tmHeight] = ledger[tmHeight]
        BY <2>1, <2>3, <3>2 DEF Chain, TypeOK
      <4> QED BY <1>2, <4>1 DEF StateOf
    <3> QED BY <3>1, <3>2
  <2>5. head' = tmHeight' + 1 => Follows(TmNext(resp)', StateOf(head)'.validators)
    <3> SUFFICES ASSUME head' = tmHeight' + 1
                 PROVE  Follows(TmNext(resp)', StateOf(head)'.validators)
      OBVIOUS
    <3>1. height = tmHeight + 1 /\ height # 0
      BY <1>2, <2>1 DEF TypeOK
    <3>2. StateOf(head)' = p
      BY <2>1, <3>1 DEF StateOf
    <3>3. Follows(TmNext(resp), validators)
      BY <1>1, <3>1 DEF Tracking
    <3> QED BY <1>2, <2>2, <3>2, <3>3
  <2> QED BY <1>2, <2>1, <2>4, <2>5 DEF Tracking
<1> QED BY <1>3, <1>4, CommitCases

LEMMA TrackingNext == TypeOK /\ Chain /\ Memory /\ Tracking /\ [Next]_vars => Tracking'
<1> SUFFICES ASSUME TypeOK, Chain, Memory, Tracking, [Next]_vars PROVE Tracking'
  OBVIOUS
<1>1. CASE Start
  <2>1. UNCHANGED <<halt, head, ledger, tmVars, resp>> /\ phase' \in {"fresh", "idle"}
    BY <1>1 DEF Start, InitPersistData, InitNoPersistData
  <2> QED BY <2>1 DEF Tracking, StateOf, TmNext, tmVars
<1>2. CASE InitChain
  BY <1>2 DEF InitChain, Tracking, StateOf, TmNext, tmVars
<1>3. CASE Decide
  <2>1. UNCHANGED <<phase, halt, memVars, work, head, ledger, tmHeight, tm, resp>>
    BY <1>3, Zenon DEF Decide
  <2> HIDE <1>3
  <2> QED BY <2>1 DEF Tracking, StateOf, TmNext, memVars
<1>4. CASE BeginBlock
  <2>1. UNCHANGED <<halt, head, ledger, tmVars, resp>> /\ phase' = "block"
    BY <1>4 DEF LastBlockHeight, UpdateHeader, BeginBlock
  <2> HIDE <1>4
  <2> QED BY <2>1 DEF Tracking, StateOf, TmNext, tmVars
<1>5. CASE DeliverTx
  <2>1. UNCHANGED <<phase, halt, height, blockVersion, validators, curr, admin,
                    head, ledger, tmVars, resp>>
    BY <1>5 DEF DeliverTx
  <2> HIDE <1>5
  <2> QED BY <2>1 DEF Tracking, StateOf, TmNext, tmVars
<1>6. CASE EndBlock
  BY <1>6, TrackingEndBlock
<1>7. CASE EndBlockStuck
  BY <1>7 DEF EndBlockStuck, Tracking, StateOf, TmNext, memVars, tmVars
<1>8. CASE Commit
  BY <1>8, TrackingCommit
<1>9. CASE SaveState
  <2>1. /\ phase = "idle" /\ head = tmHeight + 1 /\ tmHeight' = tmHeight + 1
        /\ tm'.next = TmNext(resp) /\ UNCHANGED <<phase, halt, head>>
    BY <1>9 DEF SaveState
  <2>2. ledger'[head] = ledger[head]
    <3>1. Recent(head)
      BY <2>1, AppAssumption DEF Recent, TypeOK
    <3>2. head \in DOMAIN ledger
      BY <2>1 DEF Chain, TypeOK
    <3> QED BY <1>9, <3>1, <3>2 DEF SaveState
  <2>3. StateOf(tmHeight)' = StateOf(head)
    BY <2>1, <2>2 DEF StateOf
  <2>4. Follows(tm'.next, StateOf(tmHeight)'.validators)
    BY <2>1, <2>3 DEF Tracking
  <2>5. head' # tmHeight' + 1
    BY <2>1 DEF TypeOK
  <2> HIDE <1>9
  <2> QED BY <2>1, <2>4, <2>5 DEF Tracking
<1>10. CASE Crash
  <2>1. /\ phase' = "down" /\ halt' = "none" /\ head' \in DOMAIN ledger \cup {0} /\ head' <= head
        /\ UNCHANGED <<ledger, tmVars, resp>>
    BY <1>10 DEF Crash
  <2>2. head' = tmHeight' + 1 => head' = head
    BY <2>1 DEF Chain, TypeOK, tmVars
  <2> HIDE <1>10
  <2> QED BY <2>1, <2>2 DEF Tracking, StateOf, TmNext, tmVars
<1>11. CASE UNCHANGED vars
  BY <1>11 DEF Tracking, StateOf, TmNext, vars, memVars, tmVars
<1> QED BY <1>1, <1>2, <1>3, <1>4, <1>5, <1>6, <1>7, <1>8, <1>9, <1>10, <1>11 DEF Next

-----------------------------------------------------------------------------
(* The theorems. *)

\* Tendermint's genesis set follows InitChain's validators.
LEMMA CoherentInit == Init => Coherent
<1> SUFFICES ASSUME Init PROVE Coherent
  OBVIOUS
<1>1. Chain
  BY DEF Init, Chain
<1>2. Memory
  BY DEF Init, Memory
<1>3. Tracking
  <2>1. StateOf(tmHeight) = GenesisState
    BY DEF Init, StateOf
  <2> QED BY <2>1, GenesisFields DEF Init, Tracking, Follows
<1> QED BY <1>1, <1>2, <1>3 DEF Coherent

\* In every reachable state the variables have their types, and the chain, the
\* strategy in memory and Tendermint's validator sets fit together, whatever
\* crashes and replays have happened.
THEOREM Coherence == Spec => [](TypeOK /\ Coherent)
<1>1. Init => TypeOK /\ Coherent
  BY TypeInit, CoherentInit
<1>2. TypeOK /\ Coherent /\ [Next]_vars => (TypeOK /\ Coherent)'
  BY TypeNext, ChainNext, MemoryNext, TrackingNext DEF Coherent
<1> QED BY <1>1, <1>2, PTL DEF Spec

\* Every variable of the node keeps its type.
THEOREM TypeCorrect == Spec => []TypeOK
BY Coherence, PTL

\* After every Commit a restart would load exactly what the node has in memory:
\* SetPersistenceData's conditional writes lose nothing.
THEOREM RestartLosesNothing == Spec => []RestartTransparent
<1>1. TypeOK /\ Coherent => RestartTransparent
  <2> SUFFICES ASSUME TypeOK, Chain, Memory, phase = "idle", head > 0
               PROVE  /\ height = head /\ ledger[head].height = head
                      /\ validators = ledger[head].validators
                      /\ curr = ledger[head].curr /\ next = ledger[head].next
                      /\ auth = ledger[head].auth
    BY DEF Coherent, RestartTransparent
  <2>1. StateOf(head) = ledger[head]
    BY DEF StateOf, TypeOK
  <2>2. ledger[head].height = head
    BY DEF Chain
  <2> QED BY <2>1, <2>2 DEF Memory
<1> QED BY <1>1, Coherence, PTL

\* When the node is in step with Tendermint, the Validators map is Tendermint's
\* set two heights ahead, up to genesis validators that InitChain ignored.
THEOREM ValidatorsAreTracked == Spec => []ValidatorsTracked
<1>1. TypeOK /\ Coherent => ValidatorsTracked
  BY DEF Coherent, Memory, Tracking, Follows, ValidatorsTracked
<1> QED BY <1>1, Coherence, PTL

\* Tendermint never refuses an update because it removes a stranger.
THEOREM UpdatesAreAccepted == Spec => []UpdatesAccepted
<1>1. Coherent => UpdatesAccepted
  BY DEF Coherent, Tracking, UpdatesAccepted
<1> QED BY <1>1, Coherence, PTL

-----------------------------------------------------------------------------
(***************************************************************************)
(* Validators followed through the tables: from the epoch that chose them, *)
(* over the two heights until they are in office, to the block that        *)
(* rewards their last vote.                                                *)
(***************************************************************************)
(* Epochs. *)

\* Quotient and remainder are unique.
LEMMA RemainderUnique ==
    ASSUME NEW N \in Nat \ {0}, NEW q \in Nat, NEW r \in 0..(N - 1),
           NEW p \in Nat, NEW t \in 0..(N - 1), N * q + r = N * p + t
    PROVE  r = t
<1>1. CASE q = p
  BY <1>1
<1>2. CASE q < p
  <2>1. PICK d \in Nat : p = q + 1 + d
    BY <1>2
  <2>2. N * p = N * q + N + N * d /\ N * d \in Nat
    BY <2>1
  <2> QED BY <2>2
<1>3. CASE q > p
  <2>1. PICK d \in Nat : q = p + 1 + d
    BY <1>3
  <2>2. N * q = N * p + N + N * d /\ N * d \in Nat
    BY <2>1
  <2> QED BY <2>2
<1> QED BY <1>1, <1>2, <1>3

\* The remainder counts up, and starts again after N - 1.
LEMMA RemainderNext ==
    ASSUME NEW N \in Nat \ {0}, NEW h \in Nat
    PROVE  /\ h % N \in 0..(N - 1)
           /\ (h + 1) % N = IF h % N = N - 1 THEN 0 ELSE (h % N) + 1
<1> DEFINE q == h \div N
           r == h % N
           p == (h + 1) \div N
           t == (h + 1) % N
<1>1. h = N * q + r /\ r \in 0..(N - 1) /\ q \in Nat
  OBVIOUS
<1>2. h + 1 = N * p + t /\ t \in 0..(N - 1) /\ p \in Nat
  <2>1. h + 1 \in Nat
    OBVIOUS
  <2> QED BY <2>1
<1> HIDE DEF q, r, p, t
<1>3. CASE r = N - 1
  <2>1. N * (q + 1) + 0 = N * p + t
    BY <1>1, <1>2, <1>3
  <2>2. q + 1 \in Nat /\ 0 \in 0..(N - 1)
    BY <1>1
  <2>3. t = 0
    BY <1>2, <2>1, <2>2, RemainderUnique
  <2> QED BY <1>1, <1>3, <2>3 DEF r, t
<1>4. CASE r # N - 1
  <2>1. N * q + (r + 1) = N * p + t
    BY <1>1, <1>2
  <2>2. r + 1 \in 0..(N - 1)
    BY <1>1, <1>4
  <2>3. t = r + 1
    BY <1>1, <1>2, <2>1, <2>2, RemainderUnique
  <2> QED BY <1>1, <1>4, <2>3 DEF r, t
<1> QED BY <1>3, <1>4

\* The last epoch end moves when an epoch ends, and by its length.
LEMMA EpochArithmetic ==
    ASSUME NEW h \in Nat
    PROVE  /\ LastEpochEnd(h) \in Nat /\ LastEpochEnd(h) <= h
           /\ IsEpochEnd(h) => LastEpochEnd(h) = h
           /\ IF IsEpochEnd(h + 1) THEN LastEpochEnd(h) = (h + 1) - EpochBlocks
                                   ELSE LastEpochEnd(h + 1) = LastEpochEnd(h)
<1>1. EpochBlocks \in Nat \ {0}
  BY StrategyAssumption
<1>2. /\ h % EpochBlocks \in 0..(EpochBlocks - 1)
      /\ (h + 1) % EpochBlocks
            = IF h % EpochBlocks = EpochBlocks - 1 THEN 0 ELSE (h % EpochBlocks) + 1
  BY <1>1, RemainderNext
<1>3. h % EpochBlocks <= h
  <2> DEFINE q == h \div EpochBlocks
             r == h % EpochBlocks
  <2>1. h = EpochBlocks * q + r /\ q \in Nat
    BY <1>1
  <2>2. EpochBlocks * q \in Nat /\ r \in Nat
    BY <1>1, <1>2, <2>1
  <2> HIDE DEF q, r
  <2>3. r <= h
    BY <2>1, <2>2
  <2> QED BY <2>3 DEF r
<1> DEFINE r == h % EpochBlocks
           t == (h + 1) % EpochBlocks
<1>4. r \in 0..(EpochBlocks - 1) /\ r <= h /\ t = IF r = EpochBlocks - 1 THEN 0 ELSE r + 1
  BY <1>2, <1>3
<1>5. LastEpochEnd(h) = h - r /\ LastEpochEnd(h + 1) = (h + 1) - t
  BY DEF LastEpochEnd
<1>6. IsEpochEnd(h) <=> r = 0
  BY DEF IsEpochEnd
<1>7. IsEpochEnd(h + 1) <=> t = 0
  BY DEF IsEpochEnd
<1> HIDE DEF r, t
<1> QED BY <1>1, <1>4, <1>5, <1>6, <1>7

\* In epochs of three blocks or more, two blocks after an epoch end end none.
LEMMA EpochSpacing ==
    ASSUME NEW h \in Nat, LongEpochs, IsEpochEnd(h)
    PROVE  ~IsEpochEnd(h + 1) /\ ~IsEpochEnd(h + 2)
<1>1. EpochBlocks \in Nat \ {0} /\ EpochBlocks >= 3
  BY StrategyAssumption DEF LongEpochs
<1> DEFINE r == h % EpochBlocks
           t == (h + 1) % EpochBlocks
           u == (h + 1 + 1) % EpochBlocks
<1>2. t = IF r = EpochBlocks - 1 THEN 0 ELSE r + 1
  BY <1>1, RemainderNext
<1>3. u = IF t = EpochBlocks - 1 THEN 0 ELSE t + 1
  <2>1. h + 1 \in Nat
    OBVIOUS
  <2> QED BY <1>1, <2>1, RemainderNext
<1>4. r = 0 /\ (IsEpochEnd(h + 1) <=> t = 0) /\ (IsEpochEnd(h + 1 + 1) <=> u = 0)
  BY Zenon DEF IsEpochEnd
<1>5. h + 1 + 1 = h + 2
  OBVIOUS
<1> HIDE DEF r, t, u
<1>6. t # 0 /\ u # 0
  BY <1>1, <1>2, <1>3, <1>4
<1> QED BY <1>4, <1>5, <1>6, Zenon

-----------------------------------------------------------------------------
(* Tables. *)

\* What a block's evidence and transactions do to a signer of a table at height h:
\* it stays bonded or unbonds at h, and no other wait changes.
Evolves(t, u, h) ==
    \A s \in Signers :
        /\ s \in Bonded(t) => s \in Bonded(u) \/ u.unbondAt[s] = h
        /\ u.unbondAt[s] \in {t.unbondAt[s], h}

LEMMA TablesEvolve ==
    ASSUME NEW t \in Table, NEW h \in Nat
    PROVE  /\ Evolves(t, t, h)
           /\ \A S \in SUBSET Signers : Evolves(t, SlashAll(t, S, h), h)
           /\ \A s \in Signers : Evolves(t, RemovePosItem(t, s, h, FALSE), h)
           /\ \A s \in Signers, n \in Nat \ {0} : Evolves(t, InsertPosItem(t, s, n), h)
<1>1. Evolves(t, t, h)
  BY DEF Evolves
<1>2. ASSUME NEW S \in SUBSET Signers PROVE Evolves(t, SlashAll(t, S, h), h)
  BY DEF Evolves, SlashAll, Bonded, Table
<1>3. ASSUME NEW s \in Signers PROVE Evolves(t, RemovePosItem(t, s, h, FALSE), h)
  BY DEF Evolves, RemovePosItem, Bonded, Table
<1>4. ASSUME NEW s \in Signers, NEW n \in Nat \ {0} PROVE Evolves(t, InsertPosItem(t, s, n), h)
  BY DEF Evolves, InsertPosItem, Bonded, Table
<1> QED BY <1>1, <1>2, <1>3, <1>4

\* A table that evolves forgets nobody, and serves the epoch that began before.
LEMMA EvolvedTable ==
    ASSUME NEW c \in Table, NEW t \in Table, NEW u \in Table, NEW h \in Nat, NEW began \in Nat,
           began < h, Evolves(t, u, h)
    PROVE  /\ Serving(c, t, began) => Serving(c, u, began)
           /\ Known(t) \subseteq Known(u)
<1>1. ASSUME Serving(c, t, began), NEW s \in Bonded(c)
      PROVE  s \in Bonded(u) \/ u.unbondAt[s] > began
  <2>1. s \in Signers /\ (s \in Bonded(t) \/ t.unbondAt[s] > began)
    BY <1>1 DEF Serving, Bonded
  <2> QED BY <2>1 DEF Evolves
<1>2. ASSUME NEW s \in Known(t) PROVE s \in Known(u)
  <2>1. s \in Signers /\ (s \in Bonded(t) \/ t.unbondAt[s] > 0)
    BY DEF Known, Bonded, Unbonding
  <2>2. s \in Bonded(u) \/ u.unbondAt[s] > 0
    BY <2>1 DEF Evolves
  <2> QED BY <2>1, <2>2 DEF Known, Unbonding
<1> QED BY <1>1, <1>2 DEF Serving

\* Dropping the waits that are over leaves the bonded ones alone, and keeps a wait
\* that began less than UnbondWait blocks ago.
LEMMA ReleaseKeeps ==
    ASSUME NEW t \in Table, NEW h \in Nat
    PROVE  LET u == TryRemoveUnbondPosItems(t, h) IN
           /\ Bonded(u) = Bonded(t)
           /\ \A s \in Signers : h - t.unbondAt[s] < UnbondWait => u.unbondAt[s] = t.unbondAt[s]
<1> DEFINE u == TryRemoveUnbondPosItems(t, h)
<1>1. /\ u.slots = t.slots
      /\ \A s \in Signers :
            u.unbondAt[s] = IF s \in Released(t, h) THEN 0 ELSE t.unbondAt[s]
  BY DEF TryRemoveUnbondPosItems, Table
<1>2. ASSUME NEW s \in Signers, h - t.unbondAt[s] < UnbondWait PROVE s \notin Released(t, h)
  BY <1>2, UnbondWaitAssumption DEF Released, Table
<1> HIDE DEF u
<1>3. Bonded(u) = Bonded(t)
  BY <1>1 DEF Bonded
<1> QED BY <1>1, <1>2, <1>3 DEF u

\* A table serves its own epoch, also after the waits that are over were dropped.
LEMMA SelfServing ==
    ASSUME NEW t \in Table, NEW u, Bonded(u) = Bonded(t), NEW began
    PROVE  Serving(t, u, began)
BY DEF Serving

\* Every transaction evolves the next table.
LEMMA DeliverEvolves ==
    ASSUME TypeOK, Chain, DeliverTx
    PROVE  Evolves(next, next', height)
<1> DEFINE tx == ThisTx
<1>0. tx \in Tx
  BY ThisTxType DEF DeliverTx
<1>1. next \in Table /\ height \in Nat
  BY DEF TypeOK
<1>d. \/ tx.kind = "bond" /\ DeliverBond(tx)
      \/ tx.kind = "unbond" /\ DeliverUnbond(tx)
      \/ next' = next
  BY DEF DeliverTx, DeliverAuth, DeliverCall, DeliverFailed
<1>s. /\ tx.kind \in {"bond", "unbond"} => tx.signer \in Signers
      /\ tx.kind = "bond" => tx.slots \in Nat \ {0}
  BY <1>0, AppAssumption DEF Tx
<1> HIDE DEF tx
<1>2. CASE tx.kind = "bond" /\ DeliverBond(tx)
  BY <1>1, <1>2, <1>s, TablesEvolve DEF DeliverBond
<1>3. CASE tx.kind = "unbond" /\ DeliverUnbond(tx)
  BY <1>1, <1>3, <1>s, TablesEvolve DEF DeliverUnbond
<1>4. CASE next' = next
  BY <1>1, <1>4, TablesEvolve
<1> QED BY <1>2, <1>3, <1>4, <1>d

\* So does the evidence of BeginBlock.
LEMMA BeginEvolves ==
    ASSUME TypeOK, BeginBlock
    PROVE  Evolves(next, next', head + 1)
<1>1. next' = SlashAll(next, store[head + 1].evidence \cap Bonded(next), head + 1)
  BY DEF BeginBlock, LastBlockHeight, DoPunish
<1>2. store[head + 1].evidence \cap Bonded(next) \in SUBSET Signers
  BY DEF Bonded
<1>3. next \in Table /\ head + 1 \in Nat
  BY DEF TypeOK
<1> QED BY <1>1, <1>2, <1>3, TablesEvolve

-----------------------------------------------------------------------------
(* The chain's states, and how each step changes them. *)

LEMMA StateType ==
    ASSUME TypeOK, NEW h \in DOMAIN ledger \cup {0}
    PROVE  /\ StateOf(h) \in WorkState
           /\ StateOf(h).curr \in Table /\ StateOf(h).next \in Table
<1>1. StateOf(h) \in WorkState
  BY GenesisFields DEF StateOf, TypeOK
<1> QED BY <1>1 DEF WorkState

\* The two heights that matter most have a state.
LEMMA HeightsHaveStates ==
    ASSUME TypeOK, Chain
    PROVE  head \in DOMAIN ledger \cup {0} /\ tmHeight \in DOMAIN ledger \cup {0}
BY DEF TypeOK, Chain

\* Starts, stops and crashes leave chain and Tendermint alone, and no block begun.
LEMMA QuietStep ==
    ASSUME TypeOK, Chain, Start \/ InitChain \/ EndBlockStuck \/ Crash
    PROVE  /\ phase' \notin {"block", "ended"}
           /\ UNCHANGED <<ledger, store, tmHeight, tm, resp>>
           /\ head' \in DOMAIN ledger \cup {0}
           /\ head' = tmHeight' + 1 => head' = head
<1>1. CASE Start
  BY <1>1 DEF Start, InitPersistData, InitNoPersistData, tmVars, Chain, TypeOK
<1>2. CASE InitChain
  BY <1>2 DEF InitChain, tmVars, Chain, TypeOK
<1>3. CASE EndBlockStuck
  BY <1>3 DEF EndBlockStuck, tmVars, Chain, TypeOK
<1>4. CASE Crash
  <2>1. /\ phase' = "down" /\ head' \in DOMAIN ledger \cup {0} /\ head' <= head
        /\ UNCHANGED <<ledger, tmVars, resp>>
    BY <1>4 DEF Crash
  <2>2. head' \in Nat
    BY <2>1 DEF TypeOK
  <2> QED BY <2>1, <2>2 DEF Chain, TypeOK, tmVars
<1> QED BY <1>1, <1>2, <1>3, <1>4

\* Deciding a block touches nothing but the store.
LEMMA DecideStep ==
    ASSUME TypeOK, Chain, Decide
    PROVE  /\ UNCHANGED <<phase, halt, memVars, work, head, ledger, rules, tmHeight, tm, resp>>
           /\ DOMAIN store' = DOMAIN store \cup {tmHeight + 1}
           /\ \A h \in DOMAIN store : store'[h] = store[h]
           /\ LET b == store'[tmHeight + 1]
              IN  /\ b.votes \subseteq tm.last
                  /\ \A n \in 1..Len(b.txs) : TxAllowed(b.txs[n], tmHeight + 1)
<1>1. UNCHANGED <<phase, halt, memVars, work, head, ledger, rules, tmHeight, tm, resp>>
  BY Zenon DEF Decide
<1>2. (tmHeight + 1) \notin DOMAIN store
  BY Zenon DEF Decide
<1>3. PICK proposer \in tm.cur, votes \in SUBSET tm.last, evidence \in SUBSET tm.past,
           seed \in Seeds \cup {NoSeed}, n \in 0..MaxOps :
        /\ Cardinality(tm.last \ votes) <= MaxAbsent
        /\ Cardinality(evidence) + n <= IF tmHeight + 1 \in BusyHeights THEN MaxOps ELSE 0
        /\ \E txs \in [1..n -> {tx \in Tx : TxAllowed(tx, tmHeight + 1)}] :
              store' = [h \in DOMAIN store \cup {tmHeight + 1} |->
                          IF h \in DOMAIN store THEN store[h]
                          ELSE [proposer |-> proposer, votes |-> votes,
                                evidence |-> evidence, txs |-> txs, seed |-> seed]]
  BY Zenon DEF Decide
<1>4. PICK txs \in [1..n -> {tx \in Tx : TxAllowed(tx, tmHeight + 1)}] :
              store' = [h \in DOMAIN store \cup {tmHeight + 1} |->
                          IF h \in DOMAIN store THEN store[h]
                          ELSE [proposer |-> proposer, votes |-> votes,
                                evidence |-> evidence, txs |-> txs, seed |-> seed]]
  BY <1>3
<1> DEFINE b == [proposer |-> proposer, votes |-> votes,
                 evidence |-> evidence, txs |-> txs, seed |-> seed]
<1>5. b.votes \subseteq tm.last /\ b.txs = txs
  OBVIOUS
<1>t. \A i \in 1..Len(txs) : TxAllowed(txs[i], tmHeight + 1)
  <2>1. n \in Nat /\ Len(txs) = n
    BY AppAssumption, LenProperties
  <2> QED BY <2>1
<1>6. store' = [h \in DOMAIN store \cup {tmHeight + 1} |->
                  IF h \in DOMAIN store THEN store[h] ELSE b]
  BY <1>4, Zenon
<1> HIDE DEF b
<1>7. store'[tmHeight + 1] = b
  BY <1>2, <1>6
<1> QED BY <1>1, <1>2, <1>5, <1>6, <1>7, <1>t

\* A block that is written adds a state or writes the one that is there again.
LEMMA CommitStep ==
    ASSUME TypeOK, Chain, Memory, Commit
    PROVE  \/ /\ phase' = "halted" /\ halt' \in {"reward", "appHash"}
              /\ UNCHANGED <<memVars, head, ledger, store, tmHeight, tm, resp>>
           \/ /\ phase' = "idle" /\ halt' = "none"
              /\ UNCHANGED <<memVars, store, tmHeight, tm, resp>>
              /\ head' = height /\ height = head + 1
              /\ DOMAIN ledger' = DOMAIN ledger \cup {height}
              /\ \A h \in DOMAIN ledger \cup {0} : StateOf(h)' = StateOf(h)
              /\ LET w == StateOf(height)'
                 IN  /\ w = CommittedState /\ w.validators = validators
                     /\ w.curr = curr /\ w.next = next /\ w.auth = auth
<1>1. phase = "ended" /\ UNCHANGED <<memVars, store, tmHeight, tm, resp>>
  BY CommitCases DEF tmVars
<1>2. CASE phase' = "halted" /\ halt' \in {"reward", "appHash"} /\ UNCHANGED <<head, ledger>>
  BY <1>1, <1>2
<1>3. CASE WriteBlock /\ (height \in DOMAIN ledger => ledger[height] = CommittedState)
  <2> DEFINE p == CommittedState
  <2>1. /\ phase' = "idle" /\ halt' = "none" /\ head' = height
        /\ DOMAIN ledger' = DOMAIN ledger \cup {height} /\ ledger'[height] = p
        /\ \A h \in DOMAIN ledger : h # height => ledger'[h] = ledger[h]
    BY <1>3, WriteEffect
  <2>2. p.validators = validators /\ p.curr = curr /\ p.next = next /\ p.auth = auth
    BY <1>1, CommittedFields, CommittedMemory
  <2>3. height = head + 1 /\ height \in Nat \ {0}
    BY <1>1 DEF Chain, TypeOK
  <2>4. height \in DOMAIN ledger => ledger[height] = p
    BY <1>3
  <2> HIDE DEF p
  <2>5. StateOf(height)' = p
    <3>1. height' = height
      BY <1>1 DEF memVars
    <3> QED BY <2>1, <2>3, <3>1 DEF StateOf
  <2>6. \A h \in DOMAIN ledger \cup {0} : StateOf(h)' = StateOf(h)
    <3>1. \A h \in DOMAIN ledger : ledger'[h] = ledger[h]
      BY <2>1, <2>4
    <3> QED BY <3>1 DEF StateOf
  <2> QED BY <1>1, <2>1, <2>2, <2>3, <2>5, <2>6 DEF p
<1> QED BY <1>2, <1>3, CommitCases

\* Tendermint's save moves its sets up, and forgets old heights only.
LEMMA SaveStep ==
    ASSUME TypeOK, Chain, SaveState
    PROVE  /\ phase = "idle" /\ phase' = "idle" /\ head = tmHeight + 1 /\ tmHeight' = head
           /\ UNCHANGED <<memVars, head>>
           /\ tm'.last = tm.cur /\ tm'.cur = tm.next /\ tm'.next = TmNext(resp)
           /\ DOMAIN ledger' \subseteq DOMAIN ledger /\ head \in DOMAIN ledger'
           /\ \A h \in DOMAIN ledger' \cup {0} : StateOf(h)' = StateOf(h)
           /\ DOMAIN store' \subseteq DOMAIN store
           /\ \A h \in DOMAIN store' : store'[h] = store[h]
<1>1. /\ phase = "idle" /\ phase' = "idle" /\ head = tmHeight + 1 /\ tmHeight' = head
      /\ UNCHANGED <<memVars, head>>
      /\ tm'.last = tm.cur /\ tm'.cur = tm.next /\ tm'.next = TmNext(resp)
  BY DEF SaveState
<1>2. /\ DOMAIN ledger' = {g \in DOMAIN ledger : Recent(g)}
      /\ \A h \in DOMAIN ledger' : ledger'[h] = ledger[h]
      /\ DOMAIN store' \subseteq DOMAIN store
      /\ \A h \in DOMAIN store' : store'[h] = store[h]
  BY DEF SaveState
<1>3. Recent(head) /\ head \in DOMAIN ledger
  BY <1>1, AppAssumption DEF Recent, TypeOK, Chain
<1>4. \A h \in DOMAIN ledger' \cup {0} : StateOf(h)' = StateOf(h)
  BY <1>2 DEF StateOf
<1> QED BY <1>1, <1>2, <1>3, <1>4

-----------------------------------------------------------------------------
(* Seated and Successive. *)

\* Everybody InitChain seats is bonded in the table it makes.
LEMMA GenesisSeated ==
    /\ GenesisValidators \ Ignored \subseteq Bonded(InitialTable)
    /\ Serving(InitialTable, InitialTable, 0)
    /\ LastEpochEnd(0) = 0
<1>1. InitialTable.slots = [s \in Signers |-> IF s \in GenesisValidators THEN InitSlots[s] ELSE 0]
  BY DEF InitialTable, CreatePosTable
<1>2. GenesisValidators \ Ignored \subseteq Bonded(InitialTable)
  BY <1>1, AppAssumption DEF Bonded, Ignored
<1>3. Serving(InitialTable, InitialTable, 0)
  BY DEF Serving
<1>4. LastEpochEnd(0) = 0
  BY EpochArithmetic
<1> QED BY <1>2, <1>3, <1>4

LEMMA SeatedInit == Init => Seated /\ Successive
<1> SUFFICES ASSUME Init PROVE Seated /\ Successive
  OBVIOUS
<1>1. StateOf(0) = GenesisState /\ DOMAIN ledger = {}
  BY DEF Init, StateOf
<1>2. Seated
  BY <1>1, GenesisFields, GenesisSeated DEF Init, Seated
<1> QED BY <1>2 DEF Init, Successive

\* At the end of a block the current table serves what is left of its epoch.
LEMMA SeatedEndBlock ==
    ASSUME TypeOK, Chain, Seated, Successive, EndBlock
    PROVE  Seated' /\ Successive'
<1>1. /\ phase = "block" /\ phase' \in {"ended", "halted"}
      /\ curr' = IF IsEpochEnd(height) THEN next ELSE curr
      /\ next' = IF IsEpochEnd(height) THEN TryRemoveUnbondPosItems(next, height) ELSE next
      /\ validators' = GetUpdatedValidators(curr', blockVersion, CurrentBlock.seed, height)
      /\ UNCHANGED <<height, head, ledger, tmHeight>>
  BY DEF EndBlock, EpochTable, tmVars
<1>2. height = head + 1 /\ head \in Nat /\ height \in Nat /\ curr \in Table /\ next \in Table
  BY <1>1 DEF Chain, TypeOK
<1>3. validators' \subseteq Bonded(curr')
  BY <1>1, SelectionIsBonded
<1>4. Serving(curr', next', LastEpochEnd(height))
  <2>1. CASE IsEpochEnd(height)
    <3>1. Bonded(next') = Bonded(curr')
      BY <1>1, <1>2, <2>1, ReleaseKeeps
    <3> QED BY <1>1, <1>2, <2>1, <3>1, SelfServing
  <2>2. CASE ~IsEpochEnd(height)
    <3>1. LastEpochEnd(height) = LastEpochEnd(head)
      BY <1>2, <2>2, EpochArithmetic
    <3> QED BY <1>1, <2>2, <3>1 DEF Seated
  <2> QED BY <2>1, <2>2
<1>5. \A h : StateOf(h)' = StateOf(h)
  BY <1>1 DEF StateOf
<1>6. Succeeds(StateOf(head), curr', height)
  BY <1>1 DEF Succeeds, Successive
<1>7. Seated'
  BY <1>1, <1>3, <1>4, <1>5 DEF Seated
<1>8. Successive'
  BY <1>1, <1>5, <1>6 DEF Successive, Succeeds
<1> QED BY <1>7, <1>8

LEMMA SeatedBeginBlock ==
    ASSUME TypeOK, Chain, Memory, Seated, Successive, BeginBlock
    PROVE  Seated' /\ Successive'
<1>1. /\ phase = "idle" /\ phase' = "block" /\ UNCHANGED <<curr, head, ledger, tmHeight>>
  BY DEF BeginBlock, tmVars
<1>2. curr = StateOf(head).curr /\ next = StateOf(head).next
  BY <1>1 DEF Memory
<1>3. curr \in Table /\ next \in Table /\ head \in Nat /\ head + 1 \in Nat
  BY DEF TypeOK
<1>4. next' \in Table
  BY TypeBeginBlock DEF TypeOK
<1>5. LastEpochEnd(head) \in Nat /\ LastEpochEnd(head) < head + 1
  BY <1>3, EpochArithmetic
<1>6. Serving(curr, next, LastEpochEnd(head))
  BY <1>2, HeightsHaveStates DEF Seated
<1>7. Serving(curr, next', LastEpochEnd(head)) /\ Known(next) \subseteq Known(next')
  BY <1>3, <1>4, <1>5, <1>6, BeginEvolves, EvolvedTable
<1>8. \A h : StateOf(h)' = StateOf(h)
  BY <1>1 DEF StateOf
<1>9. Seated'
  BY <1>1, <1>7, <1>8 DEF Seated
<1>10. Successive'
  BY <1>1, <1>2, <1>7, <1>8 DEF Successive, Succeeds
<1> QED BY <1>9, <1>10

LEMMA SeatedDeliverTx ==
    ASSUME TypeOK, Chain, Memory, Seated, Successive, DeliverTx
    PROVE  Seated' /\ Successive'
<1>1. phase = "block" /\ phase' = "block" /\ UNCHANGED <<height, curr, head, ledger, tmHeight>>
  BY DEF DeliverTx, tmVars
<1>2. curr \in Table /\ next \in Table /\ head \in Nat /\ height = head + 1 /\ height \in Nat
  BY <1>1 DEF TypeOK, Chain
<1>3. next' \in Table
  BY DeliverEffect
<1>4. LastEpochEnd(head) \in Nat /\ LastEpochEnd(head) < height
  BY <1>2, EpochArithmetic
<1>5. Serving(curr, next', LastEpochEnd(head)) /\ Known(next) \subseteq Known(next')
  BY <1>1, <1>2, <1>3, <1>4, DeliverEvolves, EvolvedTable DEF Seated
<1>6. \A h : StateOf(h)' = StateOf(h)
  BY <1>1 DEF StateOf
<1>7. Seated'
  BY <1>1, <1>5, <1>6 DEF Seated
<1>8. Successive'
  BY <1>1, <1>5, <1>6 DEF Successive, Succeeds
<1> QED BY <1>7, <1>8

LEMMA SeatedCommit ==
    ASSUME TypeOK, Chain, Memory, Seated, Successive, Commit
    PROVE  Seated' /\ Successive'
<1>1. CASE phase' = "halted" /\ UNCHANGED <<head, ledger, tmHeight>>
  <2>1. \A h : StateOf(h)' = StateOf(h)
    BY <1>1 DEF StateOf
  <2> QED BY <1>1, <2>1 DEF Seated, Successive, Succeeds
<1>2. CASE /\ phase' = "idle" /\ UNCHANGED <<memVars, tmHeight>>
           /\ head' = height /\ height = head + 1
           /\ DOMAIN ledger' = DOMAIN ledger \cup {height}
           /\ \A h \in DOMAIN ledger \cup {0} : StateOf(h)' = StateOf(h)
           /\ StateOf(height)'.validators = validators
           /\ StateOf(height)'.curr = curr /\ StateOf(height)'.next = next
  <2>1. phase = "ended" /\ height' = height
    BY <1>2 DEF Commit, memVars
  <2>2. /\ validators \subseteq Bonded(curr) /\ Serving(curr, next, LastEpochEnd(height))
        /\ Succeeds(StateOf(head), curr, height)
    BY <2>1 DEF Seated, Successive
  <2>3. ASSUME NEW h \in DOMAIN ledger' \cup {0}
        PROVE  /\ StateOf(h)'.validators \subseteq Bonded(StateOf(h)'.curr)
               /\ Serving(StateOf(h)'.curr, StateOf(h)'.next, LastEpochEnd(h))
    <3>1. CASE h \in DOMAIN ledger \cup {0}
      BY <1>2, <3>1 DEF Seated
    <3>2. CASE h = height
      <4>1. StateOf(h)' = StateOf(height)'
        BY <2>1, <3>2
      <4> QED BY <1>2, <2>2, <3>2, <4>1
    <3> QED BY <1>2, <3>1, <3>2
  <2>4. Seated'
    BY <1>2, <2>3 DEF Seated
  <2>5. head' = tmHeight' + 1 => Succeeds(StateOf(tmHeight)', StateOf(head)'.curr, head')
    <3> SUFFICES ASSUME head' = tmHeight' + 1
                 PROVE  Succeeds(StateOf(tmHeight)', StateOf(head)'.curr, head')
      OBVIOUS
    <3>1. head = tmHeight
      BY <1>2 DEF TypeOK
    <3>2. StateOf(tmHeight)' = StateOf(head)
      <4>1. tmHeight' = tmHeight
        BY <1>2
      <4>2. StateOf(tmHeight)' = StateOf(tmHeight)
        BY <1>2, <4>1, HeightsHaveStates DEF StateOf
      <4> QED BY <3>1, <4>2
    <3>3. StateOf(head)' = StateOf(height)'
      BY <1>2, <2>1 DEF StateOf
    <3> QED BY <1>2, <2>2, <3>2, <3>3
  <2> QED BY <1>2, <2>4, <2>5 DEF Successive
<1> QED BY <1>1, <1>2, CommitStep, Zenon

LEMMA SeatedNext ==
    ASSUME TypeOK, Chain, Memory, Seated, Successive, [Next]_vars
    PROVE  Seated' /\ Successive'
<1>1. CASE Start \/ InitChain \/ EndBlockStuck \/ Crash
  <2>1. /\ phase' \notin {"block", "ended"} /\ UNCHANGED <<ledger, tmHeight>>
        /\ head' = tmHeight' + 1 => head' = head
    BY <1>1, QuietStep
  <2>2. \A h : StateOf(h)' = StateOf(h)
    BY <2>1 DEF StateOf
  <2>3. Seated'
    BY <2>1, <2>2 DEF Seated
  <2>4. head' = tmHeight' + 1 => Succeeds(StateOf(tmHeight)', StateOf(head)'.curr, head')
    BY <2>1 DEF Successive, Succeeds, StateOf
  <2> QED BY <2>1, <2>3, <2>4 DEF Successive
<1>2. CASE Decide
  <2>1. UNCHANGED <<phase, memVars, head, ledger, tmHeight>>
    BY <1>2, DecideStep
  <2>2. \A h : StateOf(h)' = StateOf(h)
    BY <2>1 DEF StateOf
  <2> HIDE <1>2
  <2> QED BY <2>1, <2>2 DEF Seated, Successive, Succeeds, memVars
<1>3. CASE SaveState
  <2>1. /\ phase = "idle" /\ phase' = "idle" /\ head = tmHeight + 1 /\ tmHeight' = head
        /\ head' = head
        /\ DOMAIN ledger' \subseteq DOMAIN ledger
        /\ \A h \in DOMAIN ledger' \cup {0} : StateOf(h)' = StateOf(h)
    BY <1>3, SaveStep
  <2>2. head' # tmHeight' + 1
    BY <2>1 DEF TypeOK
  <2> HIDE <1>3
  <2> QED BY <2>1, <2>2 DEF Seated, Successive
<1>4. CASE UNCHANGED vars
  <2>1. UNCHANGED <<phase, memVars, head, ledger, tmHeight>>
    BY <1>4 DEF vars, tmVars
  <2> QED BY <2>1 DEF Seated, Successive, Succeeds, StateOf, memVars
<1> QED BY <1>1, <1>2, <1>3, <1>4, SeatedBeginBlock, SeatedDeliverTx, SeatedEndBlock,
           SeatedCommit DEF Next

\* In every reachable state the validators of every height come from that height's
\* table, and the next table accounts for everybody in it.
THEOREM SeatsAccounted == Spec => [](Seated /\ Successive)
<1>1. Init => Seated /\ Successive
  BY SeatedInit
<1>2. TypeOK /\ Coherent /\ Seated /\ Successive /\ [Next]_vars => (Seated /\ Successive)'
  BY SeatedNext DEF Coherent
<1> QED BY <1>1, <1>2, Coherence, PTL DEF Spec

\* Whoever Tendermint has two heights ahead, the current table has bonded, and the
\* next one knows; unless the application never counted it among its validators.
LEMMA OfficeIsBonded ==
    ASSUME TypeOK, Chain, Tracking, Seated
    PROVE  LET w == StateOf(tmHeight) IN
           /\ tm.next \ Ignored \subseteq Bonded(w.curr)
           /\ \A s \in Bonded(w.curr) : s \in Bonded(w.next)
                                         \/ w.next.unbondAt[s] > LastEpochEnd(tmHeight)
           /\ Bonded(w.curr) \subseteq Known(w.next)
<1> DEFINE w == StateOf(tmHeight)
<1>1. tm.next \ Ignored \subseteq w.validators
  BY DEF Tracking, Follows
<1>2. w.validators \subseteq Bonded(w.curr) /\ Serving(w.curr, w.next, LastEpochEnd(tmHeight))
  BY HeightsHaveStates DEF Seated
<1>3. w.next \in Table /\ tmHeight \in Nat
  BY HeightsHaveStates, StateType DEF TypeOK
<1> HIDE DEF w
<1>4. \A s \in Bonded(w.curr) : s \in Bonded(w.next) \/ w.next.unbondAt[s] > LastEpochEnd(tmHeight)
  BY <1>2 DEF Serving
<1>5. ASSUME NEW s \in Bonded(w.curr) PROVE s \in Known(w.next)
  <2>1. LastEpochEnd(tmHeight) \in Nat
    BY <1>3, EpochArithmetic
  <2>2. s \in Signers /\ w.next.unbondAt[s] \in Nat
    BY <1>3 DEF Bonded, Table
  <2>3. s \in Bonded(w.next) \/ w.next.unbondAt[s] > 0
    BY <1>4, <2>1, <2>2
  <2> QED BY <2>2, <2>3 DEF Known, Unbonding
<1> QED BY <1>1, <1>2, <1>4, <1>5 DEF w

\* A signer that unbonded or was punished leaves the validator set at the first
\* epoch end: whoever is still in it is bonded, or has unbonded since.
THEOREM UnbondedAreOut == Spec => []UnbondedLeave
<1>1. TypeOK /\ Coherent /\ Seated => UnbondedLeave
  <2> SUFFICES ASSUME TypeOK, Chain, Memory, Tracking, Seated,
                      phase = "idle", head = tmHeight, NEW s \in tm.next \ Ignored
               PROVE  s \in Bonded(next) \/ next.unbondAt[s] > LastEpochEnd(head)
    BY DEF Coherent, UnbondedLeave
  <2>1. next = StateOf(tmHeight).next
    BY DEF Memory
  <2> QED BY <2>1, OfficeIsBonded
<1> QED BY <1>1, Coherence, SeatsAccounted, PTL

-----------------------------------------------------------------------------
(* Remembered: the next table still knows who was in office. *)

LEMMA RememberedInit == Init => Remembered
<1> SUFFICES ASSUME Init PROVE Remembered
  OBVIOUS
<1>1. StateOf(tmHeight) = GenesisState /\ tm.cur = GenesisValidators
  BY DEF Init, StateOf
<1>2. tm.cur \ Ignored \subseteq Known(StateOf(tmHeight).next)
  BY <1>1, GenesisFields, GenesisSeated DEF Known
<1>3. phase = "down" /\ head # tmHeight + 1
  BY DEF Init
<1> QED BY <1>2, <1>3 DEF Remembered

\* An epoch end drops no wait that began in the epoch it ends.
LEMMA RememberedEndBlock ==
    ASSUME LongWait, TypeOK, Chain, Seated, Successive, Remembered, EndBlock
    PROVE  Remembered'
<1>1. /\ phase = "block"
      /\ next' = IF IsEpochEnd(height) THEN TryRemoveUnbondPosItems(next, height) ELSE next
      /\ UNCHANGED <<head, ledger, tmHeight, tm>>
  BY DEF EndBlock, tmVars
<1>2. height = head + 1 /\ head \in Nat /\ height \in Nat /\ next \in Table /\ next' \in Table
  BY <1>1, TypeEndBlock DEF Chain, TypeOK
<1>3. StateOf(head).validators \subseteq Bonded(curr) /\ Serving(curr, next, LastEpochEnd(head))
  BY <1>1, HeightsHaveStates DEF Seated, Successive
<1>4. ASSUME NEW s \in StateOf(head).validators PROVE s \in Known(next')
  <2> DEFINE e == LastEpochEnd(head)
             d == next.unbondAt[s]
  <2>1. s \in Signers /\ (s \in Bonded(next) \/ d > e)
    BY <1>3, <1>4 DEF Bonded, Serving
  <2>2. e \in Nat /\ d \in Nat /\ (IsEpochEnd(height) => e = height - EpochBlocks)
    <3>1. e \in Nat /\ (IsEpochEnd(head + 1) => e = (head + 1) - EpochBlocks)
      BY <1>2, EpochArithmetic
    <3>2. d \in Nat
      BY <1>2, <2>1 DEF Table
    <3> QED BY <1>2, <3>1, <3>2
  <2>3. CASE IsEpochEnd(height)
    <3>1. Bonded(next') = Bonded(next) /\ (height - d < UnbondWait => next'.unbondAt[s] = d)
      BY <1>1, <1>2, <2>1, <2>3, ReleaseKeeps
    <3> HIDE DEF e, d
    <3>2. d > e => height - d < UnbondWait /\ d > 0
      BY <1>2, <2>2, <2>3, StrategyAssumption, UnbondWaitAssumption DEF LongWait
    <3>3. s \in Bonded(next') \/ next'.unbondAt[s] > 0
      BY <2>1, <3>1, <3>2
    <3> QED BY <2>1, <3>3 DEF Known, Unbonding
  <2>4. CASE ~IsEpochEnd(height)
    <3>1. next' = next
      BY <1>1, <2>4
    <3>2. s \in Bonded(next) \/ next.unbondAt[s] > 0
      BY <2>1, <2>2
    <3> QED BY <2>1, <3>1, <3>2 DEF Known, Unbonding
  <2> QED BY <2>3, <2>4
<1>5. \A h : StateOf(h)' = StateOf(h)
  BY <1>1 DEF StateOf
<1>6. head' # tmHeight' + 1
  BY <1>1, <1>2 DEF Chain, TypeOK
<1> QED BY <1>1, <1>4, <1>5, <1>6 DEF Remembered

LEMMA RememberedCommit ==
    ASSUME TypeOK, Chain, Memory, Remembered, Commit
    PROVE  Remembered'
<1>1. CASE phase' = "halted" /\ UNCHANGED <<head, ledger, tmHeight, tm>>
  BY <1>1 DEF Remembered, StateOf
<1>2. CASE /\ phase' = "idle" /\ UNCHANGED <<memVars, tmHeight, tm>>
           /\ head' = height /\ height = head + 1
           /\ \A h \in DOMAIN ledger \cup {0} : StateOf(h)' = StateOf(h)
           /\ StateOf(height)'.next = next
  <2>1. phase = "ended" /\ height' = height
    BY <1>2 DEF Commit, memVars
  <2>2. StateOf(tmHeight)' = StateOf(tmHeight)
    BY <1>2, HeightsHaveStates DEF StateOf
  <2>3. head' = tmHeight' + 1
           => StateOf(tmHeight)'.validators \subseteq Known(StateOf(head)'.next)
    <3> SUFFICES ASSUME head' = tmHeight' + 1
                 PROVE  StateOf(tmHeight)'.validators \subseteq Known(StateOf(head)'.next)
      OBVIOUS
    <3>1. head = tmHeight
      BY <1>2 DEF TypeOK
    <3>2. StateOf(head)' = StateOf(height)'
      BY <1>2, <2>1 DEF StateOf
    <3> QED BY <1>2, <2>1, <2>2, <3>1, <3>2 DEF Remembered
  <2> QED BY <1>2, <2>2, <2>3 DEF Remembered
<1> QED BY <1>1, <1>2, CommitStep, Zenon

LEMMA RememberedNext ==
    ASSUME LongWait, TypeOK, Chain, Memory, Tracking, Seated, Successive, Remembered, [Next]_vars
    PROVE  Remembered'
<1>1. CASE Start \/ InitChain \/ EndBlockStuck \/ Crash
  <2>1. /\ phase' \notin {"block", "ended"} /\ UNCHANGED <<ledger, tmHeight, tm>>
        /\ head' = tmHeight' + 1 => head' = head
    BY <1>1, QuietStep
  <2> QED BY <2>1 DEF Remembered, StateOf
<1>2. CASE Decide
  <2>1. UNCHANGED <<phase, memVars, head, ledger, tmHeight, tm>>
    BY <1>2, DecideStep
  <2> HIDE <1>2
  <2> QED BY <2>1 DEF Remembered, StateOf, memVars
<1>3. CASE BeginBlock \/ DeliverTx
  <2>1. phase' = "block" /\ UNCHANGED <<head, ledger, tmHeight, tm>>
    BY <1>3 DEF BeginBlock, DeliverTx, tmVars
  <2> HIDE <1>3
  <2> QED BY <2>1 DEF Remembered, StateOf
<1>4. CASE SaveState
  <2>1. /\ phase' = "idle" /\ head = tmHeight + 1 /\ tmHeight' = head /\ head' = head
        /\ tm'.cur = tm.next /\ head \in DOMAIN ledger'
        /\ \A h \in DOMAIN ledger' \cup {0} : StateOf(h)' = StateOf(h)
    BY <1>4, SaveStep
  <2> HIDE <1>4
  <2>2. head' # tmHeight' + 1
    BY <2>1 DEF TypeOK
  <2>3. StateOf(tmHeight)' = StateOf(head)
    BY <2>1 DEF StateOf
  <2>4. tm.next \ Ignored \subseteq StateOf(tmHeight).validators
    BY DEF Tracking, Follows
  <2>5. StateOf(tmHeight).validators \subseteq Known(StateOf(head).next)
    BY <2>1 DEF Remembered
  <2> QED BY <2>1, <2>2, <2>3, <2>4, <2>5 DEF Remembered
<1>5. CASE UNCHANGED vars
  <2>1. UNCHANGED <<phase, memVars, head, ledger, tmHeight, tm>>
    BY <1>5 DEF vars, tmVars
  <2> QED BY <2>1 DEF Remembered, StateOf, memVars
<1> QED BY <1>1, <1>2, <1>3, <1>4, <1>5, RememberedEndBlock, RememberedCommit DEF Next

\* With a wait of an epoch or more, everybody in office at the next two heights is
\* on the list of peers Tendermint may connect to, also who has unbonded.
THEOREM OfficeIsWhitelisted ==
    ASSUME LongWait
    PROVE  Spec => []PeersWhitelisted
<1>1. Init => Remembered
  BY RememberedInit
<1>2. TypeOK /\ Coherent /\ Seated /\ Successive /\ Remembered /\ [Next]_vars => Remembered'
  BY RememberedNext DEF Coherent
<1>3. TypeOK /\ Coherent /\ Seated /\ Remembered => PeersWhitelisted
  <2> SUFFICES ASSUME TypeOK, Chain, Memory, Tracking, Seated, Remembered,
                      phase = "idle", head = tmHeight
               PROVE  (tm.cur \cup tm.next) \ Ignored \subseteq Whitelist
    BY DEF Coherent, PeersWhitelisted
  <2>1. next = StateOf(tmHeight).next
    BY DEF Memory
  <2>2. tm.cur \ Ignored \subseteq Known(next)
    BY <2>1 DEF Remembered
  <2>3. tm.next \ Ignored \subseteq Known(next)
    BY <2>1, OfficeIsBonded
  <2> QED BY <2>2, <2>3 DEF Whitelist, Known
<1> QED BY <1>1, <1>2, <1>3, Coherence, SeatsAccounted, PTL DEF Spec

-----------------------------------------------------------------------------
(* InOffice: the table of the epoch still knows who votes. *)

LEMMA InOfficeInit == Init => InOffice
<1> SUFFICES ASSUME Init PROVE InOffice
  OBVIOUS
<1>1. StateOf(tmHeight) = GenesisState /\ tm.cur = GenesisValidators /\ tm.last = {}
  BY DEF Init, StateOf
<1>2. tm.cur \ Ignored \subseteq Known(StateOf(tmHeight).curr)
  BY <1>1, GenesisFields, GenesisSeated DEF Known
<1>3. tmHeight = 0 /\ DOMAIN store = {}
  BY DEF Init
<1>4. IsEpochEnd(0)
  BY StrategyAssumption DEF IsEpochEnd
<1> QED BY <1>1, <1>2, <1>3, <1>4 DEF InOffice

\* What the next epoch's table knows of the last one's: who is bonded stays known,
\* and within an epoch the table does not change.
LEMMA EpochPasses ==
    ASSUME TypeOK, Chain, Tracking, Seated, NEW c, NEW h, Succeeds(StateOf(tmHeight), c, h)
    PROVE  LET w == StateOf(tmHeight) IN
           IF IsEpochEnd(h) THEN Bonded(w.curr) \subseteq Known(c)
           ELSE Bonded(w.curr) = Bonded(c) /\ Known(w.curr) = Known(c)
BY OfficeIsBonded DEF Succeeds

\* Two saves later an epoch has ended at most once since a validator was chosen.
LEMMA InOfficeSave ==
    ASSUME LongEpochs, TypeOK, Chain, Tracking, Seated, Successive, InOffice, SaveState
    PROVE  InOffice'
<1>1. /\ head = tmHeight + 1 /\ tmHeight' = head
      /\ tm'.last = tm.cur /\ tm'.cur = tm.next /\ head \in DOMAIN ledger'
      /\ \A h \in DOMAIN ledger' \cup {0} : StateOf(h)' = StateOf(h)
      /\ DOMAIN store' \subseteq DOMAIN store
  BY SaveStep
<1> DEFINE w == StateOf(tmHeight)
           c == StateOf(head).curr
<1>2. StateOf(tmHeight)'.curr = c
  BY <1>1 DEF StateOf
<1>3. tmHeight \in Nat /\ head \in Nat /\ head - 1 = tmHeight
  BY <1>1 DEF TypeOK
<1>4. IF IsEpochEnd(head) THEN Bonded(w.curr) \subseteq Known(c)
      ELSE Bonded(w.curr) = Bonded(c) /\ Known(w.curr) = Known(c)
  BY <1>1, EpochPasses DEF Successive
<1>5. tm.next \ Ignored \subseteq Bonded(w.curr)
  BY OfficeIsBonded
<1>6. tm.cur \ Ignored \subseteq IF IsEpochEnd(tmHeight) THEN Known(w.curr) ELSE Bonded(w.curr)
  BY DEF InOffice
<1>7. IsEpochEnd(tmHeight) => ~IsEpochEnd(head)
  BY <1>1, <1>3, EpochSpacing
<1>8. tmHeight' + 1 \notin DOMAIN store'
  BY <1>1, <1>3 DEF Chain, TypeOK
<1> HIDE DEF w, c
<1>9. tm'.cur \ Ignored \subseteq IF IsEpochEnd(head) THEN Known(c) ELSE Bonded(c)
  BY <1>1, <1>4, <1>5
<1>10. tm'.last \ Ignored
          \subseteq IF IsEpochEnd(head) \/ IsEpochEnd(tmHeight) THEN Known(c) ELSE Bonded(c)
  BY <1>1, <1>4, <1>6, <1>7
<1> QED BY <1>1, <1>2, <1>3, <1>8, <1>9, <1>10 DEF InOffice

LEMMA InOfficeNext ==
    ASSUME LongEpochs, TypeOK, Chain, Memory, Tracking, Seated, Successive, InOffice, [Next]_vars
    PROVE  InOffice'
<1>1. CASE Start \/ InitChain \/ EndBlockStuck \/ Crash
  <2>1. UNCHANGED <<ledger, store, tmHeight, tm>>
    BY <1>1, QuietStep
  <2> QED BY <2>1 DEF InOffice, StateOf
<1>2. CASE Decide
  <2>1. UNCHANGED <<ledger, tmHeight, tm>> /\ store'[tmHeight + 1].votes \subseteq tm.last
    BY <1>2, DecideStep
  <2> HIDE <1>2
  <2> QED BY <2>1 DEF InOffice, StateOf
<1>3. CASE BeginBlock \/ DeliverTx \/ EndBlock
  <2>1. UNCHANGED <<ledger, store, tmHeight, tm>>
    BY <1>3 DEF BeginBlock, DeliverTx, EndBlock, tmVars
  <2> HIDE <1>3
  <2> QED BY <2>1 DEF InOffice, StateOf
<1>4. CASE Commit
  <2>1. UNCHANGED <<store, tmHeight, tm>> /\ StateOf(tmHeight)' = StateOf(tmHeight)
    <3>1. CASE UNCHANGED <<ledger, store, tmHeight, tm>>
      BY <3>1 DEF StateOf
    <3>2. CASE /\ UNCHANGED <<store, tmHeight, tm>>
               /\ \A h \in DOMAIN ledger \cup {0} : StateOf(h)' = StateOf(h)
      BY <3>2, HeightsHaveStates DEF StateOf
    <3> QED BY <1>4, <3>1, <3>2, CommitStep, Zenon
  <2> HIDE <1>4
  <2> QED BY <2>1 DEF InOffice
<1>5. CASE UNCHANGED vars
  <2>1. UNCHANGED <<ledger, store, tmHeight, tm>>
    BY <1>5 DEF vars, tmVars
  <2> QED BY <2>1 DEF InOffice, StateOf
<1> QED BY <1>1, <1>2, <1>3, <1>4, <1>5, InOfficeSave DEF Next

\* In epochs of three blocks or more, the current table knows everybody whose votes
\* the next block can carry, although they were chosen three heights before, some
\* from the table of an earlier epoch.
THEOREM VotersStayKnown ==
    ASSUME LongEpochs
    PROVE  Spec => []InOffice
<1>1. Init => InOffice
  BY InOfficeInit
<1>2. TypeOK /\ Coherent /\ Seated /\ Successive /\ InOffice /\ [Next]_vars => InOffice'
  BY InOfficeNext DEF Coherent
<1> QED BY <1>1, <1>2, Coherence, SeatsAccounted, PTL DEF Spec
=============================================================================
