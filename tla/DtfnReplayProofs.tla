-------------------------- MODULE DtfnReplayProofs --------------------------
(***************************************************************************)
(* DtfnApp implements ChainMachine, for every schedule that satisfies      *)
(* ForkSchedule: what a node writes for a height does not depend on the    *)
(* crashes, restarts and replays on its way there.                         *)
(***************************************************************************)
EXTENDS DtfnAppProofs, DtfnRefinement

-----------------------------------------------------------------------------
(* The machine's operators are the node's. *)

LEMMA MachineTables ==
    /\ \A t : Machine!Bonded(t) = Bonded(t) /\ Machine!Known(t) = Known(t)
    /\ \A t, s, n : Machine!CanInsert(t, s, n) <=> CanInsert(t, s, n)
    /\ \A t, s, n : Machine!InsertPosItem(t, s, n) = InsertPosItem(t, s, n)
    /\ \A t, s : Machine!CanRemove(t, s) <=> CanRemove(t, s)
    /\ \A t, s, h : Machine!RemovePosItem(t, s, h, FALSE) = RemovePosItem(t, s, h, FALSE)
    /\ \A t, S, h : Machine!SlashAll(t, S, h) = SlashAll(t, S, h)
    /\ \A t, h : Machine!TryRemoveUnbondPosItems(t, h) = TryRemoveUnbondPosItems(t, h)
    /\ Machine!GenesisTable = InitialTable
<1>1. \A t : Machine!Bonded(t) = Bonded(t)
  BY DEF Machine!Bonded, Bonded
<1>2. \A t : Machine!Unbonding(t) = Unbonding(t)
  BY DEF Machine!Unbonding, Unbonding
<1>3. \A t : Machine!Known(t) = Known(t)
  BY <1>1, <1>2 DEF Machine!Known, Known
<1>4. \A t, s, n : Machine!CanInsert(t, s, n) <=> CanInsert(t, s, n)
  BY <1>3 DEF Machine!CanInsert, CanInsert
<1>5. \A t, s, n : Machine!InsertPosItem(t, s, n) = InsertPosItem(t, s, n)
  BY DEF Machine!InsertPosItem, InsertPosItem
<1>6. \A t, s : Machine!CanRemove(t, s) <=> CanRemove(t, s)
  BY <1>1 DEF Machine!CanRemove, CanRemove
<1>7. \A t, s, h : Machine!RemovePosItem(t, s, h, FALSE) = RemovePosItem(t, s, h, FALSE)
  BY DEF Machine!RemovePosItem, RemovePosItem
<1>8. \A t, S, h : Machine!SlashAll(t, S, h) = SlashAll(t, S, h)
  BY DEF Machine!SlashAll, SlashAll
<1>9. \A t, h : Machine!Released(t, h) = Released(t, h)
  BY <1>2 DEF Machine!Released, Released
<1>10. \A t, h : Machine!TryRemoveUnbondPosItems(t, h) = TryRemoveUnbondPosItems(t, h)
  BY <1>9 DEF Machine!TryRemoveUnbondPosItems, TryRemoveUnbondPosItems
<1>11. Machine!GenesisTable = InitialTable
  BY DEF Machine!GenesisTable, InitialTable, Machine!CreatePosTable, CreatePosTable
<1> QED BY <1>1, <1>3, <1>4, <1>5, <1>6, <1>7, <1>8, <1>10, <1>11

LEMMA MachineStrategy ==
    /\ \A h, f : Machine!BlockVersionAt(h, f) = BlockVersionAt(h, f)
    /\ \A h : Machine!IsEpochEnd(h) <=> IsEpochEnd(h)
    /\ \A v : Machine!AdminOf(v) = AdminOf(v)
    /\ \A t, v, p : Machine!Receiver(t, v, p) = Receiver(t, v, p)
    /\ \A t, v, seed, h : Machine!GetUpdatedValidators(t, v, seed, h)
                            = GetUpdatedValidators(t, v, seed, h)
<1>1. \A h, f : Machine!BlockVersionAt(h, f) = BlockVersionAt(h, f)
  BY DEF Machine!BlockVersionAt, BlockVersionAt
<1>2. \A h : Machine!IsEpochEnd(h) <=> IsEpochEnd(h)
  BY DEF Machine!IsEpochEnd, IsEpochEnd
<1>3. \A v : Machine!AdminOf(v) = AdminOf(v)
  BY DEF Machine!AdminOf, AdminOf
<1>4. \A t, v, p : Machine!Receiver(t, v, p) = Receiver(t, v, p)
  BY DEF Machine!Receiver, Receiver, Machine!Bonded, Bonded, Machine!Unbonding, Unbonding
<1>5. ASSUME NEW t, NEW v, NEW seed, NEW h
      PROVE  Machine!GetUpdatedValidators(t, v, seed, h) = GetUpdatedValidators(t, v, seed, h)
  BY DEF Machine!GetUpdatedValidators, GetUpdatedValidators, Machine!IsEpochEnd, IsEpochEnd,
         Machine!BlsValidators, BlsValidators, Machine!TopKSigners, TopKSigners,
         Machine!Outranks, Outranks, Machine!Bonded, Bonded,
         Machine!EnterSelectValidators, EnterSelectValidators, Machine!DrawCounts, DrawCounts,
         Machine!Drawn, Drawn, Machine!SelectItem, SelectItem, Machine!ItemAt, ItemAt,
         Machine!SelectCountOf, SelectCountOf, Machine!Cardinality, Cardinality
<1> QED BY <1>1, <1>2, <1>3, <1>4, <1>5

-----------------------------------------------------------------------------
(* TxSteps: the machine's walk through a block is well defined. *)

\* A function that goes from start through the first n transactions.
IsWalk(f, start, txs, version, h, n) ==
    f = [i \in 0..n |-> IF i = 0 THEN start
                        ELSE Machine!TxStep(f[i - 1], txs[i], version, h)]

\* There is one for every length.
LEMMA WalkExists ==
    ASSUME NEW start, NEW txs, NEW version, NEW h, NEW N \in Nat
    PROVE  \E f : IsWalk(f, start, txs, version, h, N)
<1> DEFINE Walk(n) == \E f : IsWalk(f, start, txs, version, h, n)
           T == {n \in Nat : ~Walk(n)}
           R == OpToRel(<, Nat)
<1> SUFFICES ASSUME T # {} PROVE FALSE
  OBVIOUS
<1>1. PICK m \in T : \A y \in T : ~(<<y, m>> \in R)
  <2>1. IsWellFoundedOn(R, Nat)
    BY NatLessThanWellFounded
  <2>2. T \subseteq Nat
    OBVIOUS
  <2> HIDE DEF T, R
  <2> QED BY <2>1, <2>2, WFMin
<1>2. m \in Nat /\ ~Walk(m)
  OBVIOUS
<1>3. CASE m = 0
  <2> DEFINE f == [i \in 0..0 |-> start]
  <2>1. IsWalk(f, start, txs, version, h, 0)
    BY DEF IsWalk
  <2> QED BY <1>2, <1>3, <2>1
<1>4. CASE m # 0
  <2>1. m - 1 \in Nat /\ m - 1 < m
    BY <1>2, <1>4
  <2>2. <<m - 1, m>> \in R
    BY <1>2, <2>1 DEF OpToRel
  <2>3. Walk(m - 1)
    <3>1. m - 1 \notin T
      BY <1>1, <2>2, Zenon
    <3> QED BY <2>1, <3>1
  <2>4. PICK f : IsWalk(f, start, txs, version, h, m - 1)
    BY <2>3
  <2> DEFINE g == [i \in 0..m |-> IF i = 0 THEN start
                                  ELSE Machine!TxStep(f[i - 1], txs[i], version, h)]
  <2>5. \A i \in 0..(m - 1) : g[i] = f[i]
    <3> SUFFICES ASSUME NEW i \in 0..(m - 1) PROVE g[i] = f[i]
      OBVIOUS
    <3>1. f[i] = IF i = 0 THEN start ELSE Machine!TxStep(f[i - 1], txs[i], version, h)
      BY <2>4 DEF IsWalk
    <3>2. i \in 0..m
      BY <1>2
    <3> QED BY <3>1, <3>2
  <2>6. g = [i \in 0..m |-> IF i = 0 THEN start
                            ELSE Machine!TxStep(g[i - 1], txs[i], version, h)]
    <3>1. \A i \in 0..m : i # 0 => i - 1 \in 0..(m - 1)
      BY <1>2
    <3>2. \A i \in 0..m : i # 0 => g[i - 1] = f[i - 1]
      BY <2>5, <3>1
    <3>3. \A i \in 0..m : g[i] = IF i = 0 THEN start
                                 ELSE Machine!TxStep(g[i - 1], txs[i], version, h)
      BY <3>2
    <3>4. g = [i \in 0..m |-> g[i]]
      OBVIOUS
    <3> HIDE DEF g
    <3> QED BY <3>3, <3>4
  <2> HIDE DEF g
  <2>7. IsWalk(g, start, txs, version, h, m)
    BY <2>6 DEF IsWalk
  <2> QED BY <1>2, <2>7
<1> QED BY <1>3, <1>4

\* TxSteps starts with the evidence and takes one transaction at a time.
LEMMA StepByStep ==
    ASSUME NEW s, NEW b, Len(b.txs) \in Nat, NEW h
    PROVE  LET steps == Machine!TxSteps(s, b, h) IN
           /\ steps[0] = [next |-> SlashAll(s.next, b.evidence \cap Bonded(s.next), h),
                          auth |-> s.auth, results |-> <<>>]
           /\ \A i \in 1..Len(b.txs) :
                 steps[i] = Machine!TxStep(steps[i - 1], b.txs[i],
                                           BlockVersionAt(h, HeaderVersion), h)
<1> DEFINE start == [next |-> SlashAll(s.next, b.evidence \cap Bonded(s.next), h),
                     auth |-> s.auth, results |-> <<>>]
           version == BlockVersionAt(h, HeaderVersion)
           steps == Machine!TxSteps(s, b, h)
           N == Len(b.txs)
<1>1. steps = CHOOSE f : IsWalk(f, start, b.txs, version, h, N)
  BY MachineTables, MachineStrategy DEF Machine!TxSteps, IsWalk
<1>n. N \in Nat
  OBVIOUS
<1> HIDE DEF start, version, steps, N
<1>2. \E f : IsWalk(f, start, b.txs, version, h, N)
  BY <1>n, WalkExists
<1>3. steps = [i \in 0..N |-> IF i = 0 THEN start
                              ELSE Machine!TxStep(steps[i - 1], b.txs[i], version, h)]
  <2>1. IsWalk(steps, start, b.txs, version, h, N)
    BY <1>1, <1>2
  <2> QED BY <2>1 DEF IsWalk
<1>4. steps[0] = start
  BY <1>3, <1>n
<1>5. \A i \in 1..N : steps[i] = Machine!TxStep(steps[i - 1], b.txs[i], version, h)
  BY <1>3, <1>n
<1> QED BY <1>4, <1>5 DEF start, version, steps, N

-----------------------------------------------------------------------------
(* The fork schedule. *)

\* The version is above 4 from the fourth fork on.
LEMMA VersionsOfSchedule ==
    ASSUME ForkSchedule, NEW h \in Nat
    PROVE  BlockVersionAt(h, 0) <= 4 <=> h < HeightArray[4]
<1>1. /\ \A i, j \in 1..Len(HeightArray) : i < j => HeightArray[i] <= HeightArray[j]
      /\ \A i \in 1..Len(HeightArray) : VersionArray[i] <= 4 <=> i <= 3
  BY StrategyAssumption DEF ForkSchedule
<1>2. Len(HeightArray) \in Nat /\ Len(HeightArray) >= 4
  BY StrategyAssumption
<1>3. \A i \in 1..Len(HeightArray) : HeightArray[i] \in Nat
  BY StrategyAssumption, ElementOfSeq
<1>4. CASE Passed(h) = {}
  <2>1. h < HeightArray[4]
    BY <1>2, <1>3, <1>4 DEF Passed
  <2> QED BY <1>4, <2>1, VersionOfLastFork
<1>5. CASE Passed(h) # {}
  <2> DEFINE k == LastPassed(h)
  <2>1. k \in 1..Len(HeightArray) /\ h >= HeightArray[k] /\ \A j \in Passed(h) : j <= k
    BY <1>5, LastForkExists DEF Passed
  <2>2. BlockVersionAt(h, 0) = VersionArray[k]
    BY <1>5, VersionOfLastFork
  <2> HIDE DEF k
  <2>3. CASE k <= 3
    <3>1. 4 \notin Passed(h)
      BY <2>1, <2>3
    <3>2. h < HeightArray[4]
      BY <1>2, <1>3, <3>1 DEF Passed
    <3> QED BY <1>1, <2>1, <2>2, <2>3, <3>2
  <2>4. CASE ~(k <= 3)
    <3>1. HeightArray[4] <= HeightArray[k]
      <4>1. CASE k = 4
        BY <1>2, <1>3, <4>1
      <4>2. CASE k # 4
        BY <1>1, <1>2, <2>1, <2>4, <4>2
      <4> QED BY <4>1, <4>2
    <3>2. ~(h < HeightArray[4])
      BY <1>2, <1>3, <2>1, <3>1
    <3> QED BY <1>1, <2>1, <2>2, <2>4, <3>2
  <2> QED BY <2>3, <2>4
<1> QED BY <1>4, <1>5

LEMMA ScheduleFacts ==
    ASSUME ForkSchedule
    PROVE  /\ HeightArray[3] \in Nat /\ HeightArray[4] \in Nat
           /\ HeightArray[3] < HeightArray[4] /\ IsEpochEnd(HeightArray[4])
<1>1. HeightArray[3] \in Nat /\ HeightArray[4] \in Nat
  BY StrategyAssumption, ElementOfSeq
<1> QED BY <1>1 DEF ForkSchedule

-----------------------------------------------------------------------------
(* Retained: what a crash can need is still there. *)

LEMMA RetainedInit == Init => Retained
BY AppAssumption DEF Init, Retained

LEMMA RetainedCommit ==
    ASSUME TypeOK, Chain, Retained, Commit
    PROVE  Retained'
<1>1. phase = "ended" /\ UNCHANGED <<store, tmHeight>>
  BY CommitCases DEF tmVars
<1>2. CASE UNCHANGED <<head, ledger>>
  BY <1>1, <1>2 DEF Retained
<1>3. CASE WriteBlock
  <2>1. /\ head' = height /\ DOMAIN ledger' = DOMAIN ledger \cup {height}
        /\ ledger' = [h \in DOMAIN ledger' |-> ledger'[h]]
    BY <1>3 DEF WriteBlock
  <2>2. height = head + 1 /\ height \in DOMAIN store /\ height <= tmHeight + 1
    BY <1>1 DEF Chain
  <2>3. head' + MaxLag >= tmHeight
    BY <2>1, <2>2, AppAssumption DEF Retained, TypeOK
  <2> QED BY <1>1, <2>1, <2>2, <2>3 DEF Retained
<1> QED BY <1>2, <1>3, CommitCases

LEMMA RetainedSave ==
    ASSUME TypeOK, Chain, Retained, SaveState
    PROVE  Retained'
<1>1. /\ head = tmHeight + 1 /\ tmHeight' = head /\ head' = head
      /\ DOMAIN ledger' = {g \in DOMAIN ledger : Recent(g)}
      /\ DOMAIN store' = {g \in DOMAIN store : Recent(g)}
      /\ \A h \in DOMAIN store' : store'[h] = store[h]
      /\ ledger' = [h \in DOMAIN ledger' |-> ledger'[h]]
  BY DEF SaveState
<1>2. /\ tmHeight \in Nat /\ head \in DOMAIN ledger
      /\ DOMAIN ledger \subseteq Nat
  BY <1>1 DEF Chain, TypeOK
<1>3. head' + MaxLag >= tmHeight'
  BY <1>1, <1>2, AppAssumption
<1>4. ASSUME NEW h \in 1..tmHeight', h + MaxLag >= tmHeight' PROVE h \in DOMAIN ledger'
  <2>1. Recent(h)
    BY <1>1, <1>4 DEF Recent
  <2>2. h \in DOMAIN ledger
    <3>1. h \in Nat /\ (h = head \/ h \in 1..tmHeight) /\ h + MaxLag >= tmHeight
      BY <1>1, <1>2, <1>4, AppAssumption
    <3> QED BY <1>2, <3>1 DEF Retained
  <2> QED BY <1>1, <2>1, <2>2
<1>5. ASSUME NEW h \in DOMAIN ledger' PROVE h <= tmHeight' + 1 /\ h \in DOMAIN store'
  BY <1>1, <1>2 DEF Retained
<1>6. \A h \in DOMAIN store' : \A n \in 1..Len(store'[h].txs) : TxAllowed(store'[h].txs[n], h)
  BY <1>1 DEF Retained
<1> QED BY <1>1, <1>3, <1>4, <1>5, <1>6 DEF Retained

LEMMA RetainedNext ==
    ASSUME TypeOK, Chain, Retained, [Next]_vars
    PROVE  Retained'
<1>1. CASE Start \/ InitChain \/ EndBlockStuck \/ BeginBlock \/ DeliverTx \/ EndBlock
           \/ UNCHANGED vars
  <2>1. UNCHANGED <<head, ledger, store, tmHeight>>
    BY <1>1 DEF Start, InitChain, EndBlockStuck, BeginBlock, DeliverTx, EndBlock, vars, tmVars
  <2> HIDE <1>1
  <2> QED BY <2>1 DEF Retained
<1>2. CASE Decide
  <2>1. /\ UNCHANGED <<head, ledger, tmHeight>>
        /\ DOMAIN store' = DOMAIN store \cup {tmHeight + 1}
        /\ \A h \in DOMAIN store : store'[h] = store[h]
        /\ LET b == store'[tmHeight + 1]
           IN  \A n \in 1..Len(b.txs) : TxAllowed(b.txs[n], tmHeight + 1)
    BY <1>2, DecideStep
  <2> HIDE <1>2
  <2> QED BY <2>1 DEF Retained
<1>3. CASE Crash
  <2>1. UNCHANGED <<ledger, store, tmHeight>> /\ head' + MaxLag >= tmHeight
    BY <1>3 DEF Crash, tmVars
  <2> HIDE <1>3
  <2> QED BY <2>1 DEF Retained
<1> QED BY <1>1, <1>2, <1>3, RetainedCommit, RetainedSave DEF Next

\* Only the block after Tendermint's height can be new to the chain.
LEMMA NewBlock ==
    ASSUME TypeOK, Chain, Retained, phase \in {"block", "ended"}, height \notin DOMAIN ledger
    PROVE  height = tmHeight + 1 /\ head = tmHeight
<1>1. height = head + 1 /\ height <= tmHeight + 1 /\ head \in Nat /\ tmHeight \in Nat
  BY DEF Chain, TypeOK
<1>2. ~(height <= tmHeight)
  <2> SUFFICES ASSUME height <= tmHeight PROVE FALSE
    OBVIOUS
  <2>1. height \in 1..tmHeight /\ height + MaxLag >= tmHeight
    BY <1>1, AppAssumption DEF Retained
  <2> QED BY <2>1 DEF Retained
<1> QED BY <1>1, <1>2

-----------------------------------------------------------------------------
(* Globals: the administrator and the rules are the schedule's. *)

LEMMA GlobalsInit == ForkSchedule /\ Init => Globals
<1> SUFFICES ASSUME ForkSchedule, Init PROVE Globals
  OBVIOUS
<1>1. HeightArray[4] \in Nat /\ HeightArray[4] > 0
  BY ScheduleFacts
<1> QED BY <1>1 DEF Init, Globals

\* A restart sets the administrator that the height has.
LEMMA GlobalsStart ==
    ASSUME ForkSchedule, TypeOK, Chain, Globals, Start
    PROVE  Globals'
<1>1. UNCHANGED <<head, rules, tmHeight>>
  BY DEF Start, tmVars
<1>2. CASE head = 0
  BY <1>1, <1>2 DEF Start, InitNoPersistData, Globals
<1>3. CASE head # 0
  <2>1. phase' = "idle" /\ admin' = AdminOf(BlockVersionAt(ledger[head].height, 0))
    BY <1>3 DEF Start, InitPersistData
  <2>2. ledger[head].height = head /\ head \in Nat
    BY <1>3 DEF Chain, TypeOK
  <2>3. admin' = IF head < HeightArray[4] THEN "public" ELSE "private"
    BY <2>1, <2>2, VersionsOfSchedule DEF AdminOf
  <2>4. AdminFits(head)'
    BY <1>1, <2>2, <2>3, ScheduleFacts DEF AdminFits
  <2> QED BY <1>1, <2>1, <2>4 DEF Globals
<1> QED BY <1>2, <1>3

\* EndBlock changes them at the forks, which are epoch ends.
LEMMA GlobalsEndBlock ==
    ASSUME ForkSchedule, TypeOK, Chain, Globals, EndBlock
    PROVE  Globals'
<1>1. /\ phase = "block" /\ phase' \in {"ended", "halted"}
      /\ admin' = AdminAfter(admin, height) /\ rules' = RulesAfter(height)
      /\ UNCHANGED <<height, head, tmHeight>>
  BY DEF EndBlock, tmVars
<1>2. height = head + 1 /\ height <= tmHeight + 1 /\ head \in Nat /\ tmHeight \in Nat
  BY <1>1 DEF Chain, TypeOK
<1>3. AdminFits(head)
  BY <1>1 DEF Globals
<1>4. AdminFits(height)'
  <2>1. height >= HeightArray[4] => admin' = "private"
    BY <1>1, <1>2, <1>3, ScheduleFacts DEF AdminAfter, AdminFits
  <2>2. ASSUME IsEpochEnd(HeightArray[3]), 0 < HeightArray[3], HeightArray[3] <= height,
               height < HeightArray[4]
        PROVE  admin' = "public"
    BY <1>1, <1>2, <1>3, <2>2, ScheduleFacts DEF AdminAfter, AdminFits
  <2> QED BY <1>1, <2>1, <2>2 DEF AdminFits
<1>5. height >= HeightArray[4] => rules' = "constantinople"
  BY <1>1, <1>2, ScheduleFacts DEF Globals, RulesAfter
<1>6. rules' = "constantinople" => tmHeight + 1 >= HeightArray[4]
  BY <1>1, <1>2, ScheduleFacts DEF Globals, RulesAfter
<1>7. head >= HeightArray[4] => rules' = "constantinople"
  BY <1>2, <1>5, ScheduleFacts
<1> QED BY <1>1, <1>4, <1>5, <1>6, <1>7 DEF Globals

LEMMA GlobalsNext ==
    ASSUME ForkSchedule, TypeOK, Chain, Globals, [Next]_vars
    PROVE  Globals'
<1>1. CASE InitChain
  <2>1. /\ phase = "fresh" /\ phase' = "idle" /\ UNCHANGED <<head, rules, tmHeight>>
    BY <1>1 DEF InitChain, tmVars
  <2>2. head = 0
    BY <2>1 DEF Chain
  <2>3. AdminFits(head)'
    BY <2>1, <2>2, ScheduleFacts DEF AdminFits
  <2> QED BY <2>1, <2>3 DEF Globals
<1>2. CASE Decide \/ DeliverTx \/ UNCHANGED vars
  <2>1. UNCHANGED <<phase, height, admin, head, rules, tmHeight>>
    BY <1>2, DecideStep DEF DeliverTx, vars, memVars, tmVars
  <2> HIDE <1>2
  <2> QED BY <2>1 DEF Globals, AdminFits
<1>3. CASE BeginBlock
  <2>1. phase = "idle" /\ phase' = "block" /\ UNCHANGED <<admin, head, rules, tmHeight>>
    BY <1>3 DEF BeginBlock, tmVars
  <2> HIDE <1>3
  <2> QED BY <2>1 DEF Globals, AdminFits
<1>4. CASE EndBlockStuck
  <2>1. phase' = "halted" /\ UNCHANGED <<head, rules, tmHeight>>
    BY <1>4 DEF EndBlockStuck, tmVars
  <2> QED BY <2>1 DEF Globals
<1>5. CASE Commit
  <2>1. phase = "ended" /\ UNCHANGED <<height, admin, rules, tmHeight>>
    BY <1>5 DEF Commit, memVars, tmVars
  <2>2. CASE phase' = "halted" /\ UNCHANGED head
    BY <2>1, <2>2 DEF Globals
  <2>3. CASE phase' = "idle" /\ head' = height
    BY <2>1, <2>3 DEF Globals, AdminFits
  <2> QED BY <1>5, <2>2, <2>3, CommitCases DEF WriteBlock
<1>6. CASE SaveState
  <2>1. /\ tmHeight' = tmHeight + 1 /\ phase = "idle"
        /\ UNCHANGED <<phase, height, admin, head, rules>>
    BY <1>6 DEF SaveState, memVars
  <2> HIDE <1>6
  <2> QED BY <2>1, ScheduleFacts DEF Globals, AdminFits, TypeOK
<1>7. CASE Crash
  <2>1. /\ phase' = "down" /\ head' <= head /\ head' \in DOMAIN ledger \cup {0}
        /\ UNCHANGED <<rules, tmHeight>>
    BY <1>7 DEF Crash, tmVars
  <2>2. head' \in Nat /\ head \in Nat
    BY <2>1 DEF TypeOK
  <2> HIDE <1>7
  <2> QED BY <2>1, <2>2, ScheduleFacts DEF Globals
<1> QED BY <1>1, <1>2, <1>3, <1>4, <1>5, <1>6, <1>7, GlobalsStart, GlobalsEndBlock DEF Next

-----------------------------------------------------------------------------
(* Answered: what Tendermint has saved of EndBlock's answer. *)

LEMMA AnsweredNext ==
    ASSUME TypeOK, Chain, Memory, Answered, [Next]_vars
    PROVE  Answered'
<1>1. CASE Start \/ InitChain \/ EndBlockStuck \/ Crash
  <2>1. /\ phase' \notin {"block", "ended"} /\ UNCHANGED <<ledger, tmHeight, resp>>
        /\ head' = tmHeight' + 1 => head' = head
    BY <1>1, QuietStep
  <2> QED BY <2>1 DEF Answered, Difference, StateOf
<1>2. CASE Decide \/ UNCHANGED vars
  <2>1. UNCHANGED <<phase, height, validators, head, ledger, tmHeight, resp>>
    BY <1>2, DecideStep DEF vars, memVars, tmVars
  <2> HIDE <1>2
  <2> QED BY <2>1 DEF Answered, Difference, StateOf
<1>3. CASE BeginBlock \/ DeliverTx
  <2>1. phase' = "block" /\ UNCHANGED <<head, ledger, tmHeight, resp>>
    BY <1>3 DEF BeginBlock, DeliverTx, tmVars
  <2> HIDE <1>3
  <2> QED BY <2>1 DEF Answered, Difference, StateOf
<1>4. CASE EndBlock
  <2> DEFINE selected == GetUpdatedValidators(EpochTable, blockVersion, CurrentBlock.seed, height)
  <2>1. /\ phase = "block" /\ validators' = selected
        /\ resp' = IF height <= tmHeight THEN resp ELSE Updates(selected)
        /\ UNCHANGED <<height, head, ledger, tmHeight>>
    BY <1>4 DEF EndBlock, tmVars
  <2> HIDE <1>4 DEF selected
  <2>2. /\ height = head + 1 /\ height <= tmHeight + 1 /\ head \in Nat /\ tmHeight \in Nat
        /\ validators = StateOf(head).validators
    BY <2>1 DEF Chain, Memory, TypeOK
  <2>3. head' # tmHeight' + 1
    BY <2>1, <2>2
  <2>4. height = tmHeight + 1 => Difference(validators)'
    <3> SUFFICES ASSUME height = tmHeight + 1 PROVE Difference(validators)'
      OBVIOUS
    <3>1. head = tmHeight /\ resp' = Updates(selected)
      BY <2>1, <2>2
    <3>2. resp'.add = selected /\ resp'.del = validators \ selected
      BY <3>1 DEF Updates
    <3>3. StateOf(tmHeight)' = StateOf(head)
      BY <2>1, <3>1 DEF StateOf
    <3> QED BY <2>1, <2>2, <3>2, <3>3 DEF Difference
  <2> QED BY <2>1, <2>3, <2>4 DEF Answered
<1>5. CASE Commit
  <2>1. phase = "ended"
    BY <1>5, CommitCases
  <2>2. CASE phase' = "halted" /\ UNCHANGED <<head, ledger, tmHeight, resp>>
    BY <2>2 DEF Answered, Difference, StateOf
  <2>3. CASE /\ phase' = "idle" /\ UNCHANGED <<memVars, tmHeight, resp>>
             /\ head' = height /\ height = head + 1
             /\ \A h \in DOMAIN ledger \cup {0} : StateOf(h)' = StateOf(h)
             /\ StateOf(height)'.validators = validators
    <3>1. height' = height
      BY <2>3 DEF memVars
    <3>2. StateOf(tmHeight)' = StateOf(tmHeight)
      BY <2>3, HeightsHaveStates DEF StateOf
    <3>3. StateOf(head)' = StateOf(height)'
      BY <2>3, <3>1 DEF StateOf
    <3> QED BY <2>1, <2>3, <3>2, <3>3 DEF Answered, Difference
  <2> QED BY <1>5, <2>2, <2>3, CommitStep, Zenon
<1>6. CASE SaveState
  <2>1. phase' = "idle" /\ head' = head /\ tmHeight' = head
    BY <1>6, SaveStep
  <2> QED BY <2>1 DEF Answered, TypeOK
<1> QED BY <1>1, <1>2, <1>3, <1>4, <1>5, <1>6 DEF Next

-----------------------------------------------------------------------------
(* Determined: memory and work state are where the machine is. *)

\* The machine starts a block where the chain ends.
LEMMA BeforeIsState ==
    ASSUME TypeOK, NEW h \in Nat \ {0}, h - 1 \in DOMAIN ledger \cup {0}
    PROVE  LET s == Machine!Before(h)
               w == StateOf(h - 1)
           IN  /\ s.validators = w.validators /\ s.curr = w.curr
               /\ s.next = w.next /\ s.auth = w.auth
<1>1. CASE h = 1
  <2>1. Machine!Before(h) = Machine!Genesis /\ StateOf(h - 1) = GenesisState
    BY <1>1 DEF Machine!Before, StateOf
  <2>2. InitialTable.slots = [s \in Signers |-> IF s \in GenesisValidators THEN InitSlots[s] ELSE 0]
    BY DEF InitialTable, CreatePosTable
  <2>3. Bonded(InitialTable) = GenesisValidators \ Ignored
    BY <2>2, AppAssumption DEF Bonded, Ignored
  <2>4. Machine!Genesis = [height |-> 0, validators |-> Bonded(InitialTable),
                           curr |-> InitialTable, next |-> InitialTable, auth |-> {}]
    BY MachineTables DEF Machine!Genesis
  <2> QED BY <2>1, <2>3, <2>4, GenesisFields
<1>2. CASE h # 1
  BY <1>2 DEF Machine!Before, StateOf
<1> QED BY <1>1, <1>2

\* In a block, the state before is the head's.
LEMMA BlockBefore ==
    ASSUME TypeOK, Chain, phase \in {"block", "ended"}
    PROVE  LET s == Machine!Before(height)
               w == StateOf(head)
           IN  /\ s.validators = w.validators /\ s.curr = w.curr
               /\ s.next = w.next /\ s.auth = w.auth
<1>1. height \in Nat \ {0} /\ height - 1 = head /\ head \in DOMAIN ledger \cup {0}
  BY HeightsHaveStates DEF Chain, TypeOK
<1> QED BY <1>1, BeforeIsState

\* The block being executed is well formed, and its transactions are of its time.
LEMMA BlockFacts ==
    ASSUME TypeOK, Chain, Retained, phase \in {"block", "ended"}
    PROVE  /\ CurrentBlock \in Block /\ CurrentBlock.txs \in Seq(Tx)
           /\ Len(CurrentBlock.txs) \in Nat
           /\ \A n \in 1..Len(CurrentBlock.txs) : TxAllowed(CurrentBlock.txs[n], height)
<1>1. CurrentBlock \in Block
  BY DEF CurrentBlock, TypeOK, Chain
<1>2. CurrentBlock.txs \in Seq(Tx)
  BY <1>1 DEF Block
<1>3. \A n \in 1..Len(CurrentBlock.txs) : TxAllowed(CurrentBlock.txs[n], height)
  BY DEF CurrentBlock, Retained, Chain
<1> QED BY <1>1, <1>2, <1>3

\* The administrator is the machine's when an authorisation is delivered.
LEMMA AdminAgrees ==
    ASSUME ForkSchedule, TypeOK, Chain, Globals, phase = "block", height >= AuthFrom
    PROVE  admin = Machine!AdminAt(height)
<1>1. head \in Nat /\ height = head + 1 /\ AdminFits(head) /\ AuthFrom \in Nat
  BY AppAssumption DEF Globals, Chain, TypeOK
<1>2. Machine!AdminAt(height) = IF head < HeightArray[4] THEN "public" ELSE "private"
  <2>1. height - 1 = head
    BY <1>1
  <2>2. Machine!AdminAt(height) = AdminOf(BlockVersionAt(head, 0))
    BY <2>1, MachineStrategy DEF Machine!AdminAt
  <2> QED BY <1>1, <2>2, VersionsOfSchedule DEF AdminOf
<1>3. CASE IsEpochEnd(HeightArray[3]) /\ 0 < HeightArray[3] /\ HeightArray[3] < AuthFrom
  BY <1>1, <1>2, <1>3, ScheduleFacts DEF AdminFits
<1>4. CASE HeightArray[4] < AuthFrom
  BY <1>1, <1>2, <1>4, ScheduleFacts DEF AdminFits
<1> QED BY <1>3, <1>4 DEF ForkSchedule

\* So are the rules when a contract is called.
LEMMA RulesAgree ==
    ASSUME ForkSchedule, TypeOK, Chain, Retained, Globals, phase = "block", height \in CallHeights
    PROVE  rules = "genesis" <=> Machine!RulesAt(height) = "genesis"
<1>1. /\ head \in Nat /\ height = head + 1 /\ tmHeight \in Nat /\ head + MaxLag >= tmHeight
      /\ MaxLag \in Nat
  BY AppAssumption DEF Retained, Chain, TypeOK
<1>2. Machine!RulesAt(height) = IF height > HeightArray[4] THEN "constantinople" ELSE "genesis"
  BY MachineStrategy, ScheduleFacts DEF Machine!RulesAt
<1>3. CASE height > HeightArray[4]
  <2>1. rules = "constantinople"
    BY <1>1, <1>3, ScheduleFacts DEF Globals
  <2> QED BY <1>2, <1>3, <2>1
<1>4. CASE ~(height > HeightArray[4])
  <2>1. height + MaxLag < HeightArray[4]
    BY <1>4 DEF ForkSchedule
  <2>2. rules # "constantinople"
    BY <1>1, <2>1, ScheduleFacts DEF Globals
  <2>3. rules = "genesis"
    BY <2>2 DEF TypeOK, Rules
  <2> QED BY <1>2, <1>4, <2>3
<1> QED BY <1>3, <1>4

\* A delivered transaction does what the machine's TxStep does.
LEMMA DeliverIsTxStep ==
    ASSUME ForkSchedule, TypeOK, Chain, Retained, Globals, DeliverTx,
           blockVersion = BlockVersionAt(height, HeaderVersion),
           NEW x, x.next = next, x.auth = auth, x.results = work.results
    PROVE  LET y == Machine!TxStep(x, ThisTx, blockVersion, height)
           IN  next' = y.next /\ auth' = y.auth /\ work'.results = y.results
<1> DEFINE tx == ThisTx
           y == Machine!TxStep(x, tx, blockVersion, height)
<1>1. phase = "block" /\ Len(work.results) < Len(CurrentBlock.txs)
  BY DEF DeliverTx
<1>2. tx \in Tx
  BY <1>1, ThisTxType
<1>3. TxAllowed(tx, height)
  <2>1. work.results \in Seq(BOOLEAN)
    BY DEF TypeOK, WorkState
  <2>2. Len(work.results) + 1 \in 1..Len(CurrentBlock.txs)
    BY <1>1, <2>1, BlockFacts
  <2> QED BY <1>1, <2>2, BlockFacts DEF ThisTx
<1>4. tx.kind = "auth" => admin = Machine!AdminAt(height)
  BY <1>1, <1>3, AdminAgrees DEF TxAllowed
<1>5. tx.kind = "call" => (rules = "genesis" <=> Machine!RulesAt(height) = "genesis")
  BY <1>1, <1>3, RulesAgree DEF TxAllowed
<1>6. \/ tx.kind = "bond" /\ DeliverBond(tx)
      \/ tx.kind = "unbond" /\ DeliverUnbond(tx)
      \/ tx.kind = "auth" /\ DeliverAuth(tx)
      \/ tx.kind = "call" /\ DeliverCall(tx)
      \/ DeliverFailed(tx)
  BY DEF DeliverTx
<1> DEFINE ok == \/ tx.kind = "bond" /\ CanInsert(next, tx.signer, tx.slots)
                 \/ tx.kind = "unbond" /\ CanRemove(next, tx.signer)
                 \/ tx.kind = "auth" /\ blockVersion >= 4 /\ tx.by = Machine!AdminAt(height)
                 \/ tx.kind = "call" /\ Machine!RulesAt(height) = "genesis"
<1>7. /\ y.next = IF ok /\ tx.kind = "bond" THEN InsertPosItem(next, tx.signer, tx.slots)
                  ELSE IF ok /\ tx.kind = "unbond"
                  THEN RemovePosItem(next, tx.signer, height, FALSE)
                  ELSE next
      /\ y.auth = IF ~ok \/ tx.kind # "auth" THEN auth
                  ELSE IF tx.signer \in auth THEN auth \ {tx.signer}
                  ELSE auth \cup {tx.signer}
      /\ y.results = Append(work.results, ok)
  BY MachineTables DEF Machine!TxStep
<1> HIDE DEF tx, y
<1>8. \A r : Result(r) => work'.results = Append(work.results, r)
  BY DEF Result, TypeOK, WorkState
<1>9. CASE tx.kind = "bond" /\ DeliverBond(tx)
  <2>1. /\ CanInsert(next, tx.signer, tx.slots)
        /\ next' = InsertPosItem(next, tx.signer, tx.slots) /\ auth' = auth
        /\ work'.results = Append(work.results, TRUE)
    BY <1>8, <1>9 DEF DeliverBond
  <2>2. ok = TRUE
    BY <1>9, <2>1
  <2> HIDE DEF ok
  <2> QED BY <1>7, <1>9, <2>1, <2>2 DEF tx, y
<1>10. CASE tx.kind = "unbond" /\ DeliverUnbond(tx)
  <2>1. /\ CanRemove(next, tx.signer)
        /\ next' = RemovePosItem(next, tx.signer, height, FALSE) /\ auth' = auth
        /\ work'.results = Append(work.results, TRUE)
    BY <1>8, <1>10 DEF DeliverUnbond
  <2>2. ok = TRUE
    BY <1>10, <2>1
  <2> HIDE DEF ok
  <2> QED BY <1>7, <1>10, <2>1, <2>2 DEF tx, y
<1>11. CASE tx.kind = "auth" /\ DeliverAuth(tx)
  <2>1. /\ blockVersion >= 4 /\ tx.by = admin /\ next' = next
        /\ auth' = IF tx.signer \in auth THEN auth \ {tx.signer} ELSE auth \cup {tx.signer}
        /\ work'.results = Append(work.results, TRUE)
    BY <1>8, <1>11 DEF DeliverAuth, CanAuth
  <2>2. ok = TRUE
    BY <1>4, <1>11, <2>1
  <2> HIDE DEF ok
  <2> QED BY <1>7, <1>11, <2>1, <2>2 DEF tx, y
<1>12. CASE tx.kind = "call" /\ DeliverCall(tx)
  <2>1. /\ next' = next /\ auth' = auth
        /\ work'.results = Append(work.results, rules = "genesis")
    BY <1>8, <1>12 DEF DeliverCall
  <2>2. ok = (rules = "genesis")
    BY <1>5, <1>12
  <2> HIDE DEF ok
  <2> QED BY <1>7, <1>12, <2>1, <2>2 DEF tx, y
<1>13. CASE DeliverFailed(tx)
  <2>1. next' = next /\ auth' = auth /\ work'.results = Append(work.results, FALSE)
    BY <1>8, <1>13 DEF DeliverFailed
  <2>2. ok = FALSE
    BY <1>4, <1>13 DEF DeliverFailed, CanAuth
  <2> HIDE DEF ok
  <2> QED BY <1>7, <2>1, <2>2 DEF tx, y
<1> QED BY <1>6, <1>9, <1>10, <1>11, <1>12, <1>13

\* The machine's state after a block, with the node's operators.
LEMMA ApplyIs ==
    ASSUME NEW s, NEW b, NEW h
    PROVE  Machine!Apply(s, b, h) =
             LET version == BlockVersionAt(h, HeaderVersion)
                 end == Machine!TxSteps(s, b, h)[Len(b.txs)]
                 c == IF IsEpochEnd(h) THEN end.next ELSE s.curr
             IN  [height |-> h,
                  validators |-> GetUpdatedValidators(c, version, b.seed, h),
                  curr |-> c,
                  next |-> IF IsEpochEnd(h) THEN TryRemoveUnbondPosItems(end.next, h)
                           ELSE end.next,
                  auth |-> end.auth,
                  version |-> version,
                  coinbase |-> Receiver(s.curr, version, b.proposer),
                  fined |-> b.evidence \cap Known(s.next),
                  paid |-> IF version >= 4 THEN {} ELSE b.votes,
                  results |-> end.results]
BY MachineTables, MachineStrategy DEF Machine!Apply

\* The machine's view of a height depends on the chain and the store only.
LEMMA MachineFrame ==
    ASSUME UNCHANGED ledger
    PROVE  \A h : Machine!Before(h)' = Machine!Before(h)
BY DEF Machine!Before

LEMMA DeterminedBegin ==
    ASSUME TypeOK, Chain, Memory, Determined, BeginBlock
    PROVE  Determined'
<1> DEFINE h == head + 1
           b == store[h]
           version == BlockVersionAt(h, HeaderVersion)
           before == Machine!Before(h)
<1>1. /\ phase = "idle" /\ phase' = "block" /\ height' = h /\ blockVersion' = version
      /\ next' = SlashAll(next, b.evidence \cap Bonded(next), h)
      /\ UNCHANGED <<halt, auth, head, ledger, store>> /\ h \in DOMAIN store
  BY DEF BeginBlock, LastBlockHeight, DoPunish, tmVars
<1>2. /\ work'.version = version /\ work'.coinbase = Receiver(curr, version, b.proposer)
      /\ work'.results = <<>> /\ work'.fined = b.evidence \cap Known(next)
  BY DEF BeginBlock, LastBlockHeight, UpdateHeader, Punished, TypeOK, WorkState
<1>3. curr = StateOf(head).curr /\ next = StateOf(head).next /\ auth = StateOf(head).auth
  BY <1>1 DEF Memory
<1>4. curr = before.curr /\ next = before.next /\ auth = before.auth
  <2>1. h \in Nat \ {0} /\ h - 1 = head /\ head \in DOMAIN ledger \cup {0}
    BY HeightsHaveStates DEF TypeOK
  <2> QED BY <1>3, <2>1, BeforeIsState
<1>5. b \in Block /\ Len(b.txs) \in Nat
  <2>1. b \in Block
    BY <1>1 DEF TypeOK
  <2> QED BY <2>1 DEF Block
<1>6. CurrentBlock' = b /\ Machine!Before(height)' = before
  BY <1>1 DEF CurrentBlock, Machine!Before
<1> DEFINE steps == Machine!TxSteps(before, b, h)
<1>7. Machine!TxSteps(Machine!Before(height), CurrentBlock, height)' = steps
  <2>1. Machine!TxSteps(Machine!Before(height), CurrentBlock, height)'
          = Machine!TxSteps(Machine!Before(height)', CurrentBlock', height')
    OBVIOUS
  <2> QED BY <1>1, <1>6, <2>1
<1> HIDE DEF steps, before, b, version, h
<1>8. /\ steps[0].next = SlashAll(before.next, b.evidence \cap Bonded(before.next), h)
      /\ steps[0].auth = before.auth /\ steps[0].results = <<>>
  <2>1. steps[0] = [next |-> SlashAll(before.next, b.evidence \cap Bonded(before.next), h),
                    auth |-> before.auth, results |-> <<>>]
    BY <1>5, StepByStep, Zenon DEF steps
  <2> QED BY <2>1
<1>9. Len(work'.results) = 0 /\ 0 <= Len(b.txs)
  BY <1>2, <1>5
<1>10. \A g : Machine!Before(g)' = Machine!Before(g)
  BY <1>1, MachineFrame
<1>11. \A g \in DOMAIN ledger' :
          (g - 1) \in DOMAIN ledger' \cup {0} =>
              ledger'[g] = Machine!Apply(Machine!Before(g)', store'[g], g)
  BY <1>1, <1>10 DEF Determined
<1>12. BlockVersionAt(height', HeaderVersion) = version
  BY <1>1 DEF version
<1> QED BY <1>1, <1>2, <1>4, <1>6, <1>7, <1>8, <1>9, <1>11, <1>12 DEF Determined

LEMMA DeterminedDeliver ==
    ASSUME ForkSchedule, TypeOK, Chain, Retained, Globals, Determined, DeliverTx
    PROVE  Determined'
<1> DEFINE b == CurrentBlock
           n == Len(work.results)
           before == Machine!Before(height)
           steps == Machine!TxSteps(before, b, height)
<1>1. /\ phase = "block" /\ n < Len(b.txs)
      /\ UNCHANGED <<phase, halt, height, blockVersion, curr, ledger, store>>
  BY DEF DeliverTx, tmVars
<1>2. /\ next = steps[n].next /\ auth = steps[n].auth /\ work.results = steps[n].results
      /\ blockVersion = BlockVersionAt(height, HeaderVersion)
      /\ work.version = blockVersion
      /\ work.coinbase = Receiver(before.curr, blockVersion, b.proposer)
      /\ work.fined = b.evidence \cap Known(before.next)
  BY <1>1 DEF Determined
<1>3. work.results \in Seq(BOOLEAN) /\ n \in Nat
  <2>1. work.results \in Seq(BOOLEAN)
    BY DEF TypeOK, WorkState
  <2> QED BY <2>1
<1>4. Len(b.txs) \in Nat
  BY <1>1, BlockFacts
<1>5. n + 1 \in 1..Len(b.txs) /\ (n + 1) - 1 = n
  BY <1>1, <1>3, <1>4
<1>6. ThisTx = b.txs[n + 1]
  BY DEF ThisTx
<1>7. steps[n + 1] = Machine!TxStep(steps[n], ThisTx, blockVersion, height)
  <2>1. \A i \in 1..Len(b.txs) :
          steps[i] = Machine!TxStep(steps[i - 1], b.txs[i],
                                    BlockVersionAt(height, HeaderVersion), height)
    BY <1>4, StepByStep
  <2>2. steps[n + 1] = Machine!TxStep(steps[(n + 1) - 1], b.txs[n + 1],
                                      BlockVersionAt(height, HeaderVersion), height)
    BY <1>5, <2>1, Zenon
  <2> HIDE DEF steps, b
  <2> QED BY <1>2, <1>5, <1>6, <2>2
<1> HIDE DEF steps
<1>8. LET y == steps[n + 1]
      IN  next' = y.next /\ auth' = y.auth /\ work'.results = y.results
  BY <1>2, <1>7, DeliverIsTxStep
<1>9. /\ work'.version = work.version /\ work'.coinbase = work.coinbase
      /\ work'.fined = work.fined /\ Len(work'.results) = n + 1
  <2>1. PICK ok \in BOOLEAN : Result(ok)
    BY DEF DeliverTx, DeliverBond, DeliverUnbond, DeliverAuth, DeliverCall, DeliverFailed
  <2>2. work' = [work EXCEPT !.results = Append(work.results, ok)]
    BY <2>1 DEF Result
  <2>3. Len(Append(work.results, ok)) = n + 1
    BY <1>3
  <2> DEFINE r == Append(work.results, ok)
  <2> HIDE DEF r
  <2>4. work' = [work EXCEPT !.results = r]
    BY <2>2 DEF r
  <2>5. /\ work'.version = work.version /\ work'.coinbase = work.coinbase
        /\ work'.fined = work.fined /\ work'.results = r
    BY <2>4 DEF TypeOK, WorkState
  <2> QED BY <2>3, <2>5 DEF r
<1>10. CurrentBlock' = b /\ Machine!Before(height)' = before
  BY <1>1 DEF CurrentBlock, Machine!Before
<1>11. Machine!TxSteps(Machine!Before(height), CurrentBlock, height)' = steps
  <2>1. Machine!TxSteps(Machine!Before(height), CurrentBlock, height)'
          = Machine!TxSteps(Machine!Before(height)', CurrentBlock', height')
    OBVIOUS
  <2> QED BY <1>1, <1>10, <2>1 DEF steps
<1>12. \A g : Machine!Before(g)' = Machine!Before(g)
  BY <1>1, MachineFrame
<1>13. \A g \in DOMAIN ledger' :
          (g - 1) \in DOMAIN ledger' \cup {0} =>
              ledger'[g] = Machine!Apply(Machine!Before(g)', store'[g], g)
  BY <1>1, <1>12 DEF Determined
<1>14. n + 1 <= Len(b.txs) /\ halt' # "appHash"
  BY <1>1, <1>3, <1>4 DEF Determined
<1> HIDE DEF b, n, before
<1> QED BY <1>1, <1>2, <1>8, <1>9, <1>10, <1>11, <1>13, <1>14 DEF Determined

LEMMA DeterminedEnd ==
    ASSUME TypeOK, Chain, Memory, Retained, Successive, Determined, EndBlock
    PROVE  Determined'
<1> DEFINE b == CurrentBlock
           before == Machine!Before(height)
           end == Machine!TxSteps(before, b, height)[Len(b.txs)]
           version == BlockVersionAt(height, HeaderVersion)
           after == Machine!Apply(before, b, height)
           c == IF IsEpochEnd(height) THEN end.next ELSE before.curr
<1>1. /\ phase = "block" /\ Len(work.results) = Len(b.txs)
      /\ phase' \in {"ended", "halted"} /\ halt' # "appHash"
      /\ curr' = IF IsEpochEnd(height) THEN next ELSE curr
      /\ next' = IF IsEpochEnd(height) THEN TryRemoveUnbondPosItems(next, height) ELSE next
      /\ validators' = GetUpdatedValidators(curr', blockVersion, b.seed, height)
      /\ UNCHANGED <<height, blockVersion, auth, work, ledger, store>>
  BY DEF EndBlock, EpochTable, TmVerdict, tmVars
<1>2. /\ next = end.next /\ auth = end.auth /\ work.results = end.results
      /\ blockVersion = version /\ work.version = version
      /\ work.coinbase = Receiver(before.curr, version, b.proposer)
      /\ work.fined = b.evidence \cap Known(before.next)
  BY <1>1 DEF Determined
<1>3. curr = before.curr
  BY <1>1, BlockBefore DEF Successive
<1>4. /\ after.validators = GetUpdatedValidators(c, version, b.seed, height)
      /\ after.curr = c
      /\ after.next = (IF IsEpochEnd(height) THEN TryRemoveUnbondPosItems(end.next, height)
                       ELSE end.next)
      /\ after.auth = end.auth /\ after.version = version
      /\ after.coinbase = Receiver(before.curr, version, b.proposer)
      /\ after.fined = b.evidence \cap Known(before.next) /\ after.results = end.results
  <2>1. after = [height |-> height,
                 validators |-> GetUpdatedValidators(c, version, b.seed, height),
                 curr |-> c,
                 next |-> IF IsEpochEnd(height) THEN TryRemoveUnbondPosItems(end.next, height)
                          ELSE end.next,
                 auth |-> end.auth,
                 version |-> version,
                 coinbase |-> Receiver(before.curr, version, b.proposer),
                 fined |-> b.evidence \cap Known(before.next),
                 paid |-> IF version >= 4 THEN {} ELSE b.votes,
                 results |-> end.results]
    BY ApplyIs, Zenon
  <2> HIDE DEF after, end, version, b, before
  <2> QED BY <2>1
<1>5. CurrentBlock' = b /\ Machine!Before(height)' = before
  BY <1>1 DEF CurrentBlock, Machine!Before
<1>6. Machine!Apply(Machine!Before(height), CurrentBlock, height)' = after
  <2>1. Machine!Apply(Machine!Before(height), CurrentBlock, height)'
          = Machine!Apply(Machine!Before(height)', CurrentBlock', height')
    OBVIOUS
  <2> QED BY <1>1, <1>5, <2>1
<1>7. \A g : Machine!Before(g)' = Machine!Before(g)
  BY <1>1, MachineFrame
<1>8. \A g \in DOMAIN ledger' :
          (g - 1) \in DOMAIN ledger' \cup {0} =>
              ledger'[g] = Machine!Apply(Machine!Before(g)', store'[g], g)
  BY <1>1, <1>7 DEF Determined
<1>9. curr' = c
  BY <1>1, <1>2, <1>3
<1> HIDE DEF after, end, version, b, before, c
<1> QED BY <1>1, <1>2, <1>4, <1>6, <1>8, <1>9 DEF Determined

\* The state Commit writes is the machine's.
LEMMA CommittedIsApply ==
    ASSUME TypeOK, Chain, Memory, Determined, phase = "ended"
    PROVE  CommittedState = Machine!Apply(Machine!Before(height), CurrentBlock, height)
<1> DEFINE b == CurrentBlock
           before == Machine!Before(height)
           end == Machine!TxSteps(before, b, height)[Len(b.txs)]
           version == BlockVersionAt(height, HeaderVersion)
           after == Machine!Apply(before, b, height)
           c == IF IsEpochEnd(height) THEN end.next ELSE before.curr
           p == CommittedState
<1>1. /\ validators = after.validators
      /\ curr = after.curr /\ next = after.next /\ auth = after.auth
      /\ blockVersion = after.version /\ work.version = after.version
      /\ work.coinbase = after.coinbase /\ work.fined = after.fined
      /\ work.results = after.results
  BY DEF Determined
<1>2. after = [height |-> height,
               validators |-> GetUpdatedValidators(c, version, b.seed, height),
               curr |-> c,
               next |-> IF IsEpochEnd(height) THEN TryRemoveUnbondPosItems(end.next, height)
                        ELSE end.next,
               auth |-> end.auth,
               version |-> version,
               coinbase |-> Receiver(before.curr, version, b.proposer),
               fined |-> b.evidence \cap Known(before.next),
               paid |-> IF version >= 4 THEN {} ELSE b.votes,
               results |-> end.results]
  BY ApplyIs, Zenon
<1>3. /\ p.height = height /\ p.validators = validators
      /\ p.curr = curr /\ p.next = next /\ p.auth = auth
  BY CommittedFields, CommittedMemory
<1>4. /\ p.version = work.version /\ p.coinbase = work.coinbase /\ p.fined = work.fined
      /\ p.results = work.results
      /\ p.paid = (IF blockVersion >= 4 THEN {} ELSE b.votes)
  BY DEF CommittedState, SetPersistenceData, Rewarded, TypeOK, WorkState
<1>5. p = [height |-> p.height, validators |-> p.validators, curr |-> p.curr, next |-> p.next,
           auth |-> p.auth, version |-> p.version, coinbase |-> p.coinbase, fined |-> p.fined,
           paid |-> p.paid, results |-> p.results]
  <2>1. p \in WorkState
    BY CommittedType
  <2> HIDE DEF p
  <2> QED BY <2>1 DEF WorkState
<1> HIDE DEF p, end, version, b, before, c
<1>6. /\ after.height = height
      /\ after.paid = (IF after.version >= 4 THEN {} ELSE b.votes)
      /\ after = [height |-> after.height, validators |-> after.validators, curr |-> after.curr,
                  next |-> after.next, auth |-> after.auth, version |-> after.version,
                  coinbase |-> after.coinbase, fined |-> after.fined,
                  paid |-> after.paid, results |-> after.results]
  <2> HIDE DEF after
  <2> QED BY <1>2
<1> HIDE DEF after
<1>7. p = after
  BY <1>1, <1>3, <1>4, <1>5, <1>6
<1> QED BY <1>7 DEF p, after, before, b

\* A replayed block comes out as it did the first time.
LEMMA ReplayedAlike ==
    ASSUME TypeOK, Chain, Memory, Retained, Determined, phase = "ended", height \in DOMAIN ledger
    PROVE  ledger[height] = CommittedState
<1>1. height - 1 = head /\ head \in DOMAIN ledger \cup {0}
  BY HeightsHaveStates DEF Chain, TypeOK
<1>2. ledger[height] = Machine!Apply(Machine!Before(height), store[height], height)
  BY <1>1 DEF Determined
<1> QED BY <1>2, CommittedIsApply DEF CurrentBlock

LEMMA DeterminedCommit ==
    ASSUME TypeOK, Chain, Memory, Retained, Determined, Commit
    PROVE  Determined'
<1>1. phase = "ended"
  BY CommitCases
<1>2. halt' # "appHash"
  BY <1>1, ReplayedAlike DEF Commit, WriteBlock
<1>3. CASE phase' = "halted" /\ UNCHANGED <<ledger, store>>
  <2>1. \A g : Machine!Before(g)' = Machine!Before(g)
    BY <1>3, MachineFrame
  <2> QED BY <1>2, <1>3, <2>1 DEF Determined
<1>4. CASE WriteBlock
  <2> DEFINE p == CommittedState
             before == Machine!Before(height)
  <2>1. /\ phase' = "idle" /\ DOMAIN ledger' = DOMAIN ledger \cup {height}
        /\ ledger'[height] = p
        /\ \A h \in DOMAIN ledger : h # height => ledger'[h] = ledger[h]
    BY <1>4, WriteEffect
  <2>2. p = Machine!Apply(before, store[height], height)
    BY <1>1, CommittedIsApply DEF CurrentBlock
  <2>3. height = head + 1 /\ head \in Nat /\ height \in Nat /\ tmHeight \in Nat
    BY <1>1 DEF Chain, TypeOK
  <2>4. \A h \in DOMAIN ledger : ledger'[h] = ledger[h]
    BY <1>1, <2>1, ReplayedAlike
  <2>5. UNCHANGED store
    BY CommitCases DEF tmVars
  <2> HIDE DEF p
  <2>6. ASSUME NEW h \in DOMAIN ledger', (h - 1) \in DOMAIN ledger' \cup {0}
        PROVE  ledger'[h] = Machine!Apply(Machine!Before(h)', store'[h], h)
    <3>1. h \in Nat \ {0}
      BY <2>1, <2>3 DEF TypeOK
    <3>2. CASE h = height
      <4>1. Machine!Before(h)' = before
        <5>1. CASE h = 1
          BY <3>2, <5>1 DEF Machine!Before
        <5>2. CASE h # 1
          <6>1. h - 1 = head /\ head \in DOMAIN ledger
            BY <2>3, <3>1, <3>2, <5>2 DEF Chain
          <6>2. ledger'[h - 1] = ledger[h - 1]
            BY <2>4, <6>1
          <6> QED BY <3>2, <5>2, <6>2 DEF Machine!Before
        <5> QED BY <5>1, <5>2
      <4> HIDE DEF before
      <4> QED BY <2>1, <2>2, <2>5, <3>2, <4>1
    <3>3. CASE h # height
      <4>1. h \in DOMAIN ledger
        BY <2>1, <3>3
      <4>2. (h - 1) \in DOMAIN ledger \cup {0}
        <5> SUFFICES ASSUME (h - 1) \notin DOMAIN ledger \cup {0} PROVE FALSE
          OBVIOUS
        <5>1. h - 1 = height /\ height \notin DOMAIN ledger
          BY <2>1, <2>6
        <5>2. height = tmHeight + 1
          BY <1>1, <5>1, NewBlock
        <5>3. h <= tmHeight + 1
          BY <4>1 DEF Retained
        <5> QED BY <2>3, <3>1, <5>1, <5>2, <5>3
      <4>3. Machine!Before(h)' = Machine!Before(h)
        BY <2>4, <3>1, <4>2 DEF Machine!Before
      <4>4. ledger[h] = Machine!Apply(Machine!Before(h), store[h], h)
        BY <4>1, <4>2 DEF Determined
      <4> QED BY <2>4, <2>5, <4>1, <4>3, <4>4
    <3> QED BY <3>2, <3>3
  <2> QED BY <1>2, <2>1, <2>6 DEF Determined
<1> QED BY <1>3, <1>4, CommitCases DEF tmVars

LEMMA DeterminedNext ==
    ASSUME ForkSchedule, TypeOK, Chain, Memory, Retained, Globals, Successive, Determined,
           [Next]_vars
    PROVE  Determined'
<1>1. CASE Start \/ InitChain \/ EndBlockStuck \/ Crash
  <2>1. phase' \notin {"block", "ended"} /\ UNCHANGED <<ledger, store>>
    BY <1>1, QuietStep
  <2>2. halt' # "appHash"
    BY <1>1 DEF Start, InitChain, EndBlockStuck, Crash, Determined
  <2>3. \A g : Machine!Before(g)' = Machine!Before(g)
    BY <2>1, MachineFrame
  <2> QED BY <2>1, <2>2, <2>3 DEF Determined
<1>2. CASE Decide
  <2>1. /\ UNCHANGED <<phase, halt, ledger>> /\ phase = "idle"
        /\ \A h \in DOMAIN store : store'[h] = store[h]
    <3>1. phase = "idle"
      BY <1>2, Zenon DEF Decide
    <3> QED BY <1>2, <3>1, DecideStep
  <2> HIDE <1>2
  <2>2. \A g : Machine!Before(g)' = Machine!Before(g)
    BY <2>1, MachineFrame
  <2>3. \A h \in DOMAIN ledger : store'[h] = store[h]
    BY <2>1 DEF Retained
  <2> QED BY <2>1, <2>2, <2>3 DEF Determined
<1>3. CASE SaveState
  <2>1. /\ phase = "idle" /\ UNCHANGED <<phase, halt>>
        /\ DOMAIN ledger' = {g \in DOMAIN ledger : Recent(g)}
        /\ DOMAIN store' = {g \in DOMAIN store : Recent(g)}
        /\ \A h \in DOMAIN ledger' : ledger'[h] = ledger[h]
        /\ \A h \in DOMAIN store' : store'[h] = store[h]
    BY <1>3 DEF SaveState
  <2> HIDE <1>3
  <2>2. ASSUME NEW h \in DOMAIN ledger', (h - 1) \in DOMAIN ledger' \cup {0}
        PROVE  ledger'[h] = Machine!Apply(Machine!Before(h)', store'[h], h)
    <3>1. h \in DOMAIN ledger /\ (h - 1) \in DOMAIN ledger \cup {0} /\ h \in DOMAIN store'
      BY <2>1, <2>2 DEF Retained
    <3>2. ledger[h] = Machine!Apply(Machine!Before(h), store[h], h)
      BY <3>1 DEF Determined
    <3>3. h = 1 \/ h - 1 \in DOMAIN ledger'
      BY <2>2, <3>1 DEF TypeOK
    <3>4. Machine!Before(h)' = Machine!Before(h)
      BY <2>1, <3>3 DEF Machine!Before
    <3> QED BY <2>1, <3>1, <3>2, <3>4
  <2> QED BY <2>1, <2>2 DEF Determined
<1>4. CASE UNCHANGED vars
  <2>1. /\ UNCHANGED <<phase, halt, height, blockVersion, validators, curr, next, auth, work>>
        /\ UNCHANGED <<ledger, store>>
    BY <1>4 DEF vars, memVars, tmVars
  <2>2. \A g : Machine!Before(g)' = Machine!Before(g)
    BY <2>1, MachineFrame
  <2>3. CurrentBlock' = CurrentBlock /\ Machine!Before(height)' = Machine!Before(height)
    BY <2>1 DEF CurrentBlock, Machine!Before
  <2>4. /\ Machine!TxSteps(Machine!Before(height), CurrentBlock, height)'
             = Machine!TxSteps(Machine!Before(height), CurrentBlock, height)
        /\ Machine!Apply(Machine!Before(height), CurrentBlock, height)'
             = Machine!Apply(Machine!Before(height), CurrentBlock, height)
    <3>1. /\ Machine!TxSteps(Machine!Before(height), CurrentBlock, height)'
               = Machine!TxSteps(Machine!Before(height)', CurrentBlock', height')
          /\ Machine!Apply(Machine!Before(height), CurrentBlock, height)'
               = Machine!Apply(Machine!Before(height)', CurrentBlock', height')
      OBVIOUS
    <3> QED BY <2>1, <2>3, <3>1
  <2> QED BY <2>1, <2>2, <2>3, <2>4 DEF Determined
<1> QED BY <1>1, <1>2, <1>3, <1>4, DeterminedBegin, DeterminedDeliver, DeterminedEnd,
           DeterminedCommit DEF Next

-----------------------------------------------------------------------------
(* The theorems. *)

Replayable == Retained /\ Globals /\ Answered /\ Determined

LEMMA ReplayableInit == ForkSchedule /\ Init => Replayable
<1> SUFFICES ASSUME ForkSchedule, Init PROVE Replayable
  OBVIOUS
<1>1. Retained /\ Globals
  BY RetainedInit, GlobalsInit
<1>2. Answered /\ Determined
  BY DEF Init, Answered, Determined
<1> QED BY <1>1, <1>2 DEF Replayable

\* Under the fork schedule, in every reachable state: every state of the chain is
\* the machine's, and a block in progress is where the machine is.
THEOREM ChainIsDetermined ==
    ASSUME ForkSchedule
    PROVE  Spec => []Replayable
<1>1. Init => Replayable
  BY ReplayableInit
<1>2. TypeOK /\ Coherent /\ Seated /\ Successive /\ Replayable /\ [Next]_vars => Replayable'
  BY RetainedNext, GlobalsNext, AnsweredNext, DeterminedNext DEF Coherent, Replayable
<1> QED BY <1>1, <1>2, Coherence, SeatsAccounted, PTL DEF Spec

\* Under the fork schedule, a block executed again by a restarted node has the app
\* hash it had the first time.
THEOREM ReplaysAgree ==
    ASSUME ForkSchedule
    PROVE  Spec => []ReplayAgrees
<1>1. Replayable => ReplayAgrees
  BY DEF Replayable, Determined, ReplayAgrees
<1> QED BY <1>1, ChainIsDetermined, PTL

-----------------------------------------------------------------------------
(* The refinement: each step of the node is a step of the machine, or none. *)

LEMMA MachineInit == Init => Machine!Init
BY DEF Init, Machine!Init

LEMMA DecideRefines ==
    ASSUME TypeOK, Chain, Decide
    PROVE  Machine!Decide
<1>1. tmHeight + 1 \notin DOMAIN store
  BY Zenon DEF Decide
<1>2. /\ UNCHANGED <<ledger, tmHeight, tm>>
      /\ DOMAIN store' = DOMAIN store \cup {tmHeight + 1}
      /\ \A h \in DOMAIN store : store'[h] = store[h]
  BY DecideStep
<1> QED BY <1>1, <1>2 DEF Machine!Decide, Machine!Keeps

LEMMA CommitRefines ==
    ASSUME TypeOK, Chain, Memory, Retained, Determined, Commit
    PROVE  Machine!Execute \/ UNCHANGED Machine!machineVars
<1>1. phase = "ended" /\ UNCHANGED <<store, tmHeight, tm>>
  BY CommitCases DEF tmVars
<1>2. CASE UNCHANGED ledger
  BY <1>1, <1>2 DEF Machine!machineVars
<1>3. CASE WriteBlock
  <2> DEFINE p == CommittedState
  <2>1. /\ DOMAIN ledger' = DOMAIN ledger \cup {height} /\ ledger'[height] = p
        /\ \A h \in DOMAIN ledger : h # height => ledger'[h] = ledger[h]
        /\ ledger' = [h \in DOMAIN ledger' |-> ledger'[h]]
    BY <1>3, WriteEffect DEF WriteBlock
  <2>2. p = Machine!Apply(Machine!Before(height), store[height], height)
    BY <1>1, CommittedIsApply DEF CurrentBlock
  <2>3. height \in DOMAIN ledger => ledger[height] = p
    BY <1>1, ReplayedAlike
  <2> HIDE DEF p
  <2>4. CASE height \in DOMAIN ledger
    <3>1. DOMAIN ledger' = DOMAIN ledger /\ \A h \in DOMAIN ledger : ledger'[h] = ledger[h]
      BY <2>1, <2>3, <2>4
    <3>2. ledger = [h \in DOMAIN ledger |-> ledger[h]]
      BY DEF Retained
    <3>3. UNCHANGED ledger
      BY <2>1, <3>1, <3>2
    <3> QED BY <1>1, <3>3 DEF Machine!machineVars
  <2>5. CASE height \notin DOMAIN ledger
    <3>1. height = tmHeight + 1 /\ height \in DOMAIN store
      BY <1>1, <2>5, NewBlock DEF Chain
    <3>2. Machine!Execute
      BY <1>1, <2>1, <2>2, <2>5, <3>1 DEF Machine!Execute, Machine!Keeps
    <3> QED BY <3>2
  <2> QED BY <2>4, <2>5
<1> QED BY <1>2, <1>3, CommitCases

LEMMA SaveRefines ==
    ASSUME TypeOK, Chain, Answered, SaveState
    PROVE  Machine!Save
<1>1. /\ head = tmHeight + 1 /\ tmHeight' = head /\ tm'.next = TmNext(resp)
      /\ head \in DOMAIN ledger'
  BY SaveStep
<1>2. /\ DOMAIN ledger' \subseteq DOMAIN ledger
      /\ \A h \in DOMAIN ledger' : ledger'[h] = ledger[h]
      /\ DOMAIN store' \subseteq DOMAIN store
      /\ \A h \in DOMAIN store' : store'[h] = store[h]
  BY DEF SaveState
<1>3. head \in Nat \ {0} /\ head - 1 = tmHeight /\ tmHeight \in DOMAIN ledger \cup {0}
  BY <1>1, HeightsHaveStates DEF TypeOK
<1>4. Machine!Before(head).validators = StateOf(tmHeight).validators
  BY <1>3, BeforeIsState
<1>5. StateOf(head) = ledger[head]
  BY <1>3 DEF StateOf
<1>6. /\ resp.add = ledger[head].validators
      /\ resp.del = StateOf(tmHeight).validators \ ledger[head].validators
  BY <1>1, <1>5 DEF Answered, Difference
<1>7. TmNext(resp) = ledger[head].validators \cup (tm.next \ Machine!Before(head).validators)
  BY <1>4, <1>6 DEF TmNext
<1> QED BY <1>1, <1>2, <1>3, <1>7 DEF Machine!Save, Machine!Keeps

LEMMA NextRefines ==
    ASSUME TypeOK, Coherent, Replayable, [Next]_vars
    PROVE  [Machine!Next]_(Machine!machineVars)
<1>1. CASE Decide
  BY <1>1, DecideRefines DEF Coherent, Machine!Next
<1>2. CASE Commit
  BY <1>2, CommitRefines DEF Coherent, Replayable, Machine!Next
<1>3. CASE SaveState
  BY <1>3, SaveRefines DEF Coherent, Replayable, Machine!Next
<1>4. CASE Start \/ InitChain \/ EndBlockStuck \/ BeginBlock \/ DeliverTx \/ EndBlock \/ Crash
           \/ UNCHANGED vars
  <2>1. UNCHANGED <<ledger, store, tmHeight, tm>>
    BY <1>4 DEF Start, InitChain, EndBlockStuck, BeginBlock, DeliverTx, EndBlock, Crash,
                vars, tmVars
  <2> QED BY <2>1 DEF Machine!machineVars
<1> QED BY <1>1, <1>2, <1>3, <1>4 DEF Next

\* Under the fork schedule, the node is a replicated state machine: the state of a
\* height is a function of the block and the state before, written once, and
\* Tendermint's validators follow it, whatever crashes and replays there are.
THEOREM NodeImplementsMachine ==
    ASSUME ForkSchedule
    PROVE  Spec => ImplementsMachine
<1>1. Init => Machine!Init
  BY MachineInit
<1>2. TypeOK /\ Coherent /\ Replayable /\ [Next]_vars => [Machine!Next]_(Machine!machineVars)
  BY NextRefines
<1> QED BY <1>1, <1>2, Coherence, ChainIsDetermined, PTL
       DEF Spec, ImplementsMachine, Machine!Spec

-----------------------------------------------------------------------------
(* Rewards: every vote's signer is found, the first time and on every replay. *)

\* The first time, because the voters are in office.
LEMMA NewVotersFound ==
    ASSUME LongEpochs, Ignored = {}, TypeOK, Chain, Tracking, Seated, Successive, InOffice,
           phase = "ended", height = tmHeight + 1, head = tmHeight
    PROVE  CurrentBlock.votes \subseteq Known(curr)
<1> DEFINE c == StateOf(tmHeight).curr
<1>1. CurrentBlock.votes \subseteq tm.last
  BY DEF InOffice, CurrentBlock, Chain
<1>2. tm.last \subseteq IF IsEpochEnd(tmHeight) \/ IsEpochEnd(tmHeight - 1)
                       THEN Known(c) ELSE Bonded(c)
  BY DEF InOffice
<1>3. IF IsEpochEnd(height) THEN Bonded(c) \subseteq Known(curr)
      ELSE Bonded(c) = Bonded(curr) /\ Known(c) = Known(curr)
  BY EpochPasses DEF Successive
<1>4. IsEpochEnd(height) => ~IsEpochEnd(tmHeight) /\ ~IsEpochEnd(tmHeight - 1)
  <2> SUFFICES ASSUME IsEpochEnd(height)
               PROVE  ~IsEpochEnd(tmHeight) /\ ~IsEpochEnd(tmHeight - 1)
    OBVIOUS
  <2>1. tmHeight \in Nat
    BY DEF TypeOK
  <2>2. ~IsEpochEnd(tmHeight)
    BY <2>1, EpochSpacing
  <2>3. tmHeight # 0
    <3>1. IsEpochEnd(0)
      BY StrategyAssumption DEF IsEpochEnd
    <3> QED BY <2>2, <3>1
  <2>4. tmHeight - 1 \in Nat /\ (tmHeight - 1) + 2 = height
    BY <2>1, <2>3
  <2>5. ~IsEpochEnd(tmHeight - 1)
    BY <2>4, EpochSpacing
  <2> QED BY <2>2, <2>5
<1>5. Bonded(c) \subseteq Known(c)
  BY DEF Known
<1> QED BY <1>1, <1>2, <1>3, <1>4, <1>5

LEMMA VotersFoundCommit ==
    ASSUME LongEpochs, Ignored = {}, TypeOK, Chain, Memory, Tracking, Seated, Successive,
           InOffice, Retained, Determined, VotersFound, Commit
    PROVE  VotersFound'
<1> DEFINE version == BlockVersionAt(height, HeaderVersion)
<1>1. phase = "ended" /\ UNCHANGED store
  BY CommitCases DEF tmVars
<1>2. blockVersion = version
  <2>1. blockVersion = Machine!Apply(Machine!Before(height), CurrentBlock, height).version
    BY <1>1 DEF Determined
  <2>2. Machine!Apply(Machine!Before(height), CurrentBlock, height).version = version
    BY ApplyIs
  <2> QED BY <2>1, <2>2
<1>3. version < 4 => CurrentBlock.votes \subseteq Known(curr)
  <2>1. CASE height \in DOMAIN ledger
    <3>1. ledger[height].curr = curr
      BY <1>1, <2>1, ReplayedAlike, CommittedMemory
    <3> QED BY <2>1, <3>1 DEF VotersFound, CurrentBlock
  <2>2. CASE height \notin DOMAIN ledger
    BY <1>1, <2>2, NewBlock, NewVotersFound
  <2> QED BY <2>1, <2>2
<1>4. ~AccumulateRewardsPanics(curr, blockVersion, CurrentBlock.votes)
  BY <1>2, <1>3 DEF AccumulateRewardsPanics
<1>5. halt' # "reward"
  BY <1>4 DEF Commit, WriteBlock
<1>6. CASE UNCHANGED ledger
  BY <1>1, <1>5, <1>6 DEF VotersFound, RewardsFound
<1>7. CASE WriteBlock
  <2> DEFINE p == CommittedState
  <2>1. /\ DOMAIN ledger' = DOMAIN ledger \cup {height} /\ ledger'[height] = p
        /\ \A h \in DOMAIN ledger : h # height => ledger'[h] = ledger[h]
    BY <1>7, WriteEffect
  <2>2. p.curr = curr
    BY <1>1, CommittedMemory
  <2> HIDE DEF p
  <2> QED BY <1>1, <1>3, <1>5, <2>1, <2>2 DEF VotersFound, RewardsFound, CurrentBlock
<1> QED BY <1>6, <1>7, CommitCases

LEMMA VotersFoundNext ==
    ASSUME LongEpochs, Ignored = {}, TypeOK, Chain, Memory, Tracking, Seated, Successive,
           InOffice, Retained, Determined, VotersFound, [Next]_vars
    PROVE  VotersFound'
<1>1. CASE Start \/ InitChain \/ EndBlockStuck \/ BeginBlock \/ DeliverTx \/ EndBlock \/ Crash
           \/ UNCHANGED vars
  <2>1. UNCHANGED <<ledger, store>>
    BY <1>1 DEF Start, InitChain, EndBlockStuck, BeginBlock, DeliverTx, EndBlock, Crash,
                vars, tmVars
  <2>2. halt' # "reward"
    BY <1>1 DEF Start, InitChain, EndBlockStuck, BeginBlock, DeliverTx, EndBlock, TmVerdict,
                Crash, vars, VotersFound, RewardsFound
  <2> HIDE <1>1
  <2> QED BY <2>1, <2>2 DEF VotersFound, RewardsFound
<1>2. CASE Decide
  <2>1. UNCHANGED <<halt, ledger>> /\ \A h \in DOMAIN store : store'[h] = store[h]
    BY <1>2, DecideStep
  <2> HIDE <1>2
  <2> QED BY <2>1 DEF VotersFound, RewardsFound, Retained
<1>3. CASE SaveState
  <2>1. /\ UNCHANGED halt
        /\ DOMAIN ledger' = {g \in DOMAIN ledger : Recent(g)}
        /\ DOMAIN store' = {g \in DOMAIN store : Recent(g)}
        /\ \A h \in DOMAIN ledger' : ledger'[h] = ledger[h]
        /\ \A h \in DOMAIN store' : store'[h] = store[h]
    BY <1>3 DEF SaveState
  <2> HIDE <1>3
  <2> QED BY <2>1 DEF VotersFound, RewardsFound, Retained
<1> QED BY <1>1, <1>2, <1>3, VotersFoundCommit DEF Next

\* In epochs of three blocks or more, on a chain whose genesis validators all have a
\* slot, accumulateRewards finds the signer of every vote, also on every replay.
THEOREM RewardsAreFound ==
    ASSUME ForkSchedule, LongEpochs, Ignored = {}
    PROVE  Spec => []RewardsFound
<1>1. Init => VotersFound
  BY DEF Init, VotersFound, RewardsFound
<1>2. TypeOK /\ Coherent /\ Seated /\ Successive /\ InOffice /\ Replayable /\ VotersFound
        /\ [Next]_vars => VotersFound'
  BY VotersFoundNext DEF Coherent, Replayable
<1>3. VotersFound => RewardsFound
  BY DEF VotersFound
<1> QED BY <1>1, <1>2, <1>3, Coherence, SeatsAccounted, VotersStayKnown, ChainIsDetermined, PTL
       DEF Spec
=============================================================================
