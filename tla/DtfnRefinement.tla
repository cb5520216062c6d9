--------------------------- MODULE DtfnRefinement ---------------------------
(***************************************************************************)
(* DtfnApp implements ChainMachine: the chain on disk is the machine's     *)
(* states, Tendermint's store its decided blocks.  Memory, work state,     *)
(* flags and the chain's head are hidden; a crash, a restart and the       *)
(* replay of a block are stuttering steps.                                 *)
(***************************************************************************)
EXTENDS DtfnApp

Machine == INSTANCE ChainMachine
           WITH saved <- tmHeight, decided <- store, states <- ledger, office <- tm.next

\* Every block a node executes, fresh or restarted at any point, leads to the
\* state that the block and the state before determine, written once; and
\* Tendermint's validators are those of that state.  SetPersistenceData's
\* conditional writes, the globals InitPersistData sets again and the replay
\* from Info's height are invisible.
ImplementsMachine == Machine!Spec

-----------------------------------------------------------------------------
(***************************************************************************)
(* The schedules under which this holds in general, and the inductive      *)
(* invariant behind it.                                                    *)
(***************************************************************************)
\* version.yaml's schedule: versions above 4 from HeightArray[3] on (counted from
\* 0), an epoch end as version/README.md asks; authorisations start after the
\* epoch end that sets the administrator; and no contract call is in a block that
\* could be replayed after the rules have changed.
ForkSchedule ==
    /\ \A i, j \in 1..Len(HeightArray) : i < j => HeightArray[i] <= HeightArray[j]
    /\ \A i \in 1..Len(VersionArray) : VersionArray[i] <= 4 <=> i <= 3
    /\ HeightArray[3] < HeightArray[4] /\ IsEpochEnd(HeightArray[4])
    /\ \/ IsEpochEnd(HeightArray[3]) /\ 0 < HeightArray[3] /\ HeightArray[3] < AuthFrom
       \/ HeightArray[4] < AuthFrom
    /\ \A h \in CallHeights : h > HeightArray[4] \/ h + MaxLag < HeightArray[4]

\* Chain and store keep every height that a crash can lead back to.
Retained ==
    /\ head + MaxLag >= tmHeight
    /\ \A h \in 1..tmHeight : h + MaxLag >= tmHeight => h \in DOMAIN ledger
    /\ \A h \in DOMAIN ledger : h <= tmHeight + 1 /\ h \in DOMAIN store
    /\ \A h \in DOMAIN store : \A n \in 1..Len(store[h].txs) : TxAllowed(store[h].txs[n], h)
    /\ ledger = [h \in DOMAIN ledger |-> ledger[h]]

\* The two things a handler reads that are not in the state are what the fork
\* schedule says, wherever they matter.
AdminFits(h) ==
    /\ h >= HeightArray[4] => admin = "private"
    /\ IsEpochEnd(HeightArray[3]) /\ 0 < HeightArray[3] /\ HeightArray[3] <= h /\ h < HeightArray[4]
          => admin = "public"
Globals ==
    /\ phase \in {"idle", "block"} => AdminFits(head)
    /\ phase = "ended" => AdminFits(height)
    /\ head >= HeightArray[4] => rules = "constantinople"
    /\ phase = "ended" /\ height >= HeightArray[4] => rules = "constantinople"
    /\ rules = "constantinople" => tmHeight + 1 >= HeightArray[4]

\* The response that Tendermint has saved is the difference between two states.
Difference(vals) == resp.add = vals /\ resp.del = StateOf(tmHeight).validators \ vals
Answered ==
    /\ phase = "ended" /\ height = tmHeight + 1 => Difference(validators)
    /\ head = tmHeight + 1 => Difference(StateOf(head).validators)

\* The state of a height is Apply of the state before; in the middle of a block,
\* memory and work state are where the machine is after as many transactions.
Determined ==
    /\ \A h \in DOMAIN ledger :
          (h - 1) \in DOMAIN ledger \cup {0} =>
              ledger[h] = Machine!Apply(Machine!Before(h), store[h], h)
    /\ phase = "block" =>
          LET before == Machine!Before(height)
              n == Len(work.results)
              after == Machine!TxSteps(before, CurrentBlock, height)[n]
              version == BlockVersionAt(height, HeaderVersion)
          IN  /\ n <= Len(CurrentBlock.txs)
              /\ next = after.next /\ auth = after.auth /\ work.results = after.results
              /\ blockVersion = version /\ work.version = version
              /\ work.coinbase = Receiver(before.curr, version, CurrentBlock.proposer)
              /\ work.fined = CurrentBlock.evidence \cap Known(before.next)
    /\ phase = "ended" =>
          LET after == Machine!Apply(Machine!Before(height), CurrentBlock, height)
          IN  /\ validators = after.validators
              /\ curr = after.curr /\ next = after.next /\ auth = after.auth
              /\ blockVersion = after.version /\ work.version = after.version
              /\ work.coinbase = after.coinbase /\ work.fined = after.fined
              /\ work.results = after.results
    /\ halt # "appHash"

\* Every block on the chain that paid rewards found all its voters in the table of
\* its epoch, so that it finds them again when it is replayed.
VotersFound ==
    /\ \A h \in DOMAIN ledger :
          BlockVersionAt(h, HeaderVersion) < 4 => store[h].votes \subseteq Known(ledger[h].curr)
    /\ RewardsFound
=============================================================================
