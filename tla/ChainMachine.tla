---------------------------- MODULE ChainMachine ----------------------------
(***************************************************************************)
(* What a dtfn node promises: a replicated state machine.  The state of a  *)
(* height is a function of the state before and of the decided block, is   *)
(* computed once and never changes; Tendermint's validators follow it.     *)
(* There is no memory, no flag that says what to write, no crash and no    *)
(* replay here: DtfnApp, which has them all, implements this machine.      *)
(***************************************************************************)
EXTENDS Strategy

CONSTANTS
    GenesisValidators,    \* the validators of Tendermint's genesis
    InitSlots,            \* what a genesis balance is worth
    HeaderVersion         \* Version.App in headers below the first fork

VARIABLES
    saved,     \* the height Tendermint has finished
    decided,   \* blocks by height
    states,    \* states by height
    office     \* the validators Tendermint has two heights ahead

machineVars == <<saved, decided, states, office>>

\* The rules and the administrator of a height, read off the fork schedule.
RulesAt(h) ==
    IF h > HeightArray[4] /\ IsEpochEnd(HeightArray[4]) THEN "constantinople" ELSE "genesis"
AdminAt(h) == AdminOf(BlockVersionAt(h - 1, 0))

\* One transaction on the table of the next epoch and the authorisations.
TxStep(x, tx, version, h) ==
    LET ok == \/ tx.kind = "bond" /\ CanInsert(x.next, tx.signer, tx.slots)
              \/ tx.kind = "unbond" /\ CanRemove(x.next, tx.signer)
              \/ tx.kind = "auth" /\ version >= 4 /\ tx.by = AdminAt(h)
              \/ tx.kind = "call" /\ RulesAt(h) = "genesis"
    IN  [next |-> IF ok /\ tx.kind = "bond" THEN InsertPosItem(x.next, tx.signer, tx.slots)
                  ELSE IF ok /\ tx.kind = "unbond"
                  THEN RemovePosItem(x.next, tx.signer, h, FALSE)
                  ELSE x.next,
         auth |-> IF ~ok \/ tx.kind # "auth" THEN x.auth
                  ELSE IF tx.signer \in x.auth THEN x.auth \ {tx.signer}
                  ELSE x.auth \cup {tx.signer},
         results |-> Append(x.results, ok)]

\* The tables after the evidence of block b and after each of its transactions.
TxSteps(s, b, h) ==
    LET version == BlockVersionAt(h, HeaderVersion)
        after[i \in 0..Len(b.txs)] ==
            IF i = 0
            THEN [next |-> SlashAll(s.next, b.evidence \cap Bonded(s.next), h),
                  auth |-> s.auth, results |-> <<>>]
            ELSE TxStep(after[i - 1], b.txs[i], version, h)
    IN  after

\* The state after block b at height h: evidence, transactions, epoch end, selection.
Apply(s, b, h) ==
    LET version == BlockVersionAt(h, HeaderVersion)
        end == TxSteps(s, b, h)[Len(b.txs)]
        curr == IF IsEpochEnd(h) THEN end.next ELSE s.curr
    IN  [height |-> h,
         validators |-> GetUpdatedValidators(curr, version, b.seed, h),
         curr |-> curr,
         next |-> IF IsEpochEnd(h) THEN TryRemoveUnbondPosItems(end.next, h) ELSE end.next,
         auth |-> end.auth,
         version |-> version,
         coinbase |-> Receiver(s.curr, version, b.proposer),
         fined |-> b.evidence \cap Known(s.next),
         paid |-> IF version >= 4 THEN {} ELSE b.votes,
         results |-> end.results]

\* The state before the first block: every genesis validator with a slot is bonded.
GenesisTable ==
    [CreatePosTable EXCEPT !.slots =
        [s \in Signers |-> IF s \in GenesisValidators THEN InitSlots[s] ELSE 0]]
Genesis ==
    [height |-> 0, validators |-> Bonded(GenesisTable), curr |-> GenesisTable,
     next |-> GenesisTable, auth |-> {}]
Before(h) == IF h = 1 THEN Genesis ELSE states[h - 1]

-----------------------------------------------------------------------------
\* g is f, except that heights may be missing: old ones are forgotten.
Keeps(f, g) == DOMAIN g \subseteq DOMAIN f /\ \A h \in DOMAIN g : g[h] = f[h]

Init == saved = 0 /\ decided = <<>> /\ states = <<>> /\ office = GenesisValidators

Decide ==
    /\ (saved + 1) \notin DOMAIN decided
    /\ DOMAIN decided' = DOMAIN decided \cup {saved + 1}
    /\ Keeps(decided', decided)
    /\ UNCHANGED <<saved, states, office>>

Execute ==
    LET h == saved + 1 IN
    /\ h \in DOMAIN decided /\ h \notin DOMAIN states
    /\ DOMAIN states' = DOMAIN states \cup {h}
    /\ Keeps(states', states)
    /\ states'[h] = Apply(Before(h), decided[h], h)
    /\ UNCHANGED <<saved, decided, office>>

\* Tendermint adopts the validators of the new state; whom the application has
\* never counted among its validators stays.
Save ==
    LET h == saved + 1 IN
    /\ h \in DOMAIN states
    /\ saved' = h
    /\ office' = states[h].validators \cup (office \ Before(h).validators)
    /\ Keeps(decided, decided') /\ Keeps(states, states') /\ h \in DOMAIN states'

Next == Decide \/ Execute \/ Save

Spec == Init /\ [][Next]_machineVars
=============================================================================
