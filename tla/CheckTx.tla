------------------------------ MODULE CheckTx ------------------------------
(***************************************************************************)
(* The transaction path of one node: CheckTx / validateTx on the check     *)
(* state (app/app.go), the cache of recovered senders (ethereum/backend.go)*)
(* and Tendermint's mempool, against the blocks that DeliverTx executes.   *)
(*                                                                         *)
(* CheckTx calls interleave with BeginBlock .. EndBlock.  Tendermint holds *)
(* the mempool lock from Commit until every remaining transaction has been *)
(* rechecked, so no first check falls in between.                          *)
(*                                                                         *)
(* A transaction is a record with its sender, nonce, cost, value, the      *)
(* account that pays (the relayer for a relayed one) and a kind.  Gas is   *)
(* one unit per transaction.  Signature and size checks and the filters of *)
(* txfilter are a free choice to refuse.                                   *)
(***************************************************************************)
EXTENDS Mempool, Sums

CONSTANTS
    Accounts,
    Contracts,      \* the special addresses auth, mint and relay transactions go to
    Txs,            \* the transactions that may be sent
    InitBalance,    \* balance of each account at genesis
    BlockGas        \* transactions that fit into a block

Kinds == {"transfer", "create", "auth", "mint", "relay"}
Tx == [kind : Kinds, from : Accounts, payer : Accounts, to : Accounts,
       nonce : Nat, cost : Nat, value : Nat]

ASSUME CheckTxAssumption ==
    /\ Txs \subseteq Tx /\ IsFiniteSet(Accounts) /\ Contracts \subseteq Accounts
    /\ \A tx \in Txs : /\ tx.value <= tx.cost /\ {tx.from, tx.payer} \cap Contracts = {}
                       /\ tx.kind # "relay" => tx.payer = tx.from
                       /\ tx.kind # "transfer" => tx.to \in Contracts
    /\ InitBalance \in [Accounts -> Nat] /\ BlockGas \in Nat

VARIABLES
    phase,       \* "idle", "deliver", "recheck", or "panic"
    committed,   \* the state of the last committed block
    work,        \* es.work.state, the state of the block being executed
    gasLeft,     \* es.work.gp
    check,       \* checkTxState
    cached,      \* cachedTxInfo: transactions whose sender is cached
    mempool,     \* Tendermint's mempool, in order
    block,       \* the transactions of the current block
    delivered,   \* how many of them DeliverTx has seen
    rechecking   \* the transactions still to be rechecked

vars == <<phase, committed, work, gasLeft, check, cached, mempool, block, delivered,
          rechecking>>

State == [nonce : [Accounts -> Nat], balance : [Accounts -> Int]]
Elements(seq) == {seq[n] : n \in 1..Len(seq)}

Genesis == [nonce |-> [a \in Accounts |-> 0], balance |-> InitBalance]

Init ==
    /\ phase = "idle"
    /\ committed = Genesis /\ work = Genesis /\ check = Genesis
    /\ gasLeft = BlockGas
    /\ cached = {} /\ mempool = <<>>
    /\ block = <<>> /\ delivered = 0 /\ rechecking = <<>>

-----------------------------------------------------------------------------
(***************************************************************************)
(* validateTx: the conditions, and the update of the check state.          *)
(***************************************************************************)
\* Mutant: a nonce from the future is accepted.
ValidAhead(tx, st) ==
    /\ gasLeft >= 1
    /\ st.nonce[tx.from] <= tx.nonce
    /\ st.balance[tx.payer] >= tx.cost

Valid(tx, st) ==
    /\ gasLeft >= 1
    /\ st.nonce[tx.from] = tx.nonce
    /\ st.balance[tx.payer] >= tx.cost

\* Mutant: a mint is not debited either.
DebitNoMint(tx) == IF tx.kind \in {"transfer", "mint"} THEN 0 ELSE tx.cost

\* A plain transfer is not debited; the receiver is credited except by a
\* contract creation and a mint.
Debit(tx) == IF tx.kind = "transfer" THEN 0 ELSE tx.cost
Credit(tx) == IF tx.kind \in {"create", "mint"} THEN 0 ELSE tx.value

\* Mutant: the nonce goes down.
CheckedDown(tx, st) ==
    [nonce |-> [st.nonce EXCEPT ![tx.from] = tx.nonce - 1], balance |-> st.balance]

Checked(tx, st) ==
    [nonce |-> [st.nonce EXCEPT ![tx.from] = tx.nonce + 1],
     balance |-> [a \in Accounts |->
                    st.balance[a] - (IF a = tx.payer THEN Debit(tx) ELSE 0)
                                  + (IF a = tx.to THEN Credit(tx) ELSE 0)]]

\* The first check of a transaction, sent by a peer or by this node's own pool.
CheckTxNew(tx) ==
    /\ phase \in {"idle", "deliver"}
    /\ Valid(tx, check)
    /\ check' = Checked(tx, check)
    /\ cached' = cached \cup {tx}
    /\ mempool' = Append(mempool, tx)
    /\ UNCHANGED <<phase, committed, work, gasLeft, block, delivered, rechecking>>

-----------------------------------------------------------------------------
\* A block of any proposer: any transactions, none twice.
BeginBlock ==
    /\ phase = "idle"
    /\ \E n \in 0..BlockGas : \E b \in [1..n -> Txs] :
          /\ \A j, k \in 1..n : b[j] = b[k] => j = k
          /\ block' = b
    /\ phase' = "deliver" /\ delivered' = 0
    /\ UNCHANGED <<committed, work, gasLeft, check, cached, mempool, rechecking>>

\* DeliverTx forgets the cached sender and runs the transaction, which fails
\* on a wrong nonce or too little balance.
Executable(tx, st) == st.nonce[tx.from] = tx.nonce /\ st.balance[tx.payer] >= tx.cost

Executed(tx, st) ==
    [nonce |-> [st.nonce EXCEPT ![tx.from] = @ + 1],
     balance |-> [a \in Accounts |->
                    st.balance[a] - (IF a = tx.payer THEN tx.cost ELSE 0)
                                  + (IF a = tx.to THEN Credit(tx) ELSE 0)]]

DeliverTx ==
    /\ phase = "deliver" /\ delivered < Len(block)
    /\ LET tx == block[delivered + 1] IN
        /\ cached' = cached \ {tx}
        /\ IF Executable(tx, work)
           THEN work' = Executed(tx, work) /\ gasLeft' = gasLeft - 1
           ELSE UNCHANGED <<work, gasLeft>>
    /\ delivered' = delivered + 1
    /\ UNCHANGED <<phase, committed, check, mempool, block, rechecking>>

\* Commit: the check state starts again from the executed state, the gas pool is
\* filled, and Tendermint drops the block's transactions from the mempool.
Commit ==
    /\ phase = "deliver" /\ delivered = Len(block)
    /\ phase' = "recheck"
    /\ check' = work /\ committed' = work
    /\ gasLeft' = BlockGas
    /\ rechecking' \in Selection(mempool, {n \in 1..Len(mempool) : mempool[n] \notin Elements(block)})
    /\ mempool' = <<>>
    /\ UNCHANGED <<work, cached, block, delivered>>

\* Mutant: a recheck forgets the sender whatever its outcome.
KeepUncached(tx) ==
    /\ Valid(tx, check)
    /\ check' = Checked(tx, check)
    /\ mempool' = Append(mempool, tx)
    /\ cached' = cached \ {tx}

\* CheckTxType_Recheck of the next transaction: it stays in the mempool, or it
\* leaves mempool and cache, because it became invalid or a filter refuses it.
Keep(tx) ==
    /\ Valid(tx, check)
    /\ check' = Checked(tx, check)
    /\ mempool' = Append(mempool, tx)
    /\ UNCHANGED cached

Drop(tx) ==
    /\ cached' = cached \ {tx}
    /\ UNCHANGED <<check, mempool>>

\* Without a cached sender: panic("The from address of tx should stay in cached").
Recheck ==
    /\ phase = "recheck" /\ rechecking # <<>>
    /\ LET tx == Head(rechecking) IN
        IF tx \in cached
        THEN (Keep(tx) \/ Drop(tx)) /\ UNCHANGED phase
        ELSE phase' = "panic" /\ UNCHANGED <<check, cached, mempool>>
    /\ rechecking' = Tail(rechecking)
    /\ UNCHANGED <<committed, work, gasLeft, block, delivered>>

RecheckDone ==
    /\ phase = "recheck" /\ rechecking = <<>>
    /\ phase' = "idle" /\ block' = <<>> /\ delivered' = 0
    /\ UNCHANGED <<committed, work, gasLeft, check, cached, mempool, rechecking>>

Next ==
    \/ \E tx \in Txs : CheckTxNew(tx)
    \/ BeginBlock \/ DeliverTx \/ Commit
    \/ Recheck \/ RecheckDone

Spec == Init /\ [][Next]_vars

-----------------------------------------------------------------------------
TypeOK ==
    /\ phase \in {"idle", "deliver", "recheck", "panic"}
    /\ committed \in State /\ work \in State /\ check \in State
    /\ gasLeft \in Int /\ delivered \in Nat
    /\ cached \in SUBSET Txs
    /\ mempool \in Seq(Txs) /\ block \in Seq(Txs) /\ rechecking \in Seq(Txs)

\* A recheck always finds the sender it needs: DeliverTx and failed rechecks
\* take senders out of the cache, yet only of transactions that leave the
\* mempool, also when CheckTx calls fall into the middle of a block.
SenderStaysCached == phase # "panic"

\* The mempool can be executed: the transactions of a sender have, in order,
\* the nonces that follow its committed one.
Before(n, a) == {m \in 1..(n - 1) : mempool[m].from = a}
MempoolRunnable ==
    phase # "panic" =>
        \A n \in 1..Len(mempool) :
            mempool[n].nonce = committed.nonce[mempool[n].from]
                                 + Cardinality(Before(n, mempool[n].from))

\* "Transactor should have enough funds to cover the costs": every transaction of
\* the mempool is covered by what its payer has after those before it.  They are
\* charged as validateTx charges them, so an earlier plain transfer takes nothing.
Debts(a) ==
    [n \in 1..Len(mempool) |->
        IF mempool[n].payer = a /\ mempool[n].kind # "transfer" THEN mempool[n].cost ELSE 0]
Gains(a) == [n \in 1..Len(mempool) |-> IF mempool[n].to = a THEN Credit(mempool[n]) ELSE 0]
FundsCovered ==
    \A n \in 1..Len(mempool) :
        LET payer == mempool[n].payer IN
        mempool[n].cost + SumOver(Debts(payer), 1..(n - 1))
            <= committed.balance[payer] + SumOver(Gains(payer), 1..(n - 1))

-----------------------------------------------------------------------------
(***************************************************************************)
(* The inductive invariant behind SenderStaysCached and MempoolRunnable.   *)
(***************************************************************************)
\* The check state is ahead of the committed one by what the mempool has.
Pending(a) == {n \in 1..Len(mempool) : mempool[n].from = a}
NoncesCounted ==
    /\ \A a \in Accounts : check.nonce[a] = committed.nonce[a] + Cardinality(Pending(a))
    /\ \A n \in 1..Len(mempool) : mempool[n].nonce < check.nonce[mempool[n].from]

\* No transaction is twice in the mempool and in what is being rechecked.
Distinct(seq) == \A m, n \in 1..Len(seq) : seq[m] = seq[n] => m = n
NoneTwice ==
    /\ Distinct(mempool) /\ Distinct(rechecking)
    /\ Elements(mempool) \cap Elements(rechecking) = {}

\* What is not cached any more, the current block has delivered.
Known ==
    /\ delivered <= Len(block)
    /\ phase # "recheck" => rechecking = <<>>
    /\ Elements(mempool) \cup Elements(rechecking)
          \subseteq cached \cup (IF phase = "deliver" THEN {block[n] : n \in 1..delivered} ELSE {})

\* Behind FundsCovered: the check state has paid and received what the mempool
\* says, and no balance was ever overdrawn for it.
Owed(a) == Sum(Debts(a))
Due(a) == Sum(Gains(a))
Solvent ==
    \A a \in Accounts :
        /\ committed.balance[a] >= 0 /\ work.balance[a] >= 0 /\ check.balance[a] >= 0
        /\ check.balance[a] + Owed(a) = committed.balance[a] + Due(a)
=============================================================================
