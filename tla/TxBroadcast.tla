---------------------------- MODULE TxBroadcast ----------------------------
(***************************************************************************)
(* How transactions of this node's own RPC reach Tendermint: the Ethereum  *)
(* pool sends an event per transaction, txBroadcastLoop (ethereum/txs.go)  *)
(* checks it through Tendermint's mempool and answers the submitter, while *)
(* consensus locks the mempool, executes blocks and rechecks.              *)
(*                                                                         *)
(* Pool and mempool are forks outside this repository.  Two things about   *)
(* them cannot be seen from here and are inputs (Designs): whether the pool*)
(* keeps its lock while a submitter waits for the loop's answer, and       *)
(* whether the mempool keeps its lock while it calls back into the pool.   *)
(* Left out: SetFlowLimit, which paces submitters (they come at any time), *)
(* and checks that fall into the middle of a block (module CheckTx).       *)
(***************************************************************************)
EXTENDS Mempool, SequencesExt

CONSTANTS
    Txs,            \* transactions, each with its hash and its sender
    Journal,        \* a sequence: what the pool has read from its journal
    Designs,        \* a set of [waitLocked : BOOLEAN, callbackLocked : BOOLEAN]
    Capacity,       \* the capacity of the loop's channel
    MempoolSize,    \* --mempool_size
    MaxTickets      \* bound: submissions explored

ASSUME BroadcastAssumption ==
    /\ Designs \subseteq [waitLocked : BOOLEAN, callbackLocked : BOOLEAN]
    /\ Journal \in Seq(Txs) /\ IsInjective(Journal) /\ Len(Journal) <= Capacity
    /\ Capacity \in Nat \ {0} /\ MempoolSize \in Nat /\ MaxTickets \in Nat

VARIABLES
    design,
    \* the pool
    pool,           \* its transactions
    poolMu,         \* the submitter that holds its lock, if one does
    waiting,        \* submitters without an answer
    tickets,        \* events sent
    \* the backend
    loop,           \* where txBroadcastLoop is
    ch,             \* its channel
    obj,            \* the event it works on, if any
    currentTxInfo,  \* the field of this name; empty before the first event
    removers,       \* goroutines on their way into TxPool().RemoveTx(s)
    cachedTxInfo,   \* the hashes that have an entry
    txSub,          \* the other subscription of Backend
    stop,           \* how far Stop came
    \* Tendermint
    mempool,        \* in order
    rechecking,     \* what Update has yet to recheck
    locked,         \* consensus holds the mempool's lock
    failed,         \* the rechecks that failed in this Update
    used            \* transactions of past blocks

poolVars == <<pool, poolMu, waiting, tickets>>
loopVars == <<loop, ch, obj, currentTxInfo>>
tmVars == <<mempool, rechecking, locked, failed, used>>
vars == <<design, poolVars, loopVars, removers, cachedTxInfo, txSub, stop, tmVars>>

Event == [tx : Txs, ticket : Nat]
\* Backend's InsertCachedTxInfo and DeleteCachedTxInfo.
InsertCachedTxInfo(S) == cachedTxInfo' = cachedTxInfo \cup S
DeleteCachedTxInfo(S) == cachedTxInfo' = cachedTxInfo \ S

TxsOf(events) == {events[n].tx : n \in 1..Len(events)}
Running == stop = "no"

Init ==
    /\ design \in Designs
    /\ pool = ToSet(Journal) /\ poolMu = {} /\ waiting = {} /\ tickets = 0
    /\ loop = "waitForServer" /\ ch = <<>> /\ obj = <<>> /\ currentTxInfo = {}
    /\ removers = {} /\ cachedTxInfo = {}
    /\ txSub = "nil" /\ stop = "no"
    /\ mempool = <<>> /\ rechecking = <<>> /\ locked = FALSE /\ failed = {} /\ used = {}

-----------------------------------------------------------------------------
(***************************************************************************)
(* The pool and its submitters.                                            *)
(***************************************************************************)
\* A transaction that the pool does not have is added and its event is sent.
Submit(t) ==
    /\ Running /\ poolMu = {}
    /\ t \notin pool \cup used \cup waiting
    /\ tickets < Len(Journal) + MaxTickets /\ Len(ch) < Capacity
    /\ pool' = pool \cup {t}
    /\ tickets' = tickets + 1
    /\ ch' = Append(ch, [tx |-> t, ticket |-> tickets + 1])
    /\ waiting' = waiting \cup {t}
    /\ poolMu' = IF design.waitLocked THEN {t} ELSE {}
    /\ UNCHANGED <<design, loop, obj, currentTxInfo, removers, cachedTxInfo, txSub, stop, tmVars>>

\* RemoveTx and RemoveTxs, on a goroutine of their own.
RemoveTx(r) ==
    /\ Running /\ r \in removers /\ poolMu = {}
    /\ pool' = pool \ {r.tx}
    /\ removers' = removers \ {r}
    /\ UNCHANGED <<design, poolMu, waiting, tickets, loopVars, cachedTxInfo, txSub, stop, tmVars>>

\* The pool follows the chain.
PoolReset ==
    /\ Running /\ poolMu = {} /\ pool \cap used # {}
    /\ pool' = pool \ used
    /\ UNCHANGED <<design, poolMu, waiting, tickets, loopVars, removers, cachedTxInfo,
                   txSub, stop, tmVars>>

-----------------------------------------------------------------------------
(***************************************************************************)
(* txBroadcastLoop.                                                        *)
(***************************************************************************)
\* waitForServer returns once Tendermint's endpoint answers.
WaitForServer ==
    /\ Running /\ loop = "waitForServer"
    /\ loop' = "journal"
    /\ UNCHANGED <<design, poolVars, ch, obj, currentTxInfo, removers, cachedTxInfo,
                   txSub, stop, tmVars>>

\* HandleJournalTxs sends the journal's events, on the goroutine that reads them
\* later; nobody waits for their answers.
Journalled == {t \in ToSet(Journal) : t \in TxsOf(ch)}
HandleJournalTxs ==
    /\ Running /\ loop = "journal"
    /\ IF \E n \in 1..Len(Journal) : Journal[n] \notin TxsOf(ch)
       THEN LET t == Journal[Cardinality(Journalled) + 1] IN
            /\ Len(ch) < Capacity
            /\ ch' = Append(ch, [tx |-> t, ticket |-> tickets + 1])
            /\ tickets' = tickets + 1
            /\ UNCHANGED loop
       ELSE loop' = "range" /\ UNCHANGED <<ch, tickets>>
    /\ UNCHANGED <<design, pool, poolMu, waiting, obj, currentTxInfo, removers,
                   cachedTxInfo, txSub, stop, tmVars>>

\* Mutants: the newest event is taken; the info is left as it was.
ReceiveNewest ==
    /\ obj' = <<Last(ch)>> /\ ch' = Front(ch)
    /\ currentTxInfo' = {Last(ch).tx}
ReceiveOnly ==
    /\ obj' = <<Head(ch)>> /\ ch' = Tail(ch)
    /\ currentTxInfo' = IF currentTxInfo = {} THEN {Head(ch).tx} ELSE currentTxInfo

\* The next event, and what the local check will need of it.
Receive ==
    /\ obj' = <<Head(ch)>> /\ ch' = Tail(ch)
    /\ currentTxInfo' = {Head(ch).tx}

ReceiveEvent ==
    /\ Running /\ loop = "range" /\ ch # <<>>
    /\ Receive
    /\ loop' = "broadcast"
    /\ UNCHANGED <<design, poolVars, removers, cachedTxInfo, txSub, stop, tmVars>>

\* Mutant: neither what the mempool has nor its size is looked at.
AcceptBlind ==
    /\ currentTxInfo \cap used = {}
    /\ mempool' = Append(mempool, obj[1])
    /\ InsertCachedTxInfo(currentTxInfo)
    /\ loop' = "accepted"

\* The mempool takes the transaction if it does not have it, has room, and the
\* application accepts the one in currentTxInfo, which it remembers.
Accept ==
    /\ obj[1].tx \notin TxsOf(mempool) /\ Len(mempool) < MempoolSize
    /\ currentTxInfo \cap used = {}
    /\ mempool' = Append(mempool, obj[1])
    /\ InsertCachedTxInfo(currentTxInfo)
    /\ loop' = "accepted"

Refuse ==
    /\ loop' = "refused"
    /\ UNCHANGED <<mempool, cachedTxInfo>>

\* BroadcastTx, BroadcastTxSync and CheckTxLocal, which needs the mempool's lock.
BroadcastTx ==
    /\ Running /\ loop = "broadcast" /\ ~locked
    /\ Accept \/ Refuse
    /\ UNCHANGED <<design, poolVars, ch, obj, currentTxInfo, removers, txSub, stop,
                   rechecking, locked, failed, used>>

\* obj.Result <- : the submitter goes on and leaves the pool.
Answer ==
    /\ waiting' = waiting \ {obj[1].tx}
    /\ poolMu' = poolMu \ {obj[1].tx}

\* Mutants: RemoveTx on the loop's goroutine, before the answer; no RemoveTx.
RemoveInline ==
    /\ poolMu = {}
    /\ pool' = pool \ {obj[1].tx}
    /\ UNCHANGED removers
RemoveNever == UNCHANGED <<pool, removers>>

\* "start a goroutine to avoid deadlock"
SpawnRemoveTx ==
    /\ removers' = removers \cup {obj[1]}
    /\ UNCHANGED pool

EndBroadcast ==
    /\ Running /\ loop \in {"accepted", "refused"}
    /\ Answer
    /\ IF loop = "refused" THEN SpawnRemoveTx ELSE UNCHANGED <<pool, removers>>
    /\ loop' = "range" /\ obj' = <<>>
    /\ UNCHANGED <<design, tickets, ch, currentTxInfo, cachedTxInfo, txSub, stop, tmVars>>

-----------------------------------------------------------------------------
(***************************************************************************)
(* Tendermint: gossip and consensus.                                       *)
(***************************************************************************)
\* A transaction of a peer passes CheckTx.
CheckTxRemote(t) ==
    /\ Running /\ loop # "waitForServer" /\ ~locked
    /\ t \notin TxsOf(mempool) \cup used /\ Len(mempool) < MempoolSize
    /\ mempool' = Append(mempool, [tx |-> t, ticket |-> 0])
    /\ InsertCachedTxInfo({t})
    /\ UNCHANGED <<design, poolVars, loopVars, removers, txSub, stop,
                   rechecking, locked, failed, used>>

\* A block: consensus locks the mempool, and what the block has leaves it.
CommitBlock ==
    /\ Running /\ loop # "waitForServer" /\ ~locked
    /\ locked' = TRUE
    /\ \E block \in SUBSET (Txs \ used) :
        /\ used' = used \cup block
        /\ DeleteCachedTxInfo(block)
        /\ rechecking' \in Selection(mempool, {n \in 1..Len(mempool) : mempool[n].tx \notin block})
    /\ mempool' = <<>>
    /\ UNCHANGED <<design, poolVars, loopVars, removers, txSub, stop, failed>>

\* A recheck keeps the transaction, or drops it from mempool and cache.
Keep(e) == mempool' = Append(mempool, e) /\ UNCHANGED <<cachedTxInfo, failed>>
Drop(e) ==
    /\ DeleteCachedTxInfo({e.tx})
    /\ failed' = failed \cup {e}
    /\ UNCHANGED mempool

Recheck ==
    /\ Running /\ locked /\ rechecking # <<>>
    /\ Keep(Head(rechecking)) \/ Drop(Head(rechecking))
    /\ rechecking' = Tail(rechecking)
    /\ UNCHANGED <<design, poolVars, loopVars, removers, txSub, stop, locked, used>>

\* The end of Update: SetRecheckFailCallback's function is called for what failed.
RemoveFailedLocked ==
    /\ design.callbackLocked /\ failed # {}
    /\ poolMu = {}
    /\ pool' = pool \ {e.tx : e \in failed}
    /\ UNCHANGED removers

RemoveFailedLater ==
    /\ ~design.callbackLocked \/ failed = {}
    /\ removers' = removers \cup failed
    /\ UNCHANGED pool

EndUpdate ==
    /\ Running /\ locked /\ rechecking = <<>>
    /\ RemoveFailedLocked \/ RemoveFailedLater
    /\ locked' = FALSE /\ failed' = {}
    /\ UNCHANGED <<design, poolMu, waiting, tickets, loopVars, cachedTxInfo, txSub, stop,
                   mempool, rechecking, used>>

-----------------------------------------------------------------------------
\* Tendermint's node cannot be created: the command returns, which runs the
\* deferred backend.Stop().
NodeFails ==
    /\ Running /\ loop = "waitForServer"
    /\ stop' = "called"
    /\ UNCHANGED <<design, poolVars, loopVars, removers, cachedTxInfo, txSub, tmVars>>

\* Stop: Unsubscribe of a nil subscription panics, else go-ethereum is stopped.
Stop ==
    /\ stop = "called"
    /\ stop' = IF txSub = "nil" THEN "panic" ELSE "stopped"
    /\ UNCHANGED <<design, poolVars, loopVars, removers, cachedTxInfo, txSub, tmVars>>

Ended == stop \in {"panic", "stopped"} /\ UNCHANGED vars

Next ==
    \/ \E t \in Txs : Submit(t) \/ CheckTxRemote(t)
    \/ \E r \in removers : RemoveTx(r)
    \/ PoolReset
    \/ WaitForServer \/ HandleJournalTxs \/ ReceiveEvent \/ BroadcastTx \/ EndBroadcast
    \/ CommitBlock \/ Recheck \/ EndUpdate
    \/ NodeFails \/ Stop \/ Ended

Spec == Init /\ [][Next]_vars

\* Goroutines run; a goroutine that waits for a Go mutex gets it in the end, for a
\* waiter of more than a millisecond is served first.  Submitters, peers and blocks
\* are not promised.
FairSpec ==
    /\ Spec
    /\ WF_vars(WaitForServer \/ HandleJournalTxs \/ ReceiveEvent \/ EndBroadcast)
    /\ SF_vars(BroadcastTx)
    /\ WF_vars(Recheck) /\ SF_vars(EndUpdate)
    /\ \A t \in Txs : SF_vars(\E r \in removers : r.tx = t /\ RemoveTx(r))
    /\ WF_vars(Stop)

-----------------------------------------------------------------------------
TypeOK ==
    /\ design \in Designs
    /\ pool \in SUBSET Txs /\ poolMu \in SUBSET Txs /\ waiting \in SUBSET Txs
    /\ tickets \in Nat
    /\ loop \in {"waitForServer", "journal", "range", "broadcast", "accepted", "refused"}
    /\ ch \in Seq(Event) /\ obj \in Seq(Event) /\ currentTxInfo \in SUBSET Txs
    /\ removers \in SUBSET Event /\ cachedTxInfo \in SUBSET Txs
    /\ txSub = "nil" /\ stop \in {"no", "called", "panic", "stopped"}
    /\ mempool \in Seq(Event) /\ Len(mempool) <= MempoolSize /\ rechecking \in Seq(Event)
    /\ locked \in BOOLEAN /\ failed \in SUBSET Event /\ used \in SUBSET Txs

\* Every transaction in the mempool has its info cached, or the next recheck
\* panics: the local check, which knows only currentTxInfo, has to find the
\* transaction there that the mempool is checking.
MempoolCached == TxsOf(mempool) \cup TxsOf(rechecking) \subseteq cachedTxInfo

\* "the order is preserved": own transactions are in the mempool in the order in
\* which the pool sent them, also after peers' transactions, blocks and rechecks.
OrderPreserved ==
    \A m, n \in 1..Len(mempool) :
        m < n /\ mempool[m].ticket > 0 /\ mempool[n].ticket > 0
            => mempool[m].ticket < mempool[n].ticket

\* Nobody waits for ever: pool, loop and consensus never wait for each other in
\* a circle, as long as at most one of the two forks calls out with its lock held.
EveryoneAnswered == \A t \in Txs : t \in waiting ~> (t \notin waiting \/ ~Running)

\* A transaction whose broadcast was refused leaves the pool, so that it can be
\* sent again.
RefusedLeave ==
    \A t \in Txs : (loop = "refused" /\ obj[1].tx = t) ~> (t \notin pool)

-----------------------------------------------------------------------------
(***************************************************************************)
(* The inductive invariant behind MempoolCached and OrderPreserved.        *)
(***************************************************************************)
\* The lock is held while there is something to recheck, a transaction is in the
\* mempool once, and the local check knows the event that the loop works on.
Distinct(events) == \A m, n \in 1..Len(events) : events[m].tx = events[n].tx => m = n
OneEach ==
    /\ ~locked => rechecking = <<>>
    /\ Len(mempool) + Len(rechecking) <= MempoolSize
    /\ Distinct(mempool) /\ Distinct(rechecking)
    /\ TxsOf(mempool) \cap TxsOf(rechecking) = {}
    /\ loop \in {"broadcast", "accepted", "refused"} => Len(obj) = 1
    /\ loop = "broadcast" => currentTxInfo = {obj[1].tx}

\* One line of tickets: the mempool, what is rechecked, the loop's event, the channel.
Precedes(d, e) == d.ticket > 0 /\ e.ticket > 0 => d.ticket < e.ticket
AllPrecede(s, t) == \A m \in 1..Len(s), n \in 1..Len(t) : Precedes(s[m], t[n])
Ordered(s) == \A m, n \in 1..Len(s) : m < n => Precedes(s[m], s[n])
Issued(s) == \A n \in 1..Len(s) : s[n].ticket <= tickets
InLine ==
    /\ Ordered(mempool) /\ Ordered(rechecking) /\ Ordered(ch)
    /\ AllPrecede(mempool, rechecking)
    /\ AllPrecede(mempool, ch) /\ AllPrecede(rechecking, ch) /\ AllPrecede(obj, ch)
    /\ loop = "broadcast" => AllPrecede(mempool, obj) /\ AllPrecede(rechecking, obj)
    /\ Issued(mempool) /\ Issued(rechecking) /\ Issued(obj) /\ Issued(ch)
=============================================================================
