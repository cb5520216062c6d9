------------------------------ MODULE Rollback ------------------------------
(***************************************************************************)
(* Start-up with --rollback_flag (cmd/dtfn/dtfn.go).  The command builds   *)
(* the application on the Ethereum chain, cuts the chain with SetHead,     *)
(* loads the strategy from the work state and starts a Tendermint node,    *)
(* which cuts its own store to the same height and replays what the chain  *)
(* lacks.  Two databases, cut one after the other by a process that may    *)
(* die in between and be started again with or without the flag.           *)
(*                                                                         *)
(* A block is its payload; a chain, a state and a hash are the sequence of *)
(* payloads that lead to them.                                             *)
(***************************************************************************)
EXTENDS Integers, Sequences, SequencesExt

CONSTANTS
    Payloads,     \* what a block may contain
    MaxHeight,    \* bound: heights explored
    MaxLost       \* bound: blocks of the chain that one crash loses

ASSUME RollbackAssumption == Payloads # {} /\ MaxHeight \in Nat /\ MaxLost \in Nat

NoRollback == -1      \* --rollback_flag is not given
EmptyHash == <<>>     \* the data of an empty ResponseCommit

VARIABLES
    pc,         \* how far the process is
    halt,       \* why it stopped, "none" if it did not
    flag,       \* rollback height, or NoRollback
    chain,      \* the Ethereum chain up to CurrentBlock
    work,       \* es.work: its parent, and the blocks executed on it since
    strategy,   \* the history that the strategy in memory has seen
    next,       \* the height that Tendermint executes next
    store,      \* Tendermint's blocks
    hashes,     \* the app hash Tendermint has saved for each height
    response    \* the hash Commit has just returned

vars == <<pc, halt, flag, chain, work, strategy, next, store, hashes, response>>

Pcs == {"down", "built", "cut", "loaded", "handshake", "idle", "executed", "committed", "halted"}

\* Tendermint's handshake finds the application ahead of its store, or hashes that
\* differ; InitChain finds no account map.
Halts == {"none", "ahead", "appHash", "initChain"}

Cut(s, r) == IF r = NoRollback \/ r >= Len(s) THEN s ELSE SubSeq(s, 1, r)

Init ==
    /\ pc = "down" /\ halt = "none" /\ flag = NoRollback
    /\ chain = <<>> /\ work = [parent |-> <<>>, done |-> <<>>] /\ strategy = <<>>
    /\ next = 1 /\ store = <<>> /\ hashes = <<>> /\ response = EmptyHash

-----------------------------------------------------------------------------
(***************************************************************************)
(* The command, up to the start of the Tendermint node.                    *)
(***************************************************************************)
\* NewEthermintApplication with InitEthState: the work state of the chain's head.
NewEthermintApplication ==
    /\ pc = "down" /\ pc' = "built"
    /\ flag' \in {NoRollback} \cup 0..MaxHeight
    /\ work' = [parent |-> chain, done |-> <<>>]
    /\ strategy' = <<>>
    /\ UNCHANGED <<halt, chain, next, store, hashes, response>>

\* Mutant: the Ethereum chain is left to a later step.
RollbackLater ==
    /\ pc = "built" /\ pc' = "cut"
    /\ UNCHANGED <<halt, flag, chain, work, strategy, next, store, hashes, response>>

WhetherRollbackEthApp ==
    /\ pc = "built" /\ pc' = "cut"
    /\ chain' = Cut(chain, flag)
    /\ UNCHANGED <<halt, flag, work, strategy, next, store, hashes, response>>

\* Mutant: the work state is built again, but after the strategy was read.
LoadThenReset ==
    /\ pc = "cut" /\ pc' = "loaded"
    /\ strategy' = work.parent
    /\ work' = [parent |-> chain, done |-> <<>>]
    /\ UNCHANGED <<halt, flag, chain, next, store, hashes, response>>

\* The strategy is read from es.State(), which is still that of the work state.
InitPersistData ==
    /\ pc = "cut" /\ pc' = "loaded"
    /\ strategy' = work.parent
    /\ UNCHANGED <<halt, flag, chain, work, next, store, hashes, response>>

\* The Tendermint node, which got the same flag and height, cuts its store.
TmRollback ==
    /\ pc = "loaded" /\ pc' = "handshake"
    /\ store' = Cut(store, flag) /\ hashes' = Cut(hashes, flag)
    /\ UNCHANGED <<halt, flag, chain, work, strategy, next, response>>

\* Tendermint asks Info for height and hash.  At height 0 it calls InitChain, which
\* needs the account map that the command sets only if nothing was loaded.  A
\* block that was committed before a crash but not saved is saved now.
Handshake ==
    LET InfoHeight == Len(chain)
        Saved == IF InfoHeight = Len(hashes) + 1 THEN Append(hashes, chain) ELSE hashes
        Stop(why) == pc' = "halted" /\ halt' = why /\ UNCHANGED <<next, hashes>>
    IN
    /\ pc = "handshake"
    /\ IF InfoHeight = 0 /\ strategy # <<>> THEN Stop("initChain")
       ELSE IF InfoHeight > Len(store) THEN Stop("ahead")
       ELSE IF InfoHeight > 0 /\ Saved[InfoHeight] # chain THEN Stop("appHash")
       ELSE /\ pc' = "idle" /\ next' = InfoHeight + 1 /\ hashes' = Saved
            /\ UNCHANGED halt
    /\ UNCHANGED <<flag, chain, work, strategy, store, response>>

-----------------------------------------------------------------------------
(***************************************************************************)
(* The block cycle, in the replay and afterwards.                          *)
(***************************************************************************)
Decide ==
    /\ pc = "idle" /\ next = Len(store) + 1 /\ next <= MaxHeight
    /\ \E p \in Payloads : store' = Append(store, p)
    /\ UNCHANGED <<pc, halt, flag, chain, work, strategy, next, hashes, response>>

\* BeginBlock to EndBlock: the block acts on the work state and on the strategy.
ExecuteBlock ==
    /\ pc = "idle" /\ next <= Len(store)
    /\ pc' = "executed"
    /\ work' = [work EXCEPT !.done = Append(@, store[next])]
    /\ strategy' = Append(strategy, store[next])
    /\ UNCHANGED <<halt, flag, chain, next, store, hashes, response>>

\* Mutant: the block is written whether or not its parent is there.
WriteAnyBlock ==
    /\ chain' = work.parent \o work.done
    /\ response' = chain'
    /\ work' = [parent |-> chain', done |-> <<>>]

\* WriteBlockWithState refuses a block whose parent SetHead has deleted; Commit
\* then returns an empty response, and the work state is not built again.
WriteBlockWithState ==
    IF work.parent = chain
    THEN /\ chain' = work.parent \o work.done
         /\ response' = chain'
         /\ work' = [parent |-> chain', done |-> <<>>]
    ELSE /\ response' = EmptyHash
         /\ UNCHANGED <<chain, work>>

Commit ==
    /\ pc = "executed"
    /\ WriteBlockWithState
    /\ pc' = "committed"
    /\ UNCHANGED <<halt, flag, strategy, next, store, hashes>>

\* Tendermint saves the hash of a new block, and compares that of a replayed one.
SaveState ==
    /\ pc = "committed"
    /\ IF next <= Len(hashes) /\ hashes[next] # response
       THEN pc' = "halted" /\ halt' = "appHash" /\ UNCHANGED <<next, hashes>>
       ELSE /\ pc' = "idle" /\ next' = next + 1
            /\ hashes' = IF next <= Len(hashes) THEN hashes ELSE Append(hashes, response)
            /\ UNCHANGED halt
    /\ UNCHANGED <<flag, chain, work, strategy, store, response>>

\* Validators that were not rolled back have another hash in the next block.
Refused ==
    /\ pc = "idle" /\ next = Len(store) + 1
    /\ hashes # <<>> /\ Last(hashes) = EmptyHash
    /\ pc' = "halted" /\ halt' = "appHash"
    /\ UNCHANGED <<flag, chain, work, strategy, next, store, hashes, response>>

\* The process dies at any point, or is started again after it stopped.
Crash ==
    /\ pc # "down" /\ pc' = "down" /\ halt' = "none"
    /\ \E lost \in 0..MaxLost : lost <= Len(chain) /\ chain' = Cut(chain, Len(chain) - lost)
    /\ UNCHANGED <<flag, work, strategy, next, store, hashes, response>>

Next ==
    \/ NewEthermintApplication \/ WhetherRollbackEthApp \/ InitPersistData \/ TmRollback
    \/ Handshake \/ Decide \/ ExecuteBlock \/ Commit \/ SaveState \/ Refused
    \/ Crash

Spec == Init /\ [][Next]_vars

-----------------------------------------------------------------------------
Histories == UNION {[1..n -> Payloads] : n \in 0..MaxHeight}

TypeOK ==
    /\ pc \in Pcs /\ halt \in Halts /\ flag \in {NoRollback} \cup 0..MaxHeight
    /\ chain \in Histories /\ store \in Histories /\ response \in Histories
    /\ work.parent \in Histories /\ Len(work.done) <= MaxHeight
    /\ next \in 1..(MaxHeight + 1)
    /\ Len(hashes) <= MaxHeight /\ \A h \in 1..Len(hashes) : hashes[h] \in Histories

\* The chain is cut before Tendermint's store, as the comment on
\* whetherRollbackEthApp asks: wherever the process dies between the two, and
\* however it is started again, Tendermint never meets an application that is
\* ahead of its blocks, which it could not repair by a replay.
AppNotAhead == halt # "ahead" /\ Len(chain) <= Len(store)

\* Whatever is rolled back, lost and replayed, the chain is the outcome of
\* Tendermint's own blocks: a work state left over from before the rollback never
\* gets a block of a deleted branch into the chain, nor its hash into Tendermint.
ChainOfStore ==
    /\ IsPrefix(chain, store)
    /\ \A h \in 1..Len(hashes) : hashes[h] \in {EmptyHash, SubSeq(store, 1, h)}

\* A node whose commits can succeed has the strategy of the chain it extends:
\* the validators and tables that it persists belong to the same history.
StrategyOfChain ==
    pc \in {"loaded", "handshake", "idle", "executed"} /\ work.parent = chain =>
        strategy = chain \o work.done

\* A rollback "delete[s] history block and rollback[s] state": what the started
\* application works on is the chain that is left.
StateRolledBack ==
    pc = "loaded" => work.parent = chain /\ strategy = chain

-----------------------------------------------------------------------------
(***************************************************************************)
(* The inductive invariant behind AppNotAhead, ChainOfStore and            *)
(* StrategyOfChain.                                                        *)
(***************************************************************************)
\* How far chain, hashes and store are apart; once the chain is cut it is not
\* longer than the height to which the store will be cut.
Distances ==
    /\ hashes \in Seq(Histories)
    /\ Len(chain) <= Len(hashes) + 1 /\ Len(hashes) <= Len(store)
    /\ pc \in {"cut", "loaded", "handshake"} /\ flag # NoRollback => Len(chain) <= flag
    /\ pc \in {"idle", "executed", "committed"} => next <= Len(hashes) + 1
    /\ pc \in {"executed", "committed"} => next <= Len(store)

\* A work state whose parent is the head of the chain holds the block that is next;
\* one whose parent was cut off never finds it there again.
WorkOfChain ==
    /\ work \in [parent : Histories, done : Seq(Payloads)] /\ strategy \in Seq(Payloads)
    /\ pc \in {"built", "cut", "loaded", "handshake"} => work.done = <<>>
    /\ pc \in {"loaded", "handshake"} => strategy = work.parent
    /\ pc = "idle" => Len(work.done) < next
    /\ pc \in {"executed", "committed"} => Len(work.done) <= next
    /\ pc = "idle" /\ work.parent = chain =>
          work.done = <<>> /\ next = Len(chain) + 1 /\ strategy = chain
    /\ pc = "executed" /\ work.parent = chain =>
          /\ work.done = <<store[next]>> /\ next = Len(chain) + 1
          /\ strategy = Append(chain, store[next])
    /\ pc = "committed" =>
          IF work.parent = chain
          THEN work.done = <<>> /\ next = Len(chain) /\ strategy = chain /\ response = chain
          ELSE response = EmptyHash
=============================================================================
